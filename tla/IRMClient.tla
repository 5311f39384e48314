----------------------------- MODULE IRMClient -----------------------------
(***************************************************************************)
(* Isochronous reservations.  A stream owner (DuplexIRMReservations, on a   *)
(* thread that waits for every answer) asks the IRM client for a channel    *)
(* and for bandwidth; the client turns that into reads and compare-swaps of *)
(* two registers at the isochronous resource manager (IRM), which other     *)
(* initiators change at the same time, whose answers can be lost and whose  *)
(* registers a bus reset puts back to their initial values.                 *)
(*                                                                          *)
(* The remote IRM is modelled; the local one, which the client reaches      *)
(* through the CSR registers of the controller, is not.  The two words of   *)
(* CHANNELS_AVAILABLE are one register here.                                *)
(***************************************************************************)
EXTENDS Naturals, Sequences, FiniteSets, FiniteSetsExt, SequencesExt

CONSTANTS
    Channels,           \* the channels of the bus, numbers
    MaxUnits,           \* kMaxBandwidthUnitsS400
    Units,              \* what one stream costs
    MaxRetries,         \* RetryPolicy::maxRetries
    MaxTimeoutRetries,  \* RetryPolicy::maxTimeoutRetries
    MaxStreams,         \* bound: streams reserved at once
    MaxResets,          \* bound: bus resets
    MaxLosses,          \* bound: requests or answers lost
    MaxForeign          \* bound: register changes by other initiators

ASSUME IRMAssumption ==
    /\ Channels \subseteq Nat /\ IsFiniteSet(Channels)
    /\ {MaxUnits, Units, MaxRetries, MaxTimeoutRetries} \subseteq Nat
    /\ {MaxStreams, MaxResets, MaxLosses, MaxForeign} \subseteq Nat
    /\ 0 < Units /\ Units <= MaxUnits

VARIABLES
    irm,     \* the IRM: its generation and its two registers
    bus,     \* the async subsystem: generation, reset gate, last reset seen
    client,  \* IRMClient: generation_, and whether irmNodeId_ names a node
    op,      \* the client operation in progress, its outstanding request
    stream,  \* the owner: where its thread is, and its entries
    ledger,  \* who really holds what at the IRM in this generation
    spent    \* resets, losses and foreign changes so far

vars == <<irm, bus, client, op, stream, ledger, spent>>

Statuses == {"Success", "ChannelBusy", "BandwidthShort", "NoResources",
             "NotFound", "GenerationMismatch", "Timeout", "Failed"}
Stages == {"snapBandwidth", "snapChannels", "allocChannel", "allocBandwidth",
           "rollback", "releaseBandwidth", "releaseChannel"}
Registers == [channels : SUBSET Channels, bandwidth : 0..MaxUnits]
Fresh == [channels |-> {}, bandwidth |-> 0]
NoValue == MaxUnits + 1

Register(stage) ==
    IF stage \in {"snapBandwidth", "allocBandwidth", "releaseBandwidth"}
    THEN "bandwidth" ELSE "channels"
Allocating(stage) == stage \in {"allocChannel", "allocBandwidth"}

NoOp == [stage |-> "snapBandwidth", channel |-> 0, status |-> "Success",
         result |-> "none", retries |-> 0, timeouts |-> 0,
         unanswered |-> NoValue, req |-> "none", at |-> 0,
         value |-> Fresh, desired |-> Fresh, answer |-> Fresh,
         applied |-> FALSE, gen |-> 0]

Unused == [c \in Channels |-> "free"]
EmptyLedger == [holder |-> Unused, ours |-> 0, others |-> 0,
                abandoned |-> {}, spoiled |-> FALSE, uncertain |-> FALSE,
                gaveUp |-> FALSE]

Init ==
    /\ irm = [gen |-> 0, channels |-> Channels, bandwidth |-> MaxUnits]
    /\ bus = [gen |-> 0, phase |-> "open", seen |-> 0]
    /\ client = [gen |-> 0, node |-> TRUE]
    /\ op = NoOp
    /\ stream = [pc |-> "idle", entries |-> <<>>, candidates |-> {}]
    /\ ledger = EmptyLedger
    /\ spent = [resets |-> 0, losses |-> 0, foreign |-> 0]

-----------------------------------------------------------------------------
(* Requests.  A request of another generation than the bus is answered      *)
(* kStaleGeneration; one that the reset gate refuses is never answered.     *)

Issue(b, o, kind) ==
    [o EXCEPT !.req = IF client.gen # b.gen THEN "stale"
                      ELSE IF b.phase = "closed" THEN "none" ELSE kind,
              !.applied = FALSE]

Done(o, status) == [o EXCEPT !.result = status, !.req = "none"]

StartLock(b, o) == Issue(b, o, "read")

\* PerformChannelLock and PerformBandwidthLock, with the check of the node
\* that Allocate and Release of each make first.
PerformLock(b, o, stage) ==
    StartLock(b, [o EXCEPT !.stage = stage, !.retries = MaxRetries,
                           !.timeouts = MaxTimeoutRetries,
                           !.unanswered = NoValue])

-----------------------------------------------------------------------------
(* The operations of the client, as the chains of callbacks they are.  Each *)
(* lock of an operation ends in Finished with the status it reports.        *)

\* Without a node a lock ends at once with NotFound, so the rest of the
\* operation does too.
ReleaseResources(b, entry) ==
    LET o == [NoOp EXCEPT !.channel = entry.channel, !.gen = entry.gen]
    IN  IF client.node THEN PerformLock(b, o, "releaseBandwidth")
        ELSE Done(o, "NotFound")

AllocateResources(b, c) ==
    LET o == [NoOp EXCEPT !.channel = c]
    IN  IF client.node THEN PerformLock(b, o, "allocChannel")
        ELSE Done(o, "NotFound")

ReadIRMWindow(b) ==
    IF client.node THEN Issue(b, NoOp, "read") ELSE Done(NoOp, "NotFound")

\* Mutant: the channel is kept when the bandwidth is refused.
OnBandwidthAllocated_NoRollback(b, o, status) == Done(o, status)

\* A channel whose bandwidth was refused is released again; one whose
\* generation is over is not.
OnBandwidthAllocated(b, o, status) ==
    IF status \in {"Success", "GenerationMismatch"} THEN Done(o, status)
    ELSE IF ~client.node THEN Done(o, status)
    ELSE PerformLock(b, [o EXCEPT !.status = status], "rollback")

\* The channel is released even if the bandwidth could not be.
OnBandwidthReleased(b, o, status) ==
    IF status = "GenerationMismatch" THEN Done(o, status)
    ELSE IF ~client.node
    THEN Done(o, IF status = "Success" THEN "NotFound" ELSE status)
    ELSE PerformLock(b, [o EXCEPT !.status = status], "releaseChannel")

OnChannelAllocated(b, o, status) ==
    IF status # "Success" THEN Done(o, status)
    ELSE IF ~client.node THEN Done(o, "NotFound")
    ELSE PerformLock(b, o, "allocBandwidth")

Finished(b, o, status) ==
    CASE o.stage = "allocChannel" -> OnChannelAllocated(b, o, status)
      [] o.stage = "allocBandwidth" -> OnBandwidthAllocated(b, o, status)
      [] o.stage = "rollback" -> Done(o, o.status)
      [] o.stage = "releaseBandwidth" -> OnBandwidthReleased(b, o, status)
      [] o.stage = "releaseChannel" ->
            Done(o, IF o.status = "Success" THEN status ELSE o.status)
      [] OTHER -> Done(o, status)

Swap(b, o, new) ==
    Issue(b, [o EXCEPT !.value[Register(o.stage)] = o.answer[Register(o.stage)],
                       !.desired[Register(o.stage)] = new], "lock")

OnChannelRead(b, o) ==
    IF ~Allocating(o.stage)
    THEN Swap(b, o, o.answer.channels \cup {o.channel})
    ELSE IF o.channel \notin o.answer.channels
    THEN Finished(b, o, "ChannelBusy")
    ELSE Swap(b, o, o.answer.channels \ {o.channel})

\* Mutant: a credit past the maximum is not skipped.
OnBandwidthRead_NoCeiling(b, o) ==
    IF ~Allocating(o.stage) THEN Swap(b, o, o.answer.bandwidth + Units)
    ELSE IF o.answer.bandwidth < Units THEN Finished(b, o, "BandwidthShort")
    ELSE Swap(b, o, o.answer.bandwidth - Units)

\* A release that finds the value its unanswered lock would have written
\* takes it as applied; a credit past the maximum is skipped.
OnBandwidthRead(b, o0) ==
    LET available == o0.answer.bandwidth
        o == [o0 EXCEPT !.unanswered = NoValue]
    IN  IF ~Allocating(o.stage) /\ available = o0.unanswered
        THEN Finished(b, o0, "Success")
        ELSE IF Allocating(o.stage)
        THEN IF available < Units THEN Finished(b, o, "BandwidthShort")
             ELSE Swap(b, o, available - Units)
        ELSE IF available + Units > MaxUnits THEN Finished(b, o, "Success")
        ELSE Swap(b, o, available + Units)

\* The snapshot reads the registers one after the other.
OnSnapshotRead(b, o) ==
    IF o.stage = "snapBandwidth"
    THEN Issue(b, [o EXCEPT !.stage = "snapChannels",
                            !.value.bandwidth = o.answer.bandwidth], "read")
    ELSE Done([o EXCEPT !.value.channels = o.answer.channels], "Success")

OnRead(b, o) ==
    CASE o.stage \in {"snapBandwidth", "snapChannels"} -> OnSnapshotRead(b, o)
      [] o.stage \in {"allocBandwidth", "releaseBandwidth"} -> OnBandwidthRead(b, o)
      [] OTHER -> OnChannelRead(b, o)

\* Mutant: the old value of the answer is not compared.
OnCompareSwap_Blind(b, o) == Finished(b, o, "Success")

OnCompareSwap(b, o) ==
    LET r == Register(o.stage)
    IN  IF o.answer[r] = o.value[r] THEN Finished(b, o, "Success")
        ELSE IF o.retries = 0 THEN Finished(b, o, "NoResources")
        ELSE StartLock(b, [o EXCEPT !.retries = @ - 1])

\* ConsumeTimeoutRetry.  The value an unanswered lock tried to write is kept
\* for the next read of a release.
OnTimeout(b, o) ==
    IF o.stage \in {"snapBandwidth", "snapChannels"} \/ o.timeouts = 0
    THEN Finished(b, o, "Timeout")
    ELSE StartLock(b,
            [o EXCEPT !.timeouts = @ - 1,
                      !.unanswered = IF o.req = "lock" /\ Register(o.stage) = "bandwidth"
                                     THEN o.desired.bandwidth ELSE @])

\* Every other failure (busy, hardware error, short read) is Failed, at once.
OnError(b, o) == Finished(b, o, "Failed")

-----------------------------------------------------------------------------
(* The IRM and the transactions.                                            *)

\* What a compare-swap of ours that matched does to the ledger.  spoiled
\* records that it gave away what was not ours in this generation.
Credit(o) ==
    CASE o.stage = "allocChannel" -> [ledger EXCEPT !.holder[o.channel] = IF @ = "free" THEN "ours" ELSE @]
      [] o.stage = "allocBandwidth" -> [ledger EXCEPT !.ours = @ + Units]
      [] o.stage = "releaseBandwidth" ->
            [ledger EXCEPT !.ours = IF @ < Units THEN @ ELSE @ - Units,
                           !.spoiled = @ \/ ledger.ours < Units]
      [] OTHER ->
            [ledger EXCEPT !.holder[o.channel] = IF @ = "ours" THEN "free" ELSE @,
                           !.spoiled = @ \/ ledger.holder[o.channel] = "others"]

Matches == irm[Register(op.stage)] = op.value[Register(op.stage)]

\* The request reaches the IRM, which reads or swaps and answers.  A packet
\* carries no generation: the contexts are stopped from the reset until the
\* driver has dealt with it.
Deliver ==
    /\ op.req \in {"read", "lock"} /\ ~op.applied
    /\ bus.phase = "open" /\ bus.seen = irm.gen
    /\ op' = [op EXCEPT !.applied = TRUE, !.at = irm.gen,
                        !.answer[Register(op.stage)] = irm[Register(op.stage)],
                        !.gen = IF op.stage = "allocChannel" THEN irm.gen ELSE @]
    /\ IF op.req = "lock" /\ Matches
       THEN /\ irm' = [irm EXCEPT ![Register(op.stage)] = op.desired[Register(op.stage)]]
            /\ ledger' = Credit(op)
       ELSE UNCHANGED <<irm, ledger>>
    /\ UNCHANGED <<bus, client, stream, spent>>

\* A release that ends in failure leaves the resource at the IRM: the ledger
\* remembers that it did.
GaveUp(o, status) ==
    [ledger EXCEPT !.gaveUp = @ \/ /\ o.stage \in {"rollback", "releaseBandwidth", "releaseChannel"}
                                   /\ status \notin {"Success", "GenerationMismatch"}]

LastTry(o) == o.req = "lock" /\ o.retries = 0 /\ o.answer[Register(o.stage)] # o.value[Register(o.stage)]

Respond ==
    /\ bus.phase # "confirmed"
    /\ op.req \in {"read", "lock"} /\ op.applied
    /\ op' = IF op.req = "read" THEN OnRead(bus, op) ELSE OnCompareSwap(bus, op)
    /\ ledger' = IF LastTry(op) THEN GaveUp(op, "NoResources") ELSE ledger
    /\ UNCHANGED <<irm, bus, client, stream, spent>>

\* A lock whose loss leaves the client in doubt: an allocation that was
\* granted, or a release of bandwidth, applied or not.
Unknown(o) ==
    /\ o.req = "lock"
    /\ \/ o.stage = "releaseBandwidth"
       \/ /\ o.applied /\ Allocating(o.stage)
          /\ o.answer[Register(o.stage)] = o.value[Register(o.stage)]

\* The tick of the watchdog finds a request unanswered, because it or its
\* answer was lost, or the request ends with an error, carried out or not.
\* Neither happens while the reset gate is closed.
Timeout ==
    /\ op.req \in {"read", "lock"} /\ bus.phase = "open"
    /\ spent.losses < MaxLosses
    /\ spent' = [spent EXCEPT !.losses = @ + 1]
    /\ \E error \in BOOLEAN :
         /\ op' = IF error THEN OnError(bus, op) ELSE OnTimeout(bus, op)
         /\ ledger' =
              LET l == IF error \/ op.timeouts = 0 THEN GaveUp(op, "Timeout") ELSE ledger
              IN  [l EXCEPT !.uncertain = @ \/ Unknown(op)]
    /\ UNCHANGED <<irm, bus, client, stream>>

\* A request for another generation than the bus is in.
Stale ==
    /\ op.req = "stale" /\ bus.phase # "confirmed"
    /\ op' = Finished(bus, op, "GenerationMismatch")
    /\ UNCHANGED <<irm, bus, client, stream, ledger, spent>>

-----------------------------------------------------------------------------
(* Bus resets.  The registers change when the bus resets; the driver learns *)
(* of it in steps.                                                          *)

BusReset ==
    /\ spent.resets < MaxResets
    /\ spent' = [spent EXCEPT !.resets = @ + 1]
    /\ irm' = [gen |-> irm.gen + 1, channels |-> Channels, bandwidth |-> MaxUnits]
    /\ ledger' = EmptyLedger
    /\ UNCHANGED <<bus, client, op, stream>>

\* The Self-IDs decode, which confirms the new generation, or they do not.
ConfirmBusGeneration ==
    /\ bus.phase # "confirmed" /\ bus.seen # irm.gen
    /\ \E decoded \in BOOLEAN :
         bus' = [gen |-> IF decoded THEN irm.gen ELSE bus.gen,
                 phase |-> "confirmed", seen |-> irm.gen]
    /\ UNCHANGED <<irm, client, op, stream, ledger, spent>>

\* The gate closes, then the outstanding request is cancelled.  Its callback
\* runs here, maps kAborted to Failed and may issue the next request.
OnBusResetBegin ==
    /\ bus.phase = "confirmed"
    /\ bus' = [bus EXCEPT !.phase = "closed"]
    /\ op' = IF op.req \in {"read", "lock"} THEN Finished(bus', op, "Failed") ELSE op
    /\ UNCHANGED <<irm, client, stream, ledger, spent>>

OnBusResetComplete ==
    /\ bus.phase = "closed"
    /\ bus' = [bus EXCEPT !.phase = "open"]
    /\ UNCHANGED <<irm, client, op, stream, ledger, spent>>

\* The topology of the new generation names the IRM, if there is one.
SetIRMNode ==
    /\ bus.phase = "open" /\ client.gen # bus.gen
    /\ \E node \in BOOLEAN : client' = [gen |-> bus.gen, node |-> node]
    /\ UNCHANGED <<irm, bus, op, stream, ledger, spent>>

-----------------------------------------------------------------------------
(* The owner's thread.                                                      *)

Fail == [stream EXCEPT !.pc = "releaseAll"]
Answered == op.result # "none"

ReserveAny ==
    /\ stream.pc = "idle" /\ Len(stream.entries) < MaxStreams
    /\ \E allowed \in (SUBSET Channels) \ {{}} :
         stream' = [stream EXCEPT !.pc = "snapshot", !.candidates = allowed]
    /\ op' = ReadIRMWindow(bus)
    /\ UNCHANGED <<irm, bus, client, ledger, spent>>

\* The first candidate that the snapshot shows free is asked for.
SnapshotDone ==
    /\ stream.pc = "snapshot" /\ Answered
    /\ LET free == stream.candidates \cap op.value.channels
           c == Min(free)
       IN  IF op.result # "Success" \/ op.value.bandwidth < Units \/ free = {}
           THEN stream' = Fail /\ op' = NoOp
           ELSE /\ stream' = [stream EXCEPT !.pc = "allocate", !.candidates = @ \ {c}]
                /\ op' = AllocateResources(bus, c)
    /\ UNCHANGED <<irm, bus, client, ledger, spent>>

Entry == [channel |-> op.channel, gen |-> op.gen]

AllocateDone ==
    /\ stream.pc = "allocate" /\ Answered
    /\ \/ /\ op.result = "Success"
          /\ stream' = [stream EXCEPT !.pc = "idle", !.candidates = {},
                                      !.entries = Append(@, Entry)]
          /\ op' = NoOp
       \/ /\ op.result \in {"ChannelBusy", "NoResources"} /\ stream.candidates # {}
          /\ stream' = [stream EXCEPT !.pc = "snapshot"]
          /\ op' = ReadIRMWindow(bus)
       \/ /\ op.result # "Success"
          /\ op.result \notin {"ChannelBusy", "NoResources"} \/ stream.candidates = {}
          /\ stream' = Fail /\ op' = NoOp
    /\ UNCHANGED <<irm, bus, client, ledger, spent>>

\* StopAll, and BeginSplitDuplex before a new start.
ReleaseAll ==
    /\ stream.pc = "idle" /\ stream.entries # <<>>
    /\ stream' = [stream EXCEPT !.pc = "releaseAll"]
    /\ UNCHANGED <<irm, bus, client, op, ledger, spent>>

\* The entry is dropped first; how its release ends is not looked at.
ReleaseNext ==
    /\ stream.pc = "releaseAll"
    /\ IF stream.entries = <<>>
       THEN stream' = [stream EXCEPT !.pc = "idle", !.candidates = {}] /\ op' = NoOp
       ELSE /\ stream' = [stream EXCEPT !.pc = "releasing", !.entries = Front(@)]
            /\ op' = ReleaseResources(bus, Last(stream.entries))
    /\ UNCHANGED <<irm, bus, client, ledger, spent>>

Released ==
    /\ stream.pc = "releasing" /\ Answered
    /\ stream' = [stream EXCEPT !.pc = "releaseAll"]
    /\ op' = NoOp
    /\ UNCHANGED <<irm, bus, client, ledger, spent>>

\* The wait of 12 s ends an operation whose next request the gate refused;
\* the retries of an operation that is answered take less.
Stalled == op.req = "none" /\ op.result = "none"

\* Mutant: only the wait for a release has a limit.
WaitTimeout_Unbounded ==
    /\ stream.pc = "releasing" /\ Stalled
    /\ op' = Done(op, "Timeout")
    /\ UNCHANGED <<irm, bus, client, stream, ledger, spent>>

WaitTimeout ==
    /\ stream.pc \in {"snapshot", "allocate", "releasing"} /\ Stalled
    /\ op' = Done(op, "Timeout")
    /\ UNCHANGED <<irm, bus, client, stream, ledger, spent>>

Entries == {stream.entries[i] : i \in 1..Len(stream.entries)}
Current == {e \in Entries : e.gen = irm.gen}

\* StopAllAfterBusReset, when the device is gone, and StopAll without hardware:
\* every entry is dropped and nothing is released, in whatever generation it
\* was made.  It takes no lock, so the owner's thread may be anywhere.
InvalidateAfterGenerationChange ==
    /\ stream.entries # <<>>
    /\ stream' = [stream EXCEPT !.entries = <<>>]
    /\ ledger' = [ledger EXCEPT !.abandoned = @ \cup {e.channel : e \in Current}]
    /\ UNCHANGED <<irm, bus, client, op, spent>>

-----------------------------------------------------------------------------
(* Other initiators take what is free and give back what is theirs.         *)

Foreign ==
    /\ spent.foreign < MaxForeign
    /\ spent' = [spent EXCEPT !.foreign = @ + 1]
    /\ \/ \E c \in irm.channels :
            /\ irm' = [irm EXCEPT !.channels = @ \ {c}]
            /\ ledger' = [ledger EXCEPT !.holder[c] = "others"]
       \/ \E c \in Channels :
            /\ ledger.holder[c] = "others"
            /\ irm' = [irm EXCEPT !.channels = @ \cup {c}]
            /\ ledger' = [ledger EXCEPT !.holder[c] = "free"]
       \/ /\ irm.bandwidth >= Units
          /\ irm' = [irm EXCEPT !.bandwidth = @ - Units]
          /\ ledger' = [ledger EXCEPT !.others = @ + Units]
       \/ /\ ledger.others >= Units /\ irm.bandwidth + Units <= MaxUnits
          /\ irm' = [irm EXCEPT !.bandwidth = @ + Units]
          /\ ledger' = [ledger EXCEPT !.others = @ - Units]
    /\ UNCHANGED <<bus, client, op, stream>>

-----------------------------------------------------------------------------
Owner == \/ SnapshotDone \/ AllocateDone \/ ReleaseNext \/ Released \/ WaitTimeout
Driver == \/ Respond \/ Stale \/ ConfirmBusGeneration \/ OnBusResetBegin
          \/ OnBusResetComplete \/ SetIRMNode
Next ==
    \/ Owner \/ Driver \/ Deliver \/ Timeout \/ BusReset \/ Foreign
    \/ ReserveAny \/ ReleaseAll \/ InvalidateAfterGenerationChange

\* Every block of the queue runs, and a thread that was woken runs on.  An
\* IRM that is there answers, or the watchdog ends the wait.
Spec == Init /\ [][Next]_vars
        /\ WF_vars(Owner) /\ WF_vars(Driver) /\ WF_vars(Deliver)

-----------------------------------------------------------------------------
(* Properties                                                               *)

\* Every variable keeps its type; the bandwidth never exceeds what the bus
\* has, whoever releases.
TypeOK ==
    /\ irm \in [gen : 0..MaxResets, channels : SUBSET Channels, bandwidth : 0..MaxUnits]
    /\ bus \in [gen : 0..MaxResets, seen : 0..MaxResets, phase : {"open", "confirmed", "closed"}]
    /\ client \in [gen : 0..MaxResets, node : BOOLEAN]
    /\ op.stage \in Stages /\ op.result \in Statuses \cup {"none"}
    /\ op.req \in {"none", "read", "lock", "stale"}
    /\ op.retries \in 0..MaxRetries /\ op.timeouts \in 0..MaxTimeoutRetries
    /\ {op.value, op.desired, op.answer} \subseteq Registers
    /\ stream.pc \in {"idle", "snapshot", "allocate", "releaseAll", "releasing"}
    /\ Len(stream.entries) <= MaxStreams

\* A reservation the owner recorded in this generation is backed by the IRM:
\* no other initiator holds its channel, no two entries share one, and the
\* bandwidth of all of them is charged.  Only a release of something that was
\* not ours, or of bandwidth by a lock whose answer was lost, can undo that.
HeldIsBacked ==
    ~ledger.spoiled =>
        /\ \A e \in Current : /\ ledger.holder[e.channel] = "ours"
                              /\ e.channel \notin irm.channels
        /\ ledger.uncertain \/ Cardinality(Current) * Units <= ledger.ours
        /\ \A i, j \in 1..Len(stream.entries) :
              /\ stream.entries[i].channel = stream.entries[j].channel
              /\ stream.entries[i] \in Current /\ stream.entries[j] \in Current
              => i = j

\* What an owner at rest with no entries still has at the IRM, unless a lost
\* lock left the client in doubt or a release reported that it failed, is what
\* InvalidateAfterGenerationChange dropped in this generation: those channels,
\* the bandwidth of as many streams, and nothing else.
NothingLeaks ==
    (/\ stream.pc = "idle" /\ Current = {}
     /\ ~ledger.uncertain /\ ~ledger.gaveUp /\ ~ledger.spoiled)
    => /\ {c \in Channels : ledger.holder[c] = "ours"} = ledger.abandoned
       /\ ledger.ours = Units * Cardinality(ledger.abandoned)

\* The owner's thread comes back, whatever resets and losses it meets.
OwnerReturns == stream.pc # "idle" ~> stream.pc = "idle"

\* "An IRM allocation belongs to the bus generation in which it was made.
\* Once that generation is invalid, a release transaction is both unnecessary
\* and unable to complete": once the client is in the new generation, the IRM
\* carries out no release lock for a reservation of an earlier one.
\* Does not hold: see section 5 of the README.
ReleaseOfItsGeneration ==
    (/\ op.stage \in {"rollback", "releaseBandwidth", "releaseChannel"}
     /\ op.req = "lock" /\ op.applied /\ client.gen = irm.gen) => op.at = op.gen

=============================================================================
