--------------------------- MODULE IRMClientProofs ---------------------------
(***************************************************************************)
(* Proofs about IRMClient for every set of channels, every bandwidth, every *)
(* limit of retries and any number of streams, resets, losses and changes   *)
(* by others.                                                               *)
(***************************************************************************)
EXTENDS IRMClient, FiniteSetTheorems, SequenceTheorems, WellFoundedInduction, TLAPS

USE DEF vars

-----------------------------------------------------------------------------
(* Types *)

Snap == {"snapBandwidth", "snapChannels"}
Releases == {"releaseBandwidth", "releaseChannel"}
Ops == [stage : Stages, channel : Nat, status : Statuses,
        result : Statuses \cup {"none"}, retries : 0..MaxRetries,
        timeouts : 0..MaxTimeoutRetries, unanswered : 0..NoValue,
        req : {"none", "read", "lock", "stale"}, at : 0..MaxResets,
        value : Registers, desired : Registers, answer : Registers,
        applied : BOOLEAN, gen : 0..MaxResets]
Reservation == [channel : Channels, gen : 0..MaxResets]

\* The bus has been seen by the driver up to some reset.
BusTyped ==
    /\ irm \in [gen : 0..MaxResets, channels : SUBSET Channels, bandwidth : 0..MaxUnits]
    /\ bus \in [gen : 0..MaxResets, seen : 0..MaxResets, phase : {"open", "confirmed", "closed"}]
    /\ client \in [gen : 0..MaxResets, node : BOOLEAN]
    /\ spent \in [resets : 0..MaxResets, losses : 0..MaxLosses, foreign : 0..MaxForeign]
    /\ irm.gen = spent.resets /\ bus.seen <= irm.gen

\* A lock names a channel of the bus; an operation with a result has no
\* request outstanding.
OpTyped ==
    /\ op \in Ops
    /\ op.stage \notin Snap => op.channel \in Channels
    /\ op.req # "none" => op.result = "none"

\* There is room for the entry that is being allocated.
StreamTyped ==
    /\ stream \in [pc : {"idle", "snapshot", "allocate", "releaseAll", "releasing"},
                   entries : Seq(Reservation), candidates : SUBSET Channels]
    /\ Len(stream.entries) <= MaxStreams
    /\ stream.pc \in {"snapshot", "allocate"} => Len(stream.entries) < MaxStreams

Ledgers ==
    [holder : [Channels -> {"free", "ours", "others"}], ours : Nat, others : Nat,
     abandoned : SUBSET Channels, spoiled : BOOLEAN, uncertain : BOOLEAN, gaveUp : BOOLEAN]
LedgerTyped == ledger \in Ledgers

-----------------------------------------------------------------------------
(* What the operators of the client return.  p is the operation o after a   *)
(* handler.                                                                  *)

Keeps(o, p) == p \in Ops /\ p.channel = o.channel /\ p.gen = o.gen

\* The operation is over, with result s.
Ended(o, p, s) ==
    /\ Keeps(o, p) /\ p.stage = o.stage /\ p.status = o.status
    /\ p.req = "none" /\ p.result = s

\* The client asks to read the register of a stage, if the bus lets it.
Asked(b, o, p, stage) ==
    /\ Keeps(o, p) /\ p.stage = stage /\ p.result = o.result /\ ~p.applied
    /\ p.req = IF client.gen # b.gen THEN "stale" ELSE IF b.phase = "closed" THEN "none" ELSE "read"

\* A lock begins.
Locks(b, o, p, stage) == Asked(b, o, p, stage) /\ p.unanswered = NoValue

\* What the end of a lock with status s leads to.
Ends(b, o, p, s) ==
    /\ o.stage \in Snap => Ended(o, p, s)
    /\ o.stage = "allocChannel" =>
          IF s # "Success" THEN Ended(o, p, s)
          ELSE IF client.node THEN Locks(b, o, p, "allocBandwidth") ELSE Ended(o, p, "NotFound")
    /\ o.stage = "allocBandwidth" =>
          IF s \in {"Success", "GenerationMismatch"} \/ ~client.node THEN Ended(o, p, s)
          ELSE Locks(b, o, p, "rollback") /\ p.status = s
    /\ o.stage = "rollback" => Ended(o, p, o.status)
    /\ o.stage = "releaseBandwidth" =>
          IF s # "GenerationMismatch" /\ client.node THEN Locks(b, o, p, "releaseChannel")
          ELSE \E r \in Statuses : Ended(o, p, r)
    /\ o.stage = "releaseChannel" => \E r \in Statuses : Ended(o, p, r)

\* NoValue is no bandwidth.
LEMMA ConstantsTyped ==
    /\ MaxUnits \in Nat /\ Units \in Nat /\ 0 < Units /\ Units <= MaxUnits
    /\ MaxRetries \in Nat /\ MaxTimeoutRetries \in Nat /\ MaxStreams \in Nat
    /\ MaxResets \in Nat /\ MaxLosses \in Nat /\ MaxForeign \in Nat
    /\ Channels \subseteq Nat /\ IsFiniteSet(Channels)
    /\ NoValue \in Nat /\ MaxUnits < NoValue
  BY IRMAssumption DEF NoValue

\* An issued request changes nothing else of the operation.
LEMMA IssueFields ==
    ASSUME NEW b, NEW o \in Ops, NEW kind \in {"read", "lock"}
    PROVE  LET p == Issue(b, o, kind)
           IN  /\ p \in Ops /\ ~p.applied
               /\ p.req = IF client.gen # b.gen THEN "stale"
                          ELSE IF b.phase = "closed" THEN "none" ELSE kind
               /\ p.stage = o.stage /\ p.channel = o.channel /\ p.gen = o.gen
               /\ p.status = o.status /\ p.result = o.result /\ p.unanswered = o.unanswered
               /\ p.value = o.value /\ p.desired = o.desired
  <1>. DEFINE r == IF client.gen # b.gen THEN "stale" ELSE IF b.phase = "closed" THEN "none" ELSE kind
              p == [o EXCEPT !.req = r, !.applied = FALSE]
  <1>1. r \in {"none", "read", "lock", "stale"}
    OBVIOUS
  <1>2. Issue(b, o, kind) = p
    BY DEF Issue
  <1>. HIDE DEF r
  <1>3. p \in Ops /\ ~p.applied
    BY <1>1 DEF Ops
  <1>4. p.req = r
    BY DEF Ops
  <1>5. /\ p.stage = o.stage /\ p.channel = o.channel /\ p.gen = o.gen
        /\ p.status = o.status /\ p.result = o.result /\ p.unanswered = o.unanswered
        /\ p.value = o.value /\ p.desired = o.desired
    BY DEF Ops
  <1>. QED BY <1>2, <1>3, <1>4, <1>5 DEF r

\* Done ends the operation.
LEMMA DoneEnds ==
    ASSUME NEW o \in Ops, NEW s \in Statuses
    PROVE  Ended(o, Done(o, s), s)
  <1>. DEFINE p == [o EXCEPT !.result = s, !.req = "none"]
  <1>1. p \in Ops /\ p.channel = o.channel /\ p.gen = o.gen
    BY DEF Ops
  <1>2. p.stage = o.stage /\ p.status = o.status /\ p.req = "none" /\ p.result = s
    BY DEF Ops
  <1>. QED BY <1>1, <1>2 DEF Done, Ended, Keeps

\* PerformLock asks to read the register.
LEMMA PerformLockAsks ==
    ASSUME NEW b, NEW o \in Ops, NEW stage \in Stages
    PROVE  LET p == PerformLock(b, o, stage)
           IN  Locks(b, o, p, stage) /\ p.status = o.status
  <1>. DEFINE q == [o EXCEPT !.stage = stage, !.retries = MaxRetries,
                             !.timeouts = MaxTimeoutRetries, !.unanswered = NoValue]
  <1>0. MaxRetries \in 0..MaxRetries /\ MaxTimeoutRetries \in 0..MaxTimeoutRetries /\ NoValue \in 0..NoValue
    BY ConstantsTyped
  <1>a. q \in Ops
    BY <1>0 DEF Ops
  <1>b. q.channel = o.channel /\ q.gen = o.gen /\ q.stage = stage /\ q.result = o.result
    BY DEF Ops
  <1>1. q \in Ops /\ q.status = o.status /\ q.unanswered = NoValue
    BY <1>a DEF Ops
  <1>2. PerformLock(b, o, stage) = Issue(b, q, "read")
    BY DEF PerformLock, StartLock
  <1>. HIDE DEF q
  <1>3. Locks(b, o, Issue(b, q, "read"), stage) /\ Issue(b, q, "read").status = o.status
    BY <1>b, <1>1, IssueFields DEF Locks, Asked, Keeps
  <1>. QED BY <1>2, <1>3

\* A status can be noted in an operation.
LEMMA NoteStatus ==
    ASSUME NEW o \in Ops, NEW s \in Statuses
    PROVE  LET q == [o EXCEPT !.status = s]
           IN  q \in Ops /\ q.channel = o.channel /\ q.gen = o.gen /\ q.result = o.result /\ q.status = s
  BY DEF Ops

\* How each lock of an operation ends.
LEMMA FinishedEnds ==
    ASSUME NEW b, NEW o \in Ops, NEW s \in Statuses
    PROVE  Ends(b, o, Finished(b, o, s), s)
  <1>. DEFINE p == Finished(b, o, s)
  <1>1. o.status \in Statuses /\ o.stage \in Stages /\ "NotFound" \in Statuses
    BY DEF Ops, Statuses
  <1>2. o.stage \in Snap => Ended(o, p, s)
    BY DoneEnds DEF Finished, Snap
  <1>3. o.stage = "rollback" => Ended(o, p, o.status)
    BY <1>1, DoneEnds DEF Finished
  <1>4. o.stage = "releaseChannel" => \E r \in Statuses : Ended(o, p, r)
    BY <1>1, DoneEnds DEF Finished
  <1>5. ASSUME o.stage = "allocChannel"
        PROVE  IF s # "Success" THEN Ended(o, p, s)
               ELSE IF client.node THEN Locks(b, o, p, "allocBandwidth") ELSE Ended(o, p, "NotFound")
    <2>1. p = OnChannelAllocated(b, o, s)
      BY <1>5 DEF Finished
    <2>2. client.node => Locks(b, o, PerformLock(b, o, "allocBandwidth"), "allocBandwidth")
      BY PerformLockAsks DEF Stages
    <2>. QED BY <1>1, <2>1, <2>2, DoneEnds DEF OnChannelAllocated
  <1>6. ASSUME o.stage = "allocBandwidth"
        PROVE  IF s \in {"Success", "GenerationMismatch"} \/ ~client.node THEN Ended(o, p, s)
               ELSE Locks(b, o, p, "rollback") /\ p.status = s
    <2>. DEFINE q == [o EXCEPT !.status = s]
    <2>1. p = OnBandwidthAllocated(b, o, s)
      BY <1>6 DEF Finished
    <2>2. q \in Ops /\ q.channel = o.channel /\ q.gen = o.gen /\ q.result = o.result /\ q.status = s
      BY NoteStatus
    <2>. HIDE DEF q
    <2>3. Locks(b, q, PerformLock(b, q, "rollback"), "rollback") /\ PerformLock(b, q, "rollback").status = s
      BY <2>2, PerformLockAsks DEF Stages
    <2>4. Locks(b, o, PerformLock(b, q, "rollback"), "rollback")
      BY <2>2, <2>3 DEF Locks, Asked, Keeps
    <2>. QED BY <2>1, <2>3, <2>4, DoneEnds DEF OnBandwidthAllocated, q
  <1>7. ASSUME o.stage = "releaseBandwidth"
        PROVE  IF s # "GenerationMismatch" /\ client.node THEN Locks(b, o, p, "releaseChannel")
               ELSE \E r \in Statuses : Ended(o, p, r)
    <2>. DEFINE q == [o EXCEPT !.status = s]
    <2>1. p = OnBandwidthReleased(b, o, s)
      BY <1>7 DEF Finished
    <2>2. q \in Ops /\ q.channel = o.channel /\ q.gen = o.gen /\ q.result = o.result /\ q.status = s
      BY NoteStatus
    <2>. HIDE DEF q
    <2>3. Locks(b, q, PerformLock(b, q, "releaseChannel"), "releaseChannel")
      BY <2>2, PerformLockAsks DEF Stages
    <2>4. Locks(b, o, PerformLock(b, q, "releaseChannel"), "releaseChannel")
      BY <2>2, <2>3 DEF Locks, Asked, Keeps
    <2>. QED BY <1>1, <2>1, <2>4, DoneEnds DEF OnBandwidthReleased, q
  <1>. QED BY <1>2, <1>3, <1>4, <1>5, <1>6, <1>7 DEF Ends

\* What a compare-swap asks for at each stage.
LockShaped(o) ==
    /\ o.stage \notin Snap
    /\ o.stage = "allocChannel" =>
          o.channel \in o.value.channels /\ o.desired.channels = o.value.channels \ {o.channel}
    /\ o.stage \in {"rollback", "releaseChannel"} =>
          o.desired.channels = o.value.channels \cup {o.channel}
    /\ o.stage = "allocBandwidth" =>
          o.value.bandwidth >= Units /\ o.desired.bandwidth = o.value.bandwidth - Units
    /\ o.stage = "releaseBandwidth" => o.desired.bandwidth = o.value.bandwidth + Units

\* The compare-swap that follows a read.
Swaps(b, o, p) ==
    /\ Keeps(o, p) /\ p.stage = o.stage /\ p.status = o.status /\ p.result = o.result
    /\ ~p.applied /\ LockShaped(p)
    /\ p.unanswered \in {o.unanswered, NoValue}
    /\ p.req = IF client.gen # b.gen THEN "stale" ELSE IF b.phase = "closed" THEN "none" ELSE "lock"

\* The register of a stage, by its fields.
LEMMA RegisterOf ==
    ASSUME NEW o \in Ops
    PROVE  /\ o.stage \in {"snapBandwidth", "allocBandwidth", "releaseBandwidth"} =>
                /\ Register(o.stage) = "bandwidth"
                /\ o.value[Register(o.stage)] = o.value.bandwidth
                /\ o.answer[Register(o.stage)] = o.answer.bandwidth
           /\ o.stage \in {"snapChannels", "allocChannel", "rollback", "releaseChannel"} =>
                /\ Register(o.stage) = "channels"
                /\ o.value[Register(o.stage)] = o.value.channels
                /\ o.answer[Register(o.stage)] = o.answer.channels
  BY DEF Register

\* A swap of the bandwidth register.
LEMMA SwapBandwidth ==
    ASSUME NEW b, NEW o \in Ops, o.stage \in {"allocBandwidth", "releaseBandwidth"},
           NEW new \in 0..MaxUnits,
           o.stage = "allocBandwidth" => o.answer.bandwidth >= Units /\ new = o.answer.bandwidth - Units,
           o.stage = "releaseBandwidth" => new = o.answer.bandwidth + Units
    PROVE  Swaps(b, o, Swap(b, o, new))
  <1>. DEFINE q == [o EXCEPT !.value["bandwidth"] = o.answer.bandwidth, !.desired["bandwidth"] = new]
  <1>0. o.answer \in Registers /\ o.value \in Registers /\ o.desired \in Registers
    BY DEF Ops
  <1>1. Swap(b, o, new) = Issue(b, q, "lock")
    BY RegisterOf DEF Swap
  <1>2. q \in Ops
    BY <1>0 DEF Ops, Registers
  <1>3. q.value.bandwidth = o.answer.bandwidth
    BY <1>0 DEF Ops, Registers
  <1>4. q.desired.bandwidth = new
    BY <1>0 DEF Ops, Registers
  <1>5. q.channel = o.channel /\ q.gen = o.gen /\ q.stage = o.stage /\ q.status = o.status
    BY DEF Ops
  <1>6. q.result = o.result /\ q.unanswered = o.unanswered
    BY DEF Ops
  <1>. HIDE DEF q
  <1>. DEFINE p == Issue(b, q, "lock")
  <1>7. /\ p \in Ops /\ ~p.applied
        /\ p.req = IF client.gen # b.gen THEN "stale" ELSE IF b.phase = "closed" THEN "none" ELSE "lock"
        /\ p.stage = o.stage /\ p.channel = o.channel /\ p.gen = o.gen
        /\ p.status = o.status /\ p.result = o.result /\ p.unanswered = o.unanswered
        /\ p.value.bandwidth = o.answer.bandwidth /\ p.desired.bandwidth = new
    BY <1>2, <1>3, <1>4, <1>5, <1>6, IssueFields
  <1>. HIDE DEF p
  <1>8. LockShaped(p)
    BY <1>7 DEF LockShaped, Snap
  <1>. QED BY <1>1, <1>7, <1>8 DEF Swaps, Keeps, p

\* A swap of the channel register.
LEMMA SwapChannels ==
    ASSUME NEW b, NEW o \in Ops, o.stage \in {"allocChannel", "rollback", "releaseChannel"},
           NEW new \in SUBSET Channels,
           o.stage = "allocChannel" => o.channel \in o.answer.channels /\ new = o.answer.channels \ {o.channel},
           o.stage # "allocChannel" => new = o.answer.channels \cup {o.channel}
    PROVE  Swaps(b, o, Swap(b, o, new))
  <1>. DEFINE q == [o EXCEPT !.value["channels"] = o.answer.channels, !.desired["channels"] = new]
  <1>0. o.answer \in Registers /\ o.value \in Registers /\ o.desired \in Registers
    BY DEF Ops
  <1>1. Swap(b, o, new) = Issue(b, q, "lock")
    BY RegisterOf DEF Swap
  <1>2. q \in Ops
    BY <1>0 DEF Ops, Registers
  <1>3. q.value.channels = o.answer.channels
    BY <1>0 DEF Ops, Registers
  <1>4. q.desired.channels = new
    BY <1>0 DEF Ops, Registers
  <1>5. q.channel = o.channel /\ q.gen = o.gen /\ q.stage = o.stage /\ q.status = o.status
    BY DEF Ops
  <1>6. q.result = o.result /\ q.unanswered = o.unanswered
    BY DEF Ops
  <1>. HIDE DEF q
  <1>. DEFINE p == Issue(b, q, "lock")
  <1>7. /\ p \in Ops /\ ~p.applied
        /\ p.req = IF client.gen # b.gen THEN "stale" ELSE IF b.phase = "closed" THEN "none" ELSE "lock"
        /\ p.stage = o.stage /\ p.channel = o.channel /\ p.gen = o.gen
        /\ p.status = o.status /\ p.result = o.result /\ p.unanswered = o.unanswered
        /\ p.value.channels = o.answer.channels /\ p.desired.channels = new
    BY <1>2, <1>3, <1>4, <1>5, <1>6, IssueFields
  <1>. HIDE DEF p
  <1>8. LockShaped(p)
    BY <1>7 DEF LockShaped, Snap
  <1>. QED BY <1>1, <1>7, <1>8 DEF Swaps, Keeps, p

\* The handler of a read of the channels swaps, or the channel is taken.
LEMMA ChannelRead ==
    ASSUME NEW b, NEW o \in Ops, o.stage \in {"allocChannel", "rollback", "releaseChannel"},
           o.channel \in Channels
    PROVE  LET p == OnChannelRead(b, o)
           IN  \/ Swaps(b, o, p)
               \/ o.stage = "allocChannel" /\ Ends(b, o, p, "ChannelBusy")
  <1>1. o.answer.channels \in SUBSET Channels
    BY DEF Ops, Registers
  <1>2. o.answer.channels \cup {o.channel} \in SUBSET Channels /\ o.answer.channels \ {o.channel} \in SUBSET Channels
    BY <1>1
  <1>3. "ChannelBusy" \in Statuses
    BY DEF Statuses
  <1>4. CASE o.stage = "allocChannel"
    <2>1. CASE o.channel \notin o.answer.channels
      BY <1>3, <1>4, <2>1, FinishedEnds DEF OnChannelRead, Allocating
    <2>2. CASE o.channel \in o.answer.channels
      <3>1. Swaps(b, o, Swap(b, o, o.answer.channels \ {o.channel}))
        BY <1>2, <1>4, <2>2, SwapChannels
      <3>. QED BY <1>4, <2>2, <3>1 DEF OnChannelRead, Allocating
    <2>. QED BY <2>1, <2>2
  <1>5. CASE o.stage # "allocChannel"
    <2>1. Swaps(b, o, Swap(b, o, o.answer.channels \cup {o.channel}))
      BY <1>2, <1>5, SwapChannels
    <2>. QED BY <1>5, <2>1 DEF OnChannelRead, Allocating
  <1>. QED BY <1>4, <1>5

\* What follows depends on few fields of the operation.
LEMMA EndsAlike ==
    ASSUME NEW b, NEW o, NEW q, NEW p, NEW s, Ends(b, q, p, s),
           q.stage = o.stage, q.channel = o.channel, q.gen = o.gen,
           q.status = o.status, q.result = o.result
    PROVE  Ends(b, o, p, s)
  BY DEF Ends, Ended, Locks, Asked, Keeps

\* The handler of a read of the bandwidth swaps, or the bandwidth is short, or
\* it takes the release as done: because it finds what its unanswered lock
\* would have written, or because there is no room for a credit.
LEMMA BandwidthRead ==
    ASSUME NEW b, NEW o \in Ops, o.stage \in {"allocBandwidth", "releaseBandwidth"}
    PROVE  LET p == OnBandwidthRead(b, o)
           IN  \/ Swaps(b, o, p)
               \/ o.stage = "allocBandwidth" /\ Ends(b, o, p, "BandwidthShort")
               \/ /\ o.stage = "releaseBandwidth" /\ Ends(b, o, p, "Success")
                  /\ o.answer.bandwidth = o.unanswered \/ o.answer.bandwidth + Units > MaxUnits
  <1>. DEFINE q == [o EXCEPT !.unanswered = NoValue]
              a == o.answer.bandwidth
              p == OnBandwidthRead(b, o)
  <1>0. a \in 0..MaxUnits /\ Units \in Nat /\ MaxUnits \in Nat
    BY ConstantsTyped DEF Ops, Registers
  <1>1. q \in Ops
    BY ConstantsTyped DEF Ops
  <1>2. /\ q.stage = o.stage /\ q.channel = o.channel /\ q.gen = o.gen
        /\ q.status = o.status /\ q.result = o.result
    BY DEF Ops
  <1>3. q.unanswered = NoValue /\ q.answer = o.answer
    BY DEF Ops
  <1>4. {"BandwidthShort", "Success"} \subseteq Statuses
    BY DEF Statuses
  <1>5. ASSUME NEW new, Swaps(b, q, Swap(b, q, new)), p = Swap(b, q, new)
        PROVE  Swaps(b, o, p)
    <2>. HIDE DEF q, p
    <2>. QED BY <1>2, <1>3, <1>5 DEF Swaps, Keeps
  <1>6. CASE o.stage = "allocBandwidth"
    <2>1. p = IF a < Units THEN Finished(b, q, "BandwidthShort") ELSE Swap(b, q, a - Units)
      BY <1>2, <1>6 DEF OnBandwidthRead, Allocating
    <2>. HIDE DEF p, q
    <2>2. CASE a < Units
      <3>1. Ends(b, q, p, "BandwidthShort")
        BY <1>1, <1>4, <2>1, <2>2, FinishedEnds
      <3>2. Ends(b, o, p, "BandwidthShort")
        BY <1>2, <3>1, EndsAlike
      <3>. QED BY <1>6, <3>2 DEF p
    <2>3. CASE ~(a < Units)
      <3>0. a - Units \in 0..MaxUnits /\ a >= Units
        BY <1>0, <2>3
      <3>1. Swaps(b, q, Swap(b, q, a - Units))
        BY <1>1, <1>2, <1>3, <1>6, <3>0, SwapBandwidth
      <3>. QED BY <1>5, <2>1, <2>3, <3>1 DEF p
    <2>. QED BY <2>2, <2>3
  <1>7. CASE o.stage = "releaseBandwidth"
    <2>1. p = IF a = o.unanswered THEN Finished(b, o, "Success")
              ELSE IF a + Units > MaxUnits THEN Finished(b, q, "Success") ELSE Swap(b, q, a + Units)
      BY <1>2, <1>7 DEF OnBandwidthRead, Allocating
    <2>. HIDE DEF p, q
    <2>2. CASE a = o.unanswered
      <3>1. Ends(b, o, p, "Success")
        BY <1>4, <2>1, <2>2, FinishedEnds
      <3>. QED BY <1>7, <2>2, <3>1 DEF p
    <2>3. CASE a # o.unanswered /\ a + Units > MaxUnits
      <3>1. Ends(b, q, p, "Success")
        BY <1>1, <1>4, <2>1, <2>3, FinishedEnds
      <3>2. Ends(b, o, p, "Success")
        BY <1>2, <3>1, EndsAlike
      <3>. QED BY <1>7, <2>3, <3>2 DEF p
    <2>4. CASE a # o.unanswered /\ ~(a + Units > MaxUnits)
      <3>0. a + Units \in 0..MaxUnits
        BY <1>0, <2>4
      <3>1. Swaps(b, q, Swap(b, q, a + Units))
        BY <1>1, <1>2, <1>3, <1>7, <3>0, SwapBandwidth
      <3>. QED BY <1>5, <2>1, <2>4, <3>1 DEF p
    <2>. QED BY <2>2, <2>3, <2>4
  <1>. QED BY <1>6, <1>7

\* The snapshot goes on, or is complete.
LEMMA SnapshotRead ==
    ASSUME NEW b, NEW o \in Ops, o.stage \in Snap
    PROVE  LET p == OnSnapshotRead(b, o)
           IN  \/ Asked(b, o, p, "snapChannels")
               \/ Ended(o, p, "Success")
  <1>0. o.answer \in Registers /\ o.value \in Registers
    BY DEF Ops
  <1>1. CASE o.stage = "snapBandwidth"
    <2>. DEFINE q == [o EXCEPT !.stage = "snapChannels", !.value.bandwidth = o.answer.bandwidth]
    <2>1. q \in Ops
      BY <1>0 DEF Ops, Registers, Stages
    <2>2. q.stage = "snapChannels" /\ q.channel = o.channel /\ q.gen = o.gen /\ q.result = o.result
      BY DEF Ops
    <2>3. OnSnapshotRead(b, o) = Issue(b, q, "read")
      BY <1>1 DEF OnSnapshotRead
    <2>. HIDE DEF q
    <2>4. Asked(b, o, Issue(b, q, "read"), "snapChannels")
      BY <2>1, <2>2, IssueFields DEF Asked, Keeps
    <2>. QED BY <2>3, <2>4
  <1>2. CASE o.stage # "snapBandwidth"
    <2>. DEFINE q == [o EXCEPT !.value.channels = o.answer.channels]
    <2>1. q \in Ops
      BY <1>0 DEF Ops, Registers
    <2>2. q.stage = o.stage /\ q.channel = o.channel /\ q.gen = o.gen /\ q.status = o.status
      BY DEF Ops
    <2>3. OnSnapshotRead(b, o) = Done(q, "Success")
      BY <1>2 DEF OnSnapshotRead
    <2>. HIDE DEF q
    <2>4. Ended(q, Done(q, "Success"), "Success")
      BY <2>1, DoneEnds DEF Statuses
    <2>. QED BY <2>2, <2>3, <2>4 DEF Ended, Keeps
  <1>. QED BY <1>1, <1>2

\* A compare-swap is done, has lost too often, or is tried again.
LEMMA CompareSwap ==
    ASSUME NEW b, NEW o \in Ops, o.stage \notin Snap
    PROVE  LET p == OnCompareSwap(b, o)
               swapped == o.answer[Register(o.stage)] = o.value[Register(o.stage)]
           IN  \/ swapped /\ Ends(b, o, p, "Success")
               \/ ~swapped /\ o.retries = 0 /\ Ends(b, o, p, "NoResources")
               \/ /\ ~swapped /\ o.retries # 0 /\ Asked(b, o, p, o.stage)
                  /\ p.status = o.status /\ p.unanswered = o.unanswered
  <1>. DEFINE q == [o EXCEPT !.retries = @ - 1]
              p == OnCompareSwap(b, o)
              swapped == o.answer[Register(o.stage)] = o.value[Register(o.stage)]
  <1>1. {"Success", "NoResources"} \subseteq Statuses
    BY DEF Statuses
  <1>2. CASE swapped
    BY <1>1, <1>2, FinishedEnds DEF OnCompareSwap
  <1>3. CASE ~swapped /\ o.retries = 0
    BY <1>1, <1>3, FinishedEnds DEF OnCompareSwap
  <1>4. CASE ~swapped /\ o.retries # 0
    <2>. DEFINE k == o.retries - 1
    <2>1. k \in 0..MaxRetries
      BY <1>4, ConstantsTyped DEF Ops
    <2>2. q = [o EXCEPT !.retries = k]
      OBVIOUS
    <2>a. p = Issue(b, q, "read")
      BY <1>4 DEF OnCompareSwap, StartLock
    <2>. HIDE DEF k, q, p
    <2>3. q \in Ops
      BY <2>1, <2>2 DEF Ops
    <2>4. q.stage = o.stage /\ q.channel = o.channel /\ q.gen = o.gen /\ q.status = o.status
      BY <2>1, <2>2 DEF Ops
    <2>5. q.result = o.result /\ q.unanswered = o.unanswered
      BY <2>1, <2>2 DEF Ops
    <2>6. Asked(b, o, p, o.stage) /\ p.status = o.status /\ p.unanswered = o.unanswered
      BY <2>a, <2>3, <2>4, <2>5, IssueFields DEF Asked, Keeps
    <2>. QED BY <1>4, <2>6 DEF p
  <1>. QED BY <1>2, <1>3, <1>4

\* A request that timed out ends the lock, or is tried again.
LEMMA TimeoutOutcome ==
    ASSUME NEW b, NEW o \in Ops
    PROVE  LET p == OnTimeout(b, o)
           IN  \/ (o.stage \in Snap \/ o.timeouts = 0) /\ Ends(b, o, p, "Timeout")
               \/ /\ o.stage \notin Snap /\ o.timeouts # 0 /\ Asked(b, o, p, o.stage)
                  /\ p.status = o.status
                  /\ p.unanswered = o.unanswered \/ o.req = "lock"

  <1>. DEFINE u == IF o.req = "lock" /\ Register(o.stage) = "bandwidth" THEN o.desired.bandwidth ELSE o.unanswered
              k == o.timeouts - 1
              q == [o EXCEPT !.timeouts = k, !.unanswered = u]
              p == OnTimeout(b, o)
  <1>1. "Timeout" \in Statuses
    BY DEF Statuses
  <1>2. CASE o.stage \in Snap \/ o.timeouts = 0
    BY <1>1, <1>2, FinishedEnds DEF OnTimeout, Snap
  <1>3. CASE ~(o.stage \in Snap \/ o.timeouts = 0)
    <2>1. k \in 0..MaxTimeoutRetries
      BY <1>3, ConstantsTyped DEF Ops
    <2>2. u \in 0..NoValue
      <3>1. o.desired.bandwidth \in 0..MaxUnits /\ o.unanswered \in 0..NoValue
        BY DEF Ops, Registers
      <3>. QED BY <3>1, ConstantsTyped
    <2>3. p = Issue(b, q, "read")
      BY <1>3 DEF OnTimeout, StartLock, Snap
    <2>4. u = o.unanswered \/ o.req = "lock"
      OBVIOUS
    <2>. HIDE DEF k, u, p
    <2>5. q \in Ops
      BY <2>1, <2>2 DEF Ops
    <2>6. q.stage = o.stage /\ q.channel = o.channel /\ q.gen = o.gen /\ q.status = o.status
      BY DEF Ops
    <2>7. q.result = o.result /\ q.unanswered = u
      BY DEF Ops
    <2>. HIDE DEF q
    <2>8. Asked(b, o, p, o.stage) /\ p.status = o.status /\ p.unanswered = u
      BY <2>3, <2>5, <2>6, <2>7, IssueFields DEF Asked, Keeps
    <2>. QED BY <1>3, <2>4, <2>8 DEF p
  <1>. QED BY <1>2, <1>3

-----------------------------------------------------------------------------
(* Handlers *)

AllocStages == {"allocChannel", "allocBandwidth", "rollback"}

\* What every handler keeps: the kind of the operation, what it is about, and
\* that a request is outstanding only without a result.
Handled(o, p) ==
    /\ Keeps(o, p)
    /\ o.stage \in Snap => p.stage \in Snap
    /\ o.stage \in AllocStages => p.stage \in AllocStages
    /\ o.stage \in Releases => p.stage \in Releases
    /\ p.req # "none" => p.result = "none"

\* How the IRM's answer to a request is handled.
Answers(b, o, p) ==
    \/ o.req = "read" /\ o.stage \in Snap /\ (Asked(b, o, p, "snapChannels") \/ Ended(o, p, "Success"))
    \/ o.req = "read" /\ o.stage \notin Snap /\ Swaps(b, o, p)
    \/ o.req = "read" /\ o.stage = "allocChannel" /\ Ends(b, o, p, "ChannelBusy")
    \/ o.req = "read" /\ o.stage = "allocBandwidth" /\ Ends(b, o, p, "BandwidthShort")
    \/ /\ o.req = "read" /\ o.stage = "releaseBandwidth" /\ Ends(b, o, p, "Success")
       /\ o.answer.bandwidth = o.unanswered \/ o.answer.bandwidth + Units > MaxUnits
    \/ /\ o.req = "lock" /\ o.stage \notin Snap
       /\ o.answer[Register(o.stage)] = o.value[Register(o.stage)]
       /\ Ends(b, o, p, "Success")
    \/ /\ o.req = "lock" /\ o.stage \notin Snap
       /\ o.answer[Register(o.stage)] # o.value[Register(o.stage)]
       /\ o.retries = 0 /\ Ends(b, o, p, "NoResources")
    \/ /\ o.req = "lock" /\ o.stage \notin Snap
       /\ o.answer[Register(o.stage)] # o.value[Register(o.stage)]
       /\ o.retries # 0 /\ Asked(b, o, p, o.stage)
       /\ p.status = o.status /\ p.unanswered = o.unanswered

\* How a request without answer is handled.
TimesOut(b, o, p) ==
    \/ Ends(b, o, p, "Failed")
    \/ (o.stage \in Snap \/ o.timeouts = 0) /\ Ends(b, o, p, "Timeout")
    \/ /\ o.stage \notin Snap /\ o.timeouts # 0 /\ Asked(b, o, p, o.stage)
       /\ p.status = o.status
       /\ p.unanswered = o.unanswered \/ o.req = "lock"

\* A lock is never made by a snapshot.
LockShape == op.req = "lock" => LockShaped(op)

\* Every answer is handled in one of these ways.
LEMMA RespondAnswers ==
    ASSUME OpTyped, LockShape, Respond
    PROVE  Answers(bus, op, op')
  <1>1. op \in Ops /\ op.stage \in Stages
    BY DEF OpTyped, Ops
  <1>2. CASE op.req = "read"
    <2>0. op' = OnRead(bus, op)
      BY <1>2 DEF Respond
    <2>1. CASE op.stage \in Snap
      <3>1. op' = OnSnapshotRead(bus, op)
        BY <2>0, <2>1 DEF OnRead, Snap
      <3>. QED BY <1>1, <1>2, <2>1, <3>1, SnapshotRead DEF Answers
    <2>2. CASE op.stage \in {"allocBandwidth", "releaseBandwidth"}
      <3>1. op' = OnBandwidthRead(bus, op)
        BY <2>0, <2>2 DEF OnRead, Register
      <3>2. \/ Swaps(bus, op, op')
            \/ op.stage = "allocBandwidth" /\ Ends(bus, op, op', "BandwidthShort")
            \/ /\ op.stage = "releaseBandwidth" /\ Ends(bus, op, op', "Success")
               /\ op.answer.bandwidth = op.unanswered \/ op.answer.bandwidth + Units > MaxUnits
        BY <1>1, <2>2, <3>1, BandwidthRead
      <3>. QED BY <1>2, <2>2, <3>2 DEF Answers, Snap
    <2>3. CASE op.stage \in {"allocChannel", "rollback", "releaseChannel"}
      <3>1. op' = OnChannelRead(bus, op)
        BY <2>0, <2>3 DEF OnRead, Register
      <3>2. op.channel \in Channels
        BY <2>3 DEF OpTyped, Snap
      <3>3. \/ Swaps(bus, op, op')
            \/ op.stage = "allocChannel" /\ Ends(bus, op, op', "ChannelBusy")
        BY <1>1, <2>3, <3>1, <3>2, ChannelRead
      <3>. QED BY <1>2, <2>3, <3>3 DEF Answers, Snap
    <2>. QED BY <1>1, <2>1, <2>2, <2>3 DEF Stages, Snap
  <1>3. CASE op.req = "lock"
    <2>1. op' = OnCompareSwap(bus, op) /\ op.stage \notin Snap
      BY <1>3 DEF Respond, LockShape, LockShaped
    <2>2. \/ /\ op.answer[Register(op.stage)] = op.value[Register(op.stage)]
             /\ Ends(bus, op, op', "Success")
          \/ /\ op.answer[Register(op.stage)] # op.value[Register(op.stage)]
             /\ op.retries = 0 /\ Ends(bus, op, op', "NoResources")
          \/ /\ op.answer[Register(op.stage)] # op.value[Register(op.stage)]
             /\ op.retries # 0 /\ Asked(bus, op, op', op.stage)
             /\ op'.status = op.status /\ op'.unanswered = op.unanswered
      BY <1>1, <2>1, CompareSwap
    <2>. QED BY <1>3, <2>1, <2>2 DEF Answers
  <1>. QED BY <1>2, <1>3 DEF Respond

\* So is every loss.
LEMMA TimeoutTimesOut ==
    ASSUME OpTyped, Timeout
    PROVE  TimesOut(bus, op, op')
  <1>1. op \in Ops /\ "Failed" \in Statuses
    BY DEF OpTyped, Statuses
  <1>2. PICK e \in BOOLEAN : op' = IF e THEN OnError(bus, op) ELSE OnTimeout(bus, op)
    BY DEF Timeout
  <1>3. CASE e
    BY <1>1, <1>2, <1>3, FinishedEnds DEF OnError, TimesOut
  <1>4. CASE ~e
    BY <1>1, <1>2, <1>4, TimeoutOutcome DEF TimesOut
  <1>. QED BY <1>3, <1>4

\* The end of a lock keeps what handlers keep.
LEMMA EndsHandled ==
    ASSUME NEW b, NEW o \in Ops, NEW p, NEW s, Ends(b, o, p, s), o.result = "none"
    PROVE  Handled(o, p)
  <1>1. o.stage \in Stages
    BY DEF Ops
  <1>2. ASSUME NEW r, Ended(o, p, r) PROVE Handled(o, p)
    BY <1>2 DEF Ended, Handled
  <1>3. ASSUME NEW st, Locks(b, o, p, st), 
               (o.stage \in AllocStages /\ st \in AllocStages) \/ (o.stage \in Releases /\ st \in Releases)
        PROVE Handled(o, p)
    BY <1>3 DEF Locks, Asked, Handled, Snap, AllocStages, Releases
  <1>4. CASE o.stage \in Snap \cup {"rollback", "releaseChannel"}
    BY <1>2, <1>4 DEF Ends, Snap
  <1>5. CASE o.stage = "allocChannel"
    BY <1>2, <1>3, <1>5 DEF Ends, AllocStages
  <1>6. CASE o.stage = "allocBandwidth"
    BY <1>2, <1>3, <1>6 DEF Ends, AllocStages
  <1>7. CASE o.stage = "releaseBandwidth"
    BY <1>2, <1>3, <1>7 DEF Ends, Releases
  <1>. QED BY <1>1, <1>4, <1>5, <1>6, <1>7 DEF Stages, Snap

\* So does every answer,
LEMMA AnswersHandled ==
    ASSUME NEW b, NEW o \in Ops, NEW p, Answers(b, o, p), o.result = "none"
    PROVE  Handled(o, p)
  <1>1. ASSUME NEW s, Ends(b, o, p, s) PROVE Handled(o, p)
    BY <1>1, EndsHandled
  <1>2. ASSUME Swaps(b, o, p) PROVE Handled(o, p)
    BY <1>2 DEF Swaps, Handled
  <1>3. ASSUME Asked(b, o, p, o.stage) PROVE Handled(o, p)
    BY <1>3 DEF Asked, Handled
  <1>4. ASSUME o.stage \in Snap, Asked(b, o, p, "snapChannels") \/ Ended(o, p, "Success") PROVE Handled(o, p)
    BY <1>4 DEF Asked, Ended, Handled, Snap, AllocStages, Releases
  <1>. QED BY <1>1, <1>2, <1>3, <1>4 DEF Answers

\* and every timeout.
LEMMA TimesOutHandled ==
    ASSUME NEW b, NEW o \in Ops, NEW p, TimesOut(b, o, p), o.result = "none"
    PROVE  Handled(o, p)
  <1>1. ASSUME Asked(b, o, p, o.stage) PROVE Handled(o, p)
    BY <1>1 DEF Asked, Handled
  <1>. QED BY <1>1, EndsHandled DEF TimesOut

\* What the delivery of a request does to the operation.
Delivered(o, p, g) ==
    /\ p \in Ops /\ p.applied
    /\ p.stage = o.stage /\ p.channel = o.channel /\ p.status = o.status
    /\ p.result = o.result /\ p.req = o.req /\ p.unanswered = o.unanswered
    /\ p.value = o.value /\ p.desired = o.desired
    /\ p.gen = IF o.stage = "allocChannel" THEN g ELSE o.gen

\* The IRM answers with the value of the register.
LEMMA DeliverOutcome ==
    ASSUME BusTyped, OpTyped, Deliver
    PROVE  /\ Delivered(op, op', irm.gen)
           /\ op'.answer[Register(op.stage)] = irm[Register(op.stage)]
           /\ Register(op.stage) = "bandwidth" => op'.answer.bandwidth = irm.bandwidth
  <1>. DEFINE g == IF op.stage = "allocChannel" THEN irm.gen ELSE op.gen
  <1>0. op \in Ops /\ op.answer \in Registers /\ g \in 0..MaxResets /\ irm.gen \in 0..MaxResets
    BY DEF OpTyped, BusTyped, Ops
  <1>1. irm.channels \in SUBSET Channels /\ irm.bandwidth \in 0..MaxUnits
    BY DEF BusTyped
  <1>2. CASE Register(op.stage) = "bandwidth"
    <2>. DEFINE p == [op EXCEPT !.applied = TRUE, !.at = irm.gen, !.answer["bandwidth"] = irm["bandwidth"], !.gen = g]
    <2>1. op' = p
      BY <1>2 DEF Deliver
    <2>0. irm["bandwidth"] = irm.bandwidth
      OBVIOUS
    <2>. HIDE DEF g
    <2>2. p \in Ops
      BY <1>0, <1>1, <2>0 DEF Ops, Registers
    <2>3. p.stage = op.stage /\ p.channel = op.channel /\ p.status = op.status /\ p.result = op.result
      BY <1>0 DEF Ops
    <2>4. p.req = op.req /\ p.unanswered = op.unanswered /\ p.value = op.value /\ p.desired = op.desired
      BY <1>0 DEF Ops
    <2>5. p.gen = g /\ p.applied
      BY <1>0 DEF Ops
    <2>6. p.answer["bandwidth"] = irm["bandwidth"] /\ p.answer.bandwidth = irm.bandwidth
      BY <1>0, <1>1 DEF Ops, Registers
    <2>. HIDE DEF p
    <2>. QED BY <1>2, <2>1, <2>2, <2>3, <2>4, <2>5, <2>6 DEF Delivered, g
  <1>3. CASE Register(op.stage) = "channels"
    <2>. DEFINE p == [op EXCEPT !.applied = TRUE, !.at = irm.gen, !.answer["channels"] = irm["channels"], !.gen = g]
    <2>1. op' = p
      BY <1>3 DEF Deliver
    <2>0. irm["channels"] = irm.channels
      OBVIOUS
    <2>. HIDE DEF g
    <2>2. p \in Ops
      BY <1>0, <1>1, <2>0 DEF Ops, Registers
    <2>3. p.stage = op.stage /\ p.channel = op.channel /\ p.status = op.status /\ p.result = op.result
      BY <1>0 DEF Ops
    <2>4. p.req = op.req /\ p.unanswered = op.unanswered /\ p.value = op.value /\ p.desired = op.desired
      BY <1>0 DEF Ops
    <2>5. p.gen = g /\ p.applied
      BY <1>0 DEF Ops
    <2>6. p.answer["channels"] = irm["channels"]
      BY <1>0, <1>1 DEF Ops, Registers
    <2>. HIDE DEF p
    <2>. QED BY <1>3, <2>1, <2>2, <2>3, <2>4, <2>5, <2>6 DEF Delivered, g
  <1>. QED BY <1>2, <1>3 DEF Register

\* What the delivery does to the IRM's registers.
LEMMA DeliverIRM ==
    ASSUME BusTyped, OpTyped, Deliver
    PROVE  /\ irm' \in [gen : 0..MaxResets, channels : SUBSET Channels, bandwidth : 0..MaxUnits]
           /\ irm'.gen = irm.gen
           /\ ~(op.req = "lock" /\ Matches) => UNCHANGED <<irm, ledger>>
           /\ op.req = "lock" /\ Matches /\ Register(op.stage) = "bandwidth" =>
                /\ irm'.bandwidth = op.desired.bandwidth /\ irm'.channels = irm.channels
                /\ op.value.bandwidth = irm.bandwidth
           /\ op.req = "lock" /\ Matches /\ Register(op.stage) = "channels" =>
                /\ irm'.channels = op.desired.channels /\ irm'.bandwidth = irm.bandwidth
                /\ op.value.channels = irm.channels
  <1>0. op \in Ops /\ op.desired \in Registers
    BY DEF OpTyped, Ops
  <1>1. op.desired.channels \in SUBSET Channels /\ op.desired.bandwidth \in 0..MaxUnits
    BY <1>0 DEF Registers
  <1>2. CASE ~(op.req = "lock" /\ Matches)
    BY <1>2 DEF Deliver, BusTyped
  <1>3. CASE op.req = "lock" /\ Matches /\ Register(op.stage) = "bandwidth"
    <2>1. irm' = [irm EXCEPT !.bandwidth = op.desired.bandwidth]
      BY <1>3 DEF Deliver
    <2>2. op.value.bandwidth = irm.bandwidth
      BY <1>3 DEF Matches
    <2>3. /\ irm' \in [gen : 0..MaxResets, channels : SUBSET Channels, bandwidth : 0..MaxUnits]
          /\ irm'.gen = irm.gen /\ irm'.bandwidth = op.desired.bandwidth /\ irm'.channels = irm.channels
      BY <1>1, <2>1 DEF BusTyped
    <2>. QED BY <1>3, <2>2, <2>3
  <1>4. CASE op.req = "lock" /\ Matches /\ Register(op.stage) = "channels"
    <2>1. irm' = [irm EXCEPT !.channels = op.desired.channels]
      BY <1>4 DEF Deliver
    <2>2. op.value.channels = irm.channels
      BY <1>4 DEF Matches
    <2>3. /\ irm' \in [gen : 0..MaxResets, channels : SUBSET Channels, bandwidth : 0..MaxUnits]
          /\ irm'.gen = irm.gen /\ irm'.channels = op.desired.channels /\ irm'.bandwidth = irm.bandwidth
      BY <1>1, <2>1 DEF BusTyped
    <2>. QED BY <1>4, <2>2, <2>3
  <1>. QED BY <1>2, <1>3, <1>4 DEF Register

\* What a compare-swap that matched changes in the ledger, by stage.
Credited(o, l) ==
    /\ l \in Ledgers /\ l.others = ledger.others /\ l.abandoned = ledger.abandoned
    /\ l.uncertain = ledger.uncertain /\ l.gaveUp = ledger.gaveUp
    /\ \A c \in Channels \ {o.channel} : l.holder[c] = ledger.holder[c]
    /\ o.stage \in {"allocBandwidth", "releaseBandwidth"} => l.holder = ledger.holder
    /\ o.stage \in {"allocChannel", "rollback", "releaseChannel"} => l.ours = ledger.ours
    /\ o.stage \in {"allocChannel", "allocBandwidth"} => l.spoiled = ledger.spoiled
    /\ o.stage = "allocChannel" =>
          l.holder[o.channel] = IF ledger.holder[o.channel] = "free" THEN "ours" ELSE ledger.holder[o.channel]
    /\ o.stage = "allocBandwidth" => l.ours = ledger.ours + Units
    /\ o.stage = "releaseBandwidth" =>
          /\ l.ours = IF ledger.ours < Units THEN ledger.ours ELSE ledger.ours - Units
          /\ l.spoiled <=> ledger.spoiled \/ ledger.ours < Units
    /\ o.stage \in {"rollback", "releaseChannel"} =>
          /\ l.holder[o.channel] = IF ledger.holder[o.channel] = "ours" THEN "free" ELSE ledger.holder[o.channel]
          /\ l.spoiled <=> ledger.spoiled \/ ledger.holder[o.channel] = "others"

\* The ledger follows every stage.
LEMMA CreditOutcome ==
    ASSUME LedgerTyped, NEW o \in Ops, o.stage \notin Snap, o.channel \in Channels
    PROVE  Credited(o, Credit(o))
  <1>. DEFINE c == o.channel
              l == Credit(o)
  <1>0. ledger \in Ledgers /\ Units \in Nat /\ o.stage \in Stages /\ ledger.ours \in Nat
    BY ConstantsTyped DEF LedgerTyped, Ops, Ledgers
  <1>1. CASE o.stage = "allocChannel"
    <2>. DEFINE h == IF ledger.holder[c] = "free" THEN "ours" ELSE ledger.holder[c]
    <2>1. l = [ledger EXCEPT !.holder = [@ EXCEPT ![c] = h]]
      BY <1>1 DEF Credit
    <2>2. h \in {"free", "ours", "others"} /\ [ledger.holder EXCEPT ![c] = h] \in [Channels -> {"free", "ours", "others"}]
      BY <1>0 DEF Ledgers
    <2>. HIDE DEF h, l
    <2>3. l \in Ledgers /\ l.holder = [ledger.holder EXCEPT ![c] = h]
      BY <1>0, <2>1, <2>2 DEF Ledgers
    <2>4. l.others = ledger.others /\ l.ours = ledger.ours /\ l.abandoned = ledger.abandoned
      BY <1>0, <2>1 DEF Ledgers
    <2>5. l.uncertain = ledger.uncertain /\ l.gaveUp = ledger.gaveUp /\ l.spoiled = ledger.spoiled
      BY <1>0, <2>1 DEF Ledgers
    <2>6. l.holder[c] = h /\ \A d \in Channels \ {c} : l.holder[d] = ledger.holder[d]
      BY <1>0, <2>3 DEF Ledgers
    <2>. QED BY <1>1, <2>3, <2>4, <2>5, <2>6 DEF Credited, h, l
  <1>2. CASE o.stage = "allocBandwidth"
    <2>. DEFINE n == ledger.ours + Units
    <2>1. l = [ledger EXCEPT !.ours = n] /\ n \in Nat
      BY <1>0, <1>2 DEF Credit
    <2>. HIDE DEF n, l
    <2>2. l \in Ledgers /\ l.ours = n /\ l.holder = ledger.holder /\ l.others = ledger.others
      BY <1>0, <2>1 DEF Ledgers
    <2>3. l.abandoned = ledger.abandoned /\ l.uncertain = ledger.uncertain /\ l.gaveUp = ledger.gaveUp /\ l.spoiled = ledger.spoiled
      BY <1>0, <2>1 DEF Ledgers
    <2>. QED BY <1>2, <2>2, <2>3 DEF Credited, n, l
  <1>3. CASE o.stage = "releaseBandwidth"
    <2>. DEFINE n == IF ledger.ours < Units THEN ledger.ours ELSE ledger.ours - Units
                s == ledger.spoiled \/ ledger.ours < Units
    <2>1. l = [ledger EXCEPT !.ours = n, !.spoiled = s]
      BY <1>3 DEF Credit
    <2>0. n \in Nat /\ s \in BOOLEAN
      BY <1>0
    <2>. HIDE DEF n, s, l
    <2>2. l \in Ledgers /\ l.ours = n /\ l.holder = ledger.holder /\ l.others = ledger.others
      BY <1>0, <2>0, <2>1 DEF Ledgers
    <2>3. l.abandoned = ledger.abandoned /\ l.uncertain = ledger.uncertain /\ l.gaveUp = ledger.gaveUp
      BY <1>0, <2>1 DEF Ledgers
    <2>4. l.spoiled = s
      BY <1>0, <2>1 DEF Ledgers
    <2>. QED BY <1>3, <2>2, <2>3, <2>4 DEF Credited, n, s, l
  <1>4. CASE o.stage \in {"rollback", "releaseChannel"}
    <2>. DEFINE h == IF ledger.holder[c] = "ours" THEN "free" ELSE ledger.holder[c]
                s == ledger.spoiled \/ ledger.holder[c] = "others"
    <2>1. l = [ledger EXCEPT !.holder = [@ EXCEPT ![c] = h], !.spoiled = s]
      BY <1>4 DEF Credit
    <2>2. h \in {"free", "ours", "others"} /\ [ledger.holder EXCEPT ![c] = h] \in [Channels -> {"free", "ours", "others"}]
      BY <1>0 DEF Ledgers
    <2>0. s \in BOOLEAN
      OBVIOUS
    <2>. HIDE DEF h, l, s
    <2>3. l \in Ledgers /\ l.holder = [ledger.holder EXCEPT ![c] = h]
      BY <1>0, <2>0, <2>1, <2>2 DEF Ledgers
    <2>4. l.others = ledger.others /\ l.ours = ledger.ours /\ l.abandoned = ledger.abandoned
      BY <1>0, <2>1 DEF Ledgers
    <2>5. l.uncertain = ledger.uncertain /\ l.gaveUp = ledger.gaveUp
      BY <1>0, <2>1 DEF Ledgers
    <2>7. l.spoiled = s
      BY <1>0, <2>1 DEF Ledgers
    <2>6. l.holder[c] = h /\ \A d \in Channels \ {c} : l.holder[d] = ledger.holder[d]
      BY <1>0, <2>3 DEF Ledgers
    <2>. QED BY <1>4, <2>3, <2>4, <2>5, <2>6, <2>7 DEF Credited, h, l, s
  <1>. QED BY <1>0, <1>1, <1>2, <1>3, <1>4 DEF Stages, Snap

\* Only the flags of the ledger change when an operation gives up or a lock is
\* lost.
Flagged(l, uncertain, gaveUp) ==
    /\ l \in Ledgers /\ l.holder = ledger.holder /\ l.ours = ledger.ours
    /\ l.others = ledger.others /\ l.spoiled = ledger.spoiled /\ l.abandoned = ledger.abandoned
    /\ l.uncertain <=> ledger.uncertain \/ uncertain
    /\ l.gaveUp <=> ledger.gaveUp \/ gaveUp

Releasing(o) == o.stage \in {"rollback", "releaseBandwidth", "releaseChannel"}

\* GaveUp raises one flag.
LEMMA GaveUpFlag ==
    ASSUME LedgerTyped, NEW o, NEW s, s \notin {"Success", "GenerationMismatch"}
    PROVE  Flagged(GaveUp(o, s), FALSE, Releasing(o))
  <1>. DEFINE f == ledger.gaveUp \/ (/\ o.stage \in {"rollback", "releaseBandwidth", "releaseChannel"}
                                     /\ s \notin {"Success", "GenerationMismatch"})
              l == GaveUp(o, s)
  <1>1. l = [ledger EXCEPT !.gaveUp = f]
    BY DEF GaveUp
  <1>2. f \in BOOLEAN /\ (f <=> ledger.gaveUp \/ Releasing(o))
    BY DEF Releasing
  <1>. HIDE DEF f, l
  <1>3. l \in Ledgers /\ l.holder = ledger.holder /\ l.ours = ledger.ours /\ l.others = ledger.others
    BY <1>1, <1>2 DEF LedgerTyped, Ledgers
  <1>4. l.spoiled = ledger.spoiled /\ l.uncertain = ledger.uncertain /\ l.abandoned = ledger.abandoned
    BY <1>1 DEF LedgerTyped, Ledgers
  <1>5. l.gaveUp = f
    BY <1>1 DEF LedgerTyped, Ledgers
  <1>. QED BY <1>2, <1>3, <1>4, <1>5 DEF Flagged, l

\* A response raises it when the last try failed.
LEMMA RespondFlags ==
    ASSUME LedgerTyped, Respond
    PROVE  Flagged(ledger', FALSE, Releasing(op) /\ LastTry(op))
  <1>1. CASE LastTry(op)
    BY <1>1, GaveUpFlag DEF Respond, Flagged
  <1>2. CASE ~LastTry(op)
    BY <1>2 DEF Respond, Flagged, LedgerTyped
  <1>. QED BY <1>1, <1>2

\* A timeout raises it when there are no retries left, an error at once, and
\* either raises the other one when the client is left in doubt.
LEMMA TimeoutFlags ==
    ASSUME LedgerTyped, Timeout
    PROVE  \E e \in BOOLEAN :
              /\ op' = IF e THEN OnError(bus, op) ELSE OnTimeout(bus, op)
              /\ Flagged(ledger', Unknown(op), Releasing(op) /\ (e \/ op.timeouts = 0))
  <1>0. PICK e \in BOOLEAN :
          /\ op' = IF e THEN OnError(bus, op) ELSE OnTimeout(bus, op)
          /\ ledger' = LET l == IF e \/ op.timeouts = 0 THEN GaveUp(op, "Timeout") ELSE ledger
                       IN  [l EXCEPT !.uncertain = @ \/ Unknown(op)]
    BY DEF Timeout
  <1>. DEFINE l == IF e \/ op.timeouts = 0 THEN GaveUp(op, "Timeout") ELSE ledger
              u == l.uncertain \/ Unknown(op)
  <1>1. Flagged(l, FALSE, Releasing(op) /\ (e \/ op.timeouts = 0))
    <2>1. CASE e \/ op.timeouts = 0
      BY <2>1, GaveUpFlag DEF Flagged
    <2>2. CASE ~(e \/ op.timeouts = 0)
      BY <2>2 DEF Flagged, LedgerTyped
    <2>. QED BY <2>1, <2>2
  <1>2. ledger' = [l EXCEPT !.uncertain = u]
    BY <1>0
  <1>3. l \in Ledgers /\ u \in BOOLEAN
    BY <1>1 DEF Flagged
  <1>. HIDE DEF l, u
  <1>4. /\ ledger' \in Ledgers /\ ledger'.holder = l.holder /\ ledger'.ours = l.ours
        /\ ledger'.others = l.others
    BY <1>2, <1>3 DEF Ledgers
  <1>5. ledger'.spoiled = l.spoiled /\ ledger'.gaveUp = l.gaveUp /\ ledger'.abandoned = l.abandoned
    BY <1>2, <1>3 DEF Ledgers
  <1>6. ledger'.uncertain = u
    BY <1>2, <1>3 DEF Ledgers
  <1>7. u <=> ledger.uncertain \/ Unknown(op)
    BY <1>1 DEF Flagged, u
  <1>8. Flagged(ledger', Unknown(op), Releasing(op) /\ (e \/ op.timeouts = 0))
    BY <1>1, <1>4, <1>5, <1>6, <1>7 DEF Flagged
  <1>. QED BY <1>0, <1>8

-----------------------------------------------------------------------------
(* The owner's requests *)

\* An operation that has not begun.
LEMMA NoOpTyped ==
    /\ NoOp \in Ops /\ NoOp.stage = "snapBandwidth" /\ NoOp.result = "none" /\ NoOp.req = "none"
    /\ NoOp.gen = 0 /\ ~NoOp.applied
  <1>1. Fresh \in Registers
    BY ConstantsTyped DEF Fresh, Registers
  <1>2. 0 \in 0..MaxRetries /\ 0 \in 0..MaxTimeoutRetries /\ NoValue \in 0..NoValue /\ 0 \in 0..MaxResets
    BY ConstantsTyped
  <1>3. "Success" \in Statuses /\ "snapBandwidth" \in Stages
    BY DEF Statuses, Stages
  <1>4. NoOp \in Ops
    BY <1>1, <1>2, <1>3 DEF NoOp, Ops
  <1>. QED BY <1>4 DEF NoOp

\* An operation about channel c, in an entry of generation g, begins.
Begins(p, c, g, stage) ==
    \/ /\ client.node /\ p \in Ops /\ p.stage = stage /\ p.channel = c /\ p.gen = g
       /\ p.result = "none" /\ ~p.applied /\ p.unanswered = NoValue
       /\ p.req = IF client.gen # bus.gen THEN "stale" ELSE IF bus.phase = "closed" THEN "none" ELSE "read"
    \/ /\ ~client.node /\ p \in Ops /\ p.stage = "snapBandwidth" /\ p.channel = c /\ p.gen = g
       /\ p.result = "NotFound" /\ p.req = "none" /\ ~p.applied

\* A snapshot begins.
LEMMA ReadBegins == Begins(ReadIRMWindow(bus), NoOp.channel, 0, "snapBandwidth")
  <1>1. CASE client.node
    <2>1. ReadIRMWindow(bus) = Issue(bus, NoOp, "read")
      BY <1>1 DEF ReadIRMWindow
    <2>2. NoOp.unanswered = NoValue
      BY DEF NoOp
    <2>. QED BY <1>1, <2>1, <2>2, NoOpTyped, IssueFields DEF Begins
  <1>2. CASE ~client.node
    <2>1. ReadIRMWindow(bus) = Done(NoOp, "NotFound")
      BY <1>2 DEF ReadIRMWindow
    <2>2. Ended(NoOp, Done(NoOp, "NotFound"), "NotFound")
      BY NoOpTyped, DoneEnds DEF Statuses
    <2>3. ~Done(NoOp, "NotFound").applied
      BY DEF Done, NoOp
    <2>. QED BY <1>2, <2>1, <2>2, <2>3, NoOpTyped DEF Begins, Ended, Keeps
  <1>. QED BY <1>1, <1>2

\* An operation on one channel begins.
LEMMA LockBegins ==
    ASSUME NEW o \in Ops, o.stage = "snapBandwidth", o.result = "none", ~o.applied,
           NEW stage \in Stages
    PROVE  Begins(IF client.node THEN PerformLock(bus, o, stage) ELSE Done(o, "NotFound"),
                  o.channel, o.gen, stage)
  <1>1. ~Done(o, "NotFound").applied
    BY DEF Done, Ops
  <1>2. Ended(o, Done(o, "NotFound"), "NotFound")
    BY DoneEnds DEF Statuses
  <1>3. Locks(bus, o, PerformLock(bus, o, stage), stage)
    BY PerformLockAsks
  <1>4. client.node => Begins(PerformLock(bus, o, stage), o.channel, o.gen, stage)
    BY <1>3 DEF Locks, Asked, Keeps, Begins
  <1>5. ~client.node => Begins(Done(o, "NotFound"), o.channel, o.gen, stage)
    BY <1>1, <1>2 DEF Ended, Keeps, Begins
  <1>. QED BY <1>4, <1>5

\* An allocation begins.
LEMMA AllocateBegins ==
    ASSUME NEW c \in Nat
    PROVE  Begins(AllocateResources(bus, c), c, 0, "allocChannel")
  <1>. DEFINE o == [NoOp EXCEPT !.channel = c]
  <1>1. o \in Ops
    BY NoOpTyped DEF Ops
  <1>2. o.channel = c /\ o.gen = 0 /\ o.stage = "snapBandwidth" /\ o.result = "none"
    BY NoOpTyped DEF Ops
  <1>3. ~o.applied
    BY NoOpTyped DEF Ops
  <1>4. AllocateResources(bus, c) = IF client.node THEN PerformLock(bus, o, "allocChannel") ELSE Done(o, "NotFound")
    BY DEF AllocateResources
  <1>. HIDE DEF o
  <1>. QED BY <1>1, <1>2, <1>3, <1>4, LockBegins DEF Stages

\* A release begins.
LEMMA ReleaseBegins ==
    ASSUME NEW e \in Reservation
    PROVE  Begins(ReleaseResources(bus, e), e.channel, e.gen, "releaseBandwidth")
  <1>. DEFINE o == [NoOp EXCEPT !.channel = e.channel, !.gen = e.gen]
  <1>0. e.channel \in Nat /\ e.gen \in 0..MaxResets
    BY ConstantsTyped DEF Reservation
  <1>1. o \in Ops
    BY <1>0, NoOpTyped DEF Ops
  <1>2. o.channel = e.channel /\ o.gen = e.gen /\ o.stage = "snapBandwidth" /\ o.result = "none"
    BY NoOpTyped DEF Ops
  <1>3. ~o.applied
    BY NoOpTyped DEF Ops
  <1>4. ReleaseResources(bus, e) = IF client.node THEN PerformLock(bus, o, "releaseBandwidth") ELSE Done(o, "NotFound")
    BY DEF ReleaseResources
  <1>. HIDE DEF o
  <1>. QED BY <1>1, <1>2, <1>3, <1>4, LockBegins DEF Stages

\* The lowest of some channels is one of them.
LEMMA LeastChannel ==
    ASSUME NEW S, S \subseteq Channels, S # {}
    PROVE  Min(S) \in S
  <1>1. S \subseteq Nat
    BY ConstantsTyped
  <1>2. PICK n \in S : \A m \in S : ~(<<m, n>> \in OpToRel(<, Nat))
    BY <1>1, NatLessThanWellFounded, WFMin
  <1>a. \A m \in S : ~(m < n)
    BY <1>1, <1>2 DEF OpToRel
  <1>3. \E k \in S : \A m \in S : k <= m
    BY <1>1, <1>a
  <1>. QED BY <1>3 DEF Min

-----------------------------------------------------------------------------
(* Type correctness *)

\* What the client does for the owner's thread.
Where ==
    /\ stream.pc \in {"idle", "releaseAll"} => op = NoOp
    /\ stream.pc = "snapshot" => op.stage \in Snap
    /\ stream.pc = "allocate" =>
          op.stage \in AllocStages \/ (op.stage \in Snap /\ op.result = "NotFound")
    /\ stream.pc = "releasing" =>
          op.stage \in Releases \/ (op.stage \in Snap /\ op.result = "NotFound")

Typed == BusTyped /\ OpTyped /\ StreamTyped /\ LedgerTyped /\ Where /\ LockShape

\* The first state is well typed.
LEMMA TypedInit == Init => Typed
  <1>. SUFFICES ASSUME Init PROVE Typed
    OBVIOUS
  <1>1. BusTyped
    BY ConstantsTyped DEF Init, BusTyped
  <1>2. OpTyped
    BY NoOpTyped DEF Init, OpTyped, Snap
  <1>3. StreamTyped
    BY ConstantsTyped DEF Init, StreamTyped
  <1>4. LedgerTyped
    BY DEF Init, LedgerTyped, Ledgers, EmptyLedger, Unused
  <1>5. Where /\ LockShape
    BY NoOpTyped DEF Init, Where, LockShape
  <1>. QED BY <1>1, <1>2, <1>3, <1>4, <1>5 DEF Typed

\* A handler keeps the types and what the client does for the owner.
LEMMA HandledTyped ==
    ASSUME Typed, op.result = "none", Handled(op, op'), UNCHANGED stream, stream.pc \notin {"idle", "releaseAll"}
    PROVE  OpTyped' /\ StreamTyped' /\ Where'
  <1>1. OpTyped'
    BY DEF Typed, OpTyped, Handled, Keeps, Snap, AllocStages, Releases, Ops, Stages
  <1>2. StreamTyped'
    BY DEF Typed, StreamTyped
  <1>3. Where'
    BY DEF Typed, Where, Handled, Snap, AllocStages, Releases
  <1>. QED BY <1>1, <1>2, <1>3

\* A request is outstanding only while the owner waits for it.
LEMMA RequestIsAwaited ==
    ASSUME Typed, op.req # "none"
    PROVE  op.result = "none" /\ stream.pc \notin {"idle", "releaseAll"}
  BY NoOpTyped DEF Typed, OpTyped, Where

\* What follows a lock is again of the shape of a lock, if it is one.
LEMMA AnswersShaped ==
    ASSUME NEW b, NEW o, NEW p, Answers(b, o, p) \/ TimesOut(b, o, p) \/ (\E s \in Statuses : Ends(b, o, p, s)),
           o \in Ops
    PROVE  p.req = "lock" => LockShaped(p)
  <1>1. ASSUME NEW s, Ended(o, p, s) PROVE p.req # "lock"
    BY <1>1 DEF Ended
  <1>2. ASSUME NEW st, Asked(b, o, p, st) PROVE p.req # "lock"
    BY <1>2 DEF Asked
  <1>3. ASSUME NEW s, Ends(b, o, p, s) PROVE p.req # "lock"
    <2>1. o.stage \in Stages
      BY DEF Ops
    <2>. QED BY <1>1, <1>2, <1>3, <2>1 DEF Ends, Locks, Stages, Snap
  <1>4. ASSUME Swaps(b, o, p) PROVE LockShaped(p)
    BY <1>4 DEF Swaps
  <1>. QED BY <1>1, <1>2, <1>3, <1>4 DEF Answers, TimesOut

\* What an owner's request begins is well typed.
LEMMA BeginsTyped ==
    ASSUME NEW c, NEW g, NEW stage, Begins(op', c, g, stage), stage \notin Snap => c \in Channels
    PROVE  OpTyped' /\ LockShape' /\ (op'.stage = stage \/ (op'.stage \in Snap /\ op'.result = "NotFound"))
  BY DEF Begins, OpTyped, LockShape, Snap

\* An entry ready to be recorded.
LEMMA EntryTyped ==
    ASSUME Typed, op.stage \notin Snap
    PROVE  Entry \in Reservation
  BY DEF Typed, OpTyped, Ops, Entry, Reservation

\* The entries, when the last one is dropped or one is added.
LEMMA EntriesChange ==
    ASSUME NEW s \in Seq(Reservation)
    PROVE  /\ s # <<>> => /\ Front(s) \in Seq(Reservation) /\ Len(Front(s)) = Len(s) - 1
                          /\ \A i \in 1..(Len(s) - 1) : Front(s)[i] = s[i]
                          /\ Last(s) \in Reservation /\ Last(s) = s[Len(s)] /\ Len(s) \in 1..Len(s)
           /\ \A e \in Reservation :
                 /\ Append(s, e) \in Seq(Reservation) /\ Len(Append(s, e)) = Len(s) + 1
                 /\ \A i \in 1..Len(s) : Append(s, e)[i] = s[i]
                 /\ Append(s, e)[Len(s) + 1] = e
           /\ Len(s) \in Nat
  <1>1. Len(s) \in Nat
    OBVIOUS
  <1>2. ASSUME s # <<>>
        PROVE  /\ Front(s) \in Seq(Reservation) /\ Len(Front(s)) = Len(s) - 1
               /\ \A i \in 1..(Len(s) - 1) : Front(s)[i] = s[i]
               /\ Last(s) \in Reservation /\ Last(s) = s[Len(s)] /\ Len(s) \in 1..Len(s)
    <2>1. Len(s) \in 1..Len(s)
      BY <1>2
    <2>2. Last(s) = s[Len(s)] /\ Last(s) \in Reservation
      BY <2>1 DEF Last
    <2>. DEFINE n == Len(s) - 1
    <2>0. n \in Nat /\ 1 \in Int /\ n \in Int /\ \A i \in 1..n : s[i] \in Reservation
      BY <1>1, <2>1
    <2>a. Front(s) = SubSeq(s, 1, n)
      BY DEF Front
    <2>. HIDE DEF n
    <2>b. SubSeq(s, 1, n) \in Seq(Reservation)
      BY <2>0, SubSeqProperties
    <2>c. Len(SubSeq(s, 1, n)) = IF 1 <= n THEN n - 1 + 1 ELSE 0
      BY <2>0, SubSeqProperties
    <2>3. Front(s) \in Seq(Reservation) /\ Len(Front(s)) = n
      BY <2>0, <2>a, <2>b, <2>c
    <2>4. \A i \in 1..n : Front(s)[i] = s[i]
      BY <2>0, <2>a DEF n
    <2>. USE DEF n
    <2>. QED BY <2>1, <2>2, <2>3, <2>4
  <1>3. ASSUME NEW e \in Reservation
        PROVE  /\ Append(s, e) \in Seq(Reservation) /\ Len(Append(s, e)) = Len(s) + 1
               /\ \A i \in 1..Len(s) : Append(s, e)[i] = s[i]
               /\ Append(s, e)[Len(s) + 1] = e
    BY <1>1
  <1>. QED BY <1>1, <1>2, <1>3

\* What other initiators can do.
ForeignChange ==
    /\ irm' \in [gen : 0..MaxResets, channels : SUBSET Channels, bandwidth : 0..MaxUnits]
    /\ irm'.gen = irm.gen /\ ledger' \in Ledgers /\ ledger'.ours = ledger.ours
    /\ ledger'.spoiled = ledger.spoiled /\ ledger'.uncertain = ledger.uncertain
    /\ ledger'.gaveUp = ledger.gaveUp /\ ledger'.abandoned = ledger.abandoned
    /\ \/ /\ irm'.bandwidth = irm.bandwidth /\ ledger'.others = ledger.others
          /\ \E c \in Channels :
                \/ /\ c \in irm.channels /\ irm'.channels = irm.channels \ {c}
                   /\ ledger'.holder = [ledger.holder EXCEPT ![c] = "others"]
                \/ /\ ledger.holder[c] = "others" /\ irm'.channels = irm.channels \cup {c}
                   /\ ledger'.holder = [ledger.holder EXCEPT ![c] = "free"]
       \/ /\ irm'.channels = irm.channels /\ ledger'.holder = ledger.holder
          /\ irm'.bandwidth + ledger'.others = irm.bandwidth + ledger.others

\* They take what is free and give back what is theirs.
LEMMA ForeignOutcome ==
    ASSUME BusTyped, LedgerTyped, Foreign
    PROVE  ForeignChange
  <1>0. irm \in [gen : 0..MaxResets, channels : SUBSET Channels, bandwidth : 0..MaxUnits] /\ ledger \in Ledgers
        /\ Units \in Nat /\ MaxUnits \in Nat
    BY ConstantsTyped DEF BusTyped, LedgerTyped
  <1>a. ASSUME NEW S \in SUBSET Channels, irm' = [irm EXCEPT !.channels = S]
        PROVE  /\ irm' \in [gen : 0..MaxResets, channels : SUBSET Channels, bandwidth : 0..MaxUnits]
               /\ irm'.gen = irm.gen /\ irm'.channels = S /\ irm'.bandwidth = irm.bandwidth
    BY <1>0, <1>a
  <1>b. ASSUME NEW n \in 0..MaxUnits, irm' = [irm EXCEPT !.bandwidth = n]
        PROVE  /\ irm' \in [gen : 0..MaxResets, channels : SUBSET Channels, bandwidth : 0..MaxUnits]
               /\ irm'.gen = irm.gen /\ irm'.channels = irm.channels /\ irm'.bandwidth = n
    BY <1>0, <1>b
  <1>c. ASSUME NEW c \in Channels, NEW h \in {"free", "others"}, ledger' = [ledger EXCEPT !.holder[c] = h]
        PROVE  /\ ledger' \in Ledgers /\ ledger'.holder = [ledger.holder EXCEPT ![c] = h]
               /\ ledger'.ours = ledger.ours /\ ledger'.others = ledger.others
               /\ ledger'.spoiled = ledger.spoiled /\ ledger'.uncertain = ledger.uncertain
               /\ ledger'.gaveUp = ledger.gaveUp /\ ledger'.abandoned = ledger.abandoned
    <2>. DEFINE k == [ledger.holder EXCEPT ![c] = h]
    <2>1. k \in [Channels -> {"free", "ours", "others"}]
      BY <1>0 DEF Ledgers
    <2>2. ledger' = [ledger EXCEPT !.holder = k]
      BY <1>c
    <2>. HIDE DEF k
    <2>3. ledger' \in Ledgers /\ ledger'.holder = k
      BY <1>0, <2>1, <2>2 DEF Ledgers
    <2>4. ledger'.ours = ledger.ours /\ ledger'.others = ledger.others /\ ledger'.abandoned = ledger.abandoned
      BY <1>0, <2>2 DEF Ledgers
    <2>5. ledger'.spoiled = ledger.spoiled /\ ledger'.uncertain = ledger.uncertain /\ ledger'.gaveUp = ledger.gaveUp
      BY <1>0, <2>2 DEF Ledgers
    <2>. QED BY <2>3, <2>4, <2>5 DEF k
  <1>d. ASSUME NEW n \in Nat, ledger' = [ledger EXCEPT !.others = n]
        PROVE  /\ ledger' \in Ledgers /\ ledger'.holder = ledger.holder
               /\ ledger'.ours = ledger.ours /\ ledger'.others = n
               /\ ledger'.spoiled = ledger.spoiled /\ ledger'.uncertain = ledger.uncertain
               /\ ledger'.gaveUp = ledger.gaveUp /\ ledger'.abandoned = ledger.abandoned
    <2>3. ledger' \in Ledgers /\ ledger'.holder = ledger.holder /\ ledger'.ours = ledger.ours /\ ledger'.others = n
      BY <1>0, <1>d DEF Ledgers
    <2>5. ledger'.spoiled = ledger.spoiled /\ ledger'.uncertain = ledger.uncertain /\ ledger'.gaveUp = ledger.gaveUp
      BY <1>0, <1>d DEF Ledgers
    <2>6. ledger'.abandoned = ledger.abandoned
      BY <1>0, <1>d DEF Ledgers
    <2>. QED BY <2>3, <2>5, <2>6
  <1>1. ASSUME NEW c \in irm.channels, irm' = [irm EXCEPT !.channels = irm.channels \ {c}],
               ledger' = [ledger EXCEPT !.holder[c] = "others"]
        PROVE  ForeignChange
    <2>1. c \in Channels /\ irm.channels \ {c} \in SUBSET Channels
      BY <1>0
    <2>. QED BY <1>1, <2>1, <1>a, <1>c DEF ForeignChange
  <1>2. ASSUME NEW c \in Channels, ledger.holder[c] = "others", irm' = [irm EXCEPT !.channels = irm.channels \cup {c}],
               ledger' = [ledger EXCEPT !.holder[c] = "free"]
        PROVE  ForeignChange
    <2>1. irm.channels \cup {c} \in SUBSET Channels
      BY <1>0
    <2>. QED BY <1>2, <2>1, <1>a, <1>c DEF ForeignChange
  <1>3. ASSUME irm.bandwidth >= Units, irm' = [irm EXCEPT !.bandwidth = irm.bandwidth - Units],
               ledger' = [ledger EXCEPT !.others = ledger.others + Units]
        PROVE  ForeignChange
    <2>1. irm.bandwidth - Units \in 0..MaxUnits /\ ledger.others + Units \in Nat /\ irm.bandwidth \in Nat /\ ledger.others \in Nat
      BY <1>0, <1>3 DEF Ledgers
    <2>2. irm.bandwidth - Units + (ledger.others + Units) = irm.bandwidth + ledger.others
      BY <1>0, <2>1
    <2>. QED BY <1>3, <2>1, <2>2, <1>b, <1>d DEF ForeignChange
  <1>4. ASSUME ledger.others >= Units, irm.bandwidth + Units <= MaxUnits,
               irm' = [irm EXCEPT !.bandwidth = irm.bandwidth + Units],
               ledger' = [ledger EXCEPT !.others = ledger.others - Units]
        PROVE  ForeignChange
    <2>1. irm.bandwidth + Units \in 0..MaxUnits /\ ledger.others - Units \in Nat /\ irm.bandwidth \in Nat /\ ledger.others \in Nat
      BY <1>0, <1>4 DEF Ledgers
    <2>2. irm.bandwidth + Units + (ledger.others - Units) = irm.bandwidth + ledger.others
      BY <1>0, <2>1
    <2>. QED BY <1>4, <2>1, <2>2, <1>b, <1>d DEF ForeignChange
  <1>. QED BY <1>1, <1>2, <1>3, <1>4 DEF Foreign

\* What the ledger calls abandoned grows by channels.
Abandons(l, S) ==
    /\ l \in Ledgers /\ l.abandoned = ledger.abandoned \cup S
    /\ l.holder = ledger.holder /\ l.ours = ledger.ours /\ l.others = ledger.others
    /\ l.spoiled = ledger.spoiled /\ l.uncertain = ledger.uncertain /\ l.gaveUp = ledger.gaveUp

\* Nothing else of the ledger changes when entries are dropped.
LEMMA AbandonedChannels ==
    ASSUME StreamTyped, LedgerTyped
    PROVE  Abandons([ledger EXCEPT !.abandoned = @ \cup {e.channel : e \in Current}], {e.channel : e \in Current})
  <1>1. \A e \in Current : e.channel \in Channels
    <2>1. \A i \in 1..Len(stream.entries) : stream.entries[i] \in Reservation
      BY DEF StreamTyped
    <2>. QED BY <2>1 DEF Current, Entries, Reservation
  <1>. DEFINE S == ledger.abandoned \cup {e.channel : e \in Current}
              l == [ledger EXCEPT !.abandoned = S]
  <1>2. S \in SUBSET Channels
    BY <1>1 DEF LedgerTyped, Ledgers
  <1>. HIDE DEF S
  <1>3. l \in Ledgers /\ l.abandoned = S
    BY <1>2 DEF LedgerTyped, Ledgers
  <1>4. l.holder = ledger.holder /\ l.ours = ledger.ours /\ l.others = ledger.others
    BY DEF LedgerTyped, Ledgers
  <1>5. l.spoiled = ledger.spoiled /\ l.uncertain = ledger.uncertain /\ l.gaveUp = ledger.gaveUp
    BY DEF LedgerTyped, Ledgers
  <1>. QED BY <1>3, <1>4, <1>5 DEF Abandons, S

\* The driver's steps keep the types.
LEMMA TypedDriver ==
    ASSUME Typed, Driver \/ Deliver \/ Timeout \/ BusReset
    PROVE  Typed'
  <1>0. BusTyped /\ OpTyped /\ StreamTyped /\ LedgerTyped /\ Where /\ LockShape /\ op \in Ops
    BY DEF Typed, OpTyped
  <1>1. CASE Respond
    <2>1. op.result = "none" /\ stream.pc \notin {"idle", "releaseAll"} /\ UNCHANGED <<irm, bus, client, stream, spent>>
      BY <1>1, RequestIsAwaited DEF Respond
    <2>2. Answers(bus, op, op')
      BY <1>0, <1>1, RespondAnswers
    <2>3. OpTyped' /\ StreamTyped' /\ Where'
      BY <1>0, <2>1, <2>2, AnswersHandled, HandledTyped
    <2>4. LockShape'
      BY <1>0, <2>2, AnswersShaped DEF LockShape
    <2>5. LedgerTyped'
      BY <1>0, <1>1, RespondFlags DEF Flagged, LedgerTyped
    <2>. QED BY <1>0, <2>1, <2>3, <2>4, <2>5 DEF Typed, BusTyped
  <1>2. CASE Timeout
    <2>1. op.result = "none" /\ stream.pc \notin {"idle", "releaseAll"} /\ UNCHANGED <<irm, bus, client, stream>>
      BY <1>2, RequestIsAwaited DEF Timeout
    <2>2. TimesOut(bus, op, op')
      BY <1>0, <1>2, TimeoutTimesOut
    <2>3. OpTyped' /\ StreamTyped' /\ Where'
      BY <1>0, <2>1, <2>2, TimesOutHandled, HandledTyped
    <2>4. LockShape'
      BY <1>0, <2>2, AnswersShaped DEF LockShape
    <2>5. LedgerTyped'
      BY <1>0, <1>2, TimeoutFlags DEF Flagged, LedgerTyped
    <2>6. BusTyped'
      <3>1. spent' = [spent EXCEPT !.losses = spent.losses + 1] /\ spent.losses < MaxLosses
        BY <1>2 DEF Timeout
      <3>2. spent' \in [resets : 0..MaxResets, losses : 0..MaxLosses, foreign : 0..MaxForeign] /\ spent'.resets = spent.resets
        BY <1>0, <3>1, ConstantsTyped DEF BusTyped
      <3>. QED BY <1>0, <2>1, <3>2 DEF BusTyped
    <2>. QED BY <2>3, <2>4, <2>5, <2>6 DEF Typed
  <1>3. CASE Stale
    <2>1. op.result = "none" /\ stream.pc \notin {"idle", "releaseAll"} /\ UNCHANGED <<irm, bus, client, stream, ledger, spent>>
      BY <1>3, RequestIsAwaited DEF Stale
    <2>2. Ends(bus, op, op', "GenerationMismatch") /\ "GenerationMismatch" \in Statuses
      BY <1>0, <1>3, FinishedEnds DEF Stale, Statuses
    <2>3. OpTyped' /\ StreamTyped' /\ Where'
      BY <1>0, <2>1, <2>2, EndsHandled, HandledTyped
    <2>4. LockShape'
      BY <1>0, <2>2, AnswersShaped DEF LockShape
    <2>. QED BY <1>0, <2>1, <2>3, <2>4 DEF Typed, BusTyped, LedgerTyped
  <1>4. CASE OnBusResetBegin
    <2>0. bus' = [bus EXCEPT !.phase = "closed"] /\ UNCHANGED <<irm, client, stream, ledger, spent>>
      BY <1>4 DEF OnBusResetBegin
    <2>1. BusTyped' /\ LedgerTyped'
      BY <1>0, <2>0 DEF BusTyped, LedgerTyped
    <2>2. CASE op.req \in {"read", "lock"}
      <3>1. op.result = "none" /\ stream.pc \notin {"idle", "releaseAll"}
        BY <2>2, RequestIsAwaited
      <3>2. Ends(bus', op, op', "Failed") /\ "Failed" \in Statuses
        BY <1>0, <1>4, <2>2, FinishedEnds DEF OnBusResetBegin, Statuses
      <3>3. OpTyped' /\ StreamTyped' /\ Where'
        BY <1>0, <2>0, <3>1, <3>2, EndsHandled, HandledTyped
      <3>4. LockShape'
        BY <1>0, <3>2, AnswersShaped DEF LockShape
      <3>. QED BY <2>1, <3>3, <3>4 DEF Typed
    <2>3. CASE op.req \notin {"read", "lock"}
      <3>1. op' = op
        BY <1>4, <2>3 DEF OnBusResetBegin
      <3>. QED BY <1>0, <2>0, <2>1, <3>1 DEF Typed, OpTyped, StreamTyped, Where, LockShape
    <2>. QED BY <2>2, <2>3
  <1>5. CASE ConfirmBusGeneration \/ OnBusResetComplete \/ SetIRMNode
    <2>1. UNCHANGED <<irm, op, stream, ledger, spent>>
      BY <1>5 DEF ConfirmBusGeneration, OnBusResetComplete, SetIRMNode
    <2>2. BusTyped'
      <3>1. CASE ConfirmBusGeneration
        <4>1. PICK decoded \in BOOLEAN :
                bus' = [gen |-> IF decoded THEN irm.gen ELSE bus.gen, phase |-> "confirmed", seen |-> irm.gen]
          BY <3>1 DEF ConfirmBusGeneration
        <4>2. client' = client
          BY <3>1 DEF ConfirmBusGeneration
        <4>. QED BY <1>0, <2>1, <4>1, <4>2 DEF BusTyped
      <3>2. CASE OnBusResetComplete
        BY <1>0, <2>1, <3>2 DEF OnBusResetComplete, BusTyped
      <3>3. CASE SetIRMNode
        BY <1>0, <2>1, <3>3 DEF SetIRMNode, BusTyped
      <3>. QED BY <1>5, <3>1, <3>2, <3>3
    <2>. QED BY <1>0, <2>1, <2>2 DEF Typed, OpTyped, StreamTyped, LedgerTyped, Where, LockShape
  <1>6. CASE Deliver
    <2>1. Delivered(op, op', irm.gen) /\ UNCHANGED <<bus, client, stream, spent>>
      BY <1>0, <1>6, DeliverOutcome DEF Deliver
    <2>2. BusTyped'
      BY <1>0, <1>6, <2>1, DeliverIRM DEF BusTyped
    <2>3. OpTyped' /\ LockShape'
      BY <1>0, <2>1 DEF Delivered, OpTyped, LockShape, LockShaped
    <2>4. StreamTyped'
      BY <1>0, <2>1 DEF StreamTyped
    <2>5. Where'
      <3>1. stream.pc \notin {"idle", "releaseAll"}
        BY <1>6, RequestIsAwaited DEF Deliver
      <3>. QED BY <1>0, <2>1, <3>1 DEF Where, Delivered
    <2>6. LedgerTyped'
      <3>1. CASE op.req = "lock" /\ Matches
        <4>1. op.stage \notin Snap /\ op.channel \in Channels
          BY <1>0, <3>1 DEF LockShape, LockShaped, OpTyped
        <4>2. ledger' = Credit(op)
          BY <1>6, <3>1 DEF Deliver
        <4>. QED BY <1>0, <4>1, <4>2, CreditOutcome DEF Credited, LedgerTyped
      <3>2. CASE ~(op.req = "lock" /\ Matches)
        BY <1>0, <1>6, <3>2, DeliverIRM DEF LedgerTyped
      <3>. QED BY <3>1, <3>2
    <2>. QED BY <2>2, <2>3, <2>4, <2>5, <2>6 DEF Typed
  <1>7. CASE BusReset
    <2>1. UNCHANGED <<bus, client, op, stream>>
      BY <1>7 DEF BusReset
    <2>2. LedgerTyped'
      BY <1>7 DEF BusReset, LedgerTyped, Ledgers, EmptyLedger, Unused
    <2>3. spent' = [spent EXCEPT !.resets = spent.resets + 1] /\ spent.resets < MaxResets
      BY <1>7 DEF BusReset
    <2>4. spent' \in [resets : 0..MaxResets, losses : 0..MaxLosses, foreign : 0..MaxForeign] /\ spent'.resets = spent.resets + 1
      BY <1>0, <2>3, ConstantsTyped DEF BusTyped
    <2>5. irm' = [gen |-> spent.resets + 1, channels |-> Channels, bandwidth |-> MaxUnits]
      BY <1>0, <1>7 DEF BusReset, BusTyped
    <2>6. BusTyped'
      BY <1>0, <2>1, <2>4, <2>5, ConstantsTyped DEF BusTyped
    <2>. QED BY <1>0, <2>1, <2>2, <2>6 DEF Typed, OpTyped, StreamTyped, Where, LockShape
  <1>. QED BY <1>1, <1>2, <1>3, <1>4, <1>5, <1>6, <1>7 DEF Driver

\* So do the steps of the owner and of others.
LEMMA TypedOwner ==
    ASSUME Typed, Owner \/ ReserveAny \/ ReleaseAll \/ InvalidateAfterGenerationChange \/ Foreign
    PROVE  Typed'
  <1>0. BusTyped /\ OpTyped /\ StreamTyped /\ LedgerTyped /\ Where /\ LockShape /\ op \in Ops
    BY DEF Typed, OpTyped
  <1>1. /\ stream \in [pc : {"idle", "snapshot", "allocate", "releaseAll", "releasing"},
                       entries : Seq(Reservation), candidates : SUBSET Channels]
        /\ Len(stream.entries) \in Nat /\ MaxStreams \in Nat
    BY <1>0, ConstantsTyped DEF StreamTyped
  <1>a. ASSUME UNCHANGED <<irm, bus, client, spent>> PROVE BusTyped'
    BY <1>0, <1>a DEF BusTyped
  <1>b. ASSUME UNCHANGED ledger PROVE LedgerTyped'
    BY <1>0, <1>b DEF LedgerTyped
  <1>c. ASSUME op' = NoOp PROVE OpTyped' /\ LockShape'
    BY <1>c, NoOpTyped DEF OpTyped, LockShape, Snap
  <1>2. CASE SnapshotDone
    <2>. DEFINE free == stream.candidates \cap op.value.channels
    <2>1. UNCHANGED <<irm, bus, client, ledger, spent>> /\ stream.pc = "snapshot"
      BY <1>2 DEF SnapshotDone
    <2>2. CASE op.result # "Success" \/ op.value.bandwidth < Units \/ free = {}
      <3>1. op' = NoOp /\ stream' = [stream EXCEPT !.pc = "releaseAll"]
        BY <1>2, <2>2 DEF SnapshotDone, Fail
      <3>2. StreamTyped' /\ Where'
        BY <1>0, <1>1, <3>1 DEF StreamTyped, Where
      <3>. QED BY <1>a, <1>b, <1>c, <2>1, <3>1, <3>2 DEF Typed
    <2>3. CASE ~(op.result # "Success" \/ op.value.bandwidth < Units \/ free = {})
      <3>. DEFINE c == Min(free)
      <3>1. c \in Channels
        BY <1>1, <2>3, LeastChannel
      <3>2. op' = AllocateResources(bus, c) /\ stream' = [stream EXCEPT !.pc = "allocate", !.candidates = @ \ {c}]
        BY <1>2, <2>3 DEF SnapshotDone
      <3>. HIDE DEF c
      <3>3. Begins(op', c, 0, "allocChannel")
        BY <3>1, <3>2, ConstantsTyped, AllocateBegins
      <3>4. OpTyped' /\ LockShape' /\ (op'.stage = "allocChannel" \/ (op'.stage \in Snap /\ op'.result = "NotFound"))
        BY <3>1, <3>3, BeginsTyped
      <3>5. StreamTyped' /\ stream'.pc = "allocate"
        BY <1>0, <1>1, <2>1, <3>2 DEF StreamTyped
      <3>6. Where'
        BY <3>4, <3>5 DEF Where, AllocStages
      <3>. QED BY <1>a, <1>b, <2>1, <3>4, <3>5, <3>6 DEF Typed
    <2>. QED BY <2>2, <2>3
  <1>3. CASE AllocateDone
    <2>1. UNCHANGED <<irm, bus, client, ledger, spent>> /\ stream.pc = "allocate" /\ Len(stream.entries) < MaxStreams
      BY <1>0, <1>3 DEF AllocateDone, StreamTyped
    <2>2. CASE op.result = "Success" /\ op' = NoOp /\ stream' = [stream EXCEPT !.pc = "idle", !.candidates = {}, !.entries = Append(@, Entry)]
      <3>1. Entry \in Reservation
        BY <1>0, <2>1, <2>2, EntryTyped DEF Where, Snap, AllocStages
      <3>2. Append(stream.entries, Entry) \in Seq(Reservation) /\ Len(Append(stream.entries, Entry)) = Len(stream.entries) + 1
        BY <1>1, <3>1, EntriesChange
      <3>. DEFINE t == Append(stream.entries, Entry)
      <3>b. stream' = [stream EXCEPT !.pc = "idle", !.candidates = {}, !.entries = t]
        BY <2>2
      <3>. HIDE DEF t
      <3>c. /\ stream' \in [pc : {"idle", "snapshot", "allocate", "releaseAll", "releasing"},
                        entries : Seq(Reservation), candidates : SUBSET Channels]
            /\ stream'.entries = t /\ stream'.pc = "idle"
        BY <1>1, <3>2, <3>b DEF t
      <3>d. Len(t) <= MaxStreams
        BY <1>1, <2>1, <3>2 DEF t
      <3>3. StreamTyped' /\ stream'.pc = "idle"
        BY <3>c, <3>d DEF StreamTyped
      <3>4. Where'
        BY <2>2, <3>3 DEF Where
      <3>. QED BY <1>a, <1>b, <1>c, <2>1, <2>2, <3>3, <3>4 DEF Typed
    <2>3. CASE op' = ReadIRMWindow(bus) /\ stream' = [stream EXCEPT !.pc = "snapshot"]
      <3>1. Begins(op', NoOp.channel, 0, "snapBandwidth")
        BY <2>3, ReadBegins
      <3>2. OpTyped' /\ LockShape' /\ op'.stage \in Snap
        BY <3>1, BeginsTyped DEF Snap
      <3>3. StreamTyped' /\ stream'.pc = "snapshot"
        BY <1>0, <1>1, <2>1, <2>3 DEF StreamTyped
      <3>4. Where'
        BY <3>2, <3>3 DEF Where
      <3>. QED BY <1>a, <1>b, <2>1, <3>2, <3>3, <3>4 DEF Typed
    <2>4. CASE op' = NoOp /\ stream' = Fail
      <3>1. StreamTyped' /\ Where'
        BY <1>0, <1>1, <2>4 DEF StreamTyped, Where, Fail
      <3>. QED BY <1>a, <1>b, <1>c, <2>1, <2>4, <3>1 DEF Typed
    <2>. QED BY <1>3, <2>2, <2>3, <2>4 DEF AllocateDone
  <1>4. CASE ReleaseNext
    <2>1. UNCHANGED <<irm, bus, client, ledger, spent>> /\ stream.pc = "releaseAll"
      BY <1>4 DEF ReleaseNext
    <2>2. CASE stream.entries = <<>>
      <3>1. op' = NoOp /\ stream' = [stream EXCEPT !.pc = "idle", !.candidates = {}]
        BY <1>4, <2>2 DEF ReleaseNext
      <3>2. StreamTyped' /\ Where'
        BY <1>0, <1>1, <3>1 DEF StreamTyped, Where
      <3>. QED BY <1>a, <1>b, <1>c, <2>1, <3>1, <3>2 DEF Typed
    <2>3. CASE stream.entries # <<>>
      <3>1. op' = ReleaseResources(bus, Last(stream.entries)) /\ stream' = [stream EXCEPT !.pc = "releasing", !.entries = Front(@)]
        BY <1>4, <2>3 DEF ReleaseNext
      <3>2. /\ Last(stream.entries) \in Reservation /\ Front(stream.entries) \in Seq(Reservation)
            /\ Len(Front(stream.entries)) = Len(stream.entries) - 1
        BY <1>1, <2>3, EntriesChange
      <3>3. Begins(op', Last(stream.entries).channel, Last(stream.entries).gen, "releaseBandwidth")
        BY <3>1, <3>2, ReleaseBegins
      <3>4. Last(stream.entries).channel \in Channels
        BY <3>2 DEF Reservation
      <3>5. OpTyped' /\ LockShape' /\ (op'.stage = "releaseBandwidth" \/ (op'.stage \in Snap /\ op'.result = "NotFound"))
        BY <3>3, <3>4, BeginsTyped
      <3>. DEFINE t == Front(stream.entries)
      <3>b. stream' = [stream EXCEPT !.pc = "releasing", !.entries = t]
        BY <3>1
      <3>. HIDE DEF t
      <3>c. /\ stream' \in [pc : {"idle", "snapshot", "allocate", "releaseAll", "releasing"},
                        entries : Seq(Reservation), candidates : SUBSET Channels]
            /\ stream'.entries = t /\ stream'.pc = "releasing"
        BY <1>1, <3>2, <3>b DEF t
      <3>d. Len(t) <= MaxStreams
        BY <1>0, <1>1, <3>2 DEF t, StreamTyped
      <3>6. StreamTyped' /\ stream'.pc = "releasing"
        BY <3>c, <3>d DEF StreamTyped
      <3>7. Where'
        BY <3>5, <3>6 DEF Where, Releases
      <3>. QED BY <1>a, <1>b, <2>1, <3>5, <3>6, <3>7 DEF Typed
    <2>. QED BY <2>2, <2>3
  <1>5. CASE Released
    <2>1. UNCHANGED <<irm, bus, client, ledger, spent>> /\ op' = NoOp /\ stream' = [stream EXCEPT !.pc = "releaseAll"]
      BY <1>5 DEF Released
    <2>2. StreamTyped' /\ Where'
      BY <1>0, <1>1, <2>1 DEF StreamTyped, Where
    <2>. QED BY <1>a, <1>b, <1>c, <2>1, <2>2 DEF Typed
  <1>6. CASE WaitTimeout
    <2>1. UNCHANGED <<irm, bus, client, stream, ledger, spent>> /\ op' = Done(op, "Timeout") /\ op.result = "none"
      BY <1>6 DEF WaitTimeout, Stalled
    <2>2. Ended(op, op', "Timeout")
      BY <1>0, <2>1, DoneEnds DEF Statuses
    <2>3. Handled(op, op') /\ LockShape'
      BY <2>2 DEF Ended, Handled, LockShape
    <2>4. OpTyped' /\ StreamTyped' /\ Where'
      BY <1>6, <2>1, <2>3, HandledTyped DEF WaitTimeout
    <2>. QED BY <1>a, <1>b, <2>1, <2>3, <2>4 DEF Typed
  <1>7. CASE ReserveAny
    <2>1. UNCHANGED <<irm, bus, client, ledger, spent>> /\ op' = ReadIRMWindow(bus) /\ Len(stream.entries) < MaxStreams
      BY <1>7 DEF ReserveAny
    <2>2. PICK allowed \in (SUBSET Channels) \ {{}} : stream' = [stream EXCEPT !.pc = "snapshot", !.candidates = allowed]
      BY <1>7 DEF ReserveAny
    <2>3. Begins(op', NoOp.channel, 0, "snapBandwidth")
      BY <2>1, ReadBegins
    <2>4. OpTyped' /\ LockShape' /\ op'.stage \in Snap
      BY <2>3, BeginsTyped DEF Snap
    <2>5. StreamTyped' /\ stream'.pc = "snapshot"
      BY <1>0, <1>1, <2>1, <2>2 DEF StreamTyped
    <2>6. Where'
      BY <2>4, <2>5 DEF Where
    <2>. QED BY <1>a, <1>b, <2>1, <2>4, <2>5, <2>6 DEF Typed
  <1>8. CASE ReleaseAll
    <2>1. UNCHANGED <<irm, bus, client, op, ledger, spent>> /\ stream' = [stream EXCEPT !.pc = "releaseAll"] /\ stream.pc = "idle"
      BY <1>8 DEF ReleaseAll
    <2>2. StreamTyped' /\ Where'
      BY <1>0, <1>1, <2>1 DEF StreamTyped, Where
    <2>. QED BY <1>0, <1>a, <1>b, <2>1, <2>2 DEF Typed, OpTyped, LockShape
  <1>9. CASE InvalidateAfterGenerationChange
    <2>1. UNCHANGED <<irm, bus, client, op, spent>> /\ stream' = [stream EXCEPT !.entries = <<>>]
      BY <1>9 DEF InvalidateAfterGenerationChange
    <2>. DEFINE t == <<>>
    <2>b. stream' = [stream EXCEPT !.entries = t] /\ t \in Seq(Reservation) /\ Len(t) = 0
      BY <2>1
    <2>. HIDE DEF t
    <2>c. /\ stream' \in [pc : {"idle", "snapshot", "allocate", "releaseAll", "releasing"},
                        entries : Seq(Reservation), candidates : SUBSET Channels]
          /\ stream'.entries = t /\ stream'.pc = stream.pc
      BY <1>1, <2>b
    <2>d. 0 <= MaxStreams /\ (Len(stream.entries) < MaxStreams => 0 < MaxStreams)
      BY <1>1
    <2>2. StreamTyped'
      BY <1>0, <2>b, <2>c, <2>d DEF StreamTyped
    <2>3. Where'
      BY <1>0, <2>1, <2>c DEF Where
    <2>4. LedgerTyped'
      <3>1. Abandons(ledger', {e.channel : e \in Current})
        BY <1>0, <1>9, AbandonedChannels DEF InvalidateAfterGenerationChange
      <3>. QED BY <3>1 DEF Abandons, LedgerTyped
    <2>. QED BY <1>0, <1>a, <2>1, <2>2, <2>3, <2>4 DEF Typed, OpTyped, LockShape
  <1>10. CASE Foreign
    <2>1. UNCHANGED <<bus, client, op, stream>>
      BY <1>10 DEF Foreign
    <2>2. spent' = [spent EXCEPT !.foreign = spent.foreign + 1] /\ spent.foreign < MaxForeign
      BY <1>10 DEF Foreign
    <2>3. spent' \in [resets : 0..MaxResets, losses : 0..MaxLosses, foreign : 0..MaxForeign] /\ spent'.resets = spent.resets
      BY <1>0, <2>2, ConstantsTyped DEF BusTyped
    <2>5. /\ irm' \in [gen : 0..MaxResets, channels : SUBSET Channels, bandwidth : 0..MaxUnits]
          /\ irm'.gen = irm.gen /\ ledger' \in Ledgers
      BY <1>0, <1>10, ForeignOutcome DEF ForeignChange
    <2>6. BusTyped'
      BY <1>0, <2>1, <2>3, <2>5 DEF BusTyped
    <2>. QED BY <1>0, <2>1, <2>5, <2>6 DEF Typed, OpTyped, StreamTyped, LedgerTyped, Where, LockShape
  <1>. QED BY <1>2, <1>3, <1>4, <1>5, <1>6, <1>7, <1>8, <1>9, <1>10 DEF Owner

\* Every step keeps the types.
LEMMA TypedNext == Typed /\ [Next]_vars => Typed'
  <1>1. ASSUME Typed, UNCHANGED vars PROVE Typed'
    BY <1>1 DEF Typed, BusTyped, OpTyped, StreamTyped, LedgerTyped, Where, LockShape
  <1>. QED BY <1>1, TypedDriver, TypedOwner DEF Next

\* Every variable of the client, the IRM, the owner and the ledger keeps its
\* type: registers stay within what the bus has, whoever releases, and the
\* owner never records more streams than there is room for.
THEOREM TypeCorrect == Spec => []TypeOK
  <1>1. Typed => TypeOK
    BY DEF Typed, BusTyped, OpTyped, StreamTyped, TypeOK, Ops
  <1>. QED BY <1>1, TypedInit, TypedNext, PTL DEF Spec

-----------------------------------------------------------------------------
(* Generations.  What was reserved belongs to the generation of the bus in   *)
(* which it was granted, and no operation outlives a reset.                  *)

InFlight == op.req \in {"read", "lock"}

\* The driver, the client and the bus are in the same generation.
Settled ==
    /\ bus.seen = irm.gen /\ bus.phase = "open"
    /\ client.gen = bus.gen /\ client.node

\* A compare-swap of the operation was carried out, its answer is on the way.
Granted ==
    /\ op.req = "lock" /\ op.applied
    /\ op.answer[Register(op.stage)] = op.value[Register(op.stage)]

\* The operation is bound to a generation: the one in which its channel was
\* granted, or the one of the entry it releases.
Allocates ==
    \/ op.stage = "allocChannel" /\ InFlight /\ op.applied
    \/ op.stage \in {"allocBandwidth", "rollback"}
OpCurrent == (Allocates \/ op.stage \in Releases) /\ op.gen = irm.gen

\* A request is outstanding only between the driver's handling of two resets.
Flight ==
    InFlight =>
        /\ client.node /\ bus.phase # "closed"
        /\ bus.phase = "open" => client.gen = bus.gen
        /\ bus.phase = "open" /\ Allocates => op.gen = bus.seen

\* What belongs to the present generation shows that the driver has settled in
\* it; the operation then goes on or has a result.
InGeneration ==
    /\ OpCurrent => Settled /\ (InFlight \/ op.result # "none")
    /\ \A i \in 1..Len(stream.entries) :
          /\ stream.entries[i].gen <= irm.gen
          /\ stream.entries[i].gen = irm.gen => Settled

\* Entries are in the order of their generations; one that is released or about
\* to be recorded is not older than any that is left.
Ordered ==
    /\ bus.gen <= irm.gen /\ op.gen <= irm.gen
    /\ \A i, j \in 1..Len(stream.entries) : i < j => stream.entries[i].gen <= stream.entries[j].gen
    /\ Allocates \/ op.stage \in Releases =>
          \A i \in 1..Len(stream.entries) : stream.entries[i].gen <= op.gen

\* A success is reported only when both resources are held, and within its
\* generation an operation is not abandoned.
Results ==
    /\ op.stage = "rollback" => op.status # "Success" /\ op.result # "Success"
    /\ op.stage = "allocChannel" => op.result # "Success"
    /\ op.stage = "allocBandwidth" /\ OpCurrent => op.result \in {"none", "Success"}
    /\ op.stage = "releaseBandwidth" /\ OpCurrent => op.result = "none"

GenInv == Flight /\ InGeneration /\ Ordered /\ Results

\* Once entries of the present generation were dropped, no older one is left,
\* and none is being released.
Young ==
    ledger.abandoned # {} =>
        /\ \A i \in 1..Len(stream.entries) : stream.entries[i].gen = irm.gen
        /\ Allocates \/ op.stage \in Releases => op.gen = irm.gen

\* The operation stays of its kind and in its generation.
OpKeeps ==
    /\ Allocates' => Allocates
    /\ op'.stage \in Releases => op.stage \in Releases
    /\ op'.gen = op.gen

-----------------------------------------------------------------------------
(* The ledger.  What the IRM has granted in this generation is what the       *)
(* entries of this generation stand for, what the operation in progress       *)
(* holds, and what was dropped without a release.                             *)

\* The entries of the present generation.
Held == {i \in 1..Len(stream.entries) : stream.entries[i].gen = irm.gen}

\* The operation has the channel, beside those of the entries.
HoldsChannel ==
    OpCurrent /\ (op.stage = "allocBandwidth" \/ (op.stage = "allocChannel" /\ Granted))
Apart == OpCurrent /\ (op.stage = "allocChannel" => Granted)

\* The operation has bandwidth: granted and not yet recorded, or still to be
\* given back.
HoldsUnits ==
    OpCurrent /\ \/ op.stage = "allocBandwidth" /\ (Granted \/ op.result = "Success")
                 \/ op.stage = "releaseBandwidth" /\ ~Granted

\* The operation may have the channel.
MayHold ==
    OpCurrent /\ \/ op.stage = "allocChannel" /\ Granted
                 \/ op.stage \in {"allocBandwidth", "releaseBandwidth"}
                 \/ op.stage \in {"rollback", "releaseChannel"} /\ op.result = "none" /\ ~Granted

ChannelsKept ==
    ~ledger.spoiled =>
        /\ \A c \in Channels : c \in irm.channels <=> ledger.holder[c] = "free"
        /\ \A i \in Held : ledger.holder[stream.entries[i].channel] = "ours"
        /\ \A i, j \in Held : stream.entries[i].channel = stream.entries[j].channel => i = j
        /\ HoldsChannel => ledger.holder[op.channel] = "ours"
        /\ Apart => \A i \in Held : stream.entries[i].channel # op.channel
        /\ \A c \in ledger.abandoned : ledger.holder[c] = "ours"
        /\ \A i \in Held : stream.entries[i].channel \notin ledger.abandoned
        /\ Apart => op.channel \notin ledger.abandoned

\* The units of the entries, of those that were dropped and of the operation.
Shares == Units * Cardinality(ledger.abandoned) + Units * Cardinality(Held)
Claimed == Shares + (IF HoldsUnits THEN Units ELSE 0)

\* A release never takes its credit as done without giving it.
CreditFits ==
    op.stage = "releaseBandwidth" /\ OpCurrent =>
        /\ op.unanswered = NoValue
        /\ op.req = "read" /\ op.applied => op.answer.bandwidth + Units <= MaxUnits

UnitsKept ==
    ~ledger.spoiled =>
        /\ irm.bandwidth + ledger.ours + ledger.others = MaxUnits
        /\ ~ledger.uncertain =>
              /\ CreditFits
              /\ Claimed <= ledger.ours
              /\ ~ledger.gaveUp => ledger.ours = Claimed

\* Nothing else is held.
NoneLeft ==
    ~ledger.spoiled /\ ~ledger.uncertain /\ ~ledger.gaveUp =>
        \A c \in Channels :
            ledger.holder[c] = "ours" =>
                \/ \E i \in Held : stream.entries[i].channel = c
                \/ MayHold /\ op.channel = c
                \/ c \in ledger.abandoned

LedgerInv == ChannelsKept /\ UnitsKept /\ NoneLeft

-----------------------------------------------------------------------------
(* Generations: the proof *)

\* How an operation goes on while the driver is settled: it asks again or
\* ends.
Progress(o, p) ==
    /\ Keeps(o, p)
    /\ \/ /\ p.req \in {"read", "lock"} /\ p.result = "none" /\ ~p.applied
          /\ \/ p.stage = o.stage /\ p.status = o.status
             \/ o.stage \in Snap /\ p.stage \in Snap
             \/ o.stage = "allocChannel" /\ p.stage = "allocBandwidth"
             \/ o.stage = "allocBandwidth" /\ p.stage = "rollback" /\ p.status # "Success"
             \/ o.stage = "releaseBandwidth" /\ p.stage = "releaseChannel"
       \/ /\ p.req = "none" /\ p.result \in Statuses
          /\ p.stage = o.stage /\ p.status = o.status
          /\ o.stage = "allocChannel" => p.result # "Success"
          /\ o.stage = "rollback" => p.result = o.status
          /\ o.stage = "allocBandwidth" => p.result = "Success"
          /\ o.stage # "releaseBandwidth"

\* The end of a lock is progress.
LEMMA EndsProgress ==
    ASSUME NEW b, NEW o \in Ops, NEW p, NEW s \in Statuses, Ends(b, o, p, s), o.result = "none",
           client.node, client.gen = b.gen, b.phase # "closed", s # "GenerationMismatch"
    PROVE  Progress(o, p) /\ (o.stage = "allocChannel" /\ s # "Success" => p.stage = "allocChannel")
  <1>1. o.stage \in Stages /\ o.status \in Statuses
    BY DEF Ops
  <1>2. ASSUME NEW st, Locks(b, o, p, st)
        PROVE  Keeps(o, p) /\ p.req = "read" /\ p.result = "none" /\ ~p.applied /\ p.stage = st
    BY <1>2 DEF Locks, Asked
  <1>3. CASE o.stage \in Snap
    BY <1>3 DEF Ends, Ended, Progress, Snap
  <1>4. CASE o.stage = "allocChannel"
    BY <1>2, <1>4 DEF Ends, Ended, Progress
  <1>5. CASE o.stage = "allocBandwidth"
    BY <1>2, <1>5 DEF Ends, Ended, Progress
  <1>6. CASE o.stage = "rollback"
    BY <1>1, <1>6 DEF Ends, Ended, Progress
  <1>7. CASE o.stage = "releaseBandwidth"
    BY <1>2, <1>7 DEF Ends, Progress
  <1>8. CASE o.stage = "releaseChannel"
    BY <1>8 DEF Ends, Ended, Progress
  <1>. QED BY <1>1, <1>3, <1>4, <1>5, <1>6, <1>7, <1>8 DEF Stages, Snap

\* A repeated request is.
LEMMA AskedProgress ==
    ASSUME NEW b, NEW o, NEW p, o.result = "none", client.gen = b.gen, b.phase # "closed",
           \/ Asked(b, o, p, o.stage) /\ p.status = o.status
           \/ Swaps(b, o, p)
           \/ o.stage \in Snap /\ Asked(b, o, p, "snapChannels")
    PROVE  Progress(o, p) /\ p.stage \in {o.stage, "snapChannels"}
  BY DEF Asked, Swaps, Progress, Snap

\* A request that is answered or times out was issued in the generation that
\* the driver is in, and the handler makes progress.
LEMMA StepProgress ==
    ASSUME Typed, Flight, Respond \/ Timeout
    PROVE  /\ bus.phase = "open" /\ client.gen = bus.gen /\ client.node /\ InFlight /\ op.result = "none"
           /\ Progress(op, op')
           /\ op.stage = "allocChannel" /\ op'.stage = "allocBandwidth" => op.applied /\ InFlight
           /\ UNCHANGED <<irm, bus, client, stream>>
  <1>1. op \in Ops /\ OpTyped /\ LockShape /\ BusTyped
    BY DEF Typed, OpTyped
  <1>2. InFlight /\ op.result = "none" /\ UNCHANGED <<irm, bus, client, stream>>
    BY RequestIsAwaited DEF Respond, Timeout, InFlight
  <1>3. bus.phase = "open" /\ client.gen = bus.gen /\ client.node
    BY <1>1, <1>2 DEF Flight, Respond, Timeout, BusTyped
  <1>4. {"Success", "ChannelBusy", "BandwidthShort", "NoResources", "Timeout", "Failed"} \subseteq Statuses \ {"GenerationMismatch"}
    BY DEF Statuses
  <1>a. ASSUME NEW s \in Statuses \ {"GenerationMismatch"}, Ends(bus, op, op', s)
        PROVE  Progress(op, op') /\ (op.stage = "allocChannel" /\ s # "Success" => op'.stage = "allocChannel")
    BY <1>1, <1>2, <1>3, <1>a, EndsProgress
  <1>b. ASSUME \/ Asked(bus, op, op', op.stage) /\ op'.status = op.status
               \/ Swaps(bus, op, op')
               \/ op.stage \in Snap /\ Asked(bus, op, op', "snapChannels")
        PROVE  Progress(op, op') /\ op'.stage \in {op.stage, "snapChannels"}
    BY <1>2, <1>3, <1>b, AskedProgress
  <1>c. ASSUME op.stage \in Snap, Ended(op, op', "Success")
        PROVE  Progress(op, op') /\ op'.stage = op.stage
    BY <1>4, <1>c DEF Ended, Progress, Snap
  <1>5. CASE Respond
    <2>1. Answers(bus, op, op') /\ op.applied
      BY <1>1, <1>5, RespondAnswers DEF Respond
    <2>2. Progress(op, op')
      BY <1>4, <1>a, <1>b, <1>c, <2>1 DEF Answers
    <2>. QED BY <1>2, <1>3, <2>1, <2>2
  <1>6. CASE Timeout
    <2>1. TimesOut(bus, op, op')
      BY <1>1, <1>6, TimeoutTimesOut
    <2>2. Progress(op, op') /\ (op.stage = "allocChannel" => op'.stage # "allocBandwidth")
      BY <1>4, <1>a, <1>b, <2>1 DEF TimesOut
    <2>. QED BY <1>2, <1>3, <2>2
  <1>. QED BY <1>5, <1>6

\* The first state.
LEMMA GenInit == Init => GenInv
  <1>. SUFFICES ASSUME Init PROVE GenInv
    OBVIOUS
  <1>1. op = NoOp /\ stream.entries = <<>> /\ bus.gen = 0 /\ irm.gen = 0
    BY DEF Init
  <1>2. ~InFlight /\ ~Allocates /\ op.stage \notin Releases /\ op.stage \in Snap
    BY <1>1, NoOpTyped DEF InFlight, Allocates, Releases, Snap
  <1>. QED BY <1>1, <1>2, NoOpTyped DEF GenInv, Flight, InGeneration, Ordered, Results, OpCurrent

\* An operation that makes progress stays in its generation.
LEMMA GenProgress ==
    ASSUME Typed, GenInv, Respond \/ Timeout
    PROVE  GenInv' /\ (OpCurrent' => OpCurrent) /\ OpKeeps
  <1>1. /\ bus.phase = "open" /\ client.gen = bus.gen /\ client.node /\ InFlight /\ op.result = "none"
        /\ Progress(op, op')
        /\ op.stage = "allocChannel" /\ op'.stage = "allocBandwidth" => op.applied /\ InFlight
        /\ UNCHANGED <<irm, bus, client, stream>>
    BY StepProgress DEF GenInv
  <1>2. op'.gen = op.gen /\ op'.channel = op.channel
    BY <1>1 DEF Progress, Keeps
  <1>3. Allocates' => Allocates
    BY <1>1 DEF Progress, Allocates, InFlight, Snap
  <1>4. op'.stage \in Releases => op.stage \in Releases
    BY <1>1 DEF Progress, Releases, Snap
  <1>5. OpCurrent' => OpCurrent
    BY <1>1, <1>2, <1>3, <1>4 DEF OpCurrent
  <1>6. Flight'
    BY <1>1, <1>2, <1>3 DEF GenInv, Flight, InFlight
  <1>7. InGeneration'
    <2>1. InFlight' \/ op'.result # "none"
      BY <1>1 DEF Progress, InFlight, Statuses
    <2>2. Settled => Settled'
      BY <1>1 DEF Settled
    <2>. QED BY <1>1, <1>5, <2>1, <2>2 DEF GenInv, InGeneration
  <1>8. Ordered'
    BY <1>1, <1>2, <1>3, <1>4 DEF GenInv, Ordered
  <1>9. Results'
    BY <1>1, <1>5 DEF Progress, GenInv, Results, Snap
  <1>. QED BY <1>2, <1>3, <1>4, <1>5, <1>6, <1>7, <1>8, <1>9 DEF GenInv, OpKeeps

\* An operation that is over, or is refused, has no request outstanding and is
\* bound to a generation only if it was.
LEMMA GenAbandoned ==
    ASSUME Typed, GenInv, ~OpCurrent, op' \in Ops, op'.gen = op.gen, irm'.gen = irm.gen, bus'.gen = bus.gen,
           UNCHANGED stream, op'.req \notin {"read", "lock"},
           \/ op'.stage = op.stage
           \/ op.stage = "allocBandwidth" /\ op'.stage = "rollback"
           \/ op.stage = "releaseBandwidth" /\ op'.stage = "releaseChannel",
           op'.stage = "rollback" => op'.status # "Success" /\ op'.result # "Success",
           op'.stage = "allocChannel" => op'.result # "Success",
           \/ UNCHANGED <<bus, client, irm>>
           \/ \A i \in 1..Len(stream.entries) : stream.entries[i].gen # irm.gen
    PROVE  GenInv' /\ ~OpCurrent' /\ OpKeeps
  <1>1. ~InFlight' /\ (Allocates' => Allocates) /\ (op'.stage \in Releases => op.stage \in Releases)
    BY DEF InFlight, Allocates, Releases
  <1>2. ~OpCurrent'
    BY <1>1 DEF OpCurrent
  <1>3. InGeneration'
    BY <1>2 DEF GenInv, InGeneration, Settled
  <1>4. Ordered'
    BY <1>1 DEF GenInv, Ordered
  <1>. QED BY <1>1, <1>2, <1>3, <1>4 DEF GenInv, Flight, Results, OpKeeps

\* A stale request ends its operation.
LEMMA GenStale ==
    ASSUME Typed, GenInv, Stale
    PROVE  GenInv' /\ ~OpCurrent /\ ~OpCurrent' /\ OpKeeps
  <1>1. op \in Ops /\ op.result = "none" /\ UNCHANGED <<irm, bus, client, stream, ledger, spent>> /\ op.req = "stale"
    BY RequestIsAwaited DEF Typed, OpTyped, Stale
  <1>2. Ends(bus, op, op', "GenerationMismatch")
    BY <1>1, FinishedEnds DEF Stale, Statuses
  <1>3. ~OpCurrent
    BY <1>1 DEF GenInv, InGeneration, InFlight
  <1>4. \E s \in Statuses : Ended(op, op', s) /\ (op.stage = "rollback" => s = op.status)
                            /\ (op.stage = "allocChannel" => s # "Success")
    <2>1. op.stage \in Stages /\ op.status \in Statuses
      BY <1>1 DEF Ops
    <2>2. "GenerationMismatch" \in Statuses
      BY DEF Statuses
    <2>. QED BY <1>2, <2>1, <2>2 DEF Ends, Stages, Snap
  <1>5. /\ op' \in Ops /\ op'.gen = op.gen /\ op'.req = "none" /\ op'.stage = op.stage
        /\ op'.stage = "rollback" => op'.status # "Success" /\ op'.result # "Success"
        /\ op'.stage = "allocChannel" => op'.result # "Success"
    BY <1>4 DEF Ended, Keeps, GenInv, Results
  <1>. QED BY <1>1, <1>3, <1>5, GenAbandoned

\* The wait of the owner ends only operations of earlier generations.
LEMMA GenWaitTimeout ==
    ASSUME Typed, GenInv, WaitTimeout
    PROVE  GenInv' /\ ~OpCurrent /\ ~OpCurrent' /\ OpKeeps
  <1>1. op \in Ops /\ op.result = "none" /\ op.req = "none" /\ UNCHANGED <<irm, bus, client, stream, ledger, spent>>
    BY DEF Typed, OpTyped, WaitTimeout, Stalled
  <1>2. Ended(op, op', "Timeout")
    BY <1>1, DoneEnds DEF WaitTimeout, Statuses
  <1>3. ~OpCurrent
    BY <1>1 DEF GenInv, InGeneration, InFlight
  <1>5. /\ op' \in Ops /\ op'.gen = op.gen /\ op'.req = "none" /\ op'.stage = op.stage
        /\ op'.stage = "rollback" => op'.status # "Success" /\ op'.result # "Success"
        /\ op'.stage = "allocChannel" => op'.result # "Success"
    BY <1>2 DEF Ended, Keeps, GenInv, Results
  <1>. QED BY <1>1, <1>3, <1>5, GenAbandoned

\* Before the driver has settled nothing belongs to the present generation.
LEMMA Unsettled ==
    ASSUME GenInv, ~Settled
    PROVE  ~OpCurrent /\ Held = {} /\ \A i \in 1..Len(stream.entries) : stream.entries[i].gen # irm.gen
  BY DEF GenInv, InGeneration, Held

\* The driver's part of a reset leaves nothing in the new generation.
LEMMA GenReset ==
    ASSUME Typed, GenInv, OnBusResetBegin \/ ConfirmBusGeneration \/ OnBusResetComplete \/ SetIRMNode
    PROVE  GenInv' /\ ~OpCurrent /\ ~OpCurrent' /\ OpKeeps /\ Held = {} /\ Held' = {} /\ UNCHANGED <<irm, stream, ledger>>
  <1>1. ~Settled /\ UNCHANGED <<irm, stream, ledger>>
    BY DEF Settled, OnBusResetBegin, ConfirmBusGeneration, OnBusResetComplete, SetIRMNode
  <1>2. ~OpCurrent /\ Held = {} /\ \A i \in 1..Len(stream.entries) : stream.entries[i].gen # irm.gen
    BY <1>1, Unsettled
  <1>3. Held' = {}
    BY <1>1, <1>2 DEF Held
  <1>4. CASE OnBusResetBegin
    <2>1. bus' = [bus EXCEPT !.phase = "closed"] /\ UNCHANGED client
      BY <1>4 DEF OnBusResetBegin
    <2>2. bus'.gen = bus.gen /\ bus'.phase = "closed"
      BY <2>1 DEF Typed, BusTyped
    <2>3. CASE op.req \in {"read", "lock"}
      <3>1. op \in Ops /\ op.result = "none" /\ op.stage \in Stages /\ op.status \in Statuses
        BY <2>3, RequestIsAwaited DEF Typed, OpTyped, Ops
      <3>2. Ends(bus', op, op', "Failed") /\ "Failed" \in Statuses
        BY <1>4, <2>3, <3>1, FinishedEnds DEF OnBusResetBegin, Statuses
      <3>a. ASSUME NEW st, Locks(bus', op, op', st)
            PROVE  op' \in Ops /\ op'.gen = op.gen /\ op'.req \notin {"read", "lock"} /\ op'.result = "none" /\ op'.stage = st
        BY <2>2, <3>1, <3>a DEF Locks, Asked, Keeps
      <3>b. ASSUME NEW s, Ended(op, op', s)
            PROVE  /\ op' \in Ops /\ op'.gen = op.gen /\ op'.req \notin {"read", "lock"} /\ op'.result = s
                   /\ op'.stage = op.stage /\ op'.status = op.status
        BY <3>b DEF Ended, Keeps
      <3>3. /\ op' \in Ops /\ op'.gen = op.gen /\ op'.req \notin {"read", "lock"}
            /\ \/ op'.stage = op.stage
               \/ op.stage = "allocBandwidth" /\ op'.stage = "rollback"
               \/ op.stage = "releaseBandwidth" /\ op'.stage = "releaseChannel"
        BY <3>1, <3>2, <3>a, <3>b DEF Ends, Stages, Snap
      <3>4. /\ op'.stage = "rollback" => op'.status # "Success" /\ op'.result # "Success"
            /\ op'.stage = "allocChannel" => op'.result # "Success"
        BY <3>1, <3>2, <3>a, <3>b DEF Ends, Stages, Snap, GenInv, Results
      <3>. QED BY <1>1, <1>2, <1>3, <2>2, <3>3, <3>4, GenAbandoned
    <2>4. CASE op.req \notin {"read", "lock"}
      <3>1. op' = op /\ op \in Ops
        BY <1>4, <2>4 DEF OnBusResetBegin, Typed, OpTyped
      <3>2. /\ op'.stage = "rollback" => op'.status # "Success" /\ op'.result # "Success"
            /\ op'.stage = "allocChannel" => op'.result # "Success"
        BY <3>1 DEF GenInv, Results
      <3>. QED BY <1>1, <1>2, <1>3, <2>2, <2>4, <3>1, <3>2, GenAbandoned
    <2>. QED BY <2>3, <2>4
  <1>5. CASE ConfirmBusGeneration \/ OnBusResetComplete \/ SetIRMNode
    <2>1. op' = op
      BY <1>5 DEF ConfirmBusGeneration, OnBusResetComplete, SetIRMNode
    <2>2. ~OpCurrent' /\ (Allocates' <=> Allocates) /\ (InFlight' <=> InFlight)
      BY <1>1, <1>2, <2>1 DEF OpCurrent, Allocates, InFlight
    <2>3. Flight'
      <3>1. CASE ConfirmBusGeneration
        BY <2>2, <3>1 DEF GenInv, Flight, ConfirmBusGeneration
      <3>2. CASE OnBusResetComplete
        BY <2>2, <3>2 DEF GenInv, Flight, OnBusResetComplete
      <3>3. CASE SetIRMNode
        BY <2>2, <3>3 DEF GenInv, Flight, SetIRMNode
      <3>. QED BY <1>5, <3>1, <3>2, <3>3
    <2>4. bus'.gen <= irm.gen
      <3>1. CASE ConfirmBusGeneration
        BY <3>1 DEF GenInv, Ordered, ConfirmBusGeneration, Typed, BusTyped
      <3>2. CASE OnBusResetComplete \/ SetIRMNode
        BY <3>2 DEF GenInv, Ordered, OnBusResetComplete, SetIRMNode, Typed, BusTyped
      <3>. QED BY <1>5, <3>1, <3>2
    <2>5. InGeneration'
      BY <1>1, <1>2, <2>2 DEF GenInv, InGeneration
    <2>6. Ordered'
      BY <1>1, <2>1, <2>2, <2>4 DEF GenInv, Ordered
    <2>7. Results'
      BY <2>1, <2>2 DEF GenInv, Results
    <2>8. OpKeeps
      BY <2>1, <2>2 DEF OpKeeps
    <2>. QED BY <1>1, <1>2, <1>3, <2>2, <2>3, <2>5, <2>6, <2>7, <2>8 DEF GenInv
  <1>. QED BY <1>4, <1>5

\* A reset of the bus leaves nothing in the present generation.
LEMMA GenBusReset ==
    ASSUME Typed, GenInv, BusReset
    PROVE  GenInv' /\ ~OpCurrent' /\ Held' = {}
  <1>0. UNCHANGED <<bus, client, op, stream>> /\ irm'.gen = irm.gen + 1 /\ irm.gen \in Nat
    BY ConstantsTyped DEF BusReset, Typed, BusTyped
  <1>1. \A i \in 1..Len(stream.entries) : stream.entries[i] \in Reservation
    BY DEF Typed, StreamTyped
  <1>2. \A i \in 1..Len(stream.entries) : stream.entries[i].gen \in Nat /\ stream.entries[i].gen <= irm.gen
    BY <1>1, ConstantsTyped DEF GenInv, InGeneration, Reservation
  <1>3. op.gen \in Nat /\ op.gen <= irm.gen /\ bus.gen \in Nat /\ bus.gen <= irm.gen
    BY ConstantsTyped DEF Typed, OpTyped, Ops, BusTyped, GenInv, Ordered
  <1>4. ~OpCurrent' /\ (Allocates' <=> Allocates) /\ (InFlight' <=> InFlight)
    BY <1>0, <1>3 DEF OpCurrent, Allocates, InFlight
  <1>5. \A i \in 1..Len(stream.entries) : stream.entries[i].gen <= irm'.gen /\ stream.entries[i].gen # irm'.gen
    BY <1>0, <1>2
  <1>6. Held' = {}
    BY <1>0, <1>5 DEF Held
  <1>7. Flight'
    BY <1>0, <1>4 DEF GenInv, Flight
  <1>8. InGeneration'
    BY <1>0, <1>4, <1>5 DEF InGeneration
  <1>9. Ordered'
    <2>1. bus'.gen <= irm'.gen /\ op'.gen <= irm'.gen
      BY <1>0, <1>3
    <2>. QED BY <1>0, <1>4, <2>1 DEF GenInv, Ordered
  <1>10. Results'
    BY <1>0, <1>4 DEF GenInv, Results
  <1>. QED BY <1>4, <1>6, <1>7, <1>8, <1>9, <1>10 DEF GenInv

\* A request is delivered in the generation in which it was issued.
LEMMA GenDeliver ==
    ASSUME Typed, GenInv, Deliver
    PROVE  /\ GenInv' /\ Settled
           /\ op.stage # "allocChannel" => (OpCurrent' <=> OpCurrent) /\ OpKeeps
           /\ op.stage = "allocChannel" => OpCurrent'
           /\ op.stage \in {"allocBandwidth", "rollback"} => OpCurrent
           /\ UNCHANGED stream /\ irm'.gen = irm.gen
  <1>0. BusTyped /\ OpTyped /\ InFlight /\ bus.phase = "open" /\ bus.seen = irm.gen /\ UNCHANGED <<bus, client, stream>>
    BY DEF Typed, Deliver, InFlight
  <1>1. Settled
    BY <1>0 DEF GenInv, Flight, Settled
  <1>2. Delivered(op, op', irm.gen) /\ irm'.gen = irm.gen
    BY <1>0, DeliverOutcome, DeliverIRM
  <1>3. InFlight' /\ op'.applied /\ op'.stage = op.stage /\ op'.result = op.result /\ op'.status = op.status
    BY <1>0, <1>2 DEF InFlight, Delivered
  <1>4. op.stage # "allocChannel" => (Allocates' <=> Allocates) /\ op'.gen = op.gen
    BY <1>2, <1>3 DEF Allocates, Delivered
  <1>5. op.stage = "allocChannel" => Allocates' /\ op'.gen = irm.gen /\ OpCurrent'
    BY <1>2, <1>3 DEF Allocates, Delivered, OpCurrent
  <1>6. op.stage # "allocChannel" => (OpCurrent' <=> OpCurrent)
    BY <1>2, <1>3, <1>4 DEF OpCurrent
  <1>7. op.stage \in {"allocBandwidth", "rollback"} => OpCurrent
    BY <1>0 DEF GenInv, Flight, Allocates, OpCurrent
  <1>8. Flight'
    BY <1>0, <1>1, <1>4, <1>5 DEF GenInv, Flight, Settled, Allocates
  <1>9. InGeneration'
    <2>1. Settled'
      BY <1>0, <1>1, <1>2 DEF Settled
    <2>. QED BY <1>0, <1>2, <1>3, <2>1 DEF GenInv, InGeneration
  <1>10. Ordered'
    <2>1. op'.gen <= irm'.gen
      BY <1>0, <1>2, <1>4, <1>5 DEF GenInv, Ordered, BusTyped
    <2>2. CASE op.stage = "allocChannel"
      BY <1>0, <1>2, <1>5, <2>1, <2>2 DEF GenInv, Ordered, InGeneration
    <2>3. CASE op.stage # "allocChannel"
      BY <1>0, <1>2, <1>3, <1>4, <2>1, <2>3 DEF GenInv, Ordered
    <2>. QED BY <2>2, <2>3
  <1>11. Results'
    BY <1>3, <1>6 DEF GenInv, Results
  <1>. QED BY <1>0, <1>1, <1>2, <1>3, <1>4, <1>5, <1>6, <1>7, <1>8, <1>9, <1>10, <1>11 DEF GenInv, OpKeeps

\* An owner's step that leaves the entries alone and gives up or begins an
\* operation that holds nothing.
LEMMA GenUnbound ==
    ASSUME Typed, GenInv, UNCHANGED <<irm, bus, client>>, stream'.entries = stream.entries,
           \/ op' = NoOp
           \/ Begins(op', NoOp.channel, 0, "snapBandwidth")
           \/ \E c \in Channels : Begins(op', c, 0, "allocChannel")
    PROVE  GenInv' /\ ~OpCurrent' /\ ~Allocates' /\ op'.stage \notin Releases
  <1>1. /\ op' \in Ops /\ op'.gen = 0 /\ ~op'.applied
        /\ op'.stage \in {"snapBandwidth", "allocChannel"} /\ op'.result \in {"none", "NotFound"}
        /\ op'.req \in {"read", "lock"} => client.node /\ client.gen = bus.gen /\ bus.phase # "closed"
    BY NoOpTyped DEF Begins
  <1>2. ~Allocates' /\ op'.stage \notin Releases
    BY <1>1 DEF Allocates, Releases
  <1>3. ~OpCurrent'
    BY <1>2 DEF OpCurrent
  <1>4. Flight'
    BY <1>1, <1>2 DEF Flight, InFlight
  <1>5. InGeneration'
    BY <1>3 DEF GenInv, InGeneration, Settled
  <1>6. Ordered'
    <2>1. irm.gen \in Nat /\ irm' = irm /\ bus' = bus
      BY DEF Typed, BusTyped
    <2>2. bus'.gen <= irm'.gen /\ op'.gen <= irm'.gen
      BY <1>1, <2>1 DEF GenInv, Ordered
    <2>3. \A i, j \in 1..Len(stream'.entries) :
             i < j => stream'.entries[i].gen <= stream'.entries[j].gen
      BY DEF GenInv, Ordered
    <2>. QED BY <1>2, <2>2, <2>3 DEF Ordered
  <1>7. Results'
    BY <1>1 DEF Results
  <1>. QED BY <1>2, <1>3, <1>4, <1>5, <1>6, <1>7 DEF GenInv

\* The owner gives up an operation that holds nothing, or begins one that does
\* not hold anything yet.
Unbound ==
    /\ UNCHANGED <<irm, bus, client, ledger>> /\ stream'.entries = stream.entries
    /\ \/ op' = NoOp
       \/ Begins(op', NoOp.channel, 0, "snapBandwidth")
       \/ \E c \in Channels : Begins(op', c, 0, "allocChannel")
    /\ ~HoldsUnits /\ ~MayHold

\* It records an allocation.
Records ==
    /\ UNCHANGED <<irm, bus, client, ledger>>
    /\ op.stage = "allocBandwidth" /\ op.result = "Success" /\ op.req = "none" /\ op' = NoOp
    /\ Entry \in Reservation /\ stream'.entries = Append(stream.entries, Entry)

\* It drops the last entry and begins its release.
Drops ==
    /\ UNCHANGED <<irm, bus, client, ledger>> /\ op = NoOp
    /\ stream.entries # <<>> /\ stream'.entries = Front(stream.entries)
    /\ Begins(op', Last(stream.entries).channel, Last(stream.entries).gen, "releaseBandwidth")

\* Every entry is dropped, and those of the present generation are abandoned.
Forgets ==
    /\ UNCHANGED <<irm, bus, client, op>> /\ stream'.entries = <<>>
    /\ Abandons(ledger', {stream.entries[i].channel : i \in Held})

\* An operation with a result and no bandwidth granted holds nothing.
LEMMA NothingHeld ==
    ASSUME Typed, GenInv, \/ op = NoOp
                          \/ op.stage \in Snap
                          \/ op.result # "none" /\ ~(op.stage = "allocBandwidth" /\ op.result = "Success")
    PROVE  ~HoldsUnits /\ ~MayHold
  <1>1. CASE op = NoOp \/ op.stage \in Snap
    <2>1. op.stage \in Snap
      BY <1>1, NoOpTyped DEF Snap
    <2>. QED BY <2>1 DEF HoldsUnits, MayHold, Snap
  <1>2. CASE op.result # "none" /\ ~(op.stage = "allocBandwidth" /\ op.result = "Success")
    <2>1. op.req = "none"
      BY <1>2 DEF Typed, OpTyped
    <2>2. ~Granted
      BY <2>1 DEF Granted
    <2>3. ~(OpCurrent /\ op.stage \in {"allocBandwidth", "releaseBandwidth"})
      BY <1>2 DEF GenInv, Results
    <2>. QED BY <1>2, <2>2, <2>3 DEF HoldsUnits, MayHold
  <1>. QED BY <1>1, <1>2

\* Every step of the owner but the end of a wait is of one of these kinds.
LEMMA OwnerKinds ==
    ASSUME Typed, GenInv,
           \/ SnapshotDone \/ AllocateDone \/ ReleaseNext \/ Released
           \/ ReserveAny \/ ReleaseAll \/ InvalidateAfterGenerationChange
    PROVE  Unbound \/ Records \/ Drops \/ Forgets
  <1>0. BusTyped /\ OpTyped /\ StreamTyped /\ LedgerTyped /\ Where /\ op \in Ops
    BY DEF Typed, OpTyped
  <1>1. stream \in [pc : {"idle", "snapshot", "allocate", "releaseAll", "releasing"},
                    entries : Seq(Reservation), candidates : SUBSET Channels]
    BY <1>0 DEF StreamTyped
  <1>2. CASE SnapshotDone
    <2>. DEFINE free == stream.candidates \cap op.value.channels
    <2>1. UNCHANGED <<irm, bus, client, ledger, spent>> /\ op.stage \in Snap
      BY <1>0, <1>2 DEF SnapshotDone, Where
    <2>2. CASE op.result # "Success" \/ op.value.bandwidth < Units \/ free = {}
      <3>1. op' = NoOp /\ stream' = [stream EXCEPT !.pc = "releaseAll"]
        BY <1>2, <2>2 DEF SnapshotDone, Fail
      <3>2. stream'.entries = stream.entries
        BY <1>1, <3>1
      <3>. QED BY <2>1, <3>1, <3>2, NothingHeld DEF Unbound
    <2>3. CASE ~(op.result # "Success" \/ op.value.bandwidth < Units \/ free = {})
      <3>. DEFINE c == Min(free)
      <3>1. c \in Channels
        BY <1>1, <2>3, LeastChannel
      <3>2. op' = AllocateResources(bus, c) /\ stream' = [stream EXCEPT !.pc = "allocate", !.candidates = @ \ {c}]
        BY <1>2, <2>3 DEF SnapshotDone
      <3>. HIDE DEF c
      <3>3. Begins(op', c, 0, "allocChannel")
        BY <3>1, <3>2, ConstantsTyped, AllocateBegins
      <3>4. stream'.entries = stream.entries
        BY <1>1, <3>2
      <3>. QED BY <2>1, <3>1, <3>3, <3>4, NothingHeld DEF Unbound
    <2>. QED BY <2>2, <2>3
  <1>3. CASE AllocateDone
    <2>1. /\ UNCHANGED <<irm, bus, client, ledger, spent>> /\ stream.pc = "allocate" /\ op.result # "none"
          /\ op.req = "none"
      BY <1>0, <1>3 DEF AllocateDone, Answered, OpTyped
    <2>2. CASE op.result = "Success" /\ op' = NoOp /\ stream' = [stream EXCEPT !.pc = "idle", !.candidates = {}, !.entries = Append(@, Entry)]
      <3>1. op.stage = "allocBandwidth"
        BY <1>0, <2>1, <2>2 DEF Where, Snap, AllocStages, GenInv, Results
      <3>2. Entry \in Reservation
        BY <3>1, EntryTyped DEF Snap
      <3>. DEFINE t == Append(stream.entries, Entry)
      <3>3. stream' = [stream EXCEPT !.pc = "idle", !.candidates = {}, !.entries = t]
        BY <2>2
      <3>. HIDE DEF t
      <3>4. stream'.entries = t
        BY <1>1, <3>3
      <3>. QED BY <2>1, <2>2, <3>1, <3>2, <3>4 DEF Records, t
    <2>3. CASE op.result # "Success" /\ op' = ReadIRMWindow(bus) /\ stream' = [stream EXCEPT !.pc = "snapshot"]
      <3>1. Begins(op', NoOp.channel, 0, "snapBandwidth")
        BY <2>3, ReadBegins
      <3>2. stream'.entries = stream.entries
        BY <1>1, <2>3
      <3>. QED BY <2>1, <2>3, <3>1, <3>2, NothingHeld DEF Unbound
    <2>4. CASE op.result # "Success" /\ op' = NoOp /\ stream' = Fail
      <3>1. stream'.entries = stream.entries
        BY <1>1, <2>4 DEF Fail
      <3>. QED BY <2>1, <2>4, <3>1, NothingHeld DEF Unbound
    <2>. QED BY <1>3, <2>2, <2>3, <2>4 DEF AllocateDone
  <1>4. CASE ReleaseNext
    <2>1. UNCHANGED <<irm, bus, client, ledger, spent>> /\ op = NoOp
      BY <1>0, <1>4 DEF ReleaseNext, Where
    <2>2. CASE stream.entries = <<>>
      <3>1. op' = NoOp /\ stream' = [stream EXCEPT !.pc = "idle", !.candidates = {}]
        BY <1>4, <2>2 DEF ReleaseNext
      <3>2. stream'.entries = stream.entries
        BY <1>1, <3>1
      <3>. QED BY <2>1, <3>1, <3>2, NothingHeld DEF Unbound
    <2>3. CASE stream.entries # <<>>
      <3>1. op' = ReleaseResources(bus, Last(stream.entries)) /\ stream' = [stream EXCEPT !.pc = "releasing", !.entries = Front(@)]
        BY <1>4, <2>3 DEF ReleaseNext
      <3>2. Last(stream.entries) \in Reservation
        BY <1>1, <2>3, EntriesChange
      <3>3. Begins(op', Last(stream.entries).channel, Last(stream.entries).gen, "releaseBandwidth")
        BY <3>1, <3>2, ReleaseBegins
      <3>. DEFINE t == Front(stream.entries)
      <3>b. stream' = [stream EXCEPT !.pc = "releasing", !.entries = t]
        BY <3>1
      <3>. HIDE DEF t
      <3>4. stream'.entries = t
        BY <1>1, <3>b
      <3>. QED BY <2>1, <2>3, <3>3, <3>4 DEF Drops, t
    <2>. QED BY <2>2, <2>3
  <1>5. CASE Released
    <2>1. UNCHANGED <<irm, bus, client, ledger, spent>> /\ op' = NoOp /\ stream' = [stream EXCEPT !.pc = "releaseAll"]
      BY <1>5 DEF Released
    <2>2. op.result # "none" /\ op.stage # "allocBandwidth"
      BY <1>0, <1>5 DEF Released, Answered, Where, Releases, Snap
    <2>3. stream'.entries = stream.entries
      BY <1>1, <2>1
    <2>. QED BY <2>1, <2>2, <2>3, NothingHeld DEF Unbound
  <1>6. CASE ReserveAny
    <2>1. UNCHANGED <<irm, bus, client, ledger, spent>> /\ op' = ReadIRMWindow(bus) /\ op = NoOp
      BY <1>0, <1>6 DEF ReserveAny, Where
    <2>2. PICK allowed \in (SUBSET Channels) \ {{}} : stream' = [stream EXCEPT !.pc = "snapshot", !.candidates = allowed]
      BY <1>6 DEF ReserveAny
    <2>3. Begins(op', NoOp.channel, 0, "snapBandwidth") /\ stream'.entries = stream.entries
      BY <1>1, <2>1, <2>2, ReadBegins
    <2>. QED BY <2>1, <2>3, NothingHeld DEF Unbound
  <1>7. CASE ReleaseAll
    <2>1. UNCHANGED <<irm, bus, client, op, ledger, spent>> /\ stream' = [stream EXCEPT !.pc = "releaseAll"] /\ op = NoOp
      BY <1>0, <1>7 DEF ReleaseAll, Where
    <2>2. stream'.entries = stream.entries
      BY <1>1, <2>1
    <2>. QED BY <2>1, <2>2, NothingHeld DEF Unbound
  <1>8. CASE InvalidateAfterGenerationChange
    <2>1. UNCHANGED <<irm, bus, client, op>> /\ stream' = [stream EXCEPT !.entries = <<>>]
      BY <1>8 DEF InvalidateAfterGenerationChange
    <2>2. stream'.entries = <<>>
      BY <1>1, <2>1
    <2>3. {e.channel : e \in Current} = {stream.entries[i].channel : i \in Held}
      BY DEF Current, Entries, Held
    <2>4. Abandons(ledger', {e.channel : e \in Current})
      BY <1>0, <1>8, AbandonedChannels DEF InvalidateAfterGenerationChange
    <2>. QED BY <2>1, <2>2, <2>3, <2>4 DEF Forgets
  <1>. QED BY <1>2, <1>3, <1>4, <1>5, <1>6, <1>7, <1>8

\* The generations of the entries and of the operation are numbers.
LEMMA GensTyped ==
    ASSUME Typed
    PROVE  /\ irm.gen \in Nat /\ bus.gen \in Nat /\ op.gen \in Nat
           /\ stream.entries \in Seq(Reservation) /\ Len(stream.entries) \in Nat
           /\ \A i \in 1..Len(stream.entries) :
                 /\ stream.entries[i] \in Reservation /\ stream.entries[i].gen \in Nat
                 /\ stream.entries[i].channel \in Channels
  <1>1. irm.gen \in Nat /\ bus.gen \in Nat /\ op.gen \in Nat
    BY ConstantsTyped DEF Typed, BusTyped, OpTyped, Ops
  <1>2. stream.entries \in Seq(Reservation) /\ Len(stream.entries) \in Nat
    BY DEF Typed, StreamTyped
  <1>3. \A i \in 1..Len(stream.entries) : stream.entries[i] \in Reservation
    BY <1>2
  <1>. QED BY <1>1, <1>2, <1>3, ConstantsTyped DEF Reservation

\* A recorded allocation is of the generation in which it was granted.
LEMMA GenRecords ==
    ASSUME Typed, GenInv, Records
    PROVE  GenInv' /\ ~OpCurrent'
  <1>. DEFINE n == Len(stream.entries)
  <1>0. /\ op' = NoOp /\ UNCHANGED <<irm, bus, client>> /\ op.stage = "allocBandwidth" /\ op.result = "Success"
        /\ n \in Nat /\ Entry.gen = op.gen
    BY GensTyped DEF Records, Entry
  <1>1. /\ Len(stream'.entries) = n + 1
        /\ \A i \in 1..n : stream'.entries[i] = stream.entries[i]
        /\ stream'.entries[n + 1] = Entry
    BY GensTyped, EntriesChange DEF Records
  <1>2. Allocates /\ \A i \in 1..n : stream.entries[i].gen <= op.gen
    BY <1>0 DEF Allocates, GenInv, Ordered
  <1>3. op.gen <= irm.gen /\ (op.gen = irm.gen => Settled)
    BY <1>2 DEF GenInv, Ordered, InGeneration, OpCurrent
  <1>. HIDE DEF n
  <1>4. ~OpCurrent' /\ ~Allocates' /\ op'.stage \notin Releases /\ ~InFlight'
    BY <1>0, NoOpTyped DEF OpCurrent, Allocates, InFlight, Releases
  <1>5. InGeneration'
    <2>1. \A i \in 1..(n + 1) : i \in 1..n \/ i = n + 1
      BY <1>0
    <2>2. \A i \in 1..n : stream.entries[i].gen <= irm.gen /\ (stream.entries[i].gen = irm.gen => Settled)
      BY DEF GenInv, InGeneration, n
    <2>3. Settled => Settled'
      BY <1>0 DEF Settled
    <2>4. \A i \in 1..(n + 1) : stream'.entries[i].gen <= irm.gen /\ (stream'.entries[i].gen = irm.gen => Settled)
      BY <1>0, <1>1, <1>3, <2>1, <2>2
    <2>. QED BY <1>0, <1>1, <1>4, <2>3, <2>4 DEF InGeneration
  <1>6. Ordered'
    <2>1. \A i, j \in 1..n : i < j => stream.entries[i].gen <= stream.entries[j].gen
      BY DEF GenInv, Ordered, n
    <2>2. \A i, j \in 1..(n + 1) : i < j => i \in 1..n /\ (j \in 1..n \/ j = n + 1)
      BY <1>0
    <2>3. \A i, j \in 1..(n + 1) : i < j => stream'.entries[i].gen <= stream'.entries[j].gen
      BY <1>0, <1>1, <1>2, <2>1, <2>2
    <2>4. bus'.gen <= irm'.gen /\ op'.gen <= irm'.gen
      BY <1>0, NoOpTyped, GensTyped DEF GenInv, Ordered
    <2>. QED BY <1>1, <1>4, <2>3, <2>4 DEF Ordered
  <1>7. Results' /\ Flight'
    BY <1>0, <1>4, NoOpTyped DEF Results, Flight
  <1>. QED BY <1>4, <1>5, <1>6, <1>7 DEF GenInv

\* A release that begins is of the generation of its entry, the youngest one.
LEMMA GenDrops ==
    ASSUME Typed, GenInv, Drops
    PROVE  /\ GenInv'
           /\ OpCurrent' <=> Last(stream.entries).gen = irm.gen
           /\ OpCurrent' => /\ op'.stage = "releaseBandwidth" /\ op'.req = "read" /\ op'.result = "none"
                            /\ ~op'.applied /\ op'.unanswered = NoValue
           /\ op'.channel = Last(stream.entries).channel
  <1>. DEFINE n == Len(stream.entries)
              e == Last(stream.entries)
  <1>0. UNCHANGED <<irm, bus, client>> /\ n \in Nat
    BY GensTyped DEF Drops
  <1>1. /\ Len(stream'.entries) = n - 1 /\ n \in 1..n
        /\ \A i \in 1..(n - 1) : stream'.entries[i] = stream.entries[i]
        /\ e = stream.entries[n] /\ e \in Reservation
    BY GensTyped, EntriesChange DEF Drops
  <1>2. Begins(op', e.channel, e.gen, "releaseBandwidth")
    BY DEF Drops
  <1>3. e.gen \in Nat /\ e.gen <= irm.gen /\ (e.gen = irm.gen => Settled)
    BY <1>1, GensTyped DEF GenInv, InGeneration
  <1>4. \A i \in 1..(n - 1) : i \in 1..n /\ i < n
    BY <1>0
  <1>5. \A i \in 1..(n - 1) : stream.entries[i].gen <= e.gen
    BY <1>1, <1>4 DEF GenInv, Ordered
  <1>6. \A i, j \in 1..(n - 1) : i < j => stream.entries[i].gen <= stream.entries[j].gen
    BY <1>4 DEF GenInv, Ordered
  <1>7. \A i \in 1..(n - 1) : stream.entries[i].gen <= irm.gen /\ (stream.entries[i].gen = irm.gen => Settled)
    BY <1>4 DEF GenInv, InGeneration
  <1>. HIDE DEF n, e
  <1>8. op'.channel = e.channel /\ op'.gen = e.gen /\ ~Allocates' /\ ~op'.applied
    BY <1>2 DEF Begins, Allocates
  <1>9. OpCurrent' <=> e.gen = irm.gen
    <2>1. CASE client.node
      BY <1>0, <1>2, <1>8, <2>1 DEF Begins, OpCurrent, Releases
    <2>2. CASE ~client.node
      <3>1. op'.stage = "snapBandwidth"
        BY <1>2, <2>2 DEF Begins
      <3>. QED BY <1>3, <1>8, <2>2, <3>1 DEF OpCurrent, Releases, Settled
    <2>. QED BY <2>1, <2>2
  <1>10. OpCurrent' => /\ op'.stage = "releaseBandwidth" /\ op'.req = "read" /\ op'.result = "none"
                       /\ ~op'.applied /\ op'.unanswered = NoValue /\ InFlight' /\ Settled'
    <2>. SUFFICES ASSUME OpCurrent'
                  PROVE  /\ op'.stage = "releaseBandwidth" /\ op'.req = "read" /\ op'.result = "none"
                         /\ ~op'.applied /\ op'.unanswered = NoValue /\ InFlight' /\ Settled'
      OBVIOUS
    <2>1. Settled /\ Settled'
      BY <1>0, <1>3, <1>9 DEF Settled
    <2>. QED BY <1>2, <2>1 DEF Begins, Settled, InFlight
  <1>11. Flight'
    BY <1>0, <1>2, <1>8 DEF Begins, Flight, InFlight
  <1>12. InGeneration'
    <2>1. Settled => Settled'
      BY <1>0 DEF Settled
    <2>. QED BY <1>0, <1>1, <1>7, <1>10, <2>1 DEF InGeneration
  <1>13. Ordered'
    <2>1. bus'.gen <= irm'.gen /\ op'.gen <= irm'.gen
      BY <1>0, <1>3, <1>8 DEF GenInv, Ordered
    <2>. QED BY <1>1, <1>5, <1>6, <1>8, <2>1 DEF Ordered
  <1>14. Results'
    <2>1. op'.stage \in {"releaseBandwidth", "snapBandwidth"}
      BY <1>2 DEF Begins
    <2>. QED BY <1>10, <2>1 DEF Results
  <1>. QED BY <1>8, <1>9, <1>10, <1>11, <1>12, <1>13, <1>14 DEF GenInv, e

\* Without entries the operation in progress stays as it is.
LEMMA GenForgets ==
    ASSUME Typed, GenInv, Forgets
    PROVE  GenInv' /\ Held' = {}
  <1>0. UNCHANGED <<irm, bus, client, op>> /\ Len(stream'.entries) = 0
    BY DEF Forgets
  <1>1. Held' = {} /\ 1..Len(stream'.entries) = {}
    BY <1>0 DEF Held
  <1>2. (Allocates' <=> Allocates) /\ (InFlight' <=> InFlight) /\ (OpCurrent' <=> OpCurrent) /\ (Settled' <=> Settled)
    BY <1>0 DEF OpCurrent, Allocates, InFlight, Settled
  <1>3. Flight' /\ Results'
    BY <1>0, <1>2 DEF GenInv, Flight, Results
  <1>4. InGeneration'
    BY <1>0, <1>1, <1>2 DEF GenInv, InGeneration
  <1>5. Ordered'
    BY <1>0, <1>1, <1>2 DEF GenInv, Ordered
  <1>. QED BY <1>1, <1>3, <1>4, <1>5 DEF GenInv

\* Other initiators change no generation.
LEMMA GenForeign ==
    ASSUME Typed, GenInv, Foreign
    PROVE  GenInv' /\ UNCHANGED <<bus, client, op, stream>> /\ irm'.gen = irm.gen /\ ForeignChange
  <1>1. UNCHANGED <<bus, client, op, stream>> /\ ForeignChange
    BY ForeignOutcome DEF Foreign, Typed
  <1>2. irm'.gen = irm.gen
    BY <1>1 DEF ForeignChange
  <1>. QED BY <1>1, <1>2 DEF GenInv, Flight, InGeneration, Ordered, Results, OpCurrent, Allocates, InFlight, Settled

\* Every step keeps to its generation.
LEMMA GenNext == Typed /\ GenInv /\ [Next]_vars => GenInv'
  <1>. SUFFICES ASSUME Typed, GenInv, [Next]_vars PROVE GenInv'
    OBVIOUS
  <1>1. CASE UNCHANGED vars
    BY <1>1 DEF GenInv, Flight, InGeneration, Ordered, Results, OpCurrent, Allocates, InFlight, Settled
  <1>2. ASSUME Unbound PROVE GenInv'
    BY <1>2, GenUnbound DEF Unbound
  <1>3. CASE \/ SnapshotDone \/ AllocateDone \/ ReleaseNext \/ Released
             \/ ReserveAny \/ ReleaseAll \/ InvalidateAfterGenerationChange
    BY <1>2, <1>3, OwnerKinds, GenRecords, GenDrops, GenForgets
  <1>4. CASE Respond \/ Timeout
    BY <1>4, GenProgress
  <1>5. CASE OnBusResetBegin \/ ConfirmBusGeneration \/ OnBusResetComplete \/ SetIRMNode
    BY <1>5, GenReset
  <1>6. CASE WaitTimeout \/ Stale \/ Deliver \/ BusReset \/ Foreign
    BY <1>6, GenWaitTimeout, GenStale, GenDeliver, GenBusReset, GenForeign
  <1>. QED BY <1>1, <1>3, <1>4, <1>5, <1>6 DEF Next, Owner, Driver

\* A step within an operation and its generation leaves nothing older behind.
LEMMA YoungKept ==
    ASSUME Young, OpKeeps, stream'.entries = stream.entries, irm'.gen = irm.gen, ledger'.abandoned = ledger.abandoned
    PROVE  Young'
  BY DEF Young, OpKeeps

\* What is recorded, dropped or begun after entries were abandoned is of the
\* present generation.
LEMMA YoungOwner ==
    ASSUME Typed, GenInv, Young, Unbound \/ Records \/ Drops \/ Forgets
    PROVE  Young'
  <1>. DEFINE n == Len(stream.entries)
  <1>0. n \in Nat /\ irm' = irm
    BY GensTyped DEF Unbound, Records, Drops, Forgets
  <1>1. CASE Unbound
    <2>1. ~Allocates' /\ op'.stage \notin Releases
      BY <1>1, GenUnbound DEF Unbound
    <2>. QED BY <1>0, <1>1, <2>1 DEF Unbound, Young
  <1>2. CASE Records
    <2>1. /\ Len(stream'.entries) = n + 1
          /\ \A i \in 1..n : stream'.entries[i] = stream.entries[i]
          /\ stream'.entries[n + 1] = Entry
      BY <1>2, GensTyped, EntriesChange DEF Records
    <2>2. Entry.gen = op.gen /\ Allocates /\ op' = NoOp /\ ledger' = ledger
      BY <1>2 DEF Records, Entry, Allocates
    <2>3. ~Allocates' /\ op'.stage \notin Releases
      BY <2>2, NoOpTyped DEF Allocates, InFlight, Releases
    <2>4. \A i \in 1..(n + 1) : i \in 1..n \/ i = n + 1
      BY <1>0
    <2>. QED BY <1>0, <2>1, <2>2, <2>3, <2>4 DEF Young
  <1>3. CASE Drops
    <2>1. /\ Len(stream'.entries) = n - 1 /\ n \in 1..n
          /\ \A i \in 1..(n - 1) : stream'.entries[i] = stream.entries[i]
          /\ Last(stream.entries) = stream.entries[n]
      BY <1>3, GensTyped, EntriesChange DEF Drops
    <2>2. ledger' = ledger /\ op'.gen = Last(stream.entries).gen
      BY <1>3 DEF Drops, Begins
    <2>3. \A i \in 1..(n - 1) : i \in 1..n
      BY <1>0
    <2>. QED BY <1>0, <2>1, <2>2, <2>3 DEF Young
  <1>4. CASE Forgets
    <2>. SUFFICES ASSUME ledger'.abandoned # {}, Allocates \/ op.stage \in Releases
                  PROVE  op.gen = irm.gen
      <3>1. 1..Len(stream'.entries) = {} /\ op' = op
        BY <1>4 DEF Forgets
      <3>2. Allocates' <=> Allocates
        BY <3>1 DEF Allocates, InFlight
      <3>. QED BY <1>0, <3>1, <3>2 DEF Young
    <2>1. CASE ledger.abandoned # {}
      BY <2>1 DEF Young
    <2>2. CASE ledger.abandoned = {}
      <3>1. PICK i \in Held : TRUE
        BY <1>4, <2>2 DEF Forgets, Abandons
      <3>2. stream.entries[i].gen = irm.gen /\ i \in 1..n
        BY DEF Held
      <3>3. irm.gen <= op.gen /\ op.gen <= irm.gen
        BY <3>2 DEF GenInv, Ordered
      <3>. QED BY <3>3, GensTyped
    <2>. QED BY <2>1, <2>2
  <1>. QED BY <1>1, <1>2, <1>3, <1>4

\* Every step keeps what was abandoned apart from earlier generations.
LEMMA YoungNext == Typed /\ GenInv /\ Young /\ [Next]_vars => Young'
  <1>. SUFFICES ASSUME Typed, GenInv, Young, [Next]_vars PROVE Young'
    OBVIOUS
  <1>a. ASSUME OpKeeps, UNCHANGED <<irm, stream, ledger>> PROVE Young'
    BY <1>a, YoungKept
  <1>1. CASE UNCHANGED vars
    <2>1. OpKeeps
      BY <1>1 DEF OpKeeps, Allocates, InFlight
    <2>. QED BY <1>1, <1>a, <2>1
  <1>3. CASE \/ SnapshotDone \/ AllocateDone \/ ReleaseNext \/ Released
             \/ ReserveAny \/ ReleaseAll \/ InvalidateAfterGenerationChange
    BY <1>3, OwnerKinds, YoungOwner
  <1>4. CASE Respond \/ Timeout
    <2>1. OpKeeps
      BY <1>4, GenProgress
    <2>2. ledger'.abandoned = ledger.abandoned
      BY <1>4, RespondFlags, TimeoutFlags DEF Typed, Flagged
    <2>3. UNCHANGED <<irm, stream>>
      BY <1>4 DEF Respond, Timeout
    <2>. QED BY <2>1, <2>2, <2>3, YoungKept
  <1>5. CASE OnBusResetBegin \/ ConfirmBusGeneration \/ OnBusResetComplete \/ SetIRMNode
    BY <1>5, <1>a, GenReset
  <1>6. CASE WaitTimeout
    BY <1>6, <1>a, GenWaitTimeout DEF WaitTimeout
  <1>7. CASE Stale
    BY <1>7, <1>a, GenStale DEF Stale
  <1>8. CASE Deliver
    <2>1. ledger'.abandoned = ledger.abandoned
      <3>1. CASE op.req = "lock" /\ Matches
        <4>1. op \in Ops /\ op.stage \notin Snap /\ op.channel \in Channels /\ LedgerTyped
          BY <3>1 DEF Typed, LockShape, LockShaped, OpTyped
        <4>2. ledger' = Credit(op)
          BY <1>8, <3>1 DEF Deliver
        <4>. QED BY <4>1, <4>2, CreditOutcome DEF Credited
      <3>2. CASE ~(op.req = "lock" /\ Matches)
        BY <1>8, <3>2 DEF Deliver
      <3>. QED BY <3>1, <3>2
    <2>2. UNCHANGED stream /\ irm'.gen = irm.gen
      BY <1>8, GenDeliver
    <2>3. CASE op.stage # "allocChannel"
      BY <1>8, <2>1, <2>2, <2>3, GenDeliver, YoungKept
    <2>4. CASE op.stage = "allocChannel"
      <3>1. OpCurrent'
        BY <1>8, <2>4, GenDeliver
      <3>. QED BY <2>1, <2>2, <3>1 DEF Young, OpCurrent
    <2>. QED BY <2>3, <2>4
  <1>9. CASE BusReset
    BY <1>9 DEF BusReset, EmptyLedger, Young
  <1>10. CASE Foreign
    <2>1. /\ UNCHANGED <<op, stream>> /\ irm'.gen = irm.gen /\ ledger'.abandoned = ledger.abandoned
      BY <1>10, GenForeign DEF ForeignChange
    <2>2. OpKeeps
      BY <2>1 DEF OpKeeps, Allocates, InFlight
    <2>. QED BY <2>1, <2>2, YoungKept
  <1>. QED BY <1>1, <1>3, <1>4, <1>5, <1>6, <1>7, <1>8, <1>9, <1>10 DEF Next, Owner, Driver

-----------------------------------------------------------------------------
(* The ledger: the proof *)

\* The entries of the present generation can be counted.
LEMMA HeldFinite ==
    ASSUME Typed
    PROVE  /\ IsFiniteSet(Held) /\ Cardinality(Held) \in Nat
           /\ Units * Cardinality(Held) \in Nat /\ Units \in Nat /\ 0 < Units /\ MaxUnits \in Nat
           /\ Held \subseteq 1..Len(stream.entries)
           /\ IsFiniteSet(ledger.abandoned) /\ Units * Cardinality(ledger.abandoned) \in Nat /\ Shares \in Nat
  <1>1. Len(stream.entries) \in Nat /\ Units \in Nat /\ 0 < Units /\ MaxUnits \in Nat
    BY GensTyped, ConstantsTyped
  <1>2. IsFiniteSet(1..Len(stream.entries))
    BY <1>1, FS_Interval
  <1>3. Held \subseteq 1..Len(stream.entries)
    BY DEF Held
  <1>4. IsFiniteSet(Held)
    BY <1>2, <1>3, FS_Subset
  <1>5. Cardinality(Held) \in Nat /\ Units * Cardinality(Held) \in Nat
    BY <1>1, <1>4, FS_CardinalityType
  <1>6. ledger.abandoned \in SUBSET Channels /\ IsFiniteSet(Channels)
    BY ConstantsTyped, IRMAssumption DEF Typed, LedgerTyped, Ledgers
  <1>7. IsFiniteSet(ledger.abandoned) /\ Cardinality(ledger.abandoned) \in Nat
    BY <1>6, FS_Subset, FS_CardinalityType
  <1>8. Units * Cardinality(ledger.abandoned) \in Nat
    BY <1>1, <1>7
  <1>9. Shares \in Nat
    BY <1>5, <1>8 DEF Shares
  <1>. QED BY <1>1, <1>3, <1>4, <1>5, <1>7, <1>8, <1>9

\* The shares change only with the entries and with what is dropped.
LEMMA SharesKept ==
    ASSUME Held' = Held, ledger'.abandoned = ledger.abandoned
    PROVE  Shares' = Shares
  BY DEF Shares

\* The first state: nothing is held.
LEMMA LedgerInit == Init => LedgerInv
  <1>. SUFFICES ASSUME Init PROVE LedgerInv
    OBVIOUS
  <1>1. /\ op = NoOp /\ stream.entries = <<>> /\ irm.channels = Channels /\ irm.bandwidth = MaxUnits
        /\ ledger = EmptyLedger
    BY DEF Init
  <1>2. ~OpCurrent
    BY <1>1, NoOpTyped DEF OpCurrent, Allocates, Releases
  <1>3. Held = {} /\ Cardinality(Held) = 0
    BY <1>1, FS_EmptySet DEF Held
  <1>4. /\ \A c \in Channels : ledger.holder[c] = "free"
        /\ ledger.ours = 0 /\ ledger.others = 0 /\ ledger.abandoned = {}
    BY <1>1 DEF EmptyLedger, Unused
  <1>5. ~HoldsChannel /\ ~Apart /\ ~HoldsUnits /\ CreditFits
    BY <1>2 DEF HoldsChannel, Apart, HoldsUnits, CreditFits
  <1>6. Claimed = 0
    BY <1>3, <1>4, <1>5, ConstantsTyped DEF Claimed, Shares
  <1>7. ChannelsKept
    BY <1>1, <1>3, <1>4, <1>5 DEF ChannelsKept
  <1>8. UnitsKept
    BY <1>1, <1>4, <1>5, <1>6, ConstantsTyped DEF UnitsKept
  <1>9. NoneLeft
    BY <1>4 DEF NoneLeft
  <1>. QED BY <1>7, <1>8, <1>9 DEF LedgerInv

\* A step that changes neither the registers nor the entries, only flags of the
\* ledger and what the operation may claim.
LEMMA Quiet ==
    ASSUME Typed, LedgerInv, NEW u, NEW g, Flagged(ledger', u, g), UNCHANGED irm, stream'.entries = stream.entries,
           HoldsChannel' => HoldsChannel /\ op'.channel = op.channel,
           Apart' => Apart /\ op'.channel = op.channel,
           ~ledger.spoiled /\ ~ledger'.uncertain =>
              CreditFits' /\ (HoldsUnits' => HoldsUnits) /\ (HoldsUnits => HoldsUnits' \/ ledger'.gaveUp),
           ~ledger.spoiled /\ ~ledger'.uncertain /\ ~ledger'.gaveUp =>
              (MayHold => MayHold' /\ op'.channel = op.channel)
    PROVE  LedgerInv'
  <1>0. /\ ledger'.holder = ledger.holder /\ ledger'.ours = ledger.ours /\ ledger'.others = ledger.others
        /\ ledger'.spoiled = ledger.spoiled /\ ledger'.abandoned = ledger.abandoned
        /\ ledger.uncertain => ledger'.uncertain
        /\ ledger.gaveUp => ledger'.gaveUp
    BY DEF Flagged
  <1>1. Held' = Held
    BY DEF Held
  <1>2. ChannelsKept'
    BY <1>0, <1>1 DEF LedgerInv, ChannelsKept
  <1>3. UnitsKept'
    <2>. DEFINE k == Shares
    <2>1. k \in Nat /\ Units \in Nat /\ ledger.ours \in Nat
      BY HeldFinite DEF Typed, LedgerTyped, Ledgers
    <2>2. /\ Claimed = k + (IF HoldsUnits THEN Units ELSE 0)
          /\ Claimed' = k + (IF HoldsUnits' THEN Units ELSE 0)
      BY <1>0, <1>1, SharesKept DEF Claimed
    <2>. HIDE DEF k
    <2>3. ASSUME ~ledger.spoiled, ~ledger'.uncertain
          PROVE  CreditFits' /\ Claimed' <= ledger.ours /\ (~ledger'.gaveUp => ledger.ours = Claimed')
      <3>1. /\ Claimed <= ledger.ours
            /\ ~ledger.gaveUp => ledger.ours = Claimed
        BY <1>0, <2>3 DEF LedgerInv, UnitsKept
      <3>2. CreditFits' /\ (HoldsUnits' => HoldsUnits) /\ (HoldsUnits => HoldsUnits' \/ ledger'.gaveUp)
        BY <2>3
      <3>3. Claimed' <= ledger.ours
        BY <2>1, <2>2, <3>1, <3>2
      <3>4. ~ledger'.gaveUp => ledger.ours = Claimed'
        BY <1>0, <2>2, <3>1, <3>2
      <3>. QED BY <3>2, <3>3, <3>4
    <2>. QED BY <1>0, <2>3 DEF LedgerInv, UnitsKept
  <1>4. NoneLeft'
    BY <1>0, <1>1 DEF LedgerInv, NoneLeft
  <1>. QED BY <1>2, <1>3, <1>4 DEF LedgerInv

\* A step between operations of other generations keeps the ledger.
LEMMA QuietUnbound ==
    ASSUME Typed, LedgerInv, UNCHANGED <<irm, ledger>>, stream'.entries = stream.entries,
           ~HoldsUnits, ~MayHold, ~OpCurrent'
    PROVE  LedgerInv'
  <1>1. Flagged(ledger', FALSE, FALSE)
    BY DEF Flagged, Typed, LedgerTyped
  <1>2. ~HoldsChannel' /\ ~Apart' /\ ~HoldsUnits' /\ CreditFits'
    BY DEF HoldsChannel, Apart, HoldsUnits, CreditFits
  <1>. QED BY <1>1, <1>2, Quiet

\* An answer or a timeout, and what it does to the operation and to the flags:
\* the client asks again, has what it asked for, is refused, skips a credit that
\* does not fit, or gives up.
StepOutcome ==
    \/ /\ Keeps(op, op') /\ op'.stage = op.stage /\ InFlight' /\ ~op'.applied /\ op'.result = "none"
       /\ Granted /\ op.stage \in {"allocChannel", "allocBandwidth", "releaseBandwidth"} => ledger'.uncertain
       /\ op.stage = "releaseBandwidth" => op'.unanswered \in {op.unanswered, NoValue} \/ ledger'.uncertain
    \/ Granted /\ Ends(bus, op, op', "Success")
    \/ op.req = "read" /\ op.stage = "allocChannel" /\ Ended(op, op', "ChannelBusy")
    \/ op.req = "read" /\ op.stage = "allocBandwidth" /\ Locks(bus, op, op', "rollback")
    \/ /\ op.req = "read" /\ op.stage = "releaseBandwidth" /\ op.applied
       /\ op.answer.bandwidth = op.unanswered \/ op.answer.bandwidth + Units > MaxUnits
       /\ Locks(bus, op, op', "releaseChannel")
    \/ /\ \E s \in {"NoResources", "Timeout", "Failed"} : Ends(bus, op, op', s)
       /\ Releasing(op) => ledger'.gaveUp
       /\ Granted /\ op.stage \in {"allocChannel", "allocBandwidth", "releaseBandwidth"} => ledger'.uncertain

\* Every answer and every timeout has one of these outcomes.
LEMMA StepOutcomes ==
    ASSUME Typed, Flight, Respond \/ Timeout, op.stage \notin Snap
    PROVE  StepOutcome /\ \E u, g \in BOOLEAN : Flagged(ledger', u, g)
  <1>0. /\ bus.phase = "open" /\ client.gen = bus.gen /\ client.node /\ InFlight /\ op.result = "none"
    BY StepProgress
  <1>1. op \in Ops /\ OpTyped /\ LockShape /\ BusTyped /\ LedgerTyped
    BY DEF Typed, OpTyped
  <1>f. \E u, g \in BOOLEAN : Flagged(ledger', u, g)
    <2>1. CASE Respond
      <3>1. Flagged(ledger', FALSE, Releasing(op) /\ LastTry(op))
        BY <1>1, <2>1, RespondFlags
      <3>. QED BY <3>1 DEF Releasing, LastTry
    <2>2. CASE Timeout
      <3>1. \E e \in BOOLEAN : Flagged(ledger', Unknown(op), Releasing(op) /\ (e \/ op.timeouts = 0))
        BY <1>1, <2>2, TimeoutFlags
      <3>. QED BY <3>1 DEF Releasing, Unknown
    <2>. QED BY <2>1, <2>2
  <1>. SUFFICES StepOutcome
    BY <1>f
  <1>a. ASSUME Asked(bus, op, op', op.stage)
        PROVE  Keeps(op, op') /\ op'.stage = op.stage /\ InFlight' /\ ~op'.applied /\ op'.result = "none"
    BY <1>0, <1>a DEF Asked, InFlight
  <1>b. ASSUME Swaps(bus, op, op')
        PROVE  /\ Keeps(op, op') /\ op'.stage = op.stage /\ InFlight' /\ ~op'.applied /\ op'.result = "none"
               /\ op'.unanswered \in {op.unanswered, NoValue}
    BY <1>0, <1>b DEF Swaps, InFlight
  <1>2. CASE Respond
    <2>1. Answers(bus, op, op') /\ op.applied
      BY <1>1, <1>2, RespondAnswers DEF Respond
    <2>2. Flagged(ledger', FALSE, Releasing(op) /\ LastTry(op))
      BY <1>1, <1>2, RespondFlags
    <2>3. ASSUME op.req = "lock", op.answer[Register(op.stage)] # op.value[Register(op.stage)], op.retries = 0
          PROVE  Releasing(op) => ledger'.gaveUp
      BY <2>2, <2>3 DEF LastTry, Flagged
    <2>4. CASE op.req = "read"
      <3>1. ~Granted
        BY <2>4 DEF Granted
      <3>2. CASE Swaps(bus, op, op')
        BY <1>b, <3>1, <3>2 DEF StepOutcome
      <3>3. CASE op.stage = "allocChannel" /\ Ends(bus, op, op', "ChannelBusy")
        BY <2>4, <3>3 DEF StepOutcome, Ends
      <3>4. CASE op.stage = "allocBandwidth" /\ Ends(bus, op, op', "BandwidthShort")
        BY <1>0, <2>4, <3>4 DEF StepOutcome, Ends
      <3>5. CASE /\ op.stage = "releaseBandwidth" /\ Ends(bus, op, op', "Success")
                 /\ op.answer.bandwidth = op.unanswered \/ op.answer.bandwidth + Units > MaxUnits
        BY <1>0, <2>1, <2>4, <3>5 DEF StepOutcome, Ends
      <3>. QED BY <2>1, <2>4, <3>2, <3>3, <3>4, <3>5 DEF Answers
    <2>5. CASE op.req = "lock"
      <3>1. CASE op.answer[Register(op.stage)] = op.value[Register(op.stage)]
        <4>1. Granted
          BY <2>1, <2>5, <3>1 DEF Granted
        <4>. QED BY <2>1, <2>5, <3>1, <4>1 DEF StepOutcome, Answers
      <3>2. CASE op.answer[Register(op.stage)] # op.value[Register(op.stage)]
        <4>1. ~Granted
          BY <3>2 DEF Granted
        <4>2. CASE op.retries = 0
          <5>1. Ends(bus, op, op', "NoResources")
            BY <2>1, <2>5, <3>2, <4>2 DEF Answers
          <5>. QED BY <2>3, <2>5, <3>2, <4>1, <4>2, <5>1 DEF StepOutcome
        <4>3. CASE op.retries # 0
          <5>1. Asked(bus, op, op', op.stage) /\ op'.unanswered = op.unanswered
            BY <2>1, <2>5, <3>2, <4>3 DEF Answers
          <5>. QED BY <1>a, <4>1, <5>1 DEF StepOutcome
        <4>. QED BY <4>2, <4>3
      <3>. QED BY <3>1, <3>2
    <2>. QED BY <1>0, <2>4, <2>5 DEF InFlight
  <1>3. CASE Timeout
    <2>1. PICK e \in BOOLEAN :
            /\ op' = IF e THEN OnError(bus, op) ELSE OnTimeout(bus, op)
            /\ Flagged(ledger', Unknown(op), Releasing(op) /\ (e \/ op.timeouts = 0))
      BY <1>1, <1>3, TimeoutFlags
    <2>3. Granted /\ op.stage \in {"allocChannel", "allocBandwidth", "releaseBandwidth"} => ledger'.uncertain
      BY <2>1 DEF Granted, Flagged, Unknown, Allocating
    <2>4. op.req = "lock" /\ op.stage = "releaseBandwidth" => ledger'.uncertain
      BY <2>1 DEF Flagged, Unknown
    <2>5. CASE e \/ op.timeouts = 0
      <3>1. Ends(bus, op, op', "Failed") \/ Ends(bus, op, op', "Timeout")
        <4>1. CASE e
          BY <1>1, <2>1, <4>1, FinishedEnds DEF OnError, Statuses
        <4>2. CASE ~e
          BY <1>1, <2>1, <2>5, <4>2, TimeoutOutcome
        <4>. QED BY <4>1, <4>2
      <3>2. Releasing(op) => ledger'.gaveUp
        BY <2>1, <2>5 DEF Flagged
      <3>. QED BY <2>3, <3>1, <3>2 DEF StepOutcome
    <2>6. CASE ~(e \/ op.timeouts = 0)
      <3>1. Asked(bus, op, op', op.stage) /\ (op'.unanswered = op.unanswered \/ op.req = "lock")
        BY <1>1, <2>1, <2>6, TimeoutOutcome
      <3>. QED BY <1>a, <2>3, <2>4, <3>1 DEF StepOutcome
    <2>. QED BY <2>5, <2>6
  <1>. QED BY <1>2, <1>3

\* What Quiet asks of the operation.
QuietChange ==
    /\ HoldsChannel' => HoldsChannel /\ op'.channel = op.channel
    /\ Apart' => Apart /\ op'.channel = op.channel
    /\ ~ledger.spoiled /\ ~ledger'.uncertain =>
          CreditFits' /\ (HoldsUnits' => HoldsUnits) /\ (HoldsUnits => HoldsUnits' \/ ledger'.gaveUp)
    /\ ~ledger.spoiled /\ ~ledger'.uncertain /\ ~ledger'.gaveUp =>
          (MayHold => MayHold' /\ op'.channel = op.channel)

\* An answer or a timeout leaves the operation with what it held, or raises a
\* flag.
LEMMA LedgerProgress ==
    ASSUME Typed, GenInv, LedgerInv, Respond \/ Timeout
    PROVE  LedgerInv'
  <1>0. /\ client.node /\ client.gen = bus.gen /\ bus.phase = "open" /\ InFlight /\ op.result = "none"
        /\ UNCHANGED <<irm, stream>> /\ Progress(op, op')
    BY StepProgress DEF GenInv
  <1>1. op'.gen = op.gen /\ op'.channel = op.channel /\ op.stage \in Stages /\ op.status \in Statuses
    BY <1>0 DEF Progress, Keeps, Typed, OpTyped, Ops
  <1>2. ~Granted' /\ (op'.req # "none" => op'.result = "none" /\ InFlight')
    BY <1>0 DEF Progress, Granted, InFlight
  <1>3. OpCurrent' => OpCurrent
    BY GenProgress
  <1>4. \E u, g \in BOOLEAN : Flagged(ledger', u, g)
    <2>1. CASE Respond
      <3>1. Flagged(ledger', FALSE, Releasing(op) /\ LastTry(op))
        BY <2>1, RespondFlags DEF Typed
      <3>. QED BY <3>1 DEF Releasing, LastTry
    <2>2. CASE Timeout
      <3>1. \E e \in BOOLEAN : Flagged(ledger', Unknown(op), Releasing(op) /\ (e \/ op.timeouts = 0))
        BY <2>2, TimeoutFlags DEF Typed
      <3>. QED BY <3>1 DEF Releasing, Unknown
    <2>. QED BY <2>1, <2>2
  <1>5. ASSUME ~ledger'.uncertain PROVE ~ledger.uncertain
    BY <1>4, <1>5 DEF Flagged
  <1>6. ASSUME ~ledger.spoiled, ~ledger'.uncertain PROVE CreditFits
    BY <1>5, <1>6 DEF LedgerInv, UnitsKept
  <1>7. QuietChange
    <2>1. CASE op.stage \in Snap
      <3>1. ~OpCurrent /\ ~OpCurrent'
        BY <1>3, <2>1 DEF OpCurrent, Allocates, Snap, Releases
      <3>. QED BY <3>1 DEF QuietChange, HoldsChannel, Apart, HoldsUnits, MayHold, CreditFits
    <2>2. ASSUME op.stage \notin Snap, Keeps(op, op'), op'.stage = op.stage, InFlight', ~op'.applied, op'.result = "none",
                 Granted /\ op.stage \in {"allocChannel", "allocBandwidth", "releaseBandwidth"} => ledger'.uncertain,
                 op.stage = "releaseBandwidth" => op'.unanswered \in {op.unanswered, NoValue} \/ ledger'.uncertain
          PROVE  QuietChange
      <3>1. op.stage # "allocChannel" => (OpCurrent' <=> OpCurrent)
        BY <1>0, <1>1, <2>2 DEF OpCurrent, Allocates
      <3>2. op.stage = "allocChannel" => ~OpCurrent'
        BY <2>2 DEF OpCurrent, Allocates, Releases
      <3>3. HoldsChannel' => HoldsChannel
        BY <1>2, <2>2, <3>1, <3>2 DEF HoldsChannel
      <3>4. Apart' => Apart
        BY <2>2, <3>1, <3>2 DEF Apart
      <3>5. ~ledger.spoiled /\ ~ledger'.uncertain => CreditFits'
        BY <1>6, <2>2, <3>1 DEF CreditFits
      <3>6. ~ledger'.uncertain => (HoldsUnits' <=> HoldsUnits)
        BY <1>0, <1>2, <2>2, <3>1 DEF HoldsUnits
      <3>7. ~ledger'.uncertain => (MayHold => MayHold')
        BY <1>2, <2>2, <3>1 DEF MayHold
      <3>. QED BY <1>1, <3>3, <3>4, <3>5, <3>6, <3>7 DEF QuietChange
    <2>a. ASSUME NEW st, Locks(bus, op, op', st)
          PROVE  op'.stage = st /\ op'.req = "read" /\ op'.result = "none" /\ ~op'.applied
      BY <1>0, <2>a DEF Locks, Asked
    <2>b. ASSUME NEW s, Ended(op, op', s)
          PROVE  op'.stage = op.stage /\ op'.req = "none" /\ op'.result = s
      BY <2>b DEF Ended
    <2>3. ASSUME op.stage \notin Snap, Granted, Ends(bus, op, op', "Success") PROVE QuietChange
      <3>1. CASE op.stage = "allocChannel"
        <4>1. op'.stage = "allocBandwidth" /\ op'.result = "none"
          BY <1>0, <2>3, <2>a, <3>1 DEF Ends
        <4>2. OpCurrent => OpCurrent'
          BY <1>0, <1>1, <4>1 DEF OpCurrent, Allocates
        <4>. QED BY <1>1, <1>2, <1>3, <2>3, <3>1, <4>1, <4>2 DEF QuietChange, HoldsChannel, Apart, HoldsUnits, MayHold, CreditFits
      <3>2. CASE op.stage = "allocBandwidth"
        <4>1. op'.stage = "allocBandwidth" /\ op'.result = "Success"
          BY <2>3, <2>b, <3>2 DEF Ends
        <4>2. OpCurrent => OpCurrent'
          BY <1>0, <1>1, <4>1 DEF OpCurrent, Allocates
        <4>. QED BY <1>1, <1>2, <1>3, <2>3, <3>2, <4>1, <4>2 DEF QuietChange, HoldsChannel, Apart, HoldsUnits, MayHold, CreditFits
      <3>3. CASE op.stage = "rollback" \/ op.stage = "releaseChannel"
        <4>1. op'.stage = op.stage
          BY <2>3, <2>b, <3>3 DEF Ends
        <4>. QED BY <1>1, <1>3, <2>3, <3>3, <4>1 DEF QuietChange, HoldsChannel, Apart, HoldsUnits, MayHold, CreditFits
      <3>4. CASE op.stage = "releaseBandwidth"
        <4>1. op'.stage = "releaseChannel" /\ op'.result = "none"
          BY <1>0, <2>3, <2>a, <3>4 DEF Ends
        <4>2. OpCurrent => OpCurrent'
          BY <1>0, <1>1, <4>1 DEF OpCurrent, Releases
        <4>. QED BY <1>1, <1>2, <1>3, <2>3, <3>4, <4>1, <4>2 DEF QuietChange, HoldsChannel, Apart, HoldsUnits, MayHold, CreditFits
      <3>. QED BY <1>1, <2>3, <3>1, <3>2, <3>3, <3>4 DEF Stages, Snap
    <2>4. ASSUME op.req = "read", op.stage = "allocChannel", Ended(op, op', "ChannelBusy") PROVE QuietChange
      <3>1. ~OpCurrent' /\ ~Granted
        BY <2>4, <2>b DEF OpCurrent, Allocates, InFlight, Releases, Granted
      <3>. QED BY <2>4, <3>1 DEF QuietChange, HoldsChannel, Apart, HoldsUnits, MayHold, CreditFits
    <2>5. ASSUME op.req = "read", op.stage = "allocBandwidth", Locks(bus, op, op', "rollback") PROVE QuietChange
      <3>1. op'.stage = "rollback" /\ op'.result = "none" /\ ~Granted
        BY <2>5, <2>a DEF Granted
      <3>2. OpCurrent => OpCurrent'
        BY <1>0, <1>1, <3>1 DEF OpCurrent, Allocates
      <3>. QED BY <1>0, <1>1, <1>2, <1>3, <2>5, <3>1, <3>2 DEF QuietChange, HoldsChannel, Apart, HoldsUnits, MayHold, CreditFits
    <2>6. ASSUME op.req = "read", op.stage = "releaseBandwidth", op.applied,
                 op.answer.bandwidth = op.unanswered \/ op.answer.bandwidth + Units > MaxUnits,
                 Locks(bus, op, op', "releaseChannel")
          PROVE  QuietChange
      <3>1. op'.stage = "releaseChannel" /\ op'.result = "none" /\ ~Granted
        BY <2>6, <2>a DEF Granted
      <3>2. OpCurrent => OpCurrent'
        BY <1>0, <1>1, <3>1 DEF OpCurrent, Releases
      <3>3. op.answer.bandwidth \in 0..MaxUnits /\ Units \in Nat /\ MaxUnits \in Nat
        BY ConstantsTyped DEF Typed, OpTyped, Ops, Registers
      <3>4. ~(CreditFits /\ OpCurrent)
        BY <2>6, <3>3 DEF CreditFits, NoValue
      <3>5. ~ledger.spoiled /\ ~ledger'.uncertain => ~OpCurrent
        BY <1>6, <3>4
      <3>. QED BY <1>1, <1>3, <2>6, <3>1, <3>2, <3>5 DEF QuietChange, HoldsChannel, Apart, HoldsUnits, MayHold, CreditFits
    <2>7. ASSUME NEW s \in {"NoResources", "Timeout", "Failed"}, op.stage \notin Snap, Ends(bus, op, op', s), Releasing(op) => ledger'.gaveUp,
                 Granted /\ op.stage \in {"allocChannel", "allocBandwidth", "releaseBandwidth"} => ledger'.uncertain
          PROVE  QuietChange
      <3>1. CASE op.stage = "allocChannel"
        <4>1. op'.stage = "allocChannel" /\ op'.req = "none"
          BY <2>7, <2>b, <3>1 DEF Ends
        <4>2. ~OpCurrent'
          BY <4>1 DEF OpCurrent, Allocates, InFlight, Releases
        <4>. QED BY <2>7, <3>1, <4>2 DEF QuietChange, HoldsChannel, Apart, HoldsUnits, MayHold, CreditFits
      <3>2. CASE op.stage = "allocBandwidth"
        <4>1. op'.stage = "rollback" /\ op'.result = "none"
          BY <1>0, <2>7, <2>a, <3>2 DEF Ends
        <4>2. OpCurrent => OpCurrent'
          BY <1>0, <1>1, <4>1 DEF OpCurrent, Allocates
        <4>. QED BY <1>0, <1>1, <1>2, <1>3, <2>7, <3>2, <4>1, <4>2 DEF QuietChange, HoldsChannel, Apart, HoldsUnits, MayHold, CreditFits
      <3>3. CASE op.stage = "rollback" \/ op.stage = "releaseChannel"
        <4>1. op'.stage = op.stage
          BY <2>7, <2>b, <3>3 DEF Ends
        <4>2. ledger'.gaveUp
          BY <2>7, <3>3 DEF Releasing
        <4>. QED BY <1>1, <1>3, <3>3, <4>1, <4>2 DEF QuietChange, HoldsChannel, Apart, HoldsUnits, MayHold, CreditFits
      <3>4. CASE op.stage = "releaseBandwidth"
        <4>1. op'.stage = "releaseChannel" /\ ledger'.gaveUp
          BY <1>0, <2>7, <2>a, <3>4 DEF Ends, Releasing
        <4>. QED BY <1>1, <1>3, <3>4, <4>1 DEF QuietChange, HoldsChannel, Apart, HoldsUnits, MayHold, CreditFits
      <3>. QED BY <1>1, <2>7, <3>1, <3>2, <3>3, <3>4 DEF Stages, Snap
    <2>8. CASE op.stage \notin Snap
      <3>1. StepOutcome
        BY <2>8, StepOutcomes DEF GenInv
      <3>. QED BY <2>8, <3>1, <2>2, <2>3, <2>4, <2>5, <2>6, <2>7 DEF StepOutcome
    <2>. QED BY <2>1, <2>8
  <1>. QED BY <1>0, <1>4, <1>7, Quiet DEF QuietChange

\* A reset returns every resource, and nothing of the new generation is held.
LEMMA LedgerBusReset ==
    ASSUME Typed, GenInv, BusReset
    PROVE  LedgerInv'
  <1>1. irm'.channels = Channels /\ irm'.bandwidth = MaxUnits /\ ledger' = EmptyLedger
    BY DEF BusReset
  <1>2. ~OpCurrent' /\ Held' = {}
    BY GenBusReset
  <1>3. Cardinality(Held') = 0
    BY <1>2, FS_EmptySet
  <1>4. /\ \A c \in Channels : ledger'.holder[c] = "free"
        /\ ledger'.ours = 0 /\ ledger'.others = 0 /\ ledger'.abandoned = {}
    BY <1>1 DEF EmptyLedger, Unused
  <1>5. ~HoldsChannel' /\ ~Apart' /\ ~HoldsUnits' /\ CreditFits'
    BY <1>2 DEF HoldsChannel, Apart, HoldsUnits, CreditFits
  <1>6. Claimed' = 0
    <2>1. Cardinality(ledger'.abandoned) = 0
      BY <1>4, FS_EmptySet
    <2>. QED BY <1>3, <1>5, <2>1, ConstantsTyped DEF Claimed, Shares
  <1>7. ChannelsKept'
    BY <1>1, <1>2, <1>4, <1>5 DEF ChannelsKept
  <1>8. UnitsKept'
    BY <1>1, <1>4, <1>5, <1>6, ConstantsTyped DEF UnitsKept
  <1>9. NoneLeft'
    BY <1>4 DEF NoneLeft
  <1>. QED BY <1>7, <1>8, <1>9 DEF LedgerInv

\* The channels of the entries are as many as the entries, none of them
\* abandoned before.
LEMMA DroppedShares ==
    ASSUME Typed, LedgerInv, Forgets, ~ledger.spoiled, Held' = {}
    PROVE  Shares' = Shares
  <1>. DEFINE T == {stream.entries[i].channel : i \in Held}
              f == [i \in Held |-> stream.entries[i].channel]
              a == Cardinality(ledger.abandoned)
              h == Cardinality(Held)
  <1>0. IsFiniteSet(Held) /\ IsFiniteSet(ledger.abandoned) /\ Units \in Nat
    BY HeldFinite
  <1>1. /\ \A i, j \in Held : stream.entries[i].channel = stream.entries[j].channel => i = j
        /\ \A i \in Held : stream.entries[i].channel \notin ledger.abandoned
    BY DEF LedgerInv, ChannelsKept
  <1>2. f \in Surjection(Held, T)
    BY DEF Surjection
  <1>3. f \in Injection(Held, T)
    BY <1>1 DEF Injection, IsInjective
  <1>4. IsFiniteSet(T) /\ Cardinality(T) = h
    BY <1>0, <1>2, <1>3, FS_Surjection
  <1>5. ledger.abandoned \cap T = {}
    BY <1>1
  <1>6. a \in Nat /\ h \in Nat
    BY <1>0, FS_CardinalityType
  <1>. HIDE DEF T, f
  <1>7. Cardinality(ledger.abandoned \cup T) = a + h
    <2>1. Cardinality(ledger.abandoned \cap T) = 0
      BY <1>5, FS_EmptySet
    <2>2. Cardinality(ledger.abandoned \cup T) = a + Cardinality(T) - Cardinality(ledger.abandoned \cap T)
      BY <1>0, <1>4, FS_Union
    <2>. QED BY <1>4, <1>6, <2>1, <2>2
  <1>8. ledger'.abandoned = ledger.abandoned \cup T
    BY DEF Forgets, Abandons, T
  <1>9. Cardinality(Held') = 0
    BY FS_EmptySet
  <1>. HIDE DEF a, h
  <1>10. Units * (a + h) + Units * 0 = Units * a + Units * h
    BY <1>0, <1>6
  <1>11. Shares = Units * a + Units * h
    BY DEF Shares, a, h
  <1>12. Shares' = Units * (a + h) + Units * 0
    BY <1>7, <1>8, <1>9 DEF Shares
  <1>. QED BY <1>10, <1>11, <1>12

\* What the dropped entries stood for stays at the IRM, as abandoned.
LEMMA LedgerForgets ==
    ASSUME Typed, GenInv, LedgerInv, Forgets
    PROVE  LedgerInv'
  <1>. DEFINE T == {stream.entries[i].channel : i \in Held}
  <1>0. UNCHANGED <<irm, op>> /\ Abandons(ledger', T)
    BY DEF Forgets
  <1>1. Held' = {}
    BY GenForgets
  <1>2. /\ ledger'.abandoned = ledger.abandoned \cup T
        /\ ledger'.holder = ledger.holder /\ ledger'.ours = ledger.ours /\ ledger'.others = ledger.others
        /\ ledger'.spoiled = ledger.spoiled /\ ledger'.uncertain = ledger.uncertain /\ ledger'.gaveUp = ledger.gaveUp
    BY <1>0 DEF Abandons
  <1>3. /\ (HoldsChannel' <=> HoldsChannel) /\ (Apart' <=> Apart) /\ (HoldsUnits' <=> HoldsUnits)
        /\ (MayHold' <=> MayHold) /\ (CreditFits' <=> CreditFits)
    BY <1>0 DEF HoldsChannel, Apart, HoldsUnits, MayHold, CreditFits, OpCurrent, Allocates, InFlight, Granted
  <1>4. ChannelsKept'
    <2>. SUFFICES ASSUME ~ledger.spoiled PROVE ChannelsKept'
      BY <1>2 DEF ChannelsKept
    <2>1. /\ \A c \in Channels : c \in irm.channels <=> ledger.holder[c] = "free"
          /\ \A i \in Held : ledger.holder[stream.entries[i].channel] = "ours"
          /\ HoldsChannel => ledger.holder[op.channel] = "ours"
          /\ Apart => \A i \in Held : stream.entries[i].channel # op.channel
          /\ \A c \in ledger.abandoned : ledger.holder[c] = "ours"
          /\ Apart => op.channel \notin ledger.abandoned
      BY DEF LedgerInv, ChannelsKept
    <2>2. \A c \in ledger'.abandoned : ledger.holder[c] = "ours"
      BY <1>2, <2>1
    <2>3. Apart => op.channel \notin ledger'.abandoned
      BY <1>2, <2>1
    <2>. HIDE DEF T
    <2>. QED BY <1>0, <1>1, <1>2, <1>3, <2>1, <2>2, <2>3 DEF ChannelsKept
  <1>5. UnitsKept'
    <2>1. ~ledger.spoiled => Claimed' = Claimed
      BY <1>1, <1>3, DroppedShares DEF Claimed
    <2>. HIDE DEF T
    <2>. QED BY <1>0, <1>2, <1>3, <2>1 DEF LedgerInv, UnitsKept
  <1>6. NoneLeft'
    BY <1>0, <1>1, <1>2, <1>3 DEF LedgerInv, NoneLeft
  <1>. QED BY <1>4, <1>5, <1>6 DEF LedgerInv

\* Claims move between an operation and an entry.
LEMMA ClaimMoves ==
    ASSUME Typed, NEW n, n \notin Held
    PROVE  /\ Cardinality(Held \cup {n}) = Cardinality(Held) + 1
           /\ Units * Cardinality(Held \cup {n}) = Units * Cardinality(Held) + Units
  <1>. DEFINE k == Cardinality(Held)
  <1>1. IsFiniteSet(Held) /\ k \in Nat /\ Units \in Nat
    BY HeldFinite
  <1>2. Cardinality(Held \cup {n}) = k + 1
    BY <1>1, FS_AddElement
  <1>. HIDE DEF k
  <1>3. Units * (k + 1) = Units * k + Units
    BY <1>1
  <1>. QED BY <1>2, <1>3 DEF k

\* What the operation was granted passes to the entry that records it.
LEMMA LedgerRecords ==
    ASSUME Typed, GenInv, LedgerInv, Records
    PROVE  LedgerInv'
  <1>. DEFINE n == Len(stream.entries)
  <1>0. /\ UNCHANGED <<irm, ledger>> /\ op.stage = "allocBandwidth" /\ op.result = "Success" /\ n \in Nat
        /\ Entry.gen = op.gen /\ Entry.channel = op.channel /\ op.req = "none"
    BY GensTyped DEF Records, Entry
  <1>1. /\ Len(stream'.entries) = n + 1
        /\ \A i \in 1..n : stream'.entries[i] = stream.entries[i]
        /\ stream'.entries[n + 1] = Entry
    BY GensTyped, EntriesChange DEF Records
  <1>2. ~OpCurrent'
    BY GenRecords
  <1>3. ~HoldsChannel' /\ ~Apart' /\ ~HoldsUnits' /\ CreditFits' /\ ~MayHold'
    BY <1>2 DEF HoldsChannel, Apart, HoldsUnits, CreditFits, MayHold
  <1>4. OpCurrent <=> op.gen = irm.gen
    BY <1>0 DEF OpCurrent, Allocates
  <1>5. \A i \in 1..(n + 1) : i \in 1..n \/ i = n + 1
    BY <1>0
  <1>6. Held \subseteq 1..n /\ n + 1 \notin Held /\ 1..n \subseteq 1..(n + 1) /\ n + 1 \in 1..(n + 1)
    BY <1>0 DEF Held
  <1>. HIDE DEF n
  <1>7. CASE op.gen = irm.gen
    <2>0. OpCurrent /\ HoldsChannel /\ Apart /\ HoldsUnits
      BY <1>0, <1>4, <1>7 DEF HoldsChannel, Apart, HoldsUnits
    <2>1. Held' = Held \cup {n + 1}
      BY <1>0, <1>1, <1>5, <1>6, <1>7 DEF Held, n
    <2>2. Units * Cardinality(Held') = Units * Cardinality(Held) + Units
      BY <1>6, <2>1, ClaimMoves
    <2>a. Claimed = Shares + Units
      BY <2>0 DEF Claimed
    <2>b. Claimed' = Shares' + 0
      BY <1>0, <1>3 DEF Claimed
    <2>3. Claimed' = Claimed
      <3>. DEFINE a == Units * Cardinality(ledger.abandoned)
                  k == Units * Cardinality(Held)
      <3>1. a \in Nat /\ k \in Nat /\ Units \in Nat
        BY HeldFinite
      <3>2. Shares = a + k /\ Shares' = a + (k + Units)
        BY <1>0, <2>2 DEF Shares
      <3>. HIDE DEF a, k
      <3>. QED BY <2>a, <2>b, <3>1, <3>2
    <2>4. \A i \in Held : stream'.entries[i] = stream.entries[i]
      BY <1>1, <1>6
    <2>5. ChannelsKept'
      <3>1. CASE ledger.spoiled
        BY <1>0, <3>1 DEF ChannelsKept
      <3>2. CASE ~ledger.spoiled
        <4>1. /\ \A c \in Channels : c \in irm.channels <=> ledger.holder[c] = "free"
              /\ \A i \in Held : ledger.holder[stream.entries[i].channel] = "ours"
              /\ \A i, j \in Held : stream.entries[i].channel = stream.entries[j].channel => i = j
              /\ ledger.holder[op.channel] = "ours"
              /\ \A i \in Held : stream.entries[i].channel # op.channel
              /\ \A c \in ledger.abandoned : ledger.holder[c] = "ours"
              /\ \A i \in Held : stream.entries[i].channel \notin ledger.abandoned
              /\ op.channel \notin ledger.abandoned
          BY <2>0, <3>2 DEF LedgerInv, ChannelsKept
        <4>2. \A i \in Held' : ledger.holder[stream'.entries[i].channel] = "ours"
          BY <1>0, <1>1, <2>1, <2>4, <4>1
        <4>3. \A i, j \in Held' : stream'.entries[i].channel = stream'.entries[j].channel => i = j
          BY <1>0, <1>1, <2>1, <2>4, <4>1
        <4>4. \A i \in Held' : stream'.entries[i].channel \notin ledger.abandoned
          BY <1>0, <1>1, <2>1, <2>4, <4>1
        <4>. QED BY <1>0, <1>3, <4>1, <4>2, <4>3, <4>4 DEF ChannelsKept
      <3>. QED BY <3>1, <3>2
    <2>6. UnitsKept'
      BY <1>0, <1>3, <2>3 DEF LedgerInv, UnitsKept
    <2>7. NoneLeft'
      BY <1>0, <1>1, <2>1, <2>4 DEF LedgerInv, NoneLeft
    <2>. QED BY <2>5, <2>6, <2>7 DEF LedgerInv
  <1>8. CASE op.gen # irm.gen
    <2>0. ~OpCurrent /\ ~HoldsUnits /\ ~MayHold
      BY <1>4, <1>8 DEF HoldsUnits, MayHold
    <2>1. Held' = Held
      BY <1>0, <1>1, <1>5, <1>6, <1>8 DEF Held, n
    <2>2. Claimed' = Claimed
      BY <1>0, <1>3, <2>0, <2>1, SharesKept DEF Claimed
    <2>3. \A i \in Held : stream'.entries[i] = stream.entries[i]
      BY <1>1, <1>6
    <2>4. ChannelsKept'
      BY <1>0, <1>3, <2>1, <2>3 DEF LedgerInv, ChannelsKept
    <2>5. UnitsKept'
      BY <1>0, <1>3, <2>2 DEF LedgerInv, UnitsKept
    <2>6. NoneLeft'
      BY <1>0, <2>0, <2>1, <2>3 DEF LedgerInv, NoneLeft
    <2>. QED BY <2>4, <2>5, <2>6 DEF LedgerInv
  <1>. QED BY <1>7, <1>8

\* What the entry stood for passes to the release that begins.
LEMMA LedgerDrops ==
    ASSUME Typed, GenInv, LedgerInv, Drops
    PROVE  LedgerInv'
  <1>. DEFINE n == Len(stream.entries)
              e == Last(stream.entries)
  <1>0. UNCHANGED <<irm, ledger>> /\ n \in Nat /\ op = NoOp
    BY GensTyped DEF Drops
  <1>1. /\ Len(stream'.entries) = n - 1 /\ n \in 1..n
        /\ \A i \in 1..(n - 1) : stream'.entries[i] = stream.entries[i]
        /\ e = stream.entries[n]
    <2>. DEFINE s == stream.entries
    <2>1. s \in Seq(Reservation) /\ s # <<>> /\ stream'.entries = Front(s)
      BY GensTyped DEF Drops
    <2>. HIDE DEF s
    <2>2. /\ Len(Front(s)) = Len(s) - 1 /\ Len(s) \in 1..Len(s) /\ Last(s) = s[Len(s)]
          /\ \A i \in 1..(Len(s) - 1) : Front(s)[i] = s[i]
      BY <2>1, EntriesChange
    <2>. QED BY <2>1, <2>2 DEF s
  <1>2. /\ OpCurrent' <=> e.gen = irm.gen
        /\ OpCurrent' => /\ op'.stage = "releaseBandwidth" /\ op'.req = "read" /\ op'.result = "none"
                         /\ ~op'.applied /\ op'.unanswered = NoValue
        /\ op'.channel = e.channel
    BY GenDrops
  <1>3. ~HoldsUnits /\ ~MayHold
    BY <1>0, NothingHeld
  <1>4. \A i \in 1..n : i \in 1..(n - 1) \/ i = n
    BY <1>0
  <1>5. 1..(n - 1) \subseteq 1..n /\ n \notin 1..(n - 1)
    BY <1>0
  <1>6. Held \subseteq 1..n /\ Held' \subseteq 1..(n - 1)
    BY <1>1 DEF Held
  <1>. HIDE DEF n, e
  <1>7. CASE e.gen = irm.gen
    <2>0. OpCurrent' /\ ~HoldsChannel' /\ Apart' /\ HoldsUnits' /\ CreditFits' /\ MayHold'
      BY <1>2, <1>7 DEF HoldsChannel, Apart, HoldsUnits, CreditFits, MayHold, Granted
    <2>1. Held = Held' \cup {n} /\ n \notin Held'
      BY <1>0, <1>1, <1>4, <1>5, <1>6, <1>7 DEF Held, n
    <2>2. Units * Cardinality(Held) = Units * Cardinality(Held') + Units /\ Units * Cardinality(Held') \in Nat
      <3>1. IsFiniteSet(Held) /\ Units \in Nat /\ n \in Held /\ Held' = Held \ {n}
        BY <2>1, HeldFinite
      <3>2. IsFiniteSet(Held') /\ Cardinality(Held') = Cardinality(Held) - 1 /\ Cardinality(Held) \in Nat
        BY <3>1, FS_RemoveElement, FS_CardinalityType
      <3>3. Cardinality(Held') \in Nat
        BY <3>2, FS_CardinalityType
      <3>. DEFINE k == Cardinality(Held')
      <3>4. Cardinality(Held) = k + 1 /\ k \in Nat
        BY <3>2, <3>3
      <3>. HIDE DEF k
      <3>5. Units * (k + 1) = Units * k + Units /\ Units * k \in Nat
        BY <3>1, <3>4
      <3>. QED BY <3>4, <3>5 DEF k
    <2>a. Claimed = Shares + 0
      BY <1>3 DEF Claimed
    <2>b. Claimed' = Shares' + Units
      BY <2>0 DEF Claimed
    <2>3. Claimed' = Claimed
      <3>. DEFINE a == Units * Cardinality(ledger.abandoned)
                  k == Units * Cardinality(Held')
      <3>1. a \in Nat /\ k \in Nat /\ Units \in Nat
        BY <2>2, HeldFinite
      <3>2. Shares = a + (k + Units) /\ Shares' = a + k
        BY <1>0, <2>2 DEF Shares
      <3>. HIDE DEF a, k
      <3>. QED BY <2>a, <2>b, <3>1, <3>2
    <2>4. \A i \in Held' : stream'.entries[i] = stream.entries[i] /\ i \in Held /\ i # n
      BY <1>1, <1>6, <2>1
    <2>5. ChannelsKept'
      <3>1. CASE ledger.spoiled
        BY <1>0, <3>1 DEF ChannelsKept
      <3>2. CASE ~ledger.spoiled
        <4>1. /\ \A c \in Channels : c \in irm.channels <=> ledger.holder[c] = "free"
              /\ \A i \in Held : ledger.holder[stream.entries[i].channel] = "ours"
              /\ \A i, j \in Held : stream.entries[i].channel = stream.entries[j].channel => i = j
              /\ \A c \in ledger.abandoned : ledger.holder[c] = "ours"
              /\ \A i \in Held : stream.entries[i].channel \notin ledger.abandoned
          BY <3>2 DEF LedgerInv, ChannelsKept
        <4>2. \A i \in Held' : ledger.holder[stream'.entries[i].channel] = "ours"
          BY <2>4, <4>1
        <4>3. \A i, j \in Held' : stream'.entries[i].channel = stream'.entries[j].channel => i = j
          BY <2>4, <4>1
        <4>4. \A i \in Held' : stream'.entries[i].channel # op'.channel
          BY <1>1, <1>2, <2>1, <2>4, <4>1
        <4>5. /\ \A i \in Held' : stream'.entries[i].channel \notin ledger.abandoned
              /\ op'.channel \notin ledger.abandoned
          BY <1>1, <1>2, <2>1, <2>4, <4>1
        <4>. QED BY <1>0, <2>0, <4>1, <4>2, <4>3, <4>4, <4>5 DEF ChannelsKept
      <3>. QED BY <3>1, <3>2
    <2>6. UnitsKept'
      BY <1>0, <2>0, <2>3 DEF LedgerInv, UnitsKept
    <2>7. NoneLeft'
      BY <1>0, <1>1, <1>2, <1>3, <2>0, <2>1, <2>4 DEF LedgerInv, NoneLeft
    <2>. QED BY <2>5, <2>6, <2>7 DEF LedgerInv
  <1>8. CASE e.gen # irm.gen
    <2>0. ~OpCurrent' /\ ~HoldsChannel' /\ ~Apart' /\ ~HoldsUnits' /\ CreditFits'
      BY <1>2, <1>8 DEF HoldsChannel, Apart, HoldsUnits, CreditFits
    <2>1. Held' = Held
      BY <1>0, <1>1, <1>4, <1>5, <1>6, <1>8 DEF Held, n
    <2>2. Claimed' = Claimed
      BY <1>0, <1>3, <2>0, <2>1, SharesKept DEF Claimed
    <2>3. \A i \in Held : stream'.entries[i] = stream.entries[i]
      BY <1>1, <1>6, <2>1
    <2>4. ChannelsKept'
      BY <1>0, <2>0, <2>1, <2>3 DEF LedgerInv, ChannelsKept
    <2>5. UnitsKept'
      BY <1>0, <2>0, <2>2 DEF LedgerInv, UnitsKept
    <2>6. NoneLeft'
      BY <1>0, <1>3, <2>1, <2>3 DEF LedgerInv, NoneLeft
    <2>. QED BY <2>4, <2>5, <2>6 DEF LedgerInv
  <1>. QED BY <1>7, <1>8

\* Other initiators take what is free and give back what is theirs.
LEMMA LedgerForeign ==
    ASSUME Typed, GenInv, LedgerInv, Foreign
    PROVE  LedgerInv'
  <1>0. UNCHANGED <<op, stream>> /\ irm'.gen = irm.gen /\ ForeignChange
    BY GenForeign
  <1>1. /\ Held' = Held /\ (HoldsChannel' <=> HoldsChannel) /\ (Apart' <=> Apart) /\ (HoldsUnits' <=> HoldsUnits)
        /\ (MayHold' <=> MayHold) /\ (CreditFits' <=> CreditFits)
    BY <1>0 DEF Held, HoldsChannel, Apart, HoldsUnits, MayHold, CreditFits, OpCurrent, Allocates, InFlight, Granted
  <1>3. /\ ledger'.ours = ledger.ours /\ ledger'.spoiled = ledger.spoiled /\ ledger'.abandoned = ledger.abandoned
        /\ ledger'.uncertain = ledger.uncertain /\ ledger'.gaveUp = ledger.gaveUp
    BY <1>0 DEF ForeignChange
  <1>2. Claimed' = Claimed
    BY <1>1, <1>3, SharesKept DEF Claimed
  <1>4. /\ irm.bandwidth \in Nat /\ irm'.bandwidth \in Nat /\ ledger.ours \in Nat /\ ledger.others \in Nat
        /\ ledger'.others \in Nat /\ ledger.holder \in [Channels -> {"free", "ours", "others"}]
        /\ irm.channels \subseteq Channels
    BY <1>0, ConstantsTyped DEF ForeignChange, Ledgers, Typed, BusTyped, LedgerTyped
  <1>5. irm'.bandwidth + ledger'.others = irm.bandwidth + ledger.others
    BY <1>0, <1>4 DEF ForeignChange
  <1>6. irm.bandwidth + ledger.ours + ledger.others = MaxUnits => irm'.bandwidth + ledger'.ours + ledger'.others = MaxUnits
    BY <1>3, <1>4, <1>5
  <1>7. UnitsKept'
    BY <1>1, <1>2, <1>3, <1>6 DEF LedgerInv, UnitsKept
  <1>8. ASSUME ~ledger.spoiled
        PROVE  /\ \A c \in Channels : c \in irm'.channels <=> ledger'.holder[c] = "free"
               /\ \A c \in Channels : ledger'.holder[c] = "ours" <=> ledger.holder[c] = "ours"
    <2>1. \A c \in Channels : c \in irm.channels <=> ledger.holder[c] = "free"
      BY <1>8 DEF LedgerInv, ChannelsKept
    <2>2. ASSUME NEW d \in Channels, d \in irm.channels, irm'.channels = irm.channels \ {d},
                 ledger'.holder = [ledger.holder EXCEPT ![d] = "others"]
          PROVE  /\ \A c \in Channels : c \in irm'.channels <=> ledger'.holder[c] = "free"
                 /\ \A c \in Channels : ledger'.holder[c] = "ours" <=> ledger.holder[c] = "ours"
      BY <1>4, <2>1, <2>2
    <2>3. ASSUME NEW d \in Channels, ledger.holder[d] = "others", irm'.channels = irm.channels \cup {d},
                 ledger'.holder = [ledger.holder EXCEPT ![d] = "free"]
          PROVE  /\ \A c \in Channels : c \in irm'.channels <=> ledger'.holder[c] = "free"
                 /\ \A c \in Channels : ledger'.holder[c] = "ours" <=> ledger.holder[c] = "ours"
      BY <1>4, <2>1, <2>3
    <2>4. CASE irm'.channels = irm.channels /\ ledger'.holder = ledger.holder
      BY <2>1, <2>4
    <2>. QED BY <1>0, <2>2, <2>3, <2>4 DEF ForeignChange
  <1>9. op.channel \in Channels \/ ~OpCurrent
    BY DEF Typed, OpTyped, OpCurrent, Allocates, Releases, Snap
  <1>10. (\A i \in Held : stream.entries[i].channel \in Channels) /\ ledger.abandoned \subseteq Channels
    BY GensTyped, HeldFinite DEF Typed, LedgerTyped, Ledgers
  <1>11. ChannelsKept'
    BY <1>0, <1>1, <1>3, <1>8, <1>9, <1>10 DEF LedgerInv, ChannelsKept, HoldsChannel
  <1>12. NoneLeft'
    BY <1>0, <1>1, <1>3, <1>8 DEF LedgerInv, NoneLeft
  <1>. QED BY <1>7, <1>11, <1>12 DEF LedgerInv

\* A request that is delivered and swaps nothing changes what the operation
\* holds in nothing: the bandwidth a release reads leaves room for its credit.
LEMMA LedgerUnmatched ==
    ASSUME Typed, GenInv, LedgerInv, Deliver, ~(op.req = "lock" /\ Matches)
    PROVE  LedgerInv'
  <1>0. BusTyped /\ OpTyped /\ UNCHANGED <<irm, ledger, stream>> /\ ~op.applied /\ op.req \in {"read", "lock"}
    BY DEF Typed, Deliver
  <1>1. Delivered(op, op', irm.gen) /\ op'.answer[Register(op.stage)] = irm[Register(op.stage)]
    BY <1>0, DeliverOutcome
  <1>2. /\ op'.stage = op.stage /\ op'.channel = op.channel /\ op'.result = op.result /\ op'.req = op.req
        /\ op'.unanswered = op.unanswered /\ op'.value = op.value
    BY <1>1 DEF Delivered
  <1>3. ~Granted /\ ~Granted'
    BY <1>0, <1>1, <1>2 DEF Granted, Matches
  <1>4. op.stage # "allocChannel" => (OpCurrent' <=> OpCurrent)
    BY GenDeliver
  <1>5. Flagged(ledger', FALSE, FALSE)
    BY <1>0 DEF Flagged, Typed, LedgerTyped
  <1>6. (HoldsUnits' <=> HoldsUnits) /\ (MayHold' <=> MayHold)
    BY <1>2, <1>3, <1>4 DEF HoldsUnits, MayHold
  <1>7. (HoldsChannel' => HoldsChannel) /\ (Apart' => Apart)
    BY <1>2, <1>3, <1>4 DEF HoldsChannel, Apart
  <1>8. ASSUME ~ledger.spoiled, ~ledger.uncertain PROVE CreditFits'
    <2>. SUFFICES ASSUME op.stage = "releaseBandwidth", OpCurrent'
                  PROVE  /\ op'.unanswered = NoValue
                         /\ op'.req = "read" /\ op'.applied => op'.answer.bandwidth + Units <= MaxUnits
      BY <1>2 DEF CreditFits
    <2>1. op'.answer.bandwidth = irm.bandwidth
      BY <1>0, DeliverOutcome DEF Register
    <2>2. OpCurrent /\ HoldsUnits /\ op.unanswered = NoValue
      BY <1>3, <1>4, <1>8 DEF HoldsUnits, LedgerInv, UnitsKept, CreditFits
    <2>3. irm.bandwidth + ledger.ours + ledger.others = MaxUnits /\ Claimed <= ledger.ours
      BY <1>8 DEF LedgerInv, UnitsKept
    <2>. DEFINE k == Shares
    <2>4. Claimed = k + Units
      BY <2>2 DEF Claimed
    <2>5. k \in Nat /\ Units \in Nat /\ MaxUnits \in Nat
      BY HeldFinite
    <2>6. irm.bandwidth \in Nat /\ ledger.ours \in Nat /\ ledger.others \in Nat
      BY ConstantsTyped DEF Typed, BusTyped, LedgerTyped, Ledgers
    <2>. HIDE DEF k
    <2>7. irm.bandwidth + Units <= MaxUnits
      BY <2>3, <2>4, <2>5, <2>6
    <2>. QED BY <1>2, <2>1, <2>2, <2>7
  <1>. QED BY <1>0, <1>2, <1>5, <1>6, <1>7, <1>8, Quiet

\* A compare-swap that matches: what is common to its stages.
Matched ==
    /\ Credited(op, ledger') /\ op.channel \in Channels /\ op.result = "none" /\ ~Granted /\ Granted'
    /\ UNCHANGED stream /\ irm'.gen = irm.gen /\ Held' = Held
    /\ op'.stage = op.stage /\ op'.channel = op.channel /\ op'.result = op.result
    /\ op'.req = "lock" /\ op'.unanswered = op.unanswered
    /\ op.stage # "allocChannel" => (OpCurrent' <=> OpCurrent)
    /\ op.stage = "allocChannel" => OpCurrent'
    /\ op.stage \in {"allocBandwidth", "rollback"} => OpCurrent
    /\ op.stage \in Releases /\ ~OpCurrent => Held = {} /\ ledger.abandoned = {}
    /\ op.stage = "allocChannel" => op.channel \in irm.channels /\ irm'.channels = irm.channels \ {op.channel}
    /\ op.stage \in {"rollback", "releaseChannel"} => irm'.channels = irm.channels \cup {op.channel}
    /\ op.stage = "allocBandwidth" => irm.bandwidth >= Units /\ irm'.bandwidth = irm.bandwidth - Units
    /\ op.stage = "releaseBandwidth" => irm'.bandwidth = irm.bandwidth + Units
    /\ op.stage \in {"allocBandwidth", "releaseBandwidth"} => irm'.channels = irm.channels
    /\ op.stage \in {"allocChannel", "rollback", "releaseChannel"} => irm'.bandwidth = irm.bandwidth

\* Every compare-swap that matches is of this kind.
LEMMA DeliverMatched ==
    ASSUME Typed, GenInv, Young, Deliver, op.req = "lock", Matches
    PROVE  Matched /\ op.stage \in Stages \ Snap
  <1>0. /\ BusTyped /\ OpTyped /\ LedgerTyped /\ LockShaped(op) /\ ~op.applied /\ op \in Ops
        /\ op.stage \in Stages \ Snap /\ op.channel \in Channels /\ op.result = "none" /\ UNCHANGED stream
        /\ ledger' = Credit(op)
    BY DEF Typed, OpTyped, LockShape, Deliver, Ops, LockShaped
  <1>1. Delivered(op, op', irm.gen) /\ op'.answer[Register(op.stage)] = irm[Register(op.stage)]
    BY <1>0, DeliverOutcome
  <1>2. /\ op'.stage = op.stage /\ op'.channel = op.channel /\ op'.result = op.result /\ op'.req = "lock"
        /\ op'.unanswered = op.unanswered /\ op'.value = op.value /\ op'.applied
    BY <1>1 DEF Delivered
  <1>3. ~Granted /\ Granted'
    BY <1>0, <1>1, <1>2 DEF Granted, Matches
  <1>4. /\ op.stage # "allocChannel" => (OpCurrent' <=> OpCurrent)
        /\ op.stage = "allocChannel" => OpCurrent'
        /\ op.stage \in {"allocBandwidth", "rollback"} => OpCurrent
        /\ irm'.gen = irm.gen
    BY GenDeliver
  <1>5. Credited(op, ledger')
    BY <1>0, CreditOutcome
  <1>6. Held' = Held
    BY <1>0, <1>4 DEF Held
  <1>a. op.stage \in Releases /\ ~OpCurrent => ledger.abandoned = {}
    BY DEF Young, OpCurrent
  <1>7. op.stage \in Releases /\ ~OpCurrent => Held = {}
    <2>. SUFFICES ASSUME op.stage \in Releases, ~OpCurrent, NEW i \in Held PROVE FALSE
      OBVIOUS
    <2>1. op.gen # irm.gen /\ op.gen <= irm.gen /\ i \in 1..Len(stream.entries) /\ stream.entries[i].gen = irm.gen
      BY DEF OpCurrent, GenInv, Ordered, Held
    <2>2. stream.entries[i].gen <= op.gen
      BY <2>1 DEF GenInv, Ordered
    <2>. QED BY <2>1, <2>2, GensTyped
  <1>8. CASE op.stage \in {"allocBandwidth", "releaseBandwidth"}
    <2>1. Register(op.stage) = "bandwidth"
      BY <1>8 DEF Register
    <2>2. irm'.bandwidth = op.desired.bandwidth /\ irm'.channels = irm.channels /\ op.value.bandwidth = irm.bandwidth
      BY <1>0, <2>1, DeliverIRM
    <2>3. /\ op.stage = "allocBandwidth" => irm.bandwidth >= Units /\ irm'.bandwidth = irm.bandwidth - Units
          /\ op.stage = "releaseBandwidth" => irm'.bandwidth = irm.bandwidth + Units
      BY <1>0, <2>2 DEF LockShaped
    <2>. QED BY <1>0, <1>a, <1>2, <1>3, <1>4, <1>5, <1>6, <1>7, <1>8, <2>2, <2>3 DEF Matched
  <1>9. CASE op.stage \in {"allocChannel", "rollback", "releaseChannel"}
    <2>1. Register(op.stage) = "channels"
      BY <1>9 DEF Register
    <2>2. irm'.channels = op.desired.channels /\ irm'.bandwidth = irm.bandwidth /\ op.value.channels = irm.channels
      BY <1>0, <2>1, DeliverIRM
    <2>3. /\ op.stage = "allocChannel" => op.channel \in irm.channels /\ irm'.channels = irm.channels \ {op.channel}
          /\ op.stage \in {"rollback", "releaseChannel"} => irm'.channels = irm.channels \cup {op.channel}
      BY <1>0, <2>2 DEF LockShaped
    <2>. QED BY <1>0, <1>a, <1>2, <1>3, <1>4, <1>5, <1>6, <1>7, <1>9, <2>2, <2>3 DEF Matched
  <1>. QED BY <1>0, <1>8, <1>9 DEF Stages, Snap

\* The numbers of the ledger and what the operation claims beside the entries.
LEMMA Numbers ==
    ASSUME Typed, Matched
    PROVE  /\ irm.bandwidth \in Nat /\ ledger.ours \in Nat /\ ledger.others \in Nat /\ Units \in Nat /\ 0 < Units
           /\ Shares \in Nat /\ MaxUnits \in Nat
           /\ Claimed = Shares + (IF HoldsUnits THEN Units ELSE 0)
           /\ Claimed' = Shares + (IF HoldsUnits' THEN Units ELSE 0)
           /\ ledger'.others = ledger.others /\ ledger'.uncertain = ledger.uncertain /\ ledger'.gaveUp = ledger.gaveUp
           /\ ledger'.abandoned = ledger.abandoned
  <1>1. irm.bandwidth \in Nat /\ ledger.ours \in Nat /\ ledger.others \in Nat
    BY ConstantsTyped DEF Typed, BusTyped, LedgerTyped, Ledgers
  <1>2. Held' = Held /\ ledger'.abandoned = ledger.abandoned
    BY DEF Matched, Credited
  <1>3. Claimed' = Shares + (IF HoldsUnits' THEN Units ELSE 0)
    BY <1>2, SharesKept DEF Claimed
  <1>4. ledger'.others = ledger.others /\ ledger'.uncertain = ledger.uncertain /\ ledger'.gaveUp = ledger.gaveUp
    BY DEF Matched, Credited
  <1>. QED BY <1>1, <1>2, <1>3, <1>4, HeldFinite DEF Claimed

\* The IRM grants a channel that was free.
LEMMA GrantsChannel ==
    ASSUME Typed, LedgerInv, Matched, op.stage = "allocChannel"
    PROVE  LedgerInv'
  <1>0. /\ Held' = Held /\ op'.channel = op.channel /\ op'.stage = "allocChannel" /\ op.channel \in Channels
        /\ OpCurrent' /\ Granted' /\ ~Granted /\ UNCHANGED stream
        /\ op.channel \in irm.channels /\ irm'.channels = irm.channels \ {op.channel} /\ irm'.bandwidth = irm.bandwidth
    BY DEF Matched
  <1>1. /\ ledger'.ours = ledger.ours /\ ledger'.spoiled = ledger.spoiled /\ ledger'.abandoned = ledger.abandoned
        /\ \A c \in Channels \ {op.channel} : ledger'.holder[c] = ledger.holder[c]
        /\ ledger'.holder[op.channel] = IF ledger.holder[op.channel] = "free" THEN "ours" ELSE ledger.holder[op.channel]
    BY DEF Matched, Credited
  <1>2. ~HoldsUnits /\ ~HoldsUnits' /\ ~MayHold /\ MayHold' /\ CreditFits'
    BY <1>0 DEF HoldsUnits, MayHold, CreditFits
  <1>3. (\A i \in Held : stream.entries[i].channel \in Channels) /\ ledger.abandoned \subseteq Channels
    BY GensTyped, HeldFinite DEF Typed, LedgerTyped, Ledgers
  <1>4. ChannelsKept'
    <2>. SUFFICES ASSUME ~ledger.spoiled
                  PROVE  /\ \A c \in Channels : c \in irm'.channels <=> ledger'.holder[c] = "free"
                         /\ \A i \in Held : ledger'.holder[stream.entries[i].channel] = "ours"
                         /\ \A i, j \in Held : stream.entries[i].channel = stream.entries[j].channel => i = j
                         /\ ledger'.holder[op.channel] = "ours"
                         /\ \A i \in Held : stream.entries[i].channel # op.channel
                         /\ \A c \in ledger.abandoned : ledger'.holder[c] = "ours"
                         /\ \A i \in Held : stream.entries[i].channel \notin ledger.abandoned
                         /\ op.channel \notin ledger.abandoned
      BY <1>0, <1>1 DEF ChannelsKept
    <2>1. /\ \A c \in Channels : c \in irm.channels <=> ledger.holder[c] = "free"
          /\ \A i \in Held : ledger.holder[stream.entries[i].channel] = "ours"
          /\ \A i, j \in Held : stream.entries[i].channel = stream.entries[j].channel => i = j
          /\ \A c \in ledger.abandoned : ledger.holder[c] = "ours"
          /\ \A i \in Held : stream.entries[i].channel \notin ledger.abandoned
      BY DEF LedgerInv, ChannelsKept
    <2>2. ledger.holder[op.channel] = "free"
      BY <1>0, <2>1
    <2>3. (\A i \in Held : stream.entries[i].channel # op.channel) /\ op.channel \notin ledger.abandoned
      BY <2>1, <2>2
    <2>. QED BY <1>0, <1>1, <1>3, <2>1, <2>2, <2>3
  <1>5. UnitsKept'
    BY <1>0, <1>1, <1>2, Numbers DEF LedgerInv, UnitsKept
  <1>6. NoneLeft'
    <2>. SUFFICES ASSUME ~ledger.spoiled, ~ledger.uncertain, ~ledger.gaveUp, NEW c \in Channels, ledger'.holder[c] = "ours"
                  PROVE  (\E i \in Held : stream.entries[i].channel = c) \/ op.channel = c \/ c \in ledger.abandoned
      BY <1>0, <1>1, <1>2, Numbers DEF NoneLeft
    <2>. QED BY <1>1, <1>2 DEF LedgerInv, NoneLeft
  <1>. QED BY <1>4, <1>5, <1>6 DEF LedgerInv

\* The IRM grants bandwidth.
LEMMA GrantsBandwidth ==
    ASSUME Typed, LedgerInv, Matched, op.stage = "allocBandwidth"
    PROVE  LedgerInv'
  <1>0. /\ Held' = Held /\ op'.channel = op.channel /\ op'.stage = "allocBandwidth"
        /\ OpCurrent' /\ OpCurrent /\ Granted' /\ ~Granted /\ UNCHANGED stream /\ op.result = "none"
        /\ irm.bandwidth >= Units /\ irm'.bandwidth = irm.bandwidth - Units /\ irm'.channels = irm.channels
    BY DEF Matched
  <1>1. /\ ledger'.ours = ledger.ours + Units /\ ledger'.spoiled = ledger.spoiled /\ ledger'.holder = ledger.holder
        /\ ledger'.abandoned = ledger.abandoned
    BY <1>0 DEF Matched, Credited
  <1>2. ~HoldsUnits /\ HoldsUnits' /\ MayHold /\ MayHold' /\ CreditFits' /\ HoldsChannel /\ HoldsChannel' /\ Apart /\ Apart'
    BY <1>0 DEF HoldsUnits, MayHold, CreditFits, HoldsChannel, Apart
  <1>3. ChannelsKept'
    BY <1>0, <1>1, <1>2 DEF LedgerInv, ChannelsKept
  <1>4. UnitsKept'
    <2>. DEFINE k == Shares
    <2>1. /\ irm.bandwidth \in Nat /\ ledger.ours \in Nat /\ ledger.others \in Nat /\ Units \in Nat /\ k \in Nat
          /\ Claimed = k /\ Claimed' = k + Units
          /\ ledger'.others = ledger.others /\ ledger'.uncertain = ledger.uncertain /\ ledger'.gaveUp = ledger.gaveUp
      BY <1>2, Numbers
    <2>. HIDE DEF k
    <2>2. irm.bandwidth + ledger.ours + ledger.others = MaxUnits =>
             irm'.bandwidth + ledger'.ours + ledger'.others = MaxUnits
      BY <1>0, <1>1, <2>1
    <2>3. Claimed <= ledger.ours => Claimed' <= ledger'.ours
      BY <1>1, <2>1
    <2>4. ledger.ours = Claimed => ledger'.ours = Claimed'
      BY <1>1, <2>1
    <2>. QED BY <1>1, <1>2, <2>1, <2>2, <2>3, <2>4 DEF LedgerInv, UnitsKept
  <1>5. NoneLeft'
    BY <1>0, <1>1, <1>2, Numbers DEF LedgerInv, NoneLeft
  <1>. QED BY <1>3, <1>4, <1>5 DEF LedgerInv

\* Bandwidth is given back.  A release of an earlier generation finds that
\* nothing of this one is held, and spoils what another holds.
LEMMA ReturnsBandwidth ==
    ASSUME Typed, LedgerInv, Matched, op.stage = "releaseBandwidth"
    PROVE  LedgerInv'
  <1>0. /\ Held' = Held /\ op'.channel = op.channel /\ op'.stage = "releaseBandwidth" /\ (OpCurrent' <=> OpCurrent)
        /\ Granted' /\ ~Granted /\ UNCHANGED stream /\ op'.req = "lock" /\ op'.unanswered = op.unanswered
        /\ irm'.bandwidth = irm.bandwidth + Units /\ irm'.channels = irm.channels
        /\ ~OpCurrent => Held = {} /\ ledger.abandoned = {}
    BY DEF Matched, Releases
  <1>1. /\ ledger'.ours = IF ledger.ours < Units THEN ledger.ours ELSE ledger.ours - Units
        /\ ledger'.spoiled <=> ledger.spoiled \/ ledger.ours < Units
        /\ ledger'.holder = ledger.holder /\ ledger'.abandoned = ledger.abandoned
    BY <1>0 DEF Matched, Credited
  <1>2. /\ HoldsUnits <=> OpCurrent
        /\ ~HoldsUnits' /\ (MayHold' <=> MayHold)
        /\ (HoldsChannel' => HoldsChannel) /\ (Apart' => Apart)
    BY <1>0 DEF HoldsUnits, MayHold, HoldsChannel, Apart
  <1>3. ChannelsKept'
    BY <1>0, <1>1, <1>2 DEF LedgerInv, ChannelsKept
  <1>4. UnitsKept'
    <2>. DEFINE k == Shares
    <2>1. /\ irm.bandwidth \in Nat /\ ledger.ours \in Nat /\ ledger.others \in Nat /\ Units \in Nat /\ k \in Nat
          /\ 0 < Units
          /\ Claimed = k + (IF OpCurrent THEN Units ELSE 0) /\ Claimed' = k + 0
          /\ ledger'.others = ledger.others /\ ledger'.uncertain = ledger.uncertain /\ ledger'.gaveUp = ledger.gaveUp
      BY <1>2, Numbers
    <2>2. ~OpCurrent => k = 0
      BY <1>0, FS_EmptySet, ConstantsTyped DEF Shares
    <2>. HIDE DEF k
    <2>. SUFFICES ASSUME ~ledger'.spoiled
                  PROVE  /\ irm'.bandwidth + ledger'.ours + ledger'.others = MaxUnits
                         /\ ~ledger.uncertain => /\ CreditFits'
                                                 /\ Claimed' <= ledger'.ours
                                                 /\ ~ledger.gaveUp => ledger'.ours = Claimed'
      BY <2>1 DEF UnitsKept
    <2>3. ~ledger.spoiled /\ ~(ledger.ours < Units) /\ ledger'.ours = ledger.ours - Units
      BY <1>1
    <2>4. irm.bandwidth + ledger.ours + ledger.others = MaxUnits
      BY <2>3 DEF LedgerInv, UnitsKept
    <2>5. irm'.bandwidth + ledger'.ours + ledger'.others = MaxUnits
      BY <1>0, <2>1, <2>3, <2>4
    <2>6. ASSUME ~ledger.uncertain
          PROVE  CreditFits' /\ Claimed' <= ledger'.ours /\ (~ledger.gaveUp => ledger'.ours = Claimed')
      <3>1. CreditFits /\ Claimed <= ledger.ours /\ (~ledger.gaveUp => ledger.ours = Claimed)
        BY <2>3, <2>6 DEF LedgerInv, UnitsKept
      <3>2. CreditFits'
        BY <1>0, <3>1 DEF CreditFits
      <3>3. CASE OpCurrent
        BY <2>1, <2>3, <3>1, <3>2, <3>3
      <3>4. CASE ~OpCurrent
        <4>1. k = 0 /\ Claimed = 0 /\ Claimed' = 0
          BY <2>1, <2>2, <3>4
        <4>. QED BY <2>1, <2>3, <3>1, <3>2, <4>1
      <3>. QED BY <3>3, <3>4
    <2>. QED BY <2>5, <2>6
  <1>5. NoneLeft'
    BY <1>0, <1>1, <1>2, Numbers DEF LedgerInv, NoneLeft
  <1>. QED BY <1>3, <1>4, <1>5 DEF LedgerInv

\* A channel is given back.
LEMMA ReturnsChannel ==
    ASSUME Typed, LedgerInv, Matched, op.stage \in {"rollback", "releaseChannel"}
    PROVE  LedgerInv'
  <1>0. /\ Held' = Held /\ op'.channel = op.channel /\ op'.stage = op.stage /\ (OpCurrent' <=> OpCurrent)
        /\ Granted' /\ ~Granted /\ UNCHANGED stream /\ op.channel \in Channels
        /\ irm'.channels = irm.channels \cup {op.channel} /\ irm'.bandwidth = irm.bandwidth
        /\ ~OpCurrent => Held = {} /\ ledger.abandoned = {}
    BY DEF Matched, Releases
  <1>1. /\ ledger'.ours = ledger.ours /\ ledger'.abandoned = ledger.abandoned
        /\ \A c \in Channels \ {op.channel} : ledger'.holder[c] = ledger.holder[c]
        /\ ledger'.holder[op.channel] = IF ledger.holder[op.channel] = "ours" THEN "free" ELSE ledger.holder[op.channel]
        /\ ledger'.spoiled <=> ledger.spoiled \/ ledger.holder[op.channel] = "others"
        /\ ledger.holder[op.channel] \in {"free", "ours", "others"}
    BY <1>0 DEF Matched, Credited, Typed, LedgerTyped, Ledgers
  <1>2. ~HoldsUnits /\ ~HoldsUnits' /\ ~MayHold' /\ ~HoldsChannel' /\ (Apart' <=> Apart) /\ (Apart <=> OpCurrent) /\ CreditFits'
    BY <1>0 DEF HoldsUnits, MayHold, HoldsChannel, Apart, CreditFits
  <1>3. (\A i \in Held : stream.entries[i].channel \in Channels) /\ ledger.abandoned \subseteq Channels
    BY GensTyped, HeldFinite DEF Typed, LedgerTyped, Ledgers
  <1>4. ASSUME ~ledger'.spoiled
        PROVE  /\ ~ledger.spoiled /\ ledger'.holder[op.channel] = "free"
               /\ \A i \in Held : stream.entries[i].channel # op.channel
               /\ op.channel \notin ledger.abandoned
    <2>1. ~ledger.spoiled /\ ledger'.holder[op.channel] = "free"
      BY <1>1, <1>4
    <2>2. (\A i \in Held : stream.entries[i].channel # op.channel) /\ op.channel \notin ledger.abandoned
      BY <1>0, <1>2, <2>1 DEF LedgerInv, ChannelsKept
    <2>. QED BY <2>1, <2>2
  <1>5. ChannelsKept'
    <2>. SUFFICES ASSUME ~ledger'.spoiled
                  PROVE  /\ \A c \in Channels : c \in irm'.channels <=> ledger'.holder[c] = "free"
                         /\ \A i \in Held : ledger'.holder[stream.entries[i].channel] = "ours"
                         /\ \A i, j \in Held : stream.entries[i].channel = stream.entries[j].channel => i = j
                         /\ \A i \in Held : stream.entries[i].channel # op.channel
                         /\ \A c \in ledger.abandoned : ledger'.holder[c] = "ours"
                         /\ \A i \in Held : stream.entries[i].channel \notin ledger.abandoned
                         /\ op.channel \notin ledger.abandoned
      BY <1>0, <1>1, <1>2 DEF ChannelsKept
    <2>1. /\ \A c \in Channels : c \in irm.channels <=> ledger.holder[c] = "free"
          /\ \A i \in Held : ledger.holder[stream.entries[i].channel] = "ours"
          /\ \A i, j \in Held : stream.entries[i].channel = stream.entries[j].channel => i = j
          /\ \A c \in ledger.abandoned : ledger.holder[c] = "ours"
          /\ \A i \in Held : stream.entries[i].channel \notin ledger.abandoned
      BY <1>4 DEF LedgerInv, ChannelsKept
    <2>. QED BY <1>0, <1>1, <1>3, <1>4, <2>1
  <1>6. UnitsKept'
    BY <1>0, <1>1, <1>2, <1>4, Numbers DEF LedgerInv, UnitsKept
  <1>7. NoneLeft'
    <2>. SUFFICES ASSUME ~ledger'.spoiled, ~ledger.uncertain, ~ledger.gaveUp, NEW c \in Channels, ledger'.holder[c] = "ours"
                  PROVE  (\E i \in Held : stream.entries[i].channel = c) \/ c \in ledger.abandoned
      BY <1>0, Numbers DEF NoneLeft
    <2>1. c # op.channel /\ ledger.holder[c] = "ours"
      BY <1>1, <1>4
    <2>. QED BY <1>4, <2>1 DEF LedgerInv, NoneLeft
  <1>. QED BY <1>5, <1>6, <1>7 DEF LedgerInv

\* Every step keeps the ledger in agreement.
LEMMA LedgerNext == Typed /\ GenInv /\ Young /\ LedgerInv /\ [Next]_vars => LedgerInv'
  <1>. SUFFICES ASSUME Typed, GenInv, Young, LedgerInv, [Next]_vars PROVE LedgerInv'
    OBVIOUS
  <1>a. ASSUME UNCHANGED <<irm, stream, ledger>>, ~OpCurrent, ~OpCurrent' PROVE LedgerInv'
    <2>1. ~HoldsUnits /\ ~MayHold
      BY <1>a DEF HoldsUnits, MayHold
    <2>. QED BY <1>a, <2>1, QuietUnbound
  <1>1. CASE UNCHANGED vars
    <2>1. /\ Held' = Held /\ (HoldsChannel' <=> HoldsChannel) /\ (Apart' <=> Apart) /\ (HoldsUnits' <=> HoldsUnits)
          /\ (MayHold' <=> MayHold) /\ (CreditFits' <=> CreditFits)
      BY <1>1 DEF Held, HoldsChannel, Apart, HoldsUnits, MayHold, CreditFits, OpCurrent, Allocates, InFlight, Granted
    <2>2. Claimed' = Claimed
      BY <1>1, <2>1, SharesKept DEF Claimed
    <2>. QED BY <1>1, <2>1, <2>2 DEF LedgerInv, ChannelsKept, UnitsKept, NoneLeft
  <1>2. ASSUME Unbound PROVE LedgerInv'
    <2>1. ~OpCurrent'
      BY <1>2, GenUnbound DEF Unbound
    <2>. QED BY <1>2, <2>1, QuietUnbound DEF Unbound
  <1>3. CASE \/ SnapshotDone \/ AllocateDone \/ ReleaseNext \/ Released
             \/ ReserveAny \/ ReleaseAll \/ InvalidateAfterGenerationChange
    BY <1>2, <1>3, OwnerKinds, LedgerRecords, LedgerDrops, LedgerForgets
  <1>4. CASE Respond \/ Timeout
    BY <1>4, LedgerProgress
  <1>5. CASE OnBusResetBegin \/ ConfirmBusGeneration \/ OnBusResetComplete \/ SetIRMNode
    BY <1>5, <1>a, GenReset
  <1>6. CASE WaitTimeout
    BY <1>6, <1>a, GenWaitTimeout DEF WaitTimeout
  <1>7. CASE Stale
    BY <1>7, <1>a, GenStale DEF Stale
  <1>8. CASE Deliver
    <2>1. CASE op.req = "lock" /\ Matches
      <3>1. Matched /\ op.stage \in Stages \ Snap
        BY <1>8, <2>1, DeliverMatched
      <3>. QED BY <3>1, GrantsChannel, GrantsBandwidth, ReturnsBandwidth, ReturnsChannel DEF Stages, Snap
    <2>. QED BY <1>8, <2>1, LedgerUnmatched
  <1>9. CASE BusReset \/ Foreign
    BY <1>9, LedgerBusReset, LedgerForeign
  <1>. QED BY <1>1, <1>3, <1>4, <1>5, <1>6, <1>7, <1>8, <1>9 DEF Next, Owner, Driver

\* Everything the proof keeps.
Backed == Typed /\ GenInv /\ Young /\ LedgerInv

\* What is kept is kept by every behaviour.
LEMMA BackedAlways == Spec => []Backed
  <1>1. Init => Backed
    <2>1. Init => Young
      BY DEF Init, EmptyLedger, Young
    <2>. QED BY <2>1, TypedInit, GenInit, LedgerInit DEF Backed
  <1>2. Backed /\ [Next]_vars => Backed'
    BY TypedNext, GenNext, YoungNext, LedgerNext DEF Backed
  <1>. QED BY <1>1, <1>2, PTL DEF Spec

\* The reservations of the present generation are those of its entries.
LEMMA CurrentOfHeld ==
    ASSUME Typed
    PROVE  /\ Current = {stream.entries[i] : i \in Held}
           /\ \A i \in 1..Len(stream.entries) : stream.entries[i] \in Current <=> i \in Held
           /\ Cardinality(Current) * Units <= Units * Cardinality(Held)
           /\ Cardinality(Current) \in Nat
  <1>1. Current = {stream.entries[i] : i \in Held}
    BY DEF Current, Entries, Held
  <1>2. \A i \in 1..Len(stream.entries) : stream.entries[i] \in Current <=> i \in Held
    BY DEF Current, Entries, Held
  <1>3. IsFiniteSet(Held) /\ Cardinality(Held) \in Nat /\ Units \in Nat
    BY HeldFinite
  <1>. DEFINE f == [i \in Held |-> stream.entries[i]]
  <1>4. f \in Surjection(Held, Current)
    BY <1>1 DEF Surjection
  <1>. HIDE DEF f
  <1>5. IsFiniteSet(Current) /\ Cardinality(Current) <= Cardinality(Held)
    BY <1>3, <1>4, FS_Surjection
  <1>6. Cardinality(Current) \in Nat
    BY <1>5, FS_CardinalityType
  <1>7. ASSUME NEW a \in Nat, NEW b \in Nat, NEW m \in Nat, a <= b PROVE a * m <= m * b
    <2>1. b - a \in Nat
      BY <1>7
    <2>2. m * (b - a) \in Nat
      BY <2>1
    <2>3. m * (b - a) = m * b - m * a
      BY <2>1
    <2>4. m * a = a * m /\ m * a \in Nat /\ m * b \in Nat
      OBVIOUS
    <2>. QED BY <2>2, <2>3, <2>4
  <1>8. Cardinality(Current) * Units <= Units * Cardinality(Held)
    BY <1>3, <1>5, <1>6, <1>7
  <1>. QED BY <1>1, <1>2, <1>6, <1>8

\* A reservation the owner has recorded in the present generation is backed by
\* the IRM, for any number of streams, channels, retries, losses and resets, as
\* long as no release gave away what was not its own: its channel is the
\* owner's and not free, no two entries share one, and unless an answer was lost
\* the bandwidth of all of them is charged.
THEOREM HeldIsBackedAlways == Spec => []HeldIsBacked
  <1>1. Backed => HeldIsBacked
    <2>. SUFFICES ASSUME Backed, ~ledger.spoiled
                  PROVE  /\ \A e \in Current : ledger.holder[e.channel] = "ours" /\ e.channel \notin irm.channels
                         /\ ledger.uncertain \/ Cardinality(Current) * Units <= ledger.ours
                         /\ \A i, j \in 1..Len(stream.entries) :
                               /\ stream.entries[i].channel = stream.entries[j].channel
                               /\ stream.entries[i] \in Current /\ stream.entries[j] \in Current
                               => i = j
      BY DEF HeldIsBacked
    <2>0. /\ Current = {stream.entries[i] : i \in Held}
          /\ \A i \in 1..Len(stream.entries) : stream.entries[i] \in Current <=> i \in Held
          /\ Cardinality(Current) * Units <= Units * Cardinality(Held)
      BY CurrentOfHeld DEF Backed
    <2>1. /\ \A c \in Channels : c \in irm.channels <=> ledger.holder[c] = "free"
          /\ \A i \in Held : ledger.holder[stream.entries[i].channel] = "ours"
          /\ \A i, j \in Held : stream.entries[i].channel = stream.entries[j].channel => i = j
      BY DEF Backed, LedgerInv, ChannelsKept
    <2>2. \A i \in Held : stream.entries[i].channel \in Channels
      BY GensTyped, HeldFinite DEF Backed
    <2>3. \A e \in Current : ledger.holder[e.channel] = "ours" /\ e.channel \notin irm.channels
      BY <2>0, <2>1, <2>2
    <2>4. ASSUME ~ledger.uncertain PROVE Cardinality(Current) * Units <= ledger.ours
      <3>. DEFINE a == Units * Cardinality(ledger.abandoned)
                  k == Units * Cardinality(Held)
                  m == Cardinality(Current) * Units
      <3>1. Claimed <= ledger.ours /\ Claimed = a + k + (IF HoldsUnits THEN Units ELSE 0)
        BY <2>4 DEF Backed, LedgerInv, UnitsKept, Claimed, Shares
      <3>2. a \in Nat /\ k \in Nat /\ Units \in Nat /\ ledger.ours \in Nat /\ m <= k
        BY <2>0, HeldFinite DEF Backed, Typed, LedgerTyped, Ledgers
      <3>3. m \in Nat
        BY <3>2, CurrentOfHeld DEF Backed
      <3>. HIDE DEF a, k, m
      <3>4. m <= ledger.ours
        BY <3>1, <3>2, <3>3
      <3>. QED BY <3>4 DEF m
    <2>. QED BY <2>0, <2>1, <2>3, <2>4
  <1>. QED BY <1>1, BackedAlways, PTL

\* What an owner at rest without an entry of the present generation still has at
\* the IRM is exactly what InvalidateAfterGenerationChange dropped in it: the
\* channels of those entries and a share of bandwidth for each.  Everything else
\* was given back, unless an answer was lost, a release reported that it failed,
\* or one gave away what was not its own.
THEOREM NothingLeaksAlways == Spec => []NothingLeaks
  <1>1. Backed => NothingLeaks
    <2>. SUFFICES ASSUME Backed, stream.pc = "idle", Current = {},
                         ~ledger.uncertain, ~ledger.gaveUp, ~ledger.spoiled
                  PROVE  /\ {c \in Channels : ledger.holder[c] = "ours"} = ledger.abandoned
                         /\ ledger.ours = Units * Cardinality(ledger.abandoned)
      BY DEF NothingLeaks
    <2>1. Held = {}
      BY CurrentOfHeld DEF Backed
    <2>2. op = NoOp
      BY DEF Backed, Typed, Where
    <2>3. ~HoldsUnits /\ ~MayHold
      BY <2>2, NothingHeld DEF Backed
    <2>4. Claimed = Units * Cardinality(ledger.abandoned)
      <3>. DEFINE a == Units * Cardinality(ledger.abandoned)
      <3>1. a \in Nat /\ Units \in Nat /\ Cardinality(Held) = 0
        BY <2>1, HeldFinite, FS_EmptySet DEF Backed
      <3>2. Claimed = a + Units * Cardinality(Held) + 0
        BY <2>3 DEF Claimed, Shares
      <3>. HIDE DEF a
      <3>3. Claimed = a
        BY <3>1, <3>2
      <3>. QED BY <3>3 DEF a
    <2>5. ledger.ours = Units * Cardinality(ledger.abandoned)
      BY <2>4 DEF Backed, LedgerInv, UnitsKept
    <2>6. \A c \in Channels : ledger.holder[c] = "ours" => c \in ledger.abandoned
      BY <2>1, <2>3 DEF Backed, LedgerInv, NoneLeft
    <2>7. ledger.abandoned \subseteq Channels /\ \A c \in ledger.abandoned : ledger.holder[c] = "ours"
      BY DEF Backed, LedgerInv, ChannelsKept, Typed, LedgerTyped, Ledgers
    <2>. QED BY <2>5, <2>6, <2>7
  <1>. QED BY <1>1, BackedAlways, PTL

=============================================================================
