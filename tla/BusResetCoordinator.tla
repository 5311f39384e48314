-------------------------- MODULE BusResetCoordinator --------------------------
(***************************************************************************)
(* The bus reset state machine: interrupt latches, the deferred runs of    *)
(* the machine on the Default queue, the async gate it drives, software    *)
(* reset requests with their merging and holdoff, and the publication of   *)
(* the topology to discovery.                                              *)
(*                                                                         *)
(* Interrupts, runs, discovery blocks and requests are blocks of one       *)
(* queue: none starts while the machine runs.  The controller, the bus and *)
(* the clock move between any two steps of a run.  A bus reset that comes  *)
(* while busReset is masked leaves no edge behind: ClearBusReset clears    *)
(* its event bit together with that of the reset being handled.            *)
(*                                                                         *)
(* Generations number the resets of the bus and are not wrapped.  Several  *)
(* queued runs are one: whatever a run could find latches with a run of    *)
(* its own.                                                                *)
(***************************************************************************)
EXTENDS Naturals

CONSTANTS
    Targets,            \* nodes RoleCoordinator may want as root, all > 0
    MaxDelegateRetries, \* kMaxDelegateRetries: 5 in the code
    MaxRecoveryAttempts,\* kMaxManualRecoveryResetAttempts: 1 in the code
    MaxIterations,      \* kMaxIterations: 12 in the code
    MaxResets,          \* bound: bus resets
    MaxRequests         \* bound: reset requests from outside the machine

ASSUME BusResetAssumption ==
    /\ Targets \subseteq Nat \ {0}
    /\ MaxDelegateRetries \in Nat /\ MaxRecoveryAttempts \in Nat
    /\ MaxIterations \in Nat \ {0}
    /\ MaxResets \in Nat /\ MaxRequests \in Nat

VARIABLES
    hwGen,          \* SelfIDCount.generation
    event,          \* IntEvent: busReset, selfIDComplete, selfIDComplete2
    nodeValid,      \* NodeID.iDValid: the bus is not being initialised
    atActive,       \* ContextControl.active of an AT context
    st,             \* state_
    running, iteration,     \* workInProgress_, the loop counter of the run
    edge, latch,    \* pendingBusResetEdge_, selfIdLatch_
    waited,         \* kSelfIDTimeoutMs passed in WaitingSelfID
    stopFlush, filters, armed, masked,
                    \* stopFlushIssued_, filtersEnabled_, atArmed_, busResetMasked_
    selfId, topo,   \* acceptedSelfId, the generation of acceptedTopology
    pending,        \* pendingReset
    holdoff,        \* now < softwareResetBlockedUntilNs
    lastGen,        \* lastGeneration_
    timing,         \* PostResetTimingCoordinator: valid and generation
    epoch,          \* resetEpoch_
    queued, deferred,       \* a run is queued; deferredRunScheduled_
    discovery,      \* discovery blocks queued for each generation
    watchdogs,      \* manual reset watchdogs queued
    gate,           \* the async subsystem's is_bus_reset_in_progress_
    stale,          \* its table may hold requests of an earlier generation
    delegate,       \* delegateTarget_, delegateRetryCount_, delegateSuppressed_
    manual,         \* manualResetEpoch_, manualRecoveryResetAttempts_
    requests,       \* requests so far
    published       \* times topologyCallback_ ran for each generation

hw == <<hwGen, event, nodeValid, atActive>>
fsm == <<st, running, iteration, edge, latch, waited>>
flags == <<stopFlush, filters, armed, masked>>
cycle == <<selfId, topo, pending, holdoff>>
gens == <<lastGen, timing, epoch>>
queue == <<queued, deferred, discovery, watchdogs>>
async == <<gate, stale>>
policy == <<delegate, manual, requests, published>>
vars == <<hw, fsm, flags, cycle, gens, queue, async, policy>>

Generations == 1..MaxResets
None == 0
SelfIDEvents == {"selfIDComplete", "selfIDComplete2"}
State == {"Idle", "Detecting", "WaitingSelfID", "QuiescingAT",
          "RestoringConfigROM", "ClearingBusReset", "Rearming", "Complete"}
Kind == {"Recovery", "RolePolicyRestage", "ManualBusManager", "Delegation",
         "GapCorrection"}
\* gap: the gap count of the PHY configuration, "63" the conservative one.
Request == [kind : Kind, long : BOOLEAN, gap : {"none", "low", "63"},
            root : Targets \cup {None}, force63 : BOOLEAN]
NoRequest == [kind |-> "none"]

Init ==
    /\ hwGen = 0 /\ event = {} /\ nodeValid = FALSE /\ atActive = FALSE
    /\ st = "Idle" /\ running = FALSE /\ iteration = 0
    /\ edge = FALSE /\ latch = {} /\ waited = FALSE
    /\ stopFlush = FALSE /\ filters = FALSE /\ armed = FALSE /\ masked = FALSE
    /\ selfId = FALSE /\ topo = None /\ pending = NoRequest /\ holdoff = FALSE
    /\ lastGen = 0 /\ timing = [valid |-> FALSE, gen |-> 0] /\ epoch = 0
    /\ queued = FALSE /\ deferred = FALSE
    /\ discovery = [g \in Generations |-> 0] /\ watchdogs = {}
    /\ gate = FALSE /\ stale = FALSE
    /\ delegate = [target |-> None, retries |-> 0, suppressed |-> FALSE]
    /\ manual = [epoch |-> 0, attempts |-> 0]
    /\ requests = 0 /\ published = [g \in Generations |-> 0]

-----------------------------------------------------------------------------
(* The controller, the bus and the clock *)

\* A bus reset turns selfIDComplete off; selfIDComplete2 stays as it is.
HwBusReset ==
    /\ hwGen < MaxResets
    /\ hwGen' = hwGen + 1
    /\ event' = (event \ {"selfIDComplete"}) \cup {"busReset"}
    /\ nodeValid' = FALSE
    /\ UNCHANGED <<atActive, fsm, flags, cycle, gens, queue, async, policy>>

HwSelfIDComplete ==
    /\ hwGen > 0 /\ ~nodeValid
    /\ event' = event \cup SelfIDEvents
    /\ nodeValid' = TRUE
    /\ UNCHANGED <<hwGen, atActive, fsm, flags, cycle, gens, queue, async, policy>>

\* Requests are transmitted while the async gate is open; contexts run empty.
HwTransmit ==
    /\ ~atActive /\ ~gate /\ nodeValid
    /\ atActive' = TRUE
    /\ UNCHANGED <<hwGen, event, nodeValid, fsm, flags, cycle, gens, queue, async,
                   policy>>

HwTransmitDone ==
    /\ atActive /\ atActive' = FALSE
    /\ UNCHANGED <<hwGen, event, nodeValid, fsm, flags, cycle, gens, queue, async,
                   policy>>

SelfIDTimeout ==
    /\ st = "WaitingSelfID" /\ ~waited /\ waited' = TRUE
    /\ UNCHANGED <<hw, st, running, iteration, edge, latch, flags, cycle, gens,
                   queue, async, policy>>

HoldoffExpires ==
    /\ holdoff /\ holdoff' = FALSE
    /\ UNCHANGED <<hw, fsm, flags, selfId, topo, pending, gens, queue, async, policy>>

-----------------------------------------------------------------------------
(* Interrupts and runs *)

\* HandleInterrupt passes on what is not masked, and acknowledges none of it.
Unmasked == IF masked THEN event \ {"busReset"} ELSE event

OnIrq ==
    /\ ~running /\ Unmasked # {}
    /\ edge' = (edge \/ "busReset" \in Unmasked)
    /\ latch' = latch \cup (Unmasked \cap SelfIDEvents)
    /\ queued' = TRUE
    /\ UNCHANGED <<hw, st, running, iteration, waited, flags, cycle, gens, deferred,
                   discovery, watchdogs, async, policy>>

RunStateMachine ==
    /\ ~running
    /\ \/ queued /\ queued' = FALSE /\ UNCHANGED deferred
       \/ deferred /\ deferred' = FALSE /\ UNCHANGED queued
    /\ running' = TRUE /\ iteration' = 0
    /\ UNCHANGED <<hw, st, edge, latch, waited, flags, cycle, gens, discovery,
                   watchdogs, async, policy>>

\* The loop of a run: the step, and whether it continues, yields or finishes.
Stepping(s) == running /\ ~edge /\ st = s /\ iteration < MaxIterations
Continue(s) == st' = s /\ iteration' = iteration + 1 /\ UNCHANGED running
Finish == running' = FALSE /\ iteration' = 0
YieldAndReschedule == deferred' = TRUE

Yield ==
    /\ Finish /\ YieldAndReschedule
    /\ UNCHANGED <<hw, st, edge, latch, waited, flags, cycle, gens, queued,
                   discovery, watchdogs, async, policy>>

IterationGuard == running /\ iteration = MaxIterations /\ Yield

-----------------------------------------------------------------------------
(* Software reset requests *)

Rank(kind) ==
    CASE kind = "GapCorrection" -> 5
      [] kind = "Delegation" -> 4
      [] kind = "ManualBusManager" -> 3
      [] kind = "RolePolicyRestage" -> 2
      [] OTHER -> 1

Recovery == [kind |-> "Recovery", long |-> FALSE, gap |-> "none", root |-> None,
             force63 |-> FALSE]
GapCorrection == [kind |-> "GapCorrection", long |-> TRUE, gap |-> "63",
                  root |-> None, force63 |-> TRUE]

\* Mutant: the later gap count wins over the conservative one.
MergeResetRequests_LaterGap(current, incoming) ==
    [kind |-> IF Rank(incoming.kind) > Rank(current.kind) THEN incoming.kind
              ELSE current.kind,
     long |-> current.long \/ incoming.long,
     gap |-> IF incoming.gap # "none" THEN incoming.gap ELSE current.gap,
     root |-> IF incoming.root # None THEN incoming.root ELSE current.root,
     force63 |-> current.force63 \/ incoming.force63]

\* Mutant: the later request decides the flavor.
MergeResetRequests_LaterFlavor(current, incoming) ==
    [MergeResetRequests_LaterGap(current, incoming) EXCEPT !.long = incoming.long]

MergeResetRequests(current, incoming) ==
    LET force == current.force63 \/ incoming.force63
    IN  [kind |-> IF Rank(incoming.kind) > Rank(current.kind) THEN incoming.kind
                  ELSE current.kind,
         long |-> current.long \/ incoming.long,
         gap |-> IF force THEN "63"
                 ELSE IF incoming.gap # "none" THEN incoming.gap ELSE current.gap,
         root |-> IF incoming.root # None THEN incoming.root ELSE current.root,
         force63 |-> force]

Deferring(request) ==
    pending' = IF pending = NoRequest THEN request
               ELSE MergeResetRequests(pending, request)

\* Mutant: nobody is told.
RequestSoftwareReset_NoRun(request) == Deferring(request) /\ UNCHANGED queued

\* A machine that is idle is run again; a busy one gets to it when it is done.
RequestSoftwareReset(request) ==
    /\ Deferring(request)
    /\ queued' = (queued \/ st = "Idle")

\* A delegation counts as a retry of the one before it to the same root.
Delegated(target) ==
    LET n == IF target = delegate.target THEN delegate.retries + 1 ELSE 1
    IN  [target |-> target, retries |-> n, suppressed |-> n > MaxDelegateRetries]

Requesting == ~running /\ requests < MaxRequests /\ requests' = requests + 1

RequestUserReset(long) ==
    /\ Requesting
    /\ manual' = [epoch |-> manual.epoch + 1, attempts |-> 0]
    /\ RequestSoftwareReset([Recovery EXCEPT !.kind = "ManualBusManager",
                                             !.long = long])
    /\ UNCHANGED <<hw, fsm, flags, selfId, topo, holdoff, gens, deferred, discovery,
                   watchdogs, async, delegate, published>>

RequestConfigRomRestageReset ==
    /\ Requesting
    /\ RequestSoftwareReset([Recovery EXCEPT !.kind = "RolePolicyRestage",
                                             !.long = TRUE])
    /\ UNCHANGED <<hw, fsm, flags, selfId, topo, holdoff, gens, deferred, discovery,
                   watchdogs, async, delegate, manual, published>>

RequestRolePolicyReset(target, long, gap) ==
    /\ Requesting /\ ~delegate.suppressed
    /\ delegate' = Delegated(target)
    /\ IF Delegated(target).suppressed THEN UNCHANGED <<pending, queued>>
       ELSE RequestSoftwareReset([kind |-> "Delegation", long |-> long,
                                  gap |-> gap, root |-> target,
                                  force63 |-> FALSE])
    /\ UNCHANGED <<hw, fsm, flags, selfId, topo, holdoff, gens, deferred, discovery,
                   watchdogs, async, manual, published>>

MaybeRecoverMissingManualResetIrq(w) ==
    /\ ~running /\ w \in watchdogs
    /\ watchdogs' = watchdogs \ {w}
    /\ IF /\ w = [manual |-> manual.epoch, reset |-> epoch]
          /\ manual.attempts < MaxRecoveryAttempts
       THEN /\ manual' = [manual EXCEPT !.attempts = @ + 1]
            /\ RequestSoftwareReset(Recovery)
       ELSE UNCHANGED <<manual, pending, queued>>
    /\ UNCHANGED <<hw, fsm, flags, selfId, topo, holdoff, gens, deferred, discovery,
                   async, delegate, requests, published>>

\* The PHY configuration packet and the reset itself may each fail.
DispatchSoftwareReset(request, issued) ==
    /\ watchdogs' = IF issued /\ request.kind = "ManualBusManager"
                    THEN watchdogs \cup {[manual |-> manual.epoch, reset |-> epoch]}
                    ELSE watchdogs
    /\ delegate' = IF ~issued /\ request.root # None
                   THEN [target |-> None, retries |-> 0, suppressed |-> FALSE]
                   ELSE delegate

MaybeDispatchPendingSoftwareReset(issued) ==
    \/ /\ pending # NoRequest /\ holdoff
       /\ YieldAndReschedule
       /\ UNCHANGED <<pending, watchdogs, delegate>>
    \/ /\ pending # NoRequest /\ ~holdoff
       /\ pending' = NoRequest
       /\ DispatchSoftwareReset(pending, issued)
       /\ UNCHANGED deferred

-----------------------------------------------------------------------------
(* The steps of the machine *)

BeginNewResetCycle ==
    /\ running /\ edge
    /\ edge' = FALSE /\ latch' = {}
    /\ stopFlush' = FALSE /\ filters' = FALSE /\ armed' = FALSE
    /\ selfId' = FALSE /\ topo' = None /\ pending' = NoRequest
    /\ timing' = [valid |-> FALSE, gen |-> lastGen]
    /\ epoch' = epoch + 1
    /\ st' = "Detecting"
    /\ masked' = TRUE
    /\ event' = event \ {"selfIDComplete2"}
    /\ UNCHANGED <<hwGen, nodeValid, atActive, running, iteration, waited, holdoff,
                   lastGen, queue, async, policy>>

StepDetecting ==
    /\ Stepping("Detecting")
    /\ Continue("WaitingSelfID") /\ waited' = FALSE
    /\ UNCHANGED <<hw, edge, latch, flags, cycle, gens, queue, async, policy>>

CanAttemptSelfIDDecode == nodeValid /\ latch # {}
ClearConsumedSelfIDInterrupts == event' = event \ latch /\ latch' = {}

\* Mutant: one past the generation of SelfIDCount, the guess of StopFlushAT.
DecodeSelfID_Next(decoded) ==
    /\ selfId' = decoded
    /\ lastGen' = IF decoded THEN hwGen + 1 ELSE lastGen
    /\ stale' = (stale \/ decoded)

\* Decoding confirms the generation to the async subsystem.
DecodeSelfID(decoded) ==
    /\ selfId' = decoded
    /\ lastGen' = IF decoded THEN hwGen ELSE lastGen
    /\ stale' = (stale \/ (decoded /\ hwGen # lastGen))

StepWaitingSelfID(decoded) ==
    /\ Stepping("WaitingSelfID") /\ CanAttemptSelfIDDecode
    /\ holdoff' = TRUE
    /\ DecodeSelfID(decoded)
    /\ ClearConsumedSelfIDInterrupts
    /\ IF decoded THEN /\ timing' = [valid |-> TRUE, gen |-> hwGen]
                       /\ UNCHANGED <<pending, queued>>
       ELSE RequestSoftwareReset(Recovery) /\ UNCHANGED timing
    /\ Continue("QuiescingAT")
    /\ UNCHANGED <<hwGen, nodeValid, atActive, edge, waited, flags, topo, epoch,
                   deferred, discovery, watchdogs, gate, policy>>

StepSelfIDTimeout ==
    /\ Stepping("WaitingSelfID") /\ ~CanAttemptSelfIDDecode /\ waited
    /\ ClearConsumedSelfIDInterrupts
    /\ RequestSoftwareReset(Recovery)
    /\ Continue("QuiescingAT")
    /\ UNCHANGED <<hwGen, nodeValid, atActive, edge, waited, flags, selfId, topo,
                   holdoff, gens, deferred, discovery, watchdogs, async, policy>>

StillWaiting ==
    /\ Stepping("WaitingSelfID") /\ ~CanAttemptSelfIDDecode /\ ~waited
    /\ Yield

\* OnBusResetBegin closes the gate and cancels everything; the AT contexts are
\* stopped, which may take them a while.
StopFlushAT ==
    /\ Stepping("QuiescingAT") /\ ~stopFlush
    /\ stopFlush' = TRUE /\ gate' = TRUE /\ stale' = FALSE
    /\ atActive' \in {FALSE, atActive}
    /\ UNCHANGED <<hwGen, event, nodeValid, fsm, filters, armed, masked, cycle, gens,
                   queue, policy>>

StepQuiescingAT ==
    /\ Stepping("QuiescingAT") /\ stopFlush
    /\ \/ ~atActive /\ Continue("RestoringConfigROM")
          /\ UNCHANGED <<hw, edge, latch, waited, flags, cycle, gens, queue, async,
                         policy>>
       \/ atActive /\ Yield

\* The Self-IDs may not form a tree; gap counts may disagree.
StepRestoringConfigROM(built, mismatch) ==
    /\ Stepping("RestoringConfigROM")
    /\ topo' = IF ~selfId THEN topo ELSE IF built THEN lastGen ELSE None
    /\ IF topo' # None /\ selfId /\ mismatch
       THEN RequestSoftwareReset(GapCorrection)
       ELSE UNCHANGED <<pending, queued>>
    /\ Continue("ClearingBusReset")
    /\ UNCHANGED <<hw, edge, latch, waited, flags, selfId, holdoff, gens, deferred,
                   discovery, watchdogs, async, policy>>

StepClearingBusReset ==
    /\ Stepping("ClearingBusReset")
    /\ \/ /\ ~atActive
          /\ event' = event \ {"busReset"}
          /\ masked' = FALSE
          /\ Continue("Rearming")
          /\ UNCHANGED <<hwGen, nodeValid, atActive, edge, latch, waited, stopFlush,
                         filters, armed, cycle, gens, queue, async, policy>>
       \/ atActive /\ Yield

\* OnBusResetComplete opens the gate.
StepRearming ==
    /\ Stepping("Rearming")
    /\ \/ /\ nodeValid
          /\ filters' = TRUE /\ armed' = TRUE /\ gate' = FALSE
          /\ Continue("Complete")
          /\ UNCHANGED <<hw, edge, latch, waited, stopFlush, masked, cycle, gens,
                         queue, stale, policy>>
       \/ ~nodeValid /\ Yield

\* A topology is published only when no software reset is to follow.
StepComplete(issued) ==
    /\ Stepping("Complete")
    /\ st' = "Idle" /\ Finish
    /\ \/ /\ MaybeDispatchPendingSoftwareReset(issued)
          /\ UNCHANGED discovery
       \/ /\ pending = NoRequest
          /\ discovery' = IF topo = None THEN discovery
                          ELSE [discovery EXCEPT ![topo] = @ + 1]
          /\ UNCHANGED <<pending, deferred, watchdogs, delegate>>
    /\ UNCHANGED <<hw, edge, latch, waited, flags, selfId, topo, holdoff, gens, queued,
                   async, manual, requests, published>>

\* Mutant: a stray completion is dropped.
HandleStraySelfID_Dropped ==
    /\ Stepping("Idle") /\ CanAttemptSelfIDDecode
    /\ ClearConsumedSelfIDInterrupts
    /\ Finish
    /\ UNCHANGED <<hwGen, nodeValid, atActive, st, edge, waited, flags, cycle, gens,
                   queue, async, policy>>

\* A Self-ID completion outside a reset cycle.
HandleStraySelfID ==
    /\ Stepping("Idle") /\ CanAttemptSelfIDDecode
    /\ DecodeSelfID(TRUE)
    /\ ClearConsumedSelfIDInterrupts
    /\ Continue("QuiescingAT")
    /\ UNCHANGED <<hwGen, nodeValid, atActive, edge, waited, flags, topo, pending,
                   holdoff, timing, epoch, queue, gate, policy>>

StepIdle(issued) ==
    /\ Stepping("Idle")
    /\ ClearConsumedSelfIDInterrupts
    /\ IF CanAttemptSelfIDDecode THEN DecodeSelfID(FALSE)
       ELSE UNCHANGED <<selfId, lastGen, stale>>
    /\ masked' = FALSE
    /\ Finish
    /\ \/ MaybeDispatchPendingSoftwareReset(issued)
       \/ pending = NoRequest /\ UNCHANGED <<pending, deferred, watchdogs, delegate>>
    /\ UNCHANGED <<hwGen, nodeValid, atActive, st, edge, waited, stopFlush, filters,
                   armed, topo, holdoff, timing, epoch, queued, discovery, gate,
                   manual, requests, published>>

\* Mutant: the generation is not compared.
ReadyForDiscovery_AnyGeneration(g) ==
    nodeValid /\ filters /\ armed /\ topo # None

ReadyForDiscovery(g) ==
    nodeValid /\ filters /\ armed /\ topo # None /\ g = lastGen

\* The discovery block, after its delay.
Discover(g) ==
    /\ ~running /\ discovery[g] > 0
    /\ discovery' = [discovery EXCEPT ![g] = @ - 1]
    /\ published' = IF ReadyForDiscovery(g) THEN [published EXCEPT ![g] = @ + 1]
                    ELSE published
    /\ UNCHANGED <<hw, fsm, flags, cycle, gens, queued, deferred, watchdogs, async,
                   delegate, manual, requests>>

-----------------------------------------------------------------------------
Step ==
    \/ BeginNewResetCycle
    \/ StepDetecting
    \/ \E decoded \in BOOLEAN : StepWaitingSelfID(decoded)
    \/ StepSelfIDTimeout \/ StillWaiting
    \/ StopFlushAT \/ StepQuiescingAT
    \/ \E built, mismatch \in BOOLEAN : StepRestoringConfigROM(built, mismatch)
    \/ StepClearingBusReset \/ StepRearming
    \/ \E issued \in BOOLEAN : StepComplete(issued) \/ StepIdle(issued)
    \/ HandleStraySelfID
    \/ IterationGuard

Requests ==
    \/ \E long \in BOOLEAN : RequestUserReset(long)
    \/ RequestConfigRomRestageReset
    \/ \E target \in Targets, long \in BOOLEAN, gap \in {"none", "low"} :
            RequestRolePolicyReset(target, long, gap)

Hardware ==
    \/ HwBusReset \/ HwSelfIDComplete \/ HwTransmit \/ HwTransmitDone
    \/ SelfIDTimeout \/ HoldoffExpires

Next ==
    \/ Step \/ RunStateMachine \/ OnIrq \/ Requests \/ Hardware
    \/ \E w \in watchdogs : MaybeRecoverMissingManualResetIrq(w)
    \/ \E g \in Generations : Discover(g)

\* The queue runs what it holds; an event that is set and not masked keeps
\* interrupting; the bus initialises; time passes.
Fairness ==
    /\ WF_vars(Step) /\ WF_vars(RunStateMachine) /\ WF_vars(OnIrq)
    /\ WF_vars(HwSelfIDComplete)
    /\ WF_vars(SelfIDTimeout) /\ WF_vars(HoldoffExpires)

Spec == Init /\ [][Next]_vars /\ Fairness

-----------------------------------------------------------------------------
(* Properties *)

\* Every variable has its type; no run takes more than kMaxIterations steps, no
\* root more than kMaxDelegateRetries delegations, no manual reset more than
\* kMaxManualRecoveryResetAttempts recoveries.
TypeOK ==
    /\ hwGen \in 0..MaxResets /\ event \subseteq SelfIDEvents \cup {"busReset"}
    /\ nodeValid \in BOOLEAN /\ atActive \in BOOLEAN
    /\ st \in State /\ running \in BOOLEAN /\ iteration \in 0..MaxIterations
    /\ edge \in BOOLEAN /\ latch \subseteq SelfIDEvents /\ waited \in BOOLEAN
    /\ stopFlush \in BOOLEAN /\ filters \in BOOLEAN /\ armed \in BOOLEAN
    /\ masked \in BOOLEAN
    /\ selfId \in BOOLEAN /\ topo \in Generations \cup {None}
    /\ pending \in Request \cup {NoRequest} /\ holdoff \in BOOLEAN
    /\ lastGen \in 0..MaxResets
    /\ timing \in [valid : BOOLEAN, gen : 0..MaxResets] /\ epoch \in Nat
    /\ queued \in BOOLEAN /\ deferred \in BOOLEAN
    /\ discovery \in [Generations -> Nat] /\ published \in [Generations -> Nat]
    /\ watchdogs \subseteq [manual : Nat, reset : Nat]
    /\ gate \in BOOLEAN /\ stale \in BOOLEAN
    /\ delegate \in [target : Targets \cup {None}, retries : 0..(MaxDelegateRetries + 1),
                     suppressed : BOOLEAN]
    /\ manual \in [epoch : Nat, attempts : 0..MaxRecoveryAttempts]
    /\ requests \in 0..MaxRequests

\* Work is never left lying: whenever the machine rests with an edge latched, a
\* software reset pending, the interrupt masked, the async gate closed or a
\* cycle half done, a run of it is queued.  A Self-ID completion that was latched
\* too late for its cycle has a run queued or an event the controller still signals.
WorkIsScheduled ==
    ~running =>
        /\ edge \/ pending # NoRequest \/ masked \/ gate \/ st # "Idle"
              => queued \/ deferred
        /\ latch # {} => queued \/ deferred \/ Unmasked # {}

\* A request to correct mismatched gap counts asks for gap count 63, whatever it
\* has been merged with since.
ConservativeGap ==
    pending # NoRequest /\ pending.force63 => pending.gap = "63"

\* Merging never weakens the reset that is pending: long stays long, and a
\* bus-wide policy is not relabelled as a lesser one.
MergeKeepsStrength ==
    [][pending # NoRequest /\ pending' # NoRequest =>
            /\ pending.long => pending'.long
            /\ Rank(pending'.kind) >= Rank(pending.kind)]_vars

\* Discovery is told only of the topology the driver holds, and with the async
\* gate open: between a generation's acceptance and its topology's, through the
\* late path too, nothing is published.
PublishesAccepted ==
    [][\A g \in Generations : published'[g] # published[g] => topo = g /\ ~gate]_vars

\* When the bus stops resetting and the AT contexts run empty, the machine comes
\* to rest with the interrupt unmasked, the gate open, and the generation of the
\* bus accepted (or no Self-ID accepted at all, when it could not be decoded).
CatchesUp ==
    <>[]~atActive => <>[](/\ st = "Idle" /\ ~masked /\ ~gate
                          /\ lastGen = hwGen \/ ~selfId)

\* "Publishes topology exactly once": however often the Self-IDs of a generation
\* are decoded, discovery is told of it once.
\* Does not hold: see section 5 of the README.
PublishedOnce == \A g \in Generations : published[g] <= 1

\* "QuiescingAT: Stop and flush AT contexts": past that state the async table
\* holds no request of an earlier generation.
QuiescingFlushes ==
    st \in {"RestoringConfigROM", "ClearingBusReset", "Rearming"} => ~stale

\* "Post-reset timing gates, anchored to Self-ID completion": an idle machine
\* with a topology has the timing gates of that generation armed.
\* Does not hold: see section 5 of the README.
TimingFollows ==
    st = "Idle" /\ ~running /\ topo # None
        => timing = [valid |-> TRUE, gen |-> topo]

=============================================================================
