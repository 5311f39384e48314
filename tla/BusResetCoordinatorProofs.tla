---------------------- MODULE BusResetCoordinatorProofs ----------------------
(***************************************************************************)
(* Proofs about BusResetCoordinator for every number of resets and         *)
(* requests, every retry limit and every iteration bound.                  *)
(***************************************************************************)
EXTENDS BusResetCoordinator, TLAPS

USE DEF hw, fsm, flags, cycle, gens, queue, async, policy, vars

-----------------------------------------------------------------------------
(* Merging of reset requests *)

\* A request that may be deferred: a forced gap count is the conservative one.
Sound(request) == request \in Request /\ (request.force63 => request.gap = "63")

\* What a step does to the pending request: nothing, drop it, or defer another.
PendingChange ==
    \/ pending' = pending
    \/ pending' = NoRequest
    \/ \E request \in Request : Sound(request) /\ Deferring(request)

\* A request that is made is deferred, if it is sound.
LEMMA RequestDefers ==
    ASSUME NEW request, Sound(request), RequestSoftwareReset(request)
    PROVE  PendingChange
  BY DEF PendingChange, RequestSoftwareReset, Sound

\* The requests the code makes are sound.
LEMMA RequestsSound ==
    /\ Sound(Recovery) /\ Sound(GapCorrection)
    /\ \A long \in BOOLEAN :
          Sound([Recovery EXCEPT !.kind = "ManualBusManager", !.long = long])
    /\ Sound([Recovery EXCEPT !.kind = "RolePolicyRestage", !.long = TRUE])
    /\ \A target \in Targets, long \in BOOLEAN, gap \in {"none", "low"} :
          Sound([kind |-> "Delegation", long |-> long, gap |-> gap, root |-> target,
                 force63 |-> FALSE])
  BY DEF Sound, Request, Kind, Recovery, GapCorrection

\* Every step treats the pending request in one of these ways.
LEMMA PendingStep ==
    ASSUME [Next]_vars
    PROVE  PendingChange
  <1>1. CASE Step
    <2>1. CASE \E decoded \in BOOLEAN : StepWaitingSelfID(decoded)
      <3>1. RequestSoftwareReset(Recovery) \/ pending' = pending
        BY <2>1 DEF StepWaitingSelfID
      <3>. QED BY <3>1, RequestsSound, RequestDefers DEF PendingChange
    <2>2. CASE StepSelfIDTimeout
      BY <2>2, RequestsSound, RequestDefers DEF StepSelfIDTimeout
    <2>3. CASE \E built, mismatch \in BOOLEAN : StepRestoringConfigROM(built, mismatch)
      <3>1. RequestSoftwareReset(GapCorrection) \/ pending' = pending
        BY <2>3 DEF StepRestoringConfigROM
      <3>. QED BY <3>1, RequestsSound, RequestDefers DEF PendingChange
    <2>4. CASE \E issued \in BOOLEAN : StepComplete(issued) \/ StepIdle(issued)
      BY <2>4 DEF StepComplete, StepIdle, MaybeDispatchPendingSoftwareReset, PendingChange
    <2>5. CASE BeginNewResetCycle
      BY <2>5 DEF BeginNewResetCycle, PendingChange
    <2>6. CASE StepDetecting \/ StillWaiting \/ StopFlushAT \/ StepQuiescingAT
                  \/ IterationGuard
      BY <2>6 DEF StepDetecting, StillWaiting, StopFlushAT, StepQuiescingAT,
                  IterationGuard, Yield, PendingChange
    <2>7. CASE StepClearingBusReset \/ StepRearming \/ HandleStraySelfID
      BY <2>7 DEF StepClearingBusReset, StepRearming, HandleStraySelfID, Yield,
                  PendingChange
    <2>. QED BY <1>1, <2>1, <2>2, <2>3, <2>4, <2>5, <2>6, <2>7 DEF Step
  <1>2. CASE RunStateMachine \/ OnIrq
    BY <1>2 DEF RunStateMachine, OnIrq, PendingChange
  <1>3. CASE Requests
    <2>1. CASE \E long \in BOOLEAN : RequestUserReset(long)
      <3>1. PICK long \in BOOLEAN : RequestUserReset(long)
        BY <2>1
      <3>. QED BY <3>1, RequestsSound, RequestDefers DEF RequestUserReset
    <2>2. CASE RequestConfigRomRestageReset
      BY <2>2, RequestsSound, RequestDefers DEF RequestConfigRomRestageReset
    <2>3. CASE \E target \in Targets, long \in BOOLEAN, gap \in {"none", "low"} :
                  RequestRolePolicyReset(target, long, gap)
      <3>1. PICK target \in Targets, long \in BOOLEAN, gap \in {"none", "low"} :
                  RequestRolePolicyReset(target, long, gap)
        BY <2>3
      <3>2. \/ pending' = pending
            \/ RequestSoftwareReset([kind |-> "Delegation", long |-> long, gap |-> gap,
                                     root |-> target, force63 |-> FALSE])
        BY <3>1 DEF RequestRolePolicyReset
      <3>. QED BY <3>2, RequestsSound, RequestDefers DEF PendingChange
    <2>. QED BY <1>3, <2>1, <2>2, <2>3 DEF Requests
  <1>4. CASE Hardware
    BY <1>4 DEF Hardware, HwBusReset, HwSelfIDComplete, HwTransmit,
                HwTransmitDone, SelfIDTimeout, HoldoffExpires, PendingChange
  <1>5. CASE \E w \in watchdogs : MaybeRecoverMissingManualResetIrq(w)
    <2>1. RequestSoftwareReset(Recovery) \/ pending' = pending
      BY <1>5 DEF MaybeRecoverMissingManualResetIrq
    <2>. QED BY <2>1, RequestsSound, RequestDefers DEF PendingChange
  <1>6. CASE \E g \in Generations : Discover(g)
    BY <1>6 DEF Discover, PendingChange
  <1>7. CASE UNCHANGED vars
    BY <1>7 DEF PendingChange
  <1>. QED BY <1>1, <1>2, <1>3, <1>4, <1>5, <1>6, <1>7 DEF Next

\* MismatchForce63 survives every merge: a pending correction of mismatched gap
\* counts asks for gap count 63 whatever MergeResetRequests joined it with.
THEOREM GapStaysConservative == Spec => []ConservativeGap
  <1>1. Init => ConservativeGap
    BY DEF Init, ConservativeGap
  <1>2. ConservativeGap /\ [Next]_vars => ConservativeGap'
    <2>. SUFFICES ASSUME ConservativeGap, [Next]_vars PROVE ConservativeGap'
      OBVIOUS
    <2>1. CASE \E request \in Request : Sound(request) /\ Deferring(request)
      <3>1. PICK request \in Request : Sound(request) /\ Deferring(request)
        BY <2>1
      <3>2. CASE pending = NoRequest
        BY <3>1, <3>2 DEF Sound, Deferring, ConservativeGap
      <3>3. CASE pending # NoRequest
        <4>1. pending' = MergeResetRequests(pending, request)
          BY <3>1, <3>3 DEF Deferring
        <4>2. MergeResetRequests(pending, request).force63
                => MergeResetRequests(pending, request).gap = "63"
          BY DEF MergeResetRequests
        <4>. QED BY <4>1, <4>2 DEF ConservativeGap
      <3>. QED BY <3>2, <3>3
    <2>. QED BY <2>1, PendingStep DEF PendingChange, ConservativeGap
  <1>. QED BY <1>1, <1>2, PTL DEF Spec

\* Ranks are numbers, so that a merge can compare them.
LEMMA RankNat ==
    ASSUME NEW kind PROVE Rank(kind) \in Nat
  BY DEF Rank

\* A request that is pending stays at least as strong: no later request turns a
\* long reset into a short one or a bus-wide policy into a lesser kind.
THEOREM MergingKeepsStrength == Spec => MergeKeepsStrength
  <1>1. [Next]_vars =>
          (pending # NoRequest /\ pending' # NoRequest =>
                /\ pending.long => pending'.long
                /\ Rank(pending'.kind) >= Rank(pending.kind))
    <2>. SUFFICES ASSUME [Next]_vars, pending # NoRequest, pending' # NoRequest
                  PROVE  /\ pending.long => pending'.long
                         /\ Rank(pending'.kind) >= Rank(pending.kind)
      OBVIOUS
    <2>1. CASE pending' = pending
      <3>1. Rank(pending.kind) \in Nat
        BY RankNat
      <3>. QED BY <2>1, <3>1
    <2>2. CASE \E request \in Request : Sound(request) /\ Deferring(request)
      <3>1. PICK request \in Request : pending' = MergeResetRequests(pending, request)
        BY <2>2 DEF Deferring
      <3>2. pending.long => pending'.long
        BY <3>1 DEF MergeResetRequests
      <3>3. pending'.kind = IF Rank(request.kind) > Rank(pending.kind)
                            THEN request.kind ELSE pending.kind
        BY <3>1 DEF MergeResetRequests
      <3>4. Rank(pending.kind) \in Nat /\ Rank(request.kind) \in Nat
        BY RankNat
      <3>5. Rank(pending'.kind) >= Rank(pending.kind)
        BY <3>3, <3>4
      <3>. QED BY <3>2, <3>5
    <2>. QED BY <2>1, <2>2, PendingStep DEF PendingChange
  <1>. QED BY <1>1, PTL DEF Spec, MergeKeepsStrength

-----------------------------------------------------------------------------
(* Work is scheduled *)

\* At rest, whatever is left to do has a run queued for it.
RestIsQueued ==
    ~running /\ (edge \/ pending # NoRequest \/ masked \/ gate \/ st # "Idle")
        => queued \/ deferred

\* Only the first half of a cycle masks busReset, and only the second half
\* leaves the async gate closed.
OpenAtEnd ==
    /\ st \in {"Idle", "Complete", "Rearming"} => ~masked
    /\ st \in {"Idle", "Complete"} => ~gate

\* A latched completion still shows in the event register, unless a bus reset has
\* taken it back; that reset completes with the same event.
LatchShows == latch # {} /\ nodeValid => latch \cap event # {}

\* A reset nobody has looked at shows at the end of a cycle and in Idle.
ResetShows ==
    st \in {"Idle", "Complete"} =>
        nodeValid \/ "busReset" \in event \/ (latch = {} /\ event = {})

ScheduleInv == /\ RestIsQueued /\ OpenAtEnd /\ LatchShows /\ ResetShows
               /\ latch \subseteq SelfIDEvents

\* A request leaves a run queued for it wherever the machine rests.
LEMMA RequestIsQueued ==
    ASSUME ScheduleInv, NEW request, RequestSoftwareReset(request), ~running,
           UNCHANGED <<hw, fsm, flags, gate, deferred>>
    PROVE  ScheduleInv'
  <1>1. queued' \/ deferred'
    BY DEF RequestSoftwareReset, ScheduleInv, RestIsQueued
  <1>. QED BY <1>1 DEF ScheduleInv, RestIsQueued, OpenAtEnd, LatchShows, ResetShows

\* The steps of a run.
LEMMA ScheduleRun ==
    ASSUME ScheduleInv, Step
    PROVE  ScheduleInv'
  <1>. USE DEF ScheduleInv, RestIsQueued, OpenAtEnd, LatchShows, ResetShows
  <1>1. CASE BeginNewResetCycle
    BY <1>1 DEF BeginNewResetCycle
  <1>2. CASE StepDetecting
    BY <1>2 DEF StepDetecting, Stepping, Continue
  <1>3. CASE \E decoded \in BOOLEAN : StepWaitingSelfID(decoded)
    BY <1>3 DEF StepWaitingSelfID, Stepping, Continue, ClearConsumedSelfIDInterrupts
  <1>4. CASE StepSelfIDTimeout
    BY <1>4 DEF StepSelfIDTimeout, Stepping, Continue, ClearConsumedSelfIDInterrupts
  <1>5. CASE StillWaiting \/ IterationGuard
    BY <1>5 DEF StillWaiting, IterationGuard, Stepping, Yield, Finish, YieldAndReschedule
  <1>6. CASE StopFlushAT
    BY <1>6 DEF StopFlushAT, Stepping
  <1>7. CASE StepQuiescingAT
    <2>1. CASE Yield /\ Stepping("QuiescingAT")
      BY <2>1 DEF Stepping, Yield, Finish, YieldAndReschedule
    <2>2. CASE Stepping("QuiescingAT") /\ ~Yield
      <3>1. /\ st' = "RestoringConfigROM" /\ running /\ running' = running
            /\ UNCHANGED <<latch, event, nodeValid>>
        BY <1>7, <2>2 DEF StepQuiescingAT, Stepping, Continue
      <3>. QED BY <3>1
    <2>. QED BY <1>7, <2>1, <2>2 DEF StepQuiescingAT
  <1>8. CASE \E built, mismatch \in BOOLEAN : StepRestoringConfigROM(built, mismatch)
    BY <1>8 DEF StepRestoringConfigROM, Stepping, Continue
  <1>9. CASE StepClearingBusReset
    <2>1. CASE Yield /\ Stepping("ClearingBusReset")
      BY <2>1 DEF Stepping, Yield, Finish, YieldAndReschedule
    <2>2. CASE Stepping("ClearingBusReset") /\ ~Yield
      <3>1. /\ event' = event \ {"busReset"} /\ masked' = FALSE /\ st' = "Rearming"
            /\ running /\ running' = running
            /\ UNCHANGED <<latch, nodeValid>>
        BY <1>9, <2>2 DEF StepClearingBusReset, Stepping, Continue
      <3>2. LatchShows'
        BY <3>1 DEF SelfIDEvents
      <3>. QED BY <3>1, <3>2
    <2>. QED BY <1>9, <2>1, <2>2 DEF StepClearingBusReset
  <1>10. CASE StepRearming
    <2>1. CASE Yield /\ Stepping("Rearming")
      BY <2>1 DEF Stepping, Yield, Finish, YieldAndReschedule
    <2>2. CASE Stepping("Rearming") /\ ~Yield
      <3>1. /\ nodeValid /\ gate' = FALSE /\ st' = "Complete" /\ st = "Rearming"
            /\ running /\ running' = running
            /\ UNCHANGED <<latch, event, nodeValid, masked>>
        BY <1>10, <2>2 DEF StepRearming, Stepping, Continue
      <3>. QED BY <3>1
    <2>. QED BY <1>10, <2>1, <2>2 DEF StepRearming
  <1>11. CASE \E issued \in BOOLEAN : StepComplete(issued)
    <2>1. /\ st = "Complete" /\ st' = "Idle" /\ ~edge
          /\ UNCHANGED <<latch, event, nodeValid, masked, gate, edge>>
      BY <1>11 DEF StepComplete, Stepping
    <2>2. pending' # NoRequest => deferred'
      BY <1>11 DEF StepComplete, MaybeDispatchPendingSoftwareReset, YieldAndReschedule
    <2>3. RestIsQueued'
      BY <2>1, <2>2
    <2>. QED BY <2>1, <2>3
  <1>12. CASE \E issued \in BOOLEAN : StepIdle(issued)
    <2>1. st = "Idle" /\ ~edge /\ masked' = FALSE /\ UNCHANGED <<st, edge, gate, nodeValid>>
      BY <1>12 DEF StepIdle, Stepping
    <2>2. pending' # NoRequest => deferred'
      BY <1>12 DEF StepIdle, MaybeDispatchPendingSoftwareReset, YieldAndReschedule
    <2>3. RestIsQueued'
      BY <2>1, <2>2
    <2>4. OpenAtEnd'
      BY <2>1
    <2>5. (LatchShows /\ ResetShows /\ latch \subseteq SelfIDEvents)'
      BY <1>12, <2>1 DEF StepIdle, ClearConsumedSelfIDInterrupts, SelfIDEvents
    <2>. QED BY <2>3, <2>4, <2>5
  <1>13. CASE HandleStraySelfID
    BY <1>13 DEF HandleStraySelfID, Stepping, Continue, ClearConsumedSelfIDInterrupts
  <1>. QED BY <1>1, <1>2, <1>3, <1>4, <1>5, <1>6, <1>7, <1>8, <1>9, <1>10, <1>11,
              <1>12, <1>13 DEF Step

\* Everything that happens between and around the steps of a run.
LEMMA ScheduleStep ==
    ASSUME ScheduleInv, [Next]_vars
    PROVE  ScheduleInv'
  <1>1. CASE Step
    BY <1>1, ScheduleRun
  <1>2. CASE RunStateMachine
    BY <1>2 DEF RunStateMachine, ScheduleInv, RestIsQueued, OpenAtEnd, LatchShows,
                ResetShows
  <1>3. CASE OnIrq
    BY <1>3 DEF OnIrq, Unmasked, ScheduleInv, RestIsQueued, OpenAtEnd, LatchShows,
                ResetShows
  <1>4. CASE Requests
    <2>1. CASE \E long \in BOOLEAN : RequestUserReset(long)
      BY <2>1, RequestIsQueued DEF RequestUserReset, Requesting
    <2>2. CASE RequestConfigRomRestageReset
      BY <2>2, RequestIsQueued DEF RequestConfigRomRestageReset, Requesting
    <2>3. CASE \E target \in Targets, long \in BOOLEAN, gap \in {"none", "low"} :
                  RequestRolePolicyReset(target, long, gap)
      <3>1. PICK target \in Targets, long \in BOOLEAN, gap \in {"none", "low"} :
                  RequestRolePolicyReset(target, long, gap)
        BY <2>3
      <3>2. CASE Delegated(target).suppressed
        BY <3>1, <3>2 DEF RequestRolePolicyReset, ScheduleInv, RestIsQueued, OpenAtEnd,
                          LatchShows, ResetShows
      <3>3. CASE ~Delegated(target).suppressed
        BY <3>1, <3>3, RequestIsQueued DEF RequestRolePolicyReset, Requesting
      <3>. QED BY <3>2, <3>3
    <2>. QED BY <1>4, <2>1, <2>2, <2>3 DEF Requests
  <1>5. CASE Hardware
    <2>. USE DEF ScheduleInv, RestIsQueued, OpenAtEnd, LatchShows, ResetShows
    <2>1. CASE HwBusReset
      BY <2>1 DEF HwBusReset
    <2>2. CASE HwSelfIDComplete
      BY <2>2 DEF HwSelfIDComplete
    <2>3. CASE HwTransmit \/ HwTransmitDone \/ SelfIDTimeout \/ HoldoffExpires
      BY <2>3 DEF HwTransmit, HwTransmitDone, SelfIDTimeout, HoldoffExpires
    <2>. QED BY <1>5, <2>1, <2>2, <2>3 DEF Hardware
  <1>6. CASE \E w \in watchdogs : MaybeRecoverMissingManualResetIrq(w)
    <2>1. CASE RequestSoftwareReset(Recovery)
      BY <1>6, <2>1, RequestIsQueued DEF MaybeRecoverMissingManualResetIrq
    <2>2. CASE UNCHANGED <<pending, queued>>
      BY <1>6, <2>2 DEF MaybeRecoverMissingManualResetIrq, ScheduleInv, RestIsQueued,
                        OpenAtEnd, LatchShows, ResetShows
    <2>. QED BY <1>6, <2>1, <2>2 DEF MaybeRecoverMissingManualResetIrq
  <1>7. CASE (\E g \in Generations : Discover(g)) \/ UNCHANGED vars
    BY <1>7 DEF Discover, ScheduleInv, RestIsQueued, OpenAtEnd, LatchShows, ResetShows
  <1>. QED BY <1>1, <1>2, <1>3, <1>4, <1>5, <1>6, <1>7 DEF Next

\* The machine never rests with an edge, a pending software reset, a masked
\* interrupt, a closed gate or half a cycle that no queued run will come back to;
\* a late Self-ID completion keeps the controller signalling.
THEOREM WorkAlwaysScheduled == Spec => []WorkIsScheduled
  <1>1. Init => ScheduleInv
    BY DEF Init, ScheduleInv, RestIsQueued, OpenAtEnd, LatchShows, ResetShows
  <1>2. ScheduleInv /\ [Next]_vars => ScheduleInv'
    BY ScheduleStep
  <1>3. ScheduleInv => WorkIsScheduled
    <2>. SUFFICES ASSUME ScheduleInv, ~running, latch # {}, ~queued, ~deferred
                  PROVE  Unmasked # {}
      BY DEF WorkIsScheduled, ScheduleInv, RestIsQueued
    <2>1. st = "Idle" /\ ~masked
      BY DEF ScheduleInv, RestIsQueued, OpenAtEnd
    <2>2. event # {}
      BY <2>1 DEF ScheduleInv, LatchShows, ResetShows
    <2>. QED BY <2>1, <2>2 DEF Unmasked
  <1>. QED BY <1>1, <1>2, <1>3, PTL DEF Spec

-----------------------------------------------------------------------------
(* Types and bounds *)

\* The controller: a bus that is initialised has been reset.
HwTyped ==
    /\ hwGen \in 0..MaxResets /\ event \subseteq SelfIDEvents \cup {"busReset"}
    /\ nodeValid \in BOOLEAN /\ atActive \in BOOLEAN
    /\ nodeValid => hwGen > 0

FsmTyped ==
    /\ st \in State /\ running \in BOOLEAN /\ iteration \in 0..MaxIterations
    /\ edge \in BOOLEAN /\ latch \subseteq SelfIDEvents /\ waited \in BOOLEAN

FlagsTyped ==
    /\ stopFlush \in BOOLEAN /\ filters \in BOOLEAN /\ armed \in BOOLEAN
    /\ masked \in BOOLEAN

\* Self-IDs are accepted for a generation that there has been.
CycleTyped ==
    /\ selfId \in BOOLEAN /\ topo \in Generations \cup {None} /\ holdoff \in BOOLEAN
    /\ lastGen \in 0..MaxResets
    /\ selfId => lastGen > 0
    /\ timing \in [valid : BOOLEAN, gen : 0..MaxResets] /\ epoch \in Nat

QueueTyped ==
    /\ queued \in BOOLEAN /\ deferred \in BOOLEAN
    /\ discovery \in [Generations -> Nat] /\ published \in [Generations -> Nat]
    /\ gate \in BOOLEAN /\ stale \in BOOLEAN
    /\ requests \in 0..MaxRequests

\* A delegation that is not suppressed has retries left.
PolicyTyped ==
    /\ pending \in Request \cup {NoRequest}
    /\ watchdogs \subseteq [manual : Nat, reset : Nat]
    /\ delegate \in [target : Targets \cup {None}, retries : 0..(MaxDelegateRetries + 1),
                     suppressed : BOOLEAN]
    /\ ~delegate.suppressed => delegate.retries <= MaxDelegateRetries
    /\ manual \in [epoch : Nat, attempts : 0..MaxRecoveryAttempts]

Typed == HwTyped /\ FsmTyped /\ FlagsTyped /\ CycleTyped /\ QueueTyped /\ PolicyTyped

\* Resets number from 1 while there are any left.
LEMMA HwTypedStep ==
    ASSUME Typed, [Next]_vars
    PROVE  HwTyped'
  <1>. USE BusResetAssumption DEF Typed, HwTyped, FsmTyped, SelfIDEvents
  <1>1. CASE Step
    <2>1. CASE BeginNewResetCycle
      BY <2>1 DEF BeginNewResetCycle
    <2>2. CASE \E decoded \in BOOLEAN : StepWaitingSelfID(decoded)
      BY <2>2 DEF StepWaitingSelfID, ClearConsumedSelfIDInterrupts
    <2>3. CASE StepSelfIDTimeout \/ HandleStraySelfID
      <3>1. event' \subseteq event /\ UNCHANGED <<hwGen, nodeValid, atActive>>
        BY <2>3 DEF StepSelfIDTimeout, HandleStraySelfID, ClearConsumedSelfIDInterrupts
      <3>. QED BY <3>1
    <2>4. CASE StopFlushAT
      BY <2>4 DEF StopFlushAT
    <2>5. CASE StepClearingBusReset
      <3>1. event' \subseteq event /\ UNCHANGED <<hwGen, nodeValid, atActive>>
        BY <2>5 DEF StepClearingBusReset, Yield
      <3>. QED BY <3>1
    <2>6. CASE \E issued \in BOOLEAN : StepIdle(issued)
      BY <2>6 DEF StepIdle, ClearConsumedSelfIDInterrupts
    <2>7. CASE \/ StepDetecting \/ StillWaiting \/ StepQuiescingAT \/ StepRearming
               \/ IterationGuard
               \/ \E issued \in BOOLEAN : StepComplete(issued)
               \/ \E built, mismatch \in BOOLEAN : StepRestoringConfigROM(built, mismatch)
      <3>1. UNCHANGED hw
        BY <2>7 DEF StepDetecting, StillWaiting, StepQuiescingAT, StepRearming,
                    IterationGuard, Yield, StepComplete, StepRestoringConfigROM
      <3>. QED BY <3>1
    <2>. QED BY <1>1, <2>1, <2>2, <2>3, <2>4, <2>5, <2>6, <2>7 DEF Step
  <1>2. CASE HwBusReset
    <2>1. hwGen' \in 0..MaxResets
      BY <1>2 DEF HwBusReset
    <2>2. event' \subseteq SelfIDEvents \cup {"busReset"}
      BY <1>2 DEF HwBusReset
    <2>. QED BY <1>2, <2>1, <2>2 DEF HwBusReset
  <1>3. CASE HwSelfIDComplete
    BY <1>3 DEF HwSelfIDComplete
  <1>4. CASE HwTransmit \/ HwTransmitDone \/ SelfIDTimeout \/ HoldoffExpires
    <2>1. atActive' \in BOOLEAN /\ UNCHANGED <<hwGen, event, nodeValid>>
      BY <1>4 DEF HwTransmit, HwTransmitDone, SelfIDTimeout, HoldoffExpires
    <2>. QED BY <2>1
  <1>5. CASE \/ RunStateMachine \/ OnIrq \/ Requests \/ UNCHANGED vars
             \/ \E w \in watchdogs : MaybeRecoverMissingManualResetIrq(w)
             \/ \E g \in Generations : Discover(g)
    <2>1. UNCHANGED hw
      BY <1>5 DEF RunStateMachine, OnIrq, Requests, RequestUserReset,
                  RequestConfigRomRestageReset, RequestRolePolicyReset,
                  MaybeRecoverMissingManualResetIrq, Discover
    <2>. QED BY <2>1
  <1>. QED BY <1>1, <1>2, <1>3, <1>4, <1>5 DEF Next, Hardware

\* No run takes a step past kMaxIterations.
LEMMA FsmTypedStep ==
    ASSUME Typed, [Next]_vars
    PROVE  FsmTyped'
  <1>. USE BusResetAssumption DEF Typed, FsmTyped, State
  <1>1. CASE Step
    <2>1. st' \in State
      BY <1>1 DEF Step, BeginNewResetCycle, StepDetecting, StepWaitingSelfID,
                  StepSelfIDTimeout, StillWaiting, StopFlushAT, StepQuiescingAT,
                  StepRestoringConfigROM, StepClearingBusReset, StepRearming,
                  StepComplete, StepIdle, HandleStraySelfID, IterationGuard,
                  Continue, Yield
    <2>2. \/ UNCHANGED <<running, iteration>>
          \/ Finish
          \/ iteration < MaxIterations /\ iteration' = iteration + 1 /\ UNCHANGED running
      BY <1>1 DEF Step, BeginNewResetCycle, StepDetecting, StepWaitingSelfID,
                  StepSelfIDTimeout, StillWaiting, StopFlushAT, StepQuiescingAT,
                  StepRestoringConfigROM, StepClearingBusReset, StepRearming,
                  StepComplete, StepIdle, HandleStraySelfID, IterationGuard,
                  Stepping, Continue, Yield
    <2>3. running' \in BOOLEAN
      BY <2>2, Zenon DEF Finish
    <2>7. iteration' \in 0..MaxIterations
      <3>1. iteration \in 0..MaxIterations
        OBVIOUS
      <3>2. iteration' = iteration \/ iteration' = 0
              \/ (iteration < MaxIterations /\ iteration' = iteration + 1)
        BY <2>2, Zenon DEF Finish
      <3>. HIDE DEF Typed, FsmTyped
      <3>. QED BY <3>1, <3>2
    <2>4. edge' = edge \/ edge' = FALSE
      BY <1>1 DEF Step, BeginNewResetCycle, StepDetecting, StepWaitingSelfID,
                  StepSelfIDTimeout, StillWaiting, StopFlushAT, StepQuiescingAT,
                  StepRestoringConfigROM, StepClearingBusReset, StepRearming,
                  StepComplete, StepIdle, HandleStraySelfID, IterationGuard,
                  Yield
    <2>5. latch' = latch \/ latch' = {}
      BY <1>1 DEF Step, BeginNewResetCycle, StepDetecting, StepWaitingSelfID,
                  StepSelfIDTimeout, StillWaiting, StopFlushAT, StepQuiescingAT,
                  StepRestoringConfigROM, StepClearingBusReset, StepRearming,
                  StepComplete, StepIdle, HandleStraySelfID, IterationGuard,
                  Yield, ClearConsumedSelfIDInterrupts
    <2>6. waited' = waited \/ waited' = FALSE
      BY <1>1 DEF Step, BeginNewResetCycle, StepDetecting, StepWaitingSelfID,
                  StepSelfIDTimeout, StillWaiting, StopFlushAT, StepQuiescingAT,
                  StepRestoringConfigROM, StepClearingBusReset, StepRearming,
                  StepComplete, StepIdle, HandleStraySelfID, IterationGuard,
                  Yield
    <2>. QED BY <2>1, <2>3, <2>4, <2>5, <2>6, <2>7
  <1>2. CASE RunStateMachine
    BY <1>2 DEF RunStateMachine
  <1>3. CASE OnIrq
    <2>1. UNCHANGED <<st, running, iteration, waited>> /\ latch' \subseteq SelfIDEvents
      BY <1>3 DEF OnIrq
    <2>2. edge' \in BOOLEAN
      BY <1>3, Zenon DEF OnIrq
    <2>. QED BY <2>1, <2>2
  <1>4. CASE SelfIDTimeout
    BY <1>4 DEF SelfIDTimeout
  <1>5. CASE \/ HwBusReset \/ HwSelfIDComplete \/ HwTransmit \/ HwTransmitDone
             \/ HoldoffExpires \/ Requests \/ UNCHANGED vars
             \/ \E w \in watchdogs : MaybeRecoverMissingManualResetIrq(w)
             \/ \E g \in Generations : Discover(g)
    <2>1. UNCHANGED fsm
      BY <1>5 DEF HwBusReset, HwSelfIDComplete, HwTransmit, HwTransmitDone,
                  HoldoffExpires, Requests, RequestUserReset,
                  RequestConfigRomRestageReset, RequestRolePolicyReset,
                  MaybeRecoverMissingManualResetIrq, Discover
    <2>. QED BY <2>1
  <1>. QED BY <1>1, <1>2, <1>3, <1>4, <1>5 DEF Next, Hardware

\* The flags of a cycle are set and reset as flags.
LEMMA FlagsTypedStep ==
    ASSUME Typed, [Next]_vars
    PROVE  FlagsTyped'
  <1>. USE DEF Typed, FlagsTyped
  <1>1. CASE Step
    <2>1. CASE BeginNewResetCycle \/ StopFlushAT
      BY <2>1 DEF BeginNewResetCycle, StopFlushAT
    <2>2. CASE StepClearingBusReset \/ StepRearming
      BY <2>2 DEF StepClearingBusReset, StepRearming, Yield
    <2>3. CASE \E issued \in BOOLEAN : StepIdle(issued)
      BY <2>3 DEF StepIdle
    <2>4. CASE \/ StepDetecting \/ StepSelfIDTimeout \/ StillWaiting \/ StepQuiescingAT
               \/ HandleStraySelfID \/ IterationGuard
               \/ \E decoded \in BOOLEAN : StepWaitingSelfID(decoded)
               \/ \E issued \in BOOLEAN : StepComplete(issued)
               \/ \E built, mismatch \in BOOLEAN : StepRestoringConfigROM(built, mismatch)
      <3>1. UNCHANGED flags
        BY <2>4 DEF StepDetecting, StepSelfIDTimeout, StillWaiting, StepQuiescingAT,
                    HandleStraySelfID, IterationGuard, Yield, StepWaitingSelfID,
                    StepComplete, StepRestoringConfigROM
      <3>. QED BY <3>1
    <2>. QED BY <1>1, <2>1, <2>2, <2>3, <2>4 DEF Step
  <1>2. CASE \/ RunStateMachine \/ OnIrq \/ Hardware \/ Requests \/ UNCHANGED vars
             \/ \E w \in watchdogs : MaybeRecoverMissingManualResetIrq(w)
             \/ \E g \in Generations : Discover(g)
    <2>1. UNCHANGED flags
      BY <1>2 DEF RunStateMachine, OnIrq, Hardware, HwBusReset, HwSelfIDComplete,
                  HwTransmit, HwTransmitDone, SelfIDTimeout, HoldoffExpires, Requests,
                  RequestUserReset, RequestConfigRomRestageReset,
                  RequestRolePolicyReset, MaybeRecoverMissingManualResetIrq, Discover
    <2>. QED BY <2>1
  <1>. QED BY <1>1, <1>2 DEF Next

\* The facts about a step that the generations of a cycle depend on: Self-IDs are
\* decoded of an initialised bus, topologies are built of accepted Self-IDs.
LEMMA CycleTypedStep ==
    ASSUME Typed, [Next]_vars
    PROVE  CycleTyped'
  <1>. USE DEF Typed, HwTyped, CycleTyped
  <1>1. CASE Step
    <2>1. CASE BeginNewResetCycle
      <3>1. /\ selfId' = FALSE /\ topo' = None /\ UNCHANGED <<holdoff, lastGen>>
            /\ timing' = [valid |-> FALSE, gen |-> lastGen] /\ epoch' = epoch + 1
        BY <2>1 DEF BeginNewResetCycle
      <3>2. timing' \in [valid : BOOLEAN, gen : 0..MaxResets] /\ epoch' \in Nat
        BY <3>1
      <3>. QED BY <3>1, <3>2
    <2>2. CASE \E decoded \in BOOLEAN : StepWaitingSelfID(decoded)
      <3>1. PICK decoded \in BOOLEAN : StepWaitingSelfID(decoded)
        BY <2>2
      <3>2. /\ selfId' = decoded /\ holdoff' = TRUE /\ UNCHANGED <<topo, epoch>>
            /\ lastGen' = IF decoded THEN hwGen ELSE lastGen
            /\ timing' = IF decoded THEN [valid |-> TRUE, gen |-> hwGen] ELSE timing
            /\ nodeValid
        BY <3>1 DEF StepWaitingSelfID, DecodeSelfID, CanAttemptSelfIDDecode
      <3>. QED BY <3>2
    <2>3. CASE HandleStraySelfID
      <3>1. /\ selfId' = TRUE /\ UNCHANGED <<topo, epoch, holdoff, timing>>
            /\ lastGen' = hwGen /\ nodeValid
        BY <2>3 DEF HandleStraySelfID, DecodeSelfID, CanAttemptSelfIDDecode
      <3>2. lastGen' > 0 /\ lastGen' \in 0..MaxResets
        BY <3>1
      <3>. QED BY <3>1, <3>2
    <2>4. CASE \E issued \in BOOLEAN : StepIdle(issued)
      <3>1. /\ selfId' = FALSE \/ selfId' = selfId
            /\ UNCHANGED <<topo, epoch, holdoff, timing, lastGen>>
        BY <2>4 DEF StepIdle, DecodeSelfID
      <3>2. selfId' \in BOOLEAN /\ (selfId' => selfId)
        <4>1. CASE selfId' = FALSE
          BY <4>1
        <4>2. CASE selfId' = selfId
          BY <4>2
        <4>. QED BY <3>1, <4>1, <4>2
      <3>. QED BY <3>1, <3>2
    <2>5. CASE \E built, mismatch \in BOOLEAN : StepRestoringConfigROM(built, mismatch)
      <3>1. /\ topo' = topo \/ topo' = None \/ (selfId /\ topo' = lastGen)
            /\ UNCHANGED <<selfId, epoch, holdoff, timing, lastGen>>
        BY <2>5 DEF StepRestoringConfigROM
      <3>2. topo' \in Generations \cup {None}
        BY <3>1 DEF Generations
      <3>. QED BY <3>1, <3>2
    <2>6. CASE \/ StepDetecting \/ StepSelfIDTimeout \/ StillWaiting \/ StopFlushAT
               \/ StepQuiescingAT \/ StepClearingBusReset \/ StepRearming
               \/ IterationGuard
               \/ \E issued \in BOOLEAN : StepComplete(issued)
      <3>1. UNCHANGED <<selfId, topo, holdoff, gens>>
        BY <2>6 DEF StepDetecting, StepSelfIDTimeout, StillWaiting, StopFlushAT,
                    StepQuiescingAT, StepClearingBusReset, StepRearming,
                    IterationGuard, Yield, StepComplete
      <3>. QED BY <3>1
    <2>. QED BY <1>1, <2>1, <2>2, <2>3, <2>4, <2>5, <2>6 DEF Step
  <1>2. CASE HoldoffExpires
    BY <1>2 DEF HoldoffExpires
  <1>3. CASE \/ RunStateMachine \/ OnIrq \/ Requests \/ UNCHANGED vars
             \/ HwBusReset \/ HwSelfIDComplete \/ HwTransmit \/ HwTransmitDone
             \/ SelfIDTimeout
             \/ \E w \in watchdogs : MaybeRecoverMissingManualResetIrq(w)
             \/ \E g \in Generations : Discover(g)
    <2>1. UNCHANGED <<selfId, topo, holdoff, gens>>
      BY <1>3 DEF RunStateMachine, OnIrq, HwBusReset, HwSelfIDComplete,
                  HwTransmit, HwTransmitDone, SelfIDTimeout, Requests,
                  RequestUserReset, RequestConfigRomRestageReset,
                  RequestRolePolicyReset, MaybeRecoverMissingManualResetIrq, Discover
    <2>. QED BY <2>1
  <1>. QED BY <1>1, <1>2, <1>3 DEF Next, Hardware

\* A step leaves the discovery blocks and the publications alone, or it is the
\* completion of a cycle with a topology, or a discovery block.
LEMMA DiscoveryStep ==
    ASSUME [Next]_vars
    PROVE  \/ UNCHANGED <<discovery, published>>
           \/ /\ \E issued \in BOOLEAN : StepComplete(issued)
              /\ topo # None /\ discovery' = [discovery EXCEPT ![topo] = @ + 1]
              /\ UNCHANGED published
           \/ \E g \in Generations : Discover(g)
  <1>1. CASE \E issued \in BOOLEAN : StepComplete(issued)
    BY <1>1 DEF StepComplete
  <1>2. CASE \/ BeginNewResetCycle \/ StepDetecting \/ StepSelfIDTimeout
             \/ StillWaiting \/ StopFlushAT \/ StepQuiescingAT
             \/ StepClearingBusReset \/ StepRearming \/ HandleStraySelfID
             \/ IterationGuard
             \/ \E decoded \in BOOLEAN : StepWaitingSelfID(decoded)
             \/ \E issued \in BOOLEAN : StepIdle(issued)
             \/ \E built, mismatch \in BOOLEAN : StepRestoringConfigROM(built, mismatch)
    BY <1>2 DEF BeginNewResetCycle, StepDetecting, StepSelfIDTimeout, StillWaiting,
                StopFlushAT, StepQuiescingAT, StepClearingBusReset, StepRearming,
                HandleStraySelfID, IterationGuard, Yield, StepWaitingSelfID, StepIdle,
                StepRestoringConfigROM
  <1>3. CASE \/ RunStateMachine \/ OnIrq \/ Requests \/ Hardware \/ UNCHANGED vars
             \/ \E w \in watchdogs : MaybeRecoverMissingManualResetIrq(w)
    BY <1>3 DEF RunStateMachine, OnIrq, Hardware, HwBusReset, HwSelfIDComplete,
                HwTransmit, HwTransmitDone, SelfIDTimeout, HoldoffExpires, Requests,
                RequestUserReset, RequestConfigRomRestageReset, RequestRolePolicyReset,
                MaybeRecoverMissingManualResetIrq
  <1>. QED BY <1>1, <1>2, <1>3 DEF Next, Step

\* The queue and the gate; the blocks of a generation are counted.
LEMMA QueueTypedStep ==
    ASSUME Typed, [Next]_vars
    PROVE  QueueTyped'
  <1>. USE DEF Typed, QueueTyped
  <1>1. (discovery \in [Generations -> Nat] /\ published \in [Generations -> Nat])'
    <2>1. CASE /\ topo # None /\ discovery' = [discovery EXCEPT ![topo] = @ + 1]
               /\ UNCHANGED published
      <3>1. topo \in Generations /\ discovery[topo] \in Nat
        BY <2>1 DEF CycleTyped
      <3>. QED BY <2>1, <3>1
    <2>2. CASE \E g \in Generations : Discover(g)
      <3>1. PICK g \in Generations : Discover(g)
        BY <2>2
      <3>2. /\ discovery[g] > 0 /\ discovery' = [discovery EXCEPT ![g] = @ - 1]
            /\ published' = published \/ published' = [published EXCEPT ![g] = @ + 1]
        BY <3>1 DEF Discover
      <3>. QED BY <3>2
    <2>. QED BY <2>1, <2>2, DiscoveryStep
  <1>2. (queued \in BOOLEAN /\ deferred \in BOOLEAN)'
    <2>1. \/ queued' = queued \/ queued' = TRUE \/ queued' = FALSE
          \/ queued' = (queued \/ st = "Idle")
      BY DEF Next, Step, Requests, Hardware, BeginNewResetCycle, StepDetecting,
             StepWaitingSelfID, StepSelfIDTimeout, StillWaiting, StopFlushAT,
             StepQuiescingAT, StepRestoringConfigROM, StepClearingBusReset,
             StepRearming, StepComplete, StepIdle, HandleStraySelfID, IterationGuard,
             Yield, RunStateMachine, OnIrq, RequestSoftwareReset, RequestUserReset,
             RequestConfigRomRestageReset, RequestRolePolicyReset, HwBusReset,
             HwSelfIDComplete, HwTransmit, HwTransmitDone, SelfIDTimeout,
             HoldoffExpires, MaybeRecoverMissingManualResetIrq, Discover
    <2>2. deferred' = deferred \/ deferred' = TRUE \/ deferred' = FALSE
      BY DEF Next, Step, Requests, Hardware, BeginNewResetCycle, StepDetecting,
             StepWaitingSelfID, StepSelfIDTimeout, StillWaiting, StopFlushAT,
             StepQuiescingAT, StepRestoringConfigROM, StepClearingBusReset,
             StepRearming, StepComplete, StepIdle, HandleStraySelfID, IterationGuard,
             MaybeDispatchPendingSoftwareReset, Yield, YieldAndReschedule,
             RunStateMachine, OnIrq, RequestUserReset, RequestConfigRomRestageReset,
             RequestRolePolicyReset, HwBusReset, HwSelfIDComplete, HwTransmit,
             HwTransmitDone, SelfIDTimeout, HoldoffExpires,
             MaybeRecoverMissingManualResetIrq, Discover
    <2>. QED BY <2>1, <2>2, Zenon
  <1>3. (gate \in BOOLEAN /\ stale \in BOOLEAN)'
    <2>1. gate' = gate \/ gate' = TRUE \/ gate' = FALSE
      BY DEF Next, Step, Requests, Hardware, BeginNewResetCycle, StepDetecting,
             StepWaitingSelfID, StepSelfIDTimeout, StillWaiting, StopFlushAT,
             StepQuiescingAT, StepRestoringConfigROM, StepClearingBusReset,
             StepRearming, StepComplete, StepIdle, HandleStraySelfID, IterationGuard,
             Yield, RunStateMachine, OnIrq, RequestUserReset,
             RequestConfigRomRestageReset, RequestRolePolicyReset, HwBusReset,
             HwSelfIDComplete, HwTransmit, HwTransmitDone, SelfIDTimeout,
             HoldoffExpires, MaybeRecoverMissingManualResetIrq, Discover
    <2>2. \/ stale' = stale \/ stale' = FALSE
          \/ \E decoded \in BOOLEAN : DecodeSelfID(decoded)
      BY DEF Next, Step, Requests, Hardware, BeginNewResetCycle, StepDetecting,
             StepWaitingSelfID, StepSelfIDTimeout, StillWaiting, StopFlushAT,
             StepQuiescingAT, StepRestoringConfigROM, StepClearingBusReset,
             StepRearming, StepComplete, StepIdle, HandleStraySelfID, IterationGuard,
             Yield, RunStateMachine, OnIrq, RequestUserReset,
             RequestConfigRomRestageReset, RequestRolePolicyReset, HwBusReset,
             HwSelfIDComplete, HwTransmit, HwTransmitDone, SelfIDTimeout,
             HoldoffExpires, MaybeRecoverMissingManualResetIrq, Discover
    <2>3. stale' \in BOOLEAN
      BY <2>2, Zenon DEF DecodeSelfID
    <2>. QED BY <2>1, <2>3, Zenon
  <1>4. (requests \in 0..MaxRequests)'
    <2>1. CASE Requests
      <3>1. requests < MaxRequests /\ requests' = requests + 1
        BY <2>1 DEF Requests, RequestUserReset, RequestConfigRomRestageReset,
                    RequestRolePolicyReset, Requesting
      <3>2. requests \in 0..MaxRequests
        OBVIOUS
      <3>. HIDE DEF Typed, QueueTyped
      <3>. QED BY <3>1, <3>2, BusResetAssumption
    <2>2. CASE ~Requests
      <3>1. requests' = requests
        BY <2>2 DEF Next, Step, Hardware, BeginNewResetCycle, StepDetecting,
             StepWaitingSelfID, StepSelfIDTimeout, StillWaiting, StopFlushAT,
             StepQuiescingAT, StepRestoringConfigROM, StepClearingBusReset,
             StepRearming, StepComplete, StepIdle, HandleStraySelfID, IterationGuard,
             Yield, RunStateMachine, OnIrq, HwBusReset, HwSelfIDComplete, HwTransmit,
             HwTransmitDone, SelfIDTimeout, HoldoffExpires,
             MaybeRecoverMissingManualResetIrq, Discover
      <3>. QED BY <3>1
    <2>. QED BY <2>1, <2>2
  <1>. QED BY <1>1, <1>2, <1>3, <1>4

\* Merging two requests makes a request.
LEMMA MergeTyped ==
    ASSUME NEW current \in Request, NEW incoming \in Request
    PROVE  MergeResetRequests(current, incoming) \in Request
  <1>. DEFINE force == current.force63 \/ incoming.force63
              kind == IF Rank(incoming.kind) > Rank(current.kind) THEN incoming.kind
                      ELSE current.kind
              gap == IF force THEN "63"
                     ELSE IF incoming.gap # "none" THEN incoming.gap ELSE current.gap
              root == IF incoming.root # None THEN incoming.root ELSE current.root
              long == current.long \/ incoming.long
  <1>1. /\ current.kind \in Kind /\ incoming.kind \in Kind
        /\ current.gap \in {"none", "low", "63"} /\ incoming.gap \in {"none", "low", "63"}
        /\ current.root \in Targets \cup {None} /\ incoming.root \in Targets \cup {None}
    BY DEF Request
  <1>2. kind \in Kind /\ gap \in {"none", "low", "63"} /\ root \in Targets \cup {None}
    BY <1>1
  <1>3. force \in BOOLEAN /\ long \in BOOLEAN
    OBVIOUS
  <1>4. MergeResetRequests(current, incoming) =
          [kind |-> kind, long |-> long, gap |-> gap, root |-> root, force63 |-> force]
    BY DEF MergeResetRequests
  <1>. HIDE DEF force, kind, gap, root, long
  <1>. QED BY <1>2, <1>3, <1>4 DEF Request

\* A root that is delegated to again has one retry less; the one that uses up the
\* last is suppressed.
LEMMA DelegatedTyped ==
    ASSUME PolicyTyped, ~delegate.suppressed, NEW target \in Targets
    PROVE  /\ Delegated(target) \in [target : Targets \cup {None},
                                     retries : 0..(MaxDelegateRetries + 1),
                                     suppressed : BOOLEAN]
           /\ ~Delegated(target).suppressed
                => Delegated(target).retries <= MaxDelegateRetries
  <1>. DEFINE n == IF target = delegate.target THEN delegate.retries + 1 ELSE 1
  <1>1. delegate.retries \in 0..(MaxDelegateRetries + 1)
        /\ delegate.retries <= MaxDelegateRetries
    BY DEF PolicyTyped
  <1>2. n \in 0..(MaxDelegateRetries + 1)
    BY <1>1, BusResetAssumption
  <1>. DEFINE s == n > MaxDelegateRetries
  <1>3. Delegated(target) = [target |-> target, retries |-> n, suppressed |-> s]
    BY DEF Delegated
  <1>4. s \in BOOLEAN /\ (~s => n <= MaxDelegateRetries)
    BY <1>2, BusResetAssumption
  <1>. HIDE DEF n, s
  <1>. QED BY <1>2, <1>3, <1>4

\* The request that is pending stays a request.
LEMMA PendingTypedStep ==
    ASSUME Typed, [Next]_vars
    PROVE  pending' \in Request \cup {NoRequest}
  <1>1. CASE \E request \in Request : Sound(request) /\ Deferring(request)
    <2>1. PICK request \in Request : Deferring(request)
      BY <1>1
    <2>2. CASE pending = NoRequest
      BY <2>1, <2>2 DEF Deferring
    <2>3. CASE pending # NoRequest
      BY <2>1, <2>3, MergeTyped DEF Deferring, Typed, PolicyTyped
    <2>. QED BY <2>2, <2>3
  <1>. QED BY <1>1, PendingStep DEF PendingChange, Typed, PolicyTyped

\* What a step does to the policy's own state: a delegation, a dispatched reset, a
\* request or the recovery of a manual reset, each within its bound.
LEMMA PolicyTypedStep ==
    ASSUME Typed, [Next]_vars
    PROVE  PolicyTyped'
  <1>. DEFINE Kept == UNCHANGED <<delegate, manual, watchdogs>>
              Mark == [manual |-> manual.epoch, reset |-> epoch]
              Reset == [target |-> None, retries |-> 0, suppressed |-> FALSE]
  <1>1. Kept => PolicyTyped'
    BY PendingTypedStep DEF Typed, PolicyTyped
  <1>2. ASSUME NEW issued \in BOOLEAN, StepComplete(issued) \/ StepIdle(issued)
        PROVE  PolicyTyped'
    <2>1. /\ manual' = manual
          /\ watchdogs' = watchdogs \/ watchdogs' = watchdogs \cup {Mark}
          /\ delegate' = delegate \/ delegate' = Reset
      BY <1>2 DEF StepComplete, StepIdle, MaybeDispatchPendingSoftwareReset,
                  DispatchSoftwareReset
    <2>2. Mark \in [manual : Nat, reset : Nat]
      BY DEF Typed, PolicyTyped, CycleTyped
    <2>3. watchdogs' \subseteq [manual : Nat, reset : Nat]
      <3>. HIDE DEF Mark
      <3>. QED BY <2>1, <2>2 DEF Typed, PolicyTyped
    <2>4. /\ Reset \in [target : Targets \cup {None},
                        retries : 0..(MaxDelegateRetries + 1), suppressed : BOOLEAN]
          /\ Reset.retries <= MaxDelegateRetries
      BY BusResetAssumption
    <2>5. CASE delegate' = delegate
      BY <2>1, <2>3, <2>5, PendingTypedStep DEF Typed, PolicyTyped
    <2>6. CASE delegate' = Reset
      <3>. HIDE DEF Reset
      <3>. QED BY <2>1, <2>3, <2>4, <2>6, PendingTypedStep DEF Typed, PolicyTyped
    <2>. QED BY <2>1, <2>5, <2>6
  <1>3. CASE \/ BeginNewResetCycle \/ StepDetecting \/ StepSelfIDTimeout
             \/ StillWaiting \/ StopFlushAT \/ StepQuiescingAT
             \/ StepClearingBusReset \/ StepRearming \/ HandleStraySelfID
             \/ IterationGuard
             \/ \E decoded \in BOOLEAN : StepWaitingSelfID(decoded)
             \/ \E built, mismatch \in BOOLEAN : StepRestoringConfigROM(built, mismatch)
    <2>1. Kept
      BY <1>3 DEF BeginNewResetCycle, StepDetecting, StepSelfIDTimeout, StillWaiting,
                  StopFlushAT, StepQuiescingAT, StepClearingBusReset, StepRearming,
                  HandleStraySelfID, IterationGuard, Yield, StepWaitingSelfID,
                  StepRestoringConfigROM
    <2>. QED BY <1>1, <2>1
  <1>4. CASE \/ RunStateMachine \/ OnIrq \/ Hardware \/ RequestConfigRomRestageReset
             \/ UNCHANGED vars \/ \E g \in Generations : Discover(g)
    <2>1. Kept
      BY <1>4 DEF RunStateMachine, OnIrq, Hardware, HwBusReset, HwSelfIDComplete,
                  HwTransmit, HwTransmitDone, SelfIDTimeout, HoldoffExpires,
                  RequestConfigRomRestageReset, Discover
    <2>. QED BY <1>1, <2>1
  <1>5. ASSUME NEW long \in BOOLEAN, RequestUserReset(long)
        PROVE  PolicyTyped'
    <2>1. /\ manual' = [epoch |-> manual.epoch + 1, attempts |-> 0]
          /\ UNCHANGED <<watchdogs, delegate>>
      BY <1>5 DEF RequestUserReset
    <2>2. manual.epoch \in Nat
      BY DEF Typed, PolicyTyped
    <2>3. manual' \in [epoch : Nat, attempts : 0..MaxRecoveryAttempts]
      BY <2>1, <2>2, BusResetAssumption
    <2>. QED BY <2>1, <2>3, PendingTypedStep DEF Typed, PolicyTyped
  <1>6. ASSUME NEW target \in Targets, NEW long \in BOOLEAN, NEW gap \in {"none", "low"},
               RequestRolePolicyReset(target, long, gap)
        PROVE  PolicyTyped'
    <2>1. /\ ~delegate.suppressed /\ delegate' = Delegated(target)
          /\ UNCHANGED <<watchdogs, manual>>
      BY <1>6 DEF RequestRolePolicyReset
    <2>2. PolicyTyped
      BY DEF Typed
    <2>. QED BY <2>1, <2>2, DelegatedTyped, PendingTypedStep DEF PolicyTyped
  <1>7. ASSUME NEW w \in watchdogs, MaybeRecoverMissingManualResetIrq(w)
        PROVE  PolicyTyped'
    <2>1. /\ watchdogs' = watchdogs \ {w} /\ UNCHANGED delegate
          /\ \/ manual' = manual
             \/ /\ manual.attempts < MaxRecoveryAttempts
                /\ manual' = [manual EXCEPT !.attempts = @ + 1]
      BY <1>7 DEF MaybeRecoverMissingManualResetIrq
    <2>2. manual' \in [epoch : Nat, attempts : 0..MaxRecoveryAttempts]
      <3>1. manual \in [epoch : Nat, attempts : 0..MaxRecoveryAttempts]
        BY DEF Typed, PolicyTyped
      <3>. QED BY <2>1, <3>1, BusResetAssumption
    <2>3. watchdogs' \subseteq [manual : Nat, reset : Nat]
      BY <2>1 DEF Typed, PolicyTyped
    <2>. QED BY <2>1, <2>2, <2>3, PendingTypedStep DEF Typed, PolicyTyped
  <1>. HIDE DEF Kept
  <1>. QED BY <1>2, <1>3, <1>4, <1>5, <1>6, <1>7 DEF Next, Step, Requests

\* A step keeps every type.
LEMMA TypedStep ==
    ASSUME Typed, [Next]_vars
    PROVE  Typed'
  BY HwTypedStep, FsmTypedStep, FlagsTypedStep, CycleTypedStep, QueueTypedStep,
     PolicyTypedStep DEF Typed

\* The initial state has its types.
LEMMA TypedInit == Init => Typed
  <1>. SUFFICES ASSUME Init PROVE Typed
    OBVIOUS
  <1>. USE BusResetAssumption DEF Init
  <1>1. HwTyped /\ FsmTyped /\ FlagsTyped
    <2>1. HwTyped
      <3>1. hwGen \in 0..MaxResets
        OBVIOUS
      <3>2. event \subseteq SelfIDEvents \cup {"busReset"} /\ ~nodeValid
        OBVIOUS
      <3>3. nodeValid \in BOOLEAN /\ atActive \in BOOLEAN
        OBVIOUS
      <3>. QED BY <3>1, <3>2, <3>3, Zenon DEF HwTyped
    <2>2. FsmTyped
      <3>1. iteration \in 0..MaxIterations
        OBVIOUS
      <3>2. st \in State /\ latch \subseteq SelfIDEvents
        BY DEF State
      <3>3. running \in BOOLEAN /\ edge \in BOOLEAN /\ waited \in BOOLEAN
        OBVIOUS
      <3>. QED BY <3>1, <3>2, <3>3, Zenon DEF FsmTyped
    <2>3. FlagsTyped
      BY DEF FlagsTyped
    <2>. QED BY <2>1, <2>2, <2>3
  <1>2. CycleTyped
    <2>1. timing \in [valid : BOOLEAN, gen : 0..MaxResets]
      OBVIOUS
    <2>. QED BY <2>1 DEF CycleTyped
  <1>3. QueueTyped
    <2>1. /\ discovery \in [Generations -> Nat] /\ published \in [Generations -> Nat]
      OBVIOUS
    <2>2. requests \in 0..MaxRequests
      OBVIOUS
    <2>3. queued \in BOOLEAN /\ deferred \in BOOLEAN /\ gate \in BOOLEAN /\ stale \in BOOLEAN
      OBVIOUS
    <2>. QED BY <2>1, <2>2, <2>3 DEF QueueTyped
  <1>4. PolicyTyped
    <2>1. manual \in [epoch : Nat, attempts : 0..MaxRecoveryAttempts]
      OBVIOUS
    <2>2. /\ delegate \in [target : Targets \cup {None},
                           retries : 0..(MaxDelegateRetries + 1), suppressed : BOOLEAN]
          /\ delegate.retries <= MaxDelegateRetries
      OBVIOUS
    <2>. QED BY <2>1, <2>2 DEF PolicyTyped
  <1>. QED BY <1>1, <1>2, <1>3, <1>4 DEF Typed

\* Every variable keeps its type: in particular no run takes more than
\* kMaxIterations steps, no root is delegated to more than kMaxDelegateRetries
\* times, and no manual reset is recovered more than
\* kMaxManualRecoveryResetAttempts times, however requests, interrupts and bus
\* resets interleave.
THEOREM TypeCorrect == Spec => []TypeOK
  <1>1. Typed => TypeOK
    BY DEF Typed, HwTyped, FsmTyped, FlagsTyped, CycleTyped, QueueTyped, PolicyTyped,
           TypeOK
  <1>. QED BY <1>1, TypedInit, TypedStep, PTL DEF Spec

-----------------------------------------------------------------------------
(* Publication *)

\* Past QuiescingAT the AT contexts have been stopped; the filters are on only
\* after that, and with the gate open.
FiltersOpen ==
    /\ st \in {"RestoringConfigROM", "ClearingBusReset", "Rearming"} => stopFlush
    /\ filters => stopFlush /\ ~gate

\* Generations are accepted in order, and no discovery block is queued for one that
\* has not been accepted.  A topology that is behind the accepted generation (the
\* late path has decoded a newer one, and not built it yet) leaves no block for the
\* newer one.
BlocksFollow ==
    /\ lastGen <= hwGen /\ topo <= lastGen
    /\ \A g \in Generations : discovery[g] > 0 => g <= lastGen
    /\ topo # None /\ topo # lastGen
          => \A g \in Generations : discovery[g] > 0 => g # lastGen

\* The filters open after the gate, and a gate that closes finds them closed.
LEMMA FiltersOpenStep ==
    ASSUME FiltersOpen, [Next]_vars
    PROVE  FiltersOpen'
  <1>. USE DEF FiltersOpen
  <1>1. CASE Step
    <2>1. CASE BeginNewResetCycle
      BY <2>1 DEF BeginNewResetCycle
    <2>2. CASE StopFlushAT
      BY <2>2 DEF StopFlushAT, Stepping
    <2>3. CASE StepQuiescingAT
      <3>1. stopFlush /\ UNCHANGED <<stopFlush, filters, gate>>
        BY <2>3 DEF StepQuiescingAT, Yield
      <3>. QED BY <3>1
    <2>4. CASE \E built, mismatch \in BOOLEAN : StepRestoringConfigROM(built, mismatch)
      BY <2>4 DEF StepRestoringConfigROM, Stepping, Continue
    <2>5. CASE StepClearingBusReset
      <3>1. st = "ClearingBusReset" /\ UNCHANGED <<stopFlush, filters, gate>>
        BY <2>5 DEF StepClearingBusReset, Stepping, Yield
      <3>. QED BY <3>1
    <2>6. CASE StepRearming
      <3>1. st = "Rearming" /\ UNCHANGED stopFlush
        BY <2>6 DEF StepRearming, Stepping, Yield
      <3>2. gate' = FALSE \/ UNCHANGED <<filters, gate>>
        BY <2>6 DEF StepRearming, Yield
      <3>. QED BY <3>1, <3>2
    <2>7. CASE StepDetecting \/ StepSelfIDTimeout \/ HandleStraySelfID
      <3>1. st' \in {"WaitingSelfID", "QuiescingAT"} /\ UNCHANGED <<filters, stopFlush, gate>>
        BY <2>7 DEF StepDetecting, StepSelfIDTimeout, HandleStraySelfID, Continue
      <3>. QED BY <3>1
    <2>8. CASE \E decoded \in BOOLEAN : StepWaitingSelfID(decoded)
      <3>1. st' = "QuiescingAT" /\ UNCHANGED <<filters, stopFlush, gate>>
        BY <2>8 DEF StepWaitingSelfID, Continue
      <3>. QED BY <3>1
    <2>9. CASE \E issued \in BOOLEAN : StepComplete(issued) \/ StepIdle(issued)
      <3>1. st' = "Idle" /\ UNCHANGED <<filters, stopFlush, gate>>
        BY <2>9 DEF StepComplete, StepIdle, Stepping
      <3>. QED BY <3>1
    <2>10. CASE StillWaiting \/ IterationGuard
      BY <2>10 DEF StillWaiting, IterationGuard, Yield
    <2>. QED BY <1>1, <2>1, <2>2, <2>3, <2>4, <2>5, <2>6, <2>7, <2>8, <2>9, <2>10 DEF Step
  <1>2. CASE \/ RunStateMachine \/ OnIrq \/ Hardware \/ Requests \/ UNCHANGED vars
             \/ \E w \in watchdogs : MaybeRecoverMissingManualResetIrq(w)
             \/ \E g \in Generations : Discover(g)
    <2>1. UNCHANGED <<st, filters, stopFlush, gate>>
      BY <1>2 DEF RunStateMachine, OnIrq, Hardware, HwBusReset, HwSelfIDComplete,
                  HwTransmit, HwTransmitDone, SelfIDTimeout, HoldoffExpires, Requests,
                  RequestUserReset, RequestConfigRomRestageReset,
                  RequestRolePolicyReset, MaybeRecoverMissingManualResetIrq, Discover
    <2>. QED BY <2>1
  <1>. QED BY <1>1, <1>2 DEF Next

\* What a step does to the generations: nothing, accept that of the bus, drop or
\* rebuild the topology, or a bus reset.
LEMMA GenerationStep ==
    ASSUME [Next]_vars
    PROVE  \/ UNCHANGED <<hwGen, lastGen, topo>>
           \/ hwGen' = hwGen /\ lastGen' = hwGen /\ topo' = topo
           \/ hwGen' = hwGen /\ lastGen' = lastGen /\ topo' \in {None, lastGen}
           \/ hwGen' = hwGen + 1 /\ lastGen' = lastGen /\ topo' = topo
  <1>1. CASE Step
    <2>1. CASE BeginNewResetCycle
      BY <2>1 DEF BeginNewResetCycle
    <2>2. CASE \E decoded \in BOOLEAN : StepWaitingSelfID(decoded)
      BY <2>2 DEF StepWaitingSelfID, DecodeSelfID
    <2>3. CASE HandleStraySelfID
      BY <2>3 DEF HandleStraySelfID, DecodeSelfID
    <2>4. CASE \E issued \in BOOLEAN : StepIdle(issued)
      BY <2>4 DEF StepIdle, DecodeSelfID
    <2>5. CASE \E built, mismatch \in BOOLEAN : StepRestoringConfigROM(built, mismatch)
      BY <2>5 DEF StepRestoringConfigROM
    <2>6. CASE \/ StepDetecting \/ StepSelfIDTimeout \/ StillWaiting \/ StopFlushAT
               \/ StepQuiescingAT \/ StepClearingBusReset \/ StepRearming
               \/ IterationGuard
               \/ \E issued \in BOOLEAN : StepComplete(issued)
      BY <2>6 DEF StepDetecting, StepSelfIDTimeout, StillWaiting, StopFlushAT,
                  StepQuiescingAT, StepClearingBusReset, StepRearming, IterationGuard,
                  Yield, StepComplete
    <2>. QED BY <1>1, <2>1, <2>2, <2>3, <2>4, <2>5, <2>6 DEF Step
  <1>2. CASE HwBusReset
    BY <1>2 DEF HwBusReset
  <1>3. CASE \/ RunStateMachine \/ OnIrq \/ Requests \/ UNCHANGED vars
             \/ HwSelfIDComplete \/ HwTransmit \/ HwTransmitDone \/ SelfIDTimeout
             \/ HoldoffExpires
             \/ \E w \in watchdogs : MaybeRecoverMissingManualResetIrq(w)
             \/ \E g \in Generations : Discover(g)
    BY <1>3 DEF RunStateMachine, OnIrq, HwSelfIDComplete, HwTransmit, HwTransmitDone,
                SelfIDTimeout, HoldoffExpires, Requests, RequestUserReset,
                RequestConfigRomRestageReset, RequestRolePolicyReset,
                MaybeRecoverMissingManualResetIrq, Discover
  <1>. QED BY <1>1, <1>2, <1>3 DEF Next, Hardware

\* Accepting a generation the topology is not of finds no block queued for it.
LEMMA BlocksFollowStep ==
    ASSUME Typed, BlocksFollow, [Next]_vars
    PROVE  BlocksFollow'
  <1>1. /\ hwGen \in Nat /\ lastGen \in Nat /\ topo \in Nat
        /\ \A g \in Generations : g \in Nat /\ g # None /\ discovery[g] \in Nat
        /\ discovery \in [Generations -> Nat] /\ topo \in Generations \cup {None}
    <2>1. hwGen \in 0..MaxResets /\ lastGen \in 0..MaxResets
      BY DEF Typed, HwTyped, CycleTyped
    <2>2. /\ discovery \in [Generations -> Nat] /\ topo \in Generations \cup {None}
      BY DEF Typed, CycleTyped, QueueTyped
    <2>3. \A g \in Generations : g \in Nat /\ g # None
      BY BusResetAssumption DEF Generations, None
    <2>. QED BY <2>1, <2>2, <2>3, BusResetAssumption DEF None
  <1>2. CASE UNCHANGED discovery
    <2>1. CASE UNCHANGED <<hwGen, lastGen, topo>>
      BY <1>2, <2>1 DEF BlocksFollow
    <2>2. CASE hwGen' = hwGen /\ lastGen' = hwGen /\ topo' = topo
      <3>1. CASE hwGen = lastGen
        BY <1>2, <2>2, <3>1 DEF BlocksFollow
      <3>2. CASE hwGen > lastGen
        <4>1. \A g \in Generations : discovery[g] > 0 => g < hwGen
          BY <1>1, <3>2 DEF BlocksFollow
        <4>. QED BY <1>1, <1>2, <2>2, <3>2, <4>1 DEF BlocksFollow
      <3>. QED BY <1>1, <3>1, <3>2 DEF BlocksFollow
    <2>3. CASE hwGen' = hwGen /\ lastGen' = lastGen /\ topo' \in {None, lastGen}
      BY <1>1, <1>2, <2>3 DEF BlocksFollow, None
    <2>4. CASE hwGen' = hwGen + 1 /\ lastGen' = lastGen /\ topo' = topo
      BY <1>1, <1>2, <2>4 DEF BlocksFollow
    <2>. QED BY <2>1, <2>2, <2>3, <2>4, GenerationStep
  <1>3. CASE /\ \E issued \in BOOLEAN : StepComplete(issued)
             /\ topo # None /\ discovery' = [discovery EXCEPT ![topo] = @ + 1]
    <2>1. UNCHANGED <<hwGen, lastGen, topo>>
      BY <1>3 DEF StepComplete
    <2>2. \A g \in Generations : g # topo => discovery'[g] = discovery[g]
      BY <1>1, <1>3
    <2>. QED BY <1>1, <1>3, <2>1, <2>2 DEF BlocksFollow
  <1>4. CASE \E g \in Generations : Discover(g)
    <2>1. PICK g \in Generations : Discover(g)
      BY <1>4
    <2>2. /\ UNCHANGED <<hwGen, lastGen, topo>> /\ discovery[g] > 0
          /\ discovery' = [discovery EXCEPT ![g] = @ - 1]
      BY <2>1 DEF Discover
    <2>3. \A h \in Generations : discovery'[h] > 0 => discovery[h] > 0
      BY <1>1, <2>2
    <2>. QED BY <2>2, <2>3 DEF BlocksFollow
  <1>. QED BY <1>2, <1>3, <1>4, DiscoveryStep

\* Discovery is told only of the topology the driver holds, with the async gate
\* open: neither a block of an earlier generation nor the late path, which accepts a
\* generation before its topology is built and may yield in between, publishes one
\* for the other.
THEOREM PublishesAcceptedAlways == Spec => PublishesAccepted
  <1>. DEFINE Inv == Typed /\ FiltersOpen /\ BlocksFollow
  <1>1. Init => Inv
    <2>1. Init => FiltersOpen /\ BlocksFollow
      BY DEF Init, FiltersOpen, BlocksFollow, None
    <2>. QED BY <2>1, TypedInit
  <1>2. Inv /\ [Next]_vars => Inv'
    BY TypedStep, FiltersOpenStep, BlocksFollowStep
  <1>3. Inv /\ [Next]_vars =>
          \A g \in Generations : published'[g] # published[g] => topo = g /\ ~gate
    <2>. SUFFICES ASSUME Inv, [Next]_vars, NEW g \in Generations,
                         published'[g] # published[g]
                  PROVE  topo = g /\ ~gate
      OBVIOUS
    <2>1. PICK h \in Generations : Discover(h)
      BY DiscoveryStep
    <2>2. /\ discovery[h] > 0 /\ ReadyForDiscovery(h)
          /\ published' = [published EXCEPT ![h] = @ + 1]
      BY <2>1 DEF Discover
    <2>3. g = h
      BY <2>2 DEF Typed, QueueTyped
    <2>. QED BY <2>2, <2>3 DEF ReadyForDiscovery, FiltersOpen, BlocksFollow
  <1>. QED BY <1>1, <1>2, <1>3, PTL DEF Spec, PublishesAccepted

=============================================================================
