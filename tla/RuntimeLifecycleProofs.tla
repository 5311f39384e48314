----------------------- MODULE RuntimeLifecycleProofs -----------------------
(***************************************************************************)
(* Proofs about RuntimeLifecycle for every MaxAttempts and for both        *)
(* queueing disciplines.                                                   *)
(***************************************************************************)
EXTENDS RuntimeLifecycle, TLAPS

USE DEF Actors, ControllerState, QuiesceReason, StartStage, None,
        DependenciesReady, QueueReady, ProviderOpened, InterruptSourceReady,
        AsyncReady, ControllerReady, StageRunning, TeardownPoints, Points

-----------------------------------------------------------------------------
\* A step of the specification is a step of Next on the other variables.
LEMMA StepIsNext ==
    [Next /\ UNCHANGED serialQueue]_<<vars, serialQueue>> => [Next]_vars
  OBVIOUS

-----------------------------------------------------------------------------
(* Type correctness *)

\* A rebuild in progress is below the limit, so the attempt it schedules is
\* in range.
VerifyBelowLimit == caller = "verify" => verify < MaxAttempts

\* Moving a handler to a control point keeps pc in its type.
LEMMA GotoTyped ==
    ASSUME pc \in [Actors -> Points], NEW a \in Actors, NEW p \in Points, Goto(a, p)
    PROVE  pc' \in [Actors -> Points]
  BY DEF Goto

\* A quiesce request keeps the coordinator's variables, the plan and the
\* control point in their types.
LEMMA RequestQuiesceTyped ==
    ASSUME CoordinatorTyped, FramesTyped,
           NEW a \in Actors, NEW reason \in QuiesceReason, NEW who,
           RequestRuntimeQuiesce(a, reason, who)
    PROVE  /\ CoordinatorTyped'
           /\ pc' \in [Actors -> Points] /\ plan' \in [Actors -> QuiescePlan]
  <1>. USE DEF CoordinatorTyped, FramesTyped
  <1>1. CASE UNCHANGED <<coordinator, plan>> /\ Goto(a, AfterQuiesce(a, who))
    BY <1>1 DEF coordinator, Goto, AfterQuiesce
  <1>2. CASE /\ BeginQuiesce(a, reason)
             /\ Goto(a, IF plan'[a].runTeardown THEN "fence"
                        ELSE IF reason = "ProviderRevoked" THEN "fenceOnly"
                        ELSE AfterQuiesce(a, who))
    <2>1. plan' \in [Actors -> QuiescePlan] /\ teardownActive' \in BOOLEAN
      BY <1>2 DEF BeginQuiesce, QuiescePlan, RunsTeardown
    <2>2. pc' \in [Actors -> Points]
      BY <1>2 DEF Goto, AfterQuiesce
    <2>. QED BY <1>2, <2>1, <2>2 DEF BeginQuiesce, QuiesceTarget
  <1>. QED BY <1>1, <1>2 DEF RequestRuntimeQuiesce

\* One step keeps every group of variables in its type.
LEMMA TypeStep ==
    ASSUME TypeOK, VerifyBelowLimit, [Next]_vars
    PROVE  TypeOK'
  <1>. USE LifecycleAssumption DEF TypeOK
  <1>1. CASE ServiceCalls
    <2>1. CASE Start
      <3>1. OutsideTyped'
        BY <2>1 DEF OutsideTyped, Start
      <3>2. FramesTyped'
        BY <2>1, GotoTyped DEF FramesTyped, Start
      <3>. QED BY <2>1, <3>1, <3>2 DEF Start, CoordinatorTyped, coordinator, HardwareTyped, hardware, ContextTyped, context
    <2>2. CASE Stop
      <3>1. CoordinatorTyped' /\ FramesTyped'
        BY <2>2, RequestQuiesceTyped DEF Stop, CoordinatorTyped, FramesTyped
      <3>. QED BY <2>2, <3>1 DEF Stop, HardwareTyped, hardware, ContextTyped, context, OutsideTyped, outside
    <2>3. CASE Sleep
      <3>1. CoordinatorTyped' /\ FramesTyped'
        BY <2>3, RequestQuiesceTyped DEF Sleep, CoordinatorTyped, FramesTyped
      <3>. QED BY <2>3, <3>1 DEF Sleep, HardwareTyped, hardware, ContextTyped, context, OutsideTyped, outside
    <2>4. CASE Wake
      <3>1. FramesTyped'
        BY <2>4, GotoTyped DEF FramesTyped, Wake
      <3>. QED BY <2>4, <3>1 DEF Wake, CoordinatorTyped, coordinator, HardwareTyped, hardware, ContextTyped, context, OutsideTyped, outside
    <2>5. CASE VerifyWakeSkipped
      <3>1. OutsideTyped'
        BY <2>5 DEF OutsideTyped, VerifyWakeSkipped
      <3>. QED BY <2>5, <3>1 DEF VerifyWakeSkipped, CoordinatorTyped, coordinator, HardwareTyped, hardware, ContextTyped, context, FramesTyped, frames
    <2>6. CASE VerifyWakeDone
      <3>1. HardwareTyped'
        BY <2>6 DEF HardwareTyped, VerifyWakeDone, ReadHCControl
      <3>2. OutsideTyped'
        BY <2>6 DEF OutsideTyped, VerifyWakeDone
      <3>. QED BY <2>6, <3>1, <3>2 DEF VerifyWakeDone, CoordinatorTyped, coordinator, ContextTyped, context, FramesTyped, frames
    <2>7. CASE VerifyWakeRebuild
      <3>1. CoordinatorTyped' /\ FramesTyped'
        BY <2>7, RequestQuiesceTyped DEF VerifyWakeRebuild, CoordinatorTyped, FramesTyped
      <3>2. HardwareTyped'
        BY <2>7 DEF VerifyWakeRebuild, ReadHCControl, HardwareTyped
      <3>. QED BY <2>7, <3>1, <3>2 DEF VerifyWakeRebuild, ContextTyped, context, OutsideTyped, outside
    <2>. QED BY <1>1, <2>1, <2>2, <2>3, <2>4, <2>5, <2>6, <2>7 DEF ServiceCalls
  <1>2. ASSUME NEW a \in Actors, Executor(a)
        PROVE  TypeOK'
    <2>1. CASE Fence(a)
      <3>1. HardwareTyped'
        BY <2>1 DEF HardwareTyped, Fence, LatchGone
      <3>2. FramesTyped'
        BY <2>1, GotoTyped DEF FramesTyped, Fence
      <3>. QED BY <2>1, <3>1, <3>2 DEF Fence, CoordinatorTyped, coordinator, ContextTyped, context, OutsideTyped, outside
    <2>2. CASE Drain(a)
      <3>1. HardwareTyped'
        BY <2>2 DEF HardwareTyped, Drain, RevokeAndDrain
      <3>2. FramesTyped'
        BY <2>2, GotoTyped DEF FramesTyped, Drain
      <3>. QED BY <2>2, <3>1, <3>2 DEF Drain, CoordinatorTyped, coordinator, ContextTyped, context, OutsideTyped, outside
    <2>3. CASE StopProducers(a)
      <3>1. ContextTyped'
        BY <2>3 DEF ContextTyped, StopProducers
      <3>2. FramesTyped'
        BY <2>3, GotoTyped DEF FramesTyped, StopProducers
      <3>. QED BY <2>3, <3>1, <3>2 DEF StopProducers, CoordinatorTyped, coordinator, HardwareTyped, hardware, OutsideTyped, outside
    <2>4. CASE CleanupCheck(a)
      <3>1. FramesTyped'
        BY <2>4, GotoTyped DEF FramesTyped, CleanupCheck
      <3>. QED BY <2>4, <3>1 DEF CleanupCheck, CoordinatorTyped, coordinator, HardwareTyped, hardware, ContextTyped, context, OutsideTyped, outside
    <2>5. CASE Cleanup(a)
      <3>1. HardwareTyped'
        BY <2>5 DEF HardwareTyped, Cleanup, TryBeginAccess, hardware
      <3>2. FramesTyped'
        BY <2>5, GotoTyped DEF FramesTyped, Cleanup
      <3>. QED BY <2>5, <3>1, <3>2 DEF Cleanup, CoordinatorTyped, coordinator, ContextTyped, context, OutsideTyped, outside
    <2>6. CASE EndCleanup(a)
      <3>1. HardwareTyped'
        BY <2>6 DEF HardwareTyped, EndCleanup, EndAccess
      <3>2. FramesTyped'
        BY <2>6, GotoTyped DEF FramesTyped, EndCleanup
      <3>. QED BY <2>6, <3>1, <3>2 DEF EndCleanup, CoordinatorTyped, coordinator, ContextTyped, context, OutsideTyped, outside
    <2>7. CASE DetachProvider(a)
      <3>1. HardwareTyped'
        BY <2>7 DEF HardwareTyped, DetachProvider, Detach, RevokeAndDrain
      <3>2. FramesTyped'
        BY <2>7, GotoTyped DEF FramesTyped, DetachProvider
      <3>. QED BY <2>7, <3>1, <3>2 DEF DetachProvider, CoordinatorTyped, coordinator, ContextTyped, context, OutsideTyped, outside
    <2>8. CASE Complete(a)
      <3>a. CompleteQuiesceTarget(plan[a]) \in {"Suspended", "Stopped"}
        BY DEF CompleteQuiesceTarget
      <3>b. state' \in {state, "Suspended", "Stopped"} /\ teardownActive' \in BOOLEAN
        BY <2>8, <3>a DEF Complete, CompleteQuiesce, TransitionTo
      <3>c. completedStartStage' \in {None, completedStartStage}
        BY <2>8 DEF Complete, CompleteQuiesce
      <3>1. CoordinatorTyped'
        BY <3>b, <3>c DEF CoordinatorTyped
      <3>2. FramesTyped'
        BY <2>8, GotoTyped DEF FramesTyped, Complete
      <3>. QED BY <2>8, <3>1, <3>2 DEF Complete, HardwareTyped, hardware, ContextTyped, context, OutsideTyped, outside
    <2>9. CASE Reset(a)
      <3>1. HardwareTyped'
        BY <2>9 DEF HardwareTyped, Reset, ResetFull, ResetForSuspend, FreshHardware, hardware
      <3>2. ContextTyped'
        BY <2>9 DEF ContextTyped, Reset, ResetFull, ResetForSuspend, context
      <3>3. FramesTyped'
        BY <2>9, GotoTyped DEF FramesTyped, Reset, AfterQuiesce
      <3>. QED BY <2>9, <3>1, <3>2, <3>3 DEF Reset, CoordinatorTyped, coordinator, OutsideTyped, outside
    <2>. QED BY <1>2, <2>1, <2>2, <2>3, <2>4, <2>5, <2>6, <2>7, <2>8, <2>9 DEF Executor
  <1>3. CASE ServiceRuns
    <2>1. CASE CallStartRuntime
      <3>1. CoordinatorTyped'
        BY <2>1 DEF CoordinatorTyped, CallStartRuntime
      <3>2. ContextTyped'
        BY <2>1 DEF ContextTyped, CallStartRuntime
      <3>3. FramesTyped'
        BY <2>1, GotoTyped DEF FramesTyped, CallStartRuntime
      <3>. QED BY <2>1, <3>1, <3>2, <3>3 DEF CallStartRuntime, HardwareTyped, hardware, OutsideTyped, outside
    <2>2. CASE AttachProvider
      <3>1. CoordinatorTyped'
        BY <2>2 DEF CoordinatorTyped, AttachProvider, Advance, MarkStageComplete
      <3>2. HardwareTyped'
        BY <2>2 DEF HardwareTyped, AttachProvider, hardware
      <3>3. ContextTyped'
        BY <2>2 DEF ContextTyped, AttachProvider
      <3>4. FramesTyped'
        BY <2>2 DEF FramesTyped, AttachProvider, Advance
      <3>. QED BY <2>2, <3>1, <3>2, <3>3, <3>4 DEF AttachProvider, OutsideTyped, outside
    <2>3. CASE PlainStage
      <3>1. CoordinatorTyped'
        BY <2>3 DEF CoordinatorTyped, PlainStage, Advance, MarkStageComplete
      <3>2. FramesTyped'
        BY <2>3 DEF FramesTyped, PlainStage, Advance
      <3>. QED BY <2>3, <3>1, <3>2 DEF PlainStage, HardwareTyped, hardware, ContextTyped, context, OutsideTyped, outside
    <2>4. CASE StartAsync
      <3>1. CoordinatorTyped'
        BY <2>4 DEF CoordinatorTyped, StartAsync, Advance, MarkStageComplete
      <3>2. ContextTyped'
        BY <2>4 DEF ContextTyped, StartAsync
      <3>3. FramesTyped'
        BY <2>4 DEF FramesTyped, StartAsync, Advance
      <3>. QED BY <2>4, <3>1, <3>2, <3>3 DEF StartAsync, HardwareTyped, hardware, OutsideTyped, outside
    <2>5. CASE CompleteStart
      <3>1. CoordinatorTyped'
        BY <2>5 DEF CoordinatorTyped, CompleteStart, Advance, MarkStageComplete
      <3>2. FramesTyped'
        BY <2>5, GotoTyped DEF FramesTyped, CompleteStart, Advance
      <3>. QED BY <2>5, <3>1, <3>2 DEF CompleteStart, HardwareTyped, hardware, ContextTyped, context, OutsideTyped, outside
    <2>6. CASE FailStart
      <3>1. CoordinatorTyped'
        BY <2>6 DEF CoordinatorTyped, FailStart, BeginFailedStart, RunsTeardown, coordinator
      <3>a. plan' \in [Actors -> QuiescePlan]
        <4>1. CASE BeginFailedStart("service")
          BY <4>1 DEF BeginFailedStart, RunsTeardown, CoordinatorTyped, FramesTyped, QuiescePlan
        <4>2. CASE UNCHANGED <<coordinator, plan>>
          BY <4>2 DEF FramesTyped
        <4>. QED BY <2>6, <4>1, <4>2 DEF FailStart
      <3>b. pc' \in [Actors -> Points]
        BY <2>6, GotoTyped DEF FramesTyped, FailStart
      <3>2. FramesTyped'
        BY <2>6, <3>a, <3>b DEF FramesTyped, FailStart
      <3>. QED BY <2>6, <3>1, <3>2 DEF FailStart, HardwareTyped, hardware, ContextTyped, context, OutsideTyped, outside
    <2>7. CASE FailTail
      <3>1. HardwareTyped'
        BY <2>7 DEF HardwareTyped, FailTail, ResetFull, FreshHardware, hardware
      <3>2. ContextTyped'
        BY <2>7 DEF ContextTyped, FailTail, ResetFull, context
      <3>3. FramesTyped'
        BY <2>7, GotoTyped DEF FramesTyped, FailTail
      <3>. QED BY <2>7, <3>1, <3>2, <3>3 DEF FailTail, CoordinatorTyped, coordinator, OutsideTyped, outside
    <2>8. CASE ServiceReturn
      <3>1. OutsideTyped'
        BY <2>8 DEF OutsideTyped, ServiceReturn, VerifyBelowLimit
      <3>2. FramesTyped'
        BY <2>8, GotoTyped DEF FramesTyped, ServiceReturn
      <3>. QED BY <2>8, <3>1, <3>2 DEF ServiceReturn, CoordinatorTyped, coordinator, HardwareTyped, hardware, ContextTyped, context
    <2>. QED BY <1>2, <1>3, <2>1, <2>2, <2>3, <2>4, <2>5, <2>6, <2>7, <2>8 DEF ServiceRuns
  <1>4. CASE NotifyRuns
    <2>1. CASE NotifyTerminated
      <3>1. HardwareTyped'
        BY <2>1 DEF HardwareTyped, NotifyTerminated, LatchGone
      <3>2. OutsideTyped'
        BY <2>1 DEF OutsideTyped, NotifyTerminated
      <3>3. FramesTyped'
        BY <2>1, GotoTyped DEF FramesTyped, NotifyTerminated
      <3>. QED BY <2>1, <3>1, <3>2, <3>3 DEF NotifyTerminated, CoordinatorTyped, coordinator, ContextTyped, context
    <2>2. CASE NotifyDrain
      <3>1. HardwareTyped'
        BY <2>2 DEF HardwareTyped, NotifyDrain, RevokeAndDrain
      <3>2. FramesTyped'
        BY <2>2, GotoTyped DEF FramesTyped, NotifyDrain
      <3>. QED BY <2>2, <3>1, <3>2 DEF NotifyDrain, CoordinatorTyped, coordinator, ContextTyped, context, OutsideTyped, outside
    <2>3. CASE NotifyRevoke
      <3>1. CoordinatorTyped' /\ FramesTyped'
        BY <2>3, RequestQuiesceTyped DEF NotifyRevoke, CoordinatorTyped, FramesTyped
      <3>. QED BY <2>3, <3>1 DEF NotifyRevoke, HardwareTyped, hardware, ContextTyped, context, OutsideTyped, outside
    <2>4. CASE NotifyFenceOnly
      <3>1. HardwareTyped'
        BY <2>4 DEF HardwareTyped, NotifyFenceOnly, LatchGone, RevokeAndDrain
      <3>2. FramesTyped'
        BY <2>4, GotoTyped DEF FramesTyped, NotifyFenceOnly
      <3>. QED BY <2>4, <3>1, <3>2 DEF NotifyFenceOnly, CoordinatorTyped, coordinator, ContextTyped, context, OutsideTyped, outside
    <2>. QED BY <1>2, <1>4, <2>1, <2>2, <2>3, <2>4 DEF NotifyRuns
  <1>5. CASE UserBegin
    <2>1. HardwareTyped'
      BY <1>5 DEF HardwareTyped, UserBegin, TryBeginAccess
    <2>. QED BY <1>5, <2>1 DEF UserBegin, CoordinatorTyped, coordinator, ContextTyped, context, OutsideTyped, outside, FramesTyped, frames
  <1>6. CASE UserEnd
    <2>1. HardwareTyped'
      BY <1>6 DEF HardwareTyped, UserEnd, EndAccess
    <2>. QED BY <1>6, <2>1 DEF UserEnd, CoordinatorTyped, coordinator, ContextTyped, context, OutsideTyped, outside, FramesTyped, frames
  <1>7. CASE ProviderTerminates
    <2>1. OutsideTyped'
      BY <1>7 DEF OutsideTyped, ProviderTerminates
    <2>. QED BY <1>7, <2>1 DEF ProviderTerminates, CoordinatorTyped, coordinator, HardwareTyped, hardware, ContextTyped, context, FramesTyped, frames
  <1>8. CASE UNCHANGED vars
    BY <1>8 DEF vars, CoordinatorTyped, coordinator, HardwareTyped, hardware, ContextTyped, context, OutsideTyped, outside, FramesTyped, frames
  <1>. QED BY <1>1, <1>3, <1>4, <1>5, <1>6, <1>7, <1>8 DEF Next

\* The attempt of a rebuild in progress only ever starts below the limit.
LEMMA VerifyStep ==
    ASSUME TypeOK, VerifyBelowLimit, [Next]_vars
    PROVE  VerifyBelowLimit'
  <1>. USE LifecycleAssumption DEF VerifyBelowLimit, outside, frames
  <1>1. CASE ServiceCalls
    BY <1>1 DEF ServiceCalls, Start, Stop, Sleep, Wake, VerifyWakeSkipped,
                VerifyWakeDone, VerifyWakeRebuild
  <1>2. ASSUME NEW a \in Actors, Executor(a)
        PROVE  VerifyBelowLimit'
    BY <1>2 DEF Executor, Fence, Drain, StopProducers, CleanupCheck, Cleanup,
                EndCleanup, DetachProvider, Complete, Reset
  <1>3. CASE ServiceRuns
    BY <1>2, <1>3 DEF ServiceRuns, CallStartRuntime, AttachProvider, PlainStage,
                StartAsync, CompleteStart, FailStart, FailTail, ServiceReturn
  <1>4. CASE NotifyRuns
    BY <1>2, <1>4 DEF NotifyRuns, NotifyTerminated, NotifyDrain, NotifyRevoke,
                NotifyFenceOnly
  <1>5. CASE UserBegin \/ UserEnd \/ ProviderTerminates \/ UNCHANGED vars
    BY <1>5 DEF UserBegin, UserEnd, ProviderTerminates, vars
  <1>. QED BY <1>1, <1>3, <1>4, <1>5 DEF Next

\* Every reachable state of the lifecycle is well typed, and the wake
\* verification never schedules more than kWakeVerifyMaxAttempts attempts.
THEOREM TypeCorrect == Spec => [](TypeOK /\ VerifyBelowLimit)
  <1>1. Init => TypeOK /\ VerifyBelowLimit
    <2>. SUFFICES ASSUME Init PROVE TypeOK /\ VerifyBelowLimit
      OBVIOUS
    <2>1a. CoordinatorTyped
      <3>1. teardownActive \in BOOLEAN
        BY DEF Init
      <3>. QED BY <3>1 DEF Init, CoordinatorTyped
    <2>1b. HardwareTyped
      BY DEF Init, HardwareTyped
    <2>1c. ContextTyped
      BY DEF Init, ContextTyped
    <2>2. OutsideTyped /\ VerifyBelowLimit
      BY LifecycleAssumption DEF Init, OutsideTyped, VerifyBelowLimit
    <2>3. FramesTyped
      <3>1. NoPlan \in QuiescePlan
        BY DEF NoPlan, QuiescePlan
      <3>. QED BY <3>1 DEF Init, FramesTyped
    <2>. QED BY <2>1a, <2>1b, <2>1c, <2>2, <2>3 DEF TypeOK
  <1>2. TypeOK /\ VerifyBelowLimit /\ [Next]_vars => (TypeOK /\ VerifyBelowLimit)'
    BY TypeStep, VerifyStep
  <1>. QED BY <1>1, <1>2, StepIsNext, PTL DEF Spec

-----------------------------------------------------------------------------
(* The gate and the provider *)

\* The gate is only open on an attached provider.
GateNeedsProvider == open => device

GateInv == GateNeedsProvider /\ ScopeHoldsProvider

\* No step opens the gate without a provider, or closes the provider or drops
\* the graph under a scope.
LEMMA GateStep ==
    ASSUME HardwareTyped, GateInv, [Next]_vars
    PROVE  GateInv'
  <1>. USE DEF GateInv, GateNeedsProvider, ScopeHoldsProvider, HardwareTyped,
               hardware, context
  <1>1. CASE ServiceCalls
    BY <1>1 DEF ServiceCalls, Start, Stop, Sleep, Wake, VerifyWakeSkipped,
                VerifyWakeDone, VerifyWakeRebuild, ReadHCControl
  <1>2. ASSUME NEW a \in Actors, Executor(a)
        PROVE  GateInv'
    <2>1. CASE Fence(a) \/ StopProducers(a) \/ CleanupCheck(a) \/ Complete(a)
      BY <2>1 DEF Fence, StopProducers, CleanupCheck, Complete
    <2>2. CASE Drain(a) \/ DetachProvider(a)
      BY <2>2 DEF Drain, DetachProvider, Detach, RevokeAndDrain
    <2>3. CASE Cleanup(a)
      BY <2>3 DEF Cleanup, TryBeginAccess
    <2>4. CASE EndCleanup(a)
      BY <2>4 DEF EndCleanup, EndAccess
    <2>5. CASE Reset(a)
      BY <2>5 DEF Reset, ResetFull, ResetForSuspend, FreshHardware
    <2>. QED BY <1>2, <2>1, <2>2, <2>3, <2>4, <2>5 DEF Executor
  <1>3. CASE ServiceRuns
    <2>1. CASE CallStartRuntime
      BY <2>1 DEF CallStartRuntime
    <2>2. CASE AttachProvider
      BY <2>2 DEF AttachProvider
    <2>3. CASE PlainStage \/ StartAsync \/ CompleteStart \/ FailStart \/ ServiceReturn
      BY <2>3 DEF PlainStage, StartAsync, CompleteStart, FailStart, ServiceReturn
    <2>4. CASE FailTail
      BY <2>4 DEF FailTail, ResetFull, FreshHardware
    <2>. QED BY <1>2, <1>3, <2>1, <2>2, <2>3, <2>4 DEF ServiceRuns
  <1>4. CASE NotifyRuns
    <2>1. CASE NotifyTerminated \/ NotifyRevoke
      BY <2>1 DEF NotifyTerminated, NotifyRevoke
    <2>2. CASE NotifyDrain \/ NotifyFenceOnly
      BY <2>2 DEF NotifyDrain, NotifyFenceOnly, RevokeAndDrain
    <2>. QED BY <1>2, <1>4, <2>1, <2>2 DEF NotifyRuns
  <1>5. CASE UserBegin \/ UserEnd
    BY <1>5 DEF UserBegin, UserEnd, TryBeginAccess, EndAccess
  <1>6. CASE ProviderTerminates \/ UNCHANGED vars
    BY <1>6 DEF ProviderTerminates, vars
  <1>. QED BY <1>1, <1>3, <1>4, <1>5, <1>6 DEF Next

\* No register access ever runs against a provider that has been closed, under
\* any interleaving of teardown, revocation and register users.
THEOREM ScopeSafe == Spec => []ScopeHoldsProvider
  <1>1. Init => GateInv
    BY DEF Init, GateInv, GateNeedsProvider, ScopeHoldsProvider
  <1>2. TypeOK /\ GateInv /\ [Next]_vars => GateInv'
    BY GateStep DEF TypeOK
  <1>3. GateInv => ScopeHoldsProvider
    BY DEF GateInv
  <1>. QED BY <1>1, <1>2, <1>3, TypeCorrect, StepIsNext, PTL DEF Spec

-----------------------------------------------------------------------------
(* One teardown at a time *)

\* A quiesce request starts a teardown only if none is active.
LEMMA RequestKeepsOneTeardown ==
    ASSUME CoordinatorTyped, FramesTyped, OneTeardown,
           NEW a \in Actors, NEW reason \in QuiesceReason, NEW who,
           pc[a] \notin TeardownPoints,
           RequestRuntimeQuiesce(a, reason, who)
    PROVE  OneTeardown'
  <1>1. CASE UNCHANGED <<coordinator, plan>> /\ Goto(a, AfterQuiesce(a, who))
    BY <1>1 DEF coordinator, Goto, AfterQuiesce, OneTeardown, FramesTyped
  <1>2. CASE /\ BeginQuiesce(a, reason)
             /\ Goto(a, IF plan'[a].runTeardown THEN "fence"
                        ELSE IF reason = "ProviderRevoked" THEN "fenceOnly"
                        ELSE AfterQuiesce(a, who))
    <2>1. PICK run \in BOOLEAN :
             /\ run => ~teardownActive
             /\ plan'[a].runTeardown = run
             /\ teardownActive' = (teardownActive \/ run)
      BY <1>2 DEF BeginQuiesce, RunsTeardown, FramesTyped, CoordinatorTyped
    <2>2. CASE run
      BY <1>2, <2>1, <2>2 DEF Goto, OneTeardown, FramesTyped
    <2>3. CASE ~run
      BY <1>2, <2>1, <2>3 DEF Goto, AfterQuiesce, OneTeardown, FramesTyped, CoordinatorTyped
    <2>. QED BY <2>2, <2>3
  <1>. QED BY <1>1, <1>2 DEF RequestRuntimeQuiesce

\* A handler that moves between points outside a teardown, or between points
\* inside it, leaves the coordinator's flag right.
LEMMA GotoKeepsOneTeardown ==
    ASSUME FramesTyped, OneTeardown, NEW a \in Actors, NEW p \in Points,
           Goto(a, p), UNCHANGED teardownActive,
           pc[a] \in TeardownPoints <=> p \in TeardownPoints
    PROVE  OneTeardown'
  BY DEF Goto, OneTeardown, FramesTyped

\* Every step keeps teardownActive_ with the one handler that tears down.
LEMMA OneTeardownStep ==
    ASSUME TypeOK, OneTeardown, [Next]_vars
    PROVE  OneTeardown'
  <1>. USE DEF TypeOK, coordinator, frames
  <1>0. pc["service"] \in Points /\ pc["notify"] \in Points
    BY DEF FramesTyped
  <1>1. CASE ServiceCalls
    <2>1. CASE Start \/ Wake
      BY <2>1, GotoKeepsOneTeardown DEF Start, Wake, CanEnter
    <2>2. CASE Stop \/ Sleep \/ VerifyWakeRebuild
      BY <2>2, RequestKeepsOneTeardown DEF Stop, Sleep, VerifyWakeRebuild, VerifyDue, CanEnter
    <2>3. CASE VerifyWakeSkipped \/ VerifyWakeDone
      BY <2>3 DEF VerifyWakeSkipped, VerifyWakeDone, OneTeardown
    <2>. QED BY <1>1, <2>1, <2>2, <2>3 DEF ServiceCalls
  <1>2. ASSUME NEW a \in Actors, Executor(a)
        PROVE  OneTeardown'
    <2>1. CASE Fence(a) \/ Drain(a) \/ StopProducers(a)
      BY <2>1, GotoKeepsOneTeardown DEF Fence, Drain, StopProducers
    <2>2. CASE CleanupCheck(a) \/ Cleanup(a) \/ EndCleanup(a) \/ DetachProvider(a)
      BY <2>2, GotoKeepsOneTeardown DEF CleanupCheck, Cleanup, EndCleanup, DetachProvider
    <2>3. CASE Complete(a)
      BY <2>3 DEF Complete, CompleteQuiesce, Goto, OneTeardown, FramesTyped
    <2>4. CASE Reset(a)
      BY <2>4, GotoKeepsOneTeardown DEF Reset, AfterQuiesce
    <2>. QED BY <1>2, <2>1, <2>2, <2>3, <2>4 DEF Executor
  <1>3. CASE ServiceRuns
    <2>1. CASE CallStartRuntime
      BY <2>1, GotoKeepsOneTeardown DEF CallStartRuntime
    <2>2. CASE AttachProvider \/ PlainStage \/ StartAsync
      BY <2>2 DEF AttachProvider, PlainStage, StartAsync, OneTeardown
    <2>3. CASE CompleteStart
      BY <2>3, GotoKeepsOneTeardown DEF CompleteStart, InFrame
    <2>4. CASE FailStart
      <3>1. CASE /\ BeginFailedStart("service")
                 /\ Goto("service", IF plan'["service"].runTeardown THEN "fence"
                                    ELSE "failTail")
        <4>1. PICK run \in BOOLEAN :
                 /\ run => ~teardownActive
                 /\ plan'["service"].runTeardown = run
                 /\ teardownActive' = (teardownActive \/ run)
          BY <3>1 DEF BeginFailedStart, RunsTeardown, FramesTyped, CoordinatorTyped
        <4>2. pc["service"] \notin TeardownPoints
          BY <2>4 DEF FailStart
        <4>3. CASE run
          BY <3>1, <4>1, <4>2, <4>3 DEF Goto, OneTeardown, FramesTyped
        <4>4. CASE ~run
          BY <3>1, <4>1, <4>2, <4>4 DEF Goto, OneTeardown, FramesTyped, CoordinatorTyped
        <4>. QED BY <4>3, <4>4
      <3>2. CASE Goto("service", "failTail") /\ UNCHANGED <<coordinator, plan>>
        BY <2>4, <3>2, GotoKeepsOneTeardown DEF FailStart
      <3>. QED BY <2>4, <3>1, <3>2 DEF FailStart
    <2>5. CASE FailTail \/ ServiceReturn
      BY <2>5, GotoKeepsOneTeardown DEF FailTail, ServiceReturn
    <2>. QED BY <1>2, <1>3, <2>1, <2>2, <2>3, <2>4, <2>5 DEF ServiceRuns
  <1>4. CASE NotifyRuns
    <2>1. CASE NotifyTerminated \/ NotifyDrain \/ NotifyFenceOnly
      BY <2>1, GotoKeepsOneTeardown DEF NotifyTerminated, NotifyDrain, NotifyFenceOnly, CanEnter
    <2>2. CASE NotifyRevoke
      BY <2>2, RequestKeepsOneTeardown DEF NotifyRevoke
    <2>. QED BY <1>2, <1>4, <2>1, <2>2 DEF NotifyRuns
  <1>5. CASE UserBegin \/ UserEnd \/ ProviderTerminates \/ UNCHANGED vars
    BY <1>5 DEF UserBegin, UserEnd, ProviderTerminates, vars, OneTeardown
  <1>. QED BY <1>1, <1>3, <1>4, <1>5 DEF Next

\* Stop, sleep, failed start, rebuild and revocation never run two teardown
\* bodies at a time, whether or not one queue serialises them.
THEOREM OneTeardownAlways == Spec => []OneTeardown
  <1>1. Init => OneTeardown
    BY DEF Init, OneTeardown
  <1>2. TypeOK /\ OneTeardown /\ [Next]_vars => OneTeardown'
    BY OneTeardownStep
  <1>. QED BY <1>1, <1>2, TypeCorrect, StepIsNext, PTL DEF Spec

-----------------------------------------------------------------------------
(* A quiesced runtime has let go of the hardware *)

\* Only the frame of an accepted start, or a revocation that overtook it,
\* is bringing hardware up.
FrameIsStarting == pc["service"] = "start" => state = "Starting" \/ provider = "notified"

\* The termination handler runs only after its notice was delivered.
NotifyIsNotified == pc["notify"] # "idle" => provider = "notified"

\* The provider stays closed from Detach to the final transition.
CompleteIsDetached == \A a \in Actors : pc[a] = "complete" => ~device

DetachInv ==
    /\ GateNeedsProvider /\ FrameIsStarting /\ NotifyIsNotified
    /\ CompleteIsDetached /\ QuiescedIsDetached

\* A quiesce request never reaches Stopped or Suspended by itself, and leaves
\* Starting only by revocation.
LEMMA RequestKeepsDetach ==
    ASSUME FramesTyped, CoordinatorTyped, DetachInv,
           NEW a \in Actors, NEW reason \in QuiesceReason, NEW who,
           a = "notify" => provider = "notified" /\ reason = "ProviderRevoked",
           a = "service" => pc[a] = "idle",
           RequestRuntimeQuiesce(a, reason, who),
           device' = device, open' = open \/ open' = FALSE, provider' = provider
    PROVE  DetachInv'
  <1>. USE DEF DetachInv, GateNeedsProvider, FrameIsStarting, NotifyIsNotified,
               CompleteIsDetached, QuiescedIsDetached, FramesTyped
  <1>1. CASE UNCHANGED <<coordinator, plan>> /\ Goto(a, AfterQuiesce(a, who))
    BY <1>1 DEF coordinator, Goto, AfterQuiesce
  <1>2. CASE /\ BeginQuiesce(a, reason)
             /\ Goto(a, IF plan'[a].runTeardown THEN "fence"
                        ELSE IF reason = "ProviderRevoked" THEN "fenceOnly"
                        ELSE AfterQuiesce(a, who))
    BY <1>2 DEF BeginQuiesce, QuiesceTarget, Goto, AfterQuiesce
  <1>. QED BY <1>1, <1>2 DEF RequestRuntimeQuiesce

\* No step reopens a provider that a teardown has closed or leaves one open
\* at rest.
LEMMA DetachStep ==
    ASSUME TypeOK, DetachInv, [Next]_vars
    PROVE  DetachInv'
  <1>. USE DEF TypeOK, FramesTyped, coordinator, hardware, outside, frames
  <1>. USE DEF DetachInv, GateNeedsProvider, FrameIsStarting, NotifyIsNotified,
               CompleteIsDetached, QuiescedIsDetached
  <1>1. CASE ServiceCalls
    <2>1. CASE Start \/ Wake
      BY <2>1 DEF Start, Wake, CanEnter, Goto
    <2>2. CASE Stop \/ Sleep
      BY <2>2, RequestKeepsDetach DEF Stop, Sleep, CanEnter
    <2>3. CASE VerifyWakeRebuild
      BY <2>3, RequestKeepsDetach DEF VerifyWakeRebuild, VerifyDue, CanEnter, ReadHCControl
    <2>4. CASE VerifyWakeSkipped \/ VerifyWakeDone
      BY <2>4 DEF VerifyWakeSkipped, VerifyWakeDone, ReadHCControl
    <2>. QED BY <1>1, <2>1, <2>2, <2>3, <2>4 DEF ServiceCalls
  <1>2. ASSUME NEW a \in Actors, Executor(a)
        PROVE  DetachInv'
    <2>1. CASE Fence(a) \/ Drain(a) \/ StopProducers(a) \/ CleanupCheck(a)
      BY <2>1 DEF Fence, Drain, StopProducers, CleanupCheck, RevokeAndDrain, Goto
    <2>2. CASE Cleanup(a) \/ EndCleanup(a)
      BY <2>2 DEF Cleanup, EndCleanup, TryBeginAccess, EndAccess, Goto
    <2>3. CASE DetachProvider(a)
      BY <2>3 DEF DetachProvider, Detach, RevokeAndDrain, Goto
    <2>4. CASE Complete(a)
      BY <2>4 DEF Complete, CompleteQuiesce, TransitionTo, Disposition,
                  IsLegalTransition, CompleteQuiesceTarget, Goto
    <2>5. CASE Reset(a)
      BY <2>5 DEF Reset, ResetFull, ResetForSuspend, FreshHardware, AfterQuiesce, Goto
    <2>. QED BY <1>2, <2>1, <2>2, <2>3, <2>4, <2>5 DEF Executor
  <1>3. CASE ServiceRuns
    <2>1. CASE CallStartRuntime
      BY <2>1 DEF CallStartRuntime, Disposition, IsLegalTransition, Goto
    <2>2. CASE AttachProvider
      BY <2>2 DEF AttachProvider, InFrame
    <2>3. CASE PlainStage \/ StartAsync \/ ServiceReturn
      BY <2>3 DEF PlainStage, StartAsync, ServiceReturn, Goto
    <2>4. CASE CompleteStart
      BY <2>4 DEF CompleteStart, Goto
    <2>5. CASE FailStart
      BY <2>5 DEF FailStart, BeginFailedStart, Goto
    <2>6. CASE FailTail
      BY <2>6 DEF FailTail, ResetFull, FreshHardware, Goto
    <2>. QED BY <1>2, <1>3, <2>1, <2>2, <2>3, <2>4, <2>5, <2>6 DEF ServiceRuns
  <1>4. CASE NotifyRuns
    <2>1. CASE NotifyTerminated
      BY <2>1 DEF NotifyTerminated, CanEnter, Goto
    <2>2. CASE NotifyDrain \/ NotifyFenceOnly
      BY <2>2 DEF NotifyDrain, NotifyFenceOnly, RevokeAndDrain, Goto
    <2>3. CASE NotifyRevoke
      BY <2>3, RequestKeepsDetach DEF NotifyRevoke
    <2>. QED BY <1>2, <1>4, <2>1, <2>2, <2>3 DEF NotifyRuns
  <1>5. CASE UserBegin \/ UserEnd
    BY <1>5 DEF UserBegin, UserEnd, TryBeginAccess, EndAccess
  <1>6. CASE ProviderTerminates \/ UNCHANGED vars
    BY <1>6 DEF ProviderTerminates, vars
  <1>. QED BY <1>1, <1>3, <1>4, <1>5, <1>6 DEF Next

\* Whatever raced, a runtime that reports Stopped or Suspended has closed the
\* gate and the provider.
THEOREM QuiescedDetached == Spec => []QuiescedIsDetached
  <1>1. Init => DetachInv
    BY DEF Init, DetachInv, GateNeedsProvider, FrameIsStarting, NotifyIsNotified,
           CompleteIsDetached, QuiescedIsDetached
  <1>2. TypeOK /\ DetachInv /\ [Next]_vars => DetachInv'
    BY DetachStep
  <1>3. DetachInv => QuiescedIsDetached
    BY DEF DetachInv
  <1>. QED BY <1>1, <1>2, <1>3, TypeCorrect, StepIsNext, PTL DEF Spec

-----------------------------------------------------------------------------
(* The start ledger *)

\* The ledger has passed ProviderOpened while the provider is open, and so has
\* the copy of it in the plan of a teardown that runs.
LedgerKept ==
    /\ device => completedStartStage >= ProviderOpened
    /\ \A a \in Actors : pc[a] \in TeardownPoints /\ device
                             => plan[a].completedStartStage >= ProviderOpened

\* A plan copies the ledger as it is when the plan is issued.
LEMMA RequestKeepsLedger ==
    ASSUME FramesTyped, CoordinatorTyped, LedgerKept,
           NEW a \in Actors, NEW reason \in QuiesceReason, NEW who,
           RequestRuntimeQuiesce(a, reason, who), device' = device
    PROVE  LedgerKept'
  <1>1. CASE UNCHANGED <<coordinator, plan>> /\ Goto(a, AfterQuiesce(a, who))
    BY <1>1 DEF coordinator, Goto, AfterQuiesce, LedgerKept, FramesTyped
  <1>2. CASE /\ BeginQuiesce(a, reason)
             /\ Goto(a, IF plan'[a].runTeardown THEN "fence"
                        ELSE IF reason = "ProviderRevoked" THEN "fenceOnly"
                        ELSE AfterQuiesce(a, who))
    <2>1. /\ plan'[a].completedStartStage = completedStartStage
          /\ \A b \in Actors \ {a} : plan'[b] = plan[b] /\ pc'[b] = pc[b]
          /\ completedStartStage' = completedStartStage
      BY <1>2 DEF BeginQuiesce, Goto, FramesTyped
    <2>. QED BY <2>1 DEF LedgerKept
  <1>. QED BY <1>1, <1>2 DEF RequestRuntimeQuiesce

\* Nothing opens the provider behind the ledger's back, and the ledger is
\* cleared only when the provider is closed.
LEMMA LedgerStep ==
    ASSUME TypeOK, DetachInv, LedgerKept, [Next]_vars
    PROVE  LedgerKept'
  <1>. USE DEF TypeOK, FramesTyped, coordinator, hardware, outside, frames
  <1>0. completedStartStage \in StartStage
    BY DEF CoordinatorTyped
  <1>a. ASSUME UNCHANGED <<completedStartStage, plan>>, device' = device \/ ~device',
               \A b \in Actors : pc'[b] \in TeardownPoints => pc[b] \in TeardownPoints
        PROVE  LedgerKept'
    BY <1>a DEF LedgerKept
  <1>1. CASE ServiceCalls
    <2>1. CASE Start \/ Wake
      BY <1>a, <2>1 DEF Start, Wake, Goto
    <2>2. CASE Stop \/ Sleep
      BY <2>2, RequestKeepsLedger DEF Stop, Sleep
    <2>3. CASE VerifyWakeRebuild
      BY <2>3, RequestKeepsLedger DEF VerifyWakeRebuild, ReadHCControl
    <2>4. CASE VerifyWakeSkipped \/ VerifyWakeDone
      BY <1>a, <2>4 DEF VerifyWakeSkipped, VerifyWakeDone, ReadHCControl
    <2>. QED BY <1>1, <2>1, <2>2, <2>3, <2>4 DEF ServiceCalls
  <1>2. ASSUME NEW a \in Actors, Executor(a)
        PROVE  LedgerKept'
    <2>1. CASE Fence(a) \/ Drain(a) \/ StopProducers(a) \/ CleanupCheck(a)
      BY <1>a, <2>1 DEF Fence, Drain, StopProducers, CleanupCheck, Goto
    <2>2. CASE Cleanup(a) \/ EndCleanup(a)
      BY <1>a, <2>2 DEF Cleanup, EndCleanup, TryBeginAccess, EndAccess, Goto
    <2>3. CASE DetachProvider(a)
      BY <1>a, <2>3 DEF DetachProvider, Detach, Goto
    <2>4. CASE Complete(a)
      BY <2>4 DEF Complete, LedgerKept, DetachInv, CompleteIsDetached
    <2>5. CASE Reset(a)
      <3>1. device' = device \/ ~device'
        BY <2>5 DEF Reset, ResetFull, ResetForSuspend, FreshHardware
      <3>2. \A b \in Actors : pc'[b] \in TeardownPoints => pc[b] \in TeardownPoints
        BY <2>5 DEF Reset, Goto, AfterQuiesce
      <3>. QED BY <1>a, <2>5, <3>1, <3>2 DEF Reset
    <2>. QED BY <1>2, <2>1, <2>2, <2>3, <2>4, <2>5 DEF Executor
  <1>3. CASE ServiceRuns
    <2>1. CASE CallStartRuntime
      <3>1. CASE Disposition(state, "Starting") = "Applied"
        <4>1. state \in {"Stopped", "Suspended"}
          BY <3>1 DEF Disposition, IsLegalTransition
        <4>. QED BY <2>1, <4>1 DEF CallStartRuntime, LedgerKept, DetachInv, QuiescedIsDetached
      <3>2. CASE Disposition(state, "Starting") # "Applied"
        BY <1>a, <2>1, <3>2 DEF CallStartRuntime, Goto
      <3>. QED BY <3>1, <3>2
    <2>2. CASE AttachProvider
      <3>1. completedStartStage' >= ProviderOpened /\ UNCHANGED <<pc, plan>>
        BY <1>0, <2>2 DEF AttachProvider, Advance, MarkStageComplete
      <3>2. \A a \in Actors : pc[a] \in TeardownPoints => provider = "notified"
        BY <2>2 DEF DetachInv, NotifyIsNotified, AttachProvider, InFrame
      <3>3. device' => device \/ provider = "present"
        BY <2>2 DEF AttachProvider
      <3>. QED BY <3>1, <3>2, <3>3 DEF LedgerKept
    <2>3. CASE PlainStage \/ StartAsync
      <3>1. completedStartStage' \in StartStage /\ completedStartStage' >= completedStartStage
        BY <1>0, <2>3 DEF PlainStage, StartAsync, Advance, MarkStageComplete
      <3>2. UNCHANGED <<pc, plan, device>>
        BY <2>3 DEF PlainStage, StartAsync
      <3>. QED BY <1>0, <3>1, <3>2 DEF LedgerKept
    <2>4. CASE CompleteStart
      <3>1. completedStartStage' \in StartStage /\ completedStartStage' >= completedStartStage
        BY <1>0, <2>4 DEF CompleteStart, Advance, MarkStageComplete
      <3>2. UNCHANGED <<plan, device>> /\ \A b \in Actors : pc'[b] \in TeardownPoints => pc[b] \in TeardownPoints
        BY <2>4 DEF CompleteStart, Goto
      <3>. QED BY <1>0, <3>1, <3>2 DEF LedgerKept
    <2>5. CASE FailStart
      <3>1. CASE BeginFailedStart("service")
        <4>1. /\ plan'["service"].completedStartStage = completedStartStage
              /\ plan'["notify"] = plan["notify"] /\ pc'["notify"] = pc["notify"]
              /\ UNCHANGED <<completedStartStage, device>>
          BY <2>5, <3>1 DEF FailStart, BeginFailedStart, Goto
        <4>. QED BY <4>1 DEF LedgerKept
      <3>2. CASE Goto("service", "failTail") /\ UNCHANGED <<coordinator, plan>>
        BY <1>a, <2>5, <3>2 DEF FailStart, Goto
      <3>. QED BY <2>5, <3>1, <3>2 DEF FailStart
    <2>6. CASE FailTail \/ ServiceReturn
      BY <1>a, <2>6 DEF FailTail, ServiceReturn, ResetFull, FreshHardware, Goto
    <2>. QED BY <1>2, <1>3, <2>1, <2>2, <2>3, <2>4, <2>5, <2>6 DEF ServiceRuns
  <1>4. CASE NotifyRuns
    <2>1. CASE NotifyTerminated \/ NotifyDrain \/ NotifyFenceOnly
      BY <1>a, <2>1 DEF NotifyTerminated, NotifyDrain, NotifyFenceOnly, Goto
    <2>2. CASE NotifyRevoke
      BY <2>2, RequestKeepsLedger DEF NotifyRevoke
    <2>. QED BY <1>2, <1>4, <2>1, <2>2 DEF NotifyRuns
  <1>5. CASE UserBegin \/ UserEnd \/ ProviderTerminates \/ UNCHANGED vars
    BY <1>a, <1>5 DEF UserBegin, UserEnd, TryBeginAccess, EndAccess, ProviderTerminates, vars
  <1>. QED BY <1>1, <1>3, <1>4, <1>5 DEF Next

\* The start ledger copied into a plan is never behind the hardware: a teardown
\* that finds a provider open and healthy does the final register cleanup.
THEOREM LedgerCovers == Spec => []LedgerCoversProvider
  <1>1. Init => DetachInv /\ LedgerKept
    BY DEF Init, DetachInv, GateNeedsProvider, FrameIsStarting, NotifyIsNotified,
           CompleteIsDetached, QuiescedIsDetached, LedgerKept
  <1>2. TypeOK /\ DetachInv /\ LedgerKept /\ [Next]_vars => (DetachInv /\ LedgerKept)'
    BY DetachStep, LedgerStep
  <1>3. LedgerKept => LedgerCoversProvider
    BY DEF LedgerKept, LedgerCoversProvider
  <1>. QED BY <1>1, <1>2, <1>3, TypeCorrect, StepIsNext, PTL DEF Spec

-----------------------------------------------------------------------------
(* On one queue a stopped driver has released its runtime *)

\* One handler runs at a time.
OneHandler == \A a, b \in Actors : pc[a] # "idle" /\ pc[b] # "idle" => a = b

\* A runtime is Starting exactly while the frame of the start runs, which has
\* built the graph; without a graph nothing accepts submissions.
StartingIsFramed ==
    /\ state = "Starting" <=> pc["service"] = "start"
    /\ pc["service"] = "start" => built = "full"
    /\ built = "none" => ~producers

\* So no plan was issued during a start, and the release of the graph that
\* follows a transition to Stopped is never skipped.
ReleasePending ==
    /\ \A a \in Actors : pc[a] \in TeardownPoints \cup {"reset"} => plan[a].stateBefore # "Starting"
    /\ state = "Stopped" /\ built # "none" => \E a \in Actors : pc[a] = "reset"

SerialReleased == OneHandler /\ StartingIsFramed /\ ReleasePending

\* A quiesce request is made outside a start and does not stop anything itself.
LEMMA RequestKeepsReleased ==
    ASSUME FramesTyped, CoordinatorTyped, SerialReleased,
           NEW a \in Actors, NEW reason \in QuiesceReason, NEW who,
           pc[a] \notin {"start", "reset"}, \A b \in Actors \ {a} : pc[b] = "idle",
           RequestRuntimeQuiesce(a, reason, who), UNCHANGED <<built, producers>>
    PROVE  SerialReleased'
  <1>. USE DEF FramesTyped
  <1>0. state # "Starting"
    BY DEF SerialReleased, StartingIsFramed
  <1>1. \A b \in Actors \ {a} : pc'[b] = "idle"
    BY DEF RequestRuntimeQuiesce, Goto
  <1>2. pc'[a] \notin {"start", "reset"}
    BY DEF RequestRuntimeQuiesce, Goto, AfterQuiesce
  <1>3. state' = state \/ state' \in {"Quiescing", "Revoked"}
    BY DEF RequestRuntimeQuiesce, BeginQuiesce, QuiesceTarget, coordinator
  <1>4. pc'[a] \in TeardownPoints => plan'[a].stateBefore # "Starting"
    <2>1. CASE UNCHANGED <<coordinator, plan>> /\ Goto(a, AfterQuiesce(a, who))
      BY <2>1 DEF Goto, AfterQuiesce
    <2>2. CASE BeginQuiesce(a, reason)
      BY <1>0, <2>2 DEF BeginQuiesce
    <2>. QED BY <2>1, <2>2 DEF RequestRuntimeQuiesce
  <1>5. OneHandler'
    BY <1>1 DEF OneHandler
  <1>6. StartingIsFramed'
    BY <1>0, <1>1, <1>2, <1>3 DEF SerialReleased, StartingIsFramed
  <1>7. ReleasePending'
    BY <1>1, <1>2, <1>3, <1>4 DEF SerialReleased, ReleasePending
  <1>. QED BY <1>5, <1>6, <1>7 DEF SerialReleased

\* A step that moves one handler inside the points outside start and reset, and
\* touches neither the state nor the graph, keeps it.
LEMMA GotoKeepsReleased ==
    ASSUME FramesTyped, SerialReleased, NEW a \in Actors, NEW p \in Points \ {"start", "reset"}, Goto(a, p),
           pc[a] \notin {"start", "reset"}, \A b \in Actors \ {a} : pc[b] = "idle",
           p \in TeardownPoints => pc[a] \in TeardownPoints,
           UNCHANGED <<state, plan, built>>, producers' = producers \/ ~producers'
    PROVE  SerialReleased'
  <1>1. \A b \in Actors \ {a} : pc'[b] = "idle" /\ pc[b] = "idle"
    BY DEF Goto, FramesTyped
  <1>2. pc'[a] = p
    BY DEF Goto, FramesTyped
  <1>3. OneHandler'
    BY <1>1 DEF OneHandler
  <1>4. StartingIsFramed'
    BY <1>1, <1>2 DEF SerialReleased, StartingIsFramed
  <1>5. ReleasePending'
    BY <1>1, <1>2 DEF SerialReleased, ReleasePending
  <1>. QED BY <1>3, <1>4, <1>5 DEF SerialReleased

\* Every step keeps it while one queue serialises the handlers.
LEMMA ReleasedStep ==
    ASSUME TypeOK, serialQueue, SerialReleased, [Next]_vars
    PROVE  SerialReleased'
  <1>. USE DEF TypeOK, FramesTyped, coordinator, context, outside, frames
  <1>0. pc["service"] \in Points /\ pc["notify"] \in Points
    OBVIOUS
  <1>a. ASSUME UNCHANGED <<state, built, pc, plan>>, producers' = producers \/ built # "none"
        PROVE  SerialReleased'
    BY <1>a DEF SerialReleased, OneHandler, StartingIsFramed, ReleasePending
  <1>o. \A a, b \in Actors : pc[a] # "idle" /\ b # a => pc[b] = "idle"
    BY DEF SerialReleased, OneHandler
  <1>1. CASE ServiceCalls
    <2>1. CASE Start \/ Wake
      BY <2>1, GotoKeepsReleased DEF Start, Wake, CanEnter
    <2>2. CASE Stop \/ Sleep \/ VerifyWakeRebuild
      BY <2>2, RequestKeepsReleased DEF Stop, Sleep, VerifyWakeRebuild, VerifyDue, CanEnter
    <2>3. CASE VerifyWakeSkipped \/ VerifyWakeDone
      BY <1>a, <2>3 DEF VerifyWakeSkipped, VerifyWakeDone
    <2>. QED BY <1>1, <2>1, <2>2, <2>3 DEF ServiceCalls
  <1>2. ASSUME NEW a \in Actors, Executor(a)
        PROVE  SerialReleased'
    <2>1. CASE Fence(a) \/ Drain(a) \/ StopProducers(a)
      BY <1>o, <2>1, GotoKeepsReleased DEF Fence, Drain, StopProducers
    <2>2. CASE CleanupCheck(a) \/ Cleanup(a) \/ EndCleanup(a) \/ DetachProvider(a)
      BY <1>o, <2>2, GotoKeepsReleased DEF CleanupCheck, Cleanup, EndCleanup, DetachProvider
    <2>3. CASE Complete(a)
      <3>1. /\ pc'[a] = "reset" /\ pc[a] = "complete" /\ UNCHANGED <<plan, built, producers>>
            /\ \A b \in Actors \ {a} : pc'[b] = "idle" /\ pc[b] = "idle"
        BY <1>o, <2>3 DEF Complete, Goto
      <3>2. state' = state \/ state' \in {"Stopped", "Suspended"}
        BY <2>3 DEF Complete, CompleteQuiesce, TransitionTo, CompleteQuiesceTarget
      <3>3. OneHandler' /\ StartingIsFramed'
        BY <3>1, <3>2 DEF SerialReleased, OneHandler, StartingIsFramed
      <3>4. ReleasePending'
        BY <3>1 DEF SerialReleased, ReleasePending
      <3>. QED BY <3>3, <3>4 DEF SerialReleased
    <2>4. CASE Reset(a)
      <3>1. /\ pc'[a] \in {"failTail", "idle", "call", "return"} /\ pc[a] = "reset" /\ UNCHANGED <<plan, state>>
            /\ \A b \in Actors \ {a} : pc'[b] = "idle" /\ pc[b] = "idle"
        BY <1>o, <2>4 DEF Reset, Goto, AfterQuiesce
      <3>2. plan[a].stateBefore # "Starting"
        BY <3>1 DEF SerialReleased, ReleasePending
      <3>3. /\ built' \in {"none", "suspended"} /\ ~producers'
            /\ built' = "none" \/ state = "Suspended"
        BY <2>4, <3>2 DEF Reset, ResetFull, ResetForSuspend
      <3>4. OneHandler' /\ StartingIsFramed'
        BY <3>1, <3>3 DEF SerialReleased, OneHandler, StartingIsFramed
      <3>5. ReleasePending'
        BY <3>1, <3>3 DEF SerialReleased, ReleasePending
      <3>. QED BY <3>4, <3>5 DEF SerialReleased
    <2>. QED BY <1>2, <2>1, <2>2, <2>3, <2>4 DEF Executor
  <1>3. CASE ServiceRuns
    <2>1. CASE CallStartRuntime
      <3>1. /\ built' = "full" /\ pc["service"] = "call" /\ UNCHANGED <<plan, producers>>
            /\ pc'["notify"] = "idle" /\ pc["notify"] = "idle"
        BY <1>o, <2>1 DEF CallStartRuntime, Goto
      <3>2. \/ state' = "Starting" /\ pc'["service"] = "start"
            \/ /\ state' = state /\ pc'["service"] = "return"
               /\ Disposition(state, "Starting") # "Applied"
        BY <2>1 DEF CallStartRuntime, Goto
      <3>3. Disposition(state, "Starting") # "Applied" => state # "Stopped"
        BY DEF Disposition, IsLegalTransition
      <3>4. OneHandler' /\ StartingIsFramed'
        BY <3>1, <3>2 DEF SerialReleased, OneHandler, StartingIsFramed
      <3>5. ReleasePending'
        BY <3>1, <3>2, <3>3 DEF ReleasePending
      <3>. QED BY <3>4, <3>5 DEF SerialReleased
    <2>2. CASE AttachProvider \/ PlainStage
      BY <1>a, <2>2 DEF AttachProvider, PlainStage
    <2>3. CASE StartAsync
      <3>1. built # "none"
        BY <2>3 DEF StartAsync, InFrame, SerialReleased, StartingIsFramed
      <3>. QED BY <1>a, <2>3, <3>1 DEF StartAsync
    <2>4. CASE CompleteStart
      <3>1. /\ pc["service"] = "start" /\ pc'["service"] = "return" /\ pc["notify"] = "idle" /\ pc'["notify"] = "idle"
            /\ state' = "Running" /\ UNCHANGED <<plan, built, producers>>
        BY <1>o, <2>4 DEF CompleteStart, InFrame, Goto
      <3>. QED BY <3>1 DEF SerialReleased, OneHandler, StartingIsFramed, ReleasePending
    <2>5. CASE FailStart
      <3>1. state = "Starting" /\ pc["service"] = "start" /\ pc["notify"] = "idle"
        BY <1>o, <2>5 DEF FailStart, SerialReleased, StartingIsFramed
      <3>2. BeginFailedStart("service") /\ pc'["service"] \in {"fence", "failTail"} /\ pc'["notify"] = "idle"
        BY <2>5, <3>1 DEF FailStart, FailedStartRejected, Disposition, IsLegalTransition, Goto
      <3>3. state' = "Quiescing" /\ plan'["service"].stateBefore = "Failed" /\ UNCHANGED <<built, producers>>
        BY <2>5, <3>2 DEF BeginFailedStart, FailStart
      <3>. QED BY <3>1, <3>2, <3>3 DEF SerialReleased, OneHandler, StartingIsFramed, ReleasePending
    <2>6. CASE FailTail
      <3>1. /\ pc["service"] = "failTail" /\ pc'["service"] = "return" /\ pc["notify"] = "idle" /\ pc'["notify"] = "idle"
            /\ UNCHANGED <<state, plan>>
            /\ (built' = "none" /\ ~producers') \/ UNCHANGED <<built, producers>>
        BY <1>o, <2>6 DEF FailTail, Goto, ResetFull
      <3>2. OneHandler' /\ StartingIsFramed'
        BY <3>1 DEF SerialReleased, OneHandler, StartingIsFramed
      <3>3. ReleasePending'
        BY <3>1 DEF SerialReleased, ReleasePending
      <3>. QED BY <3>2, <3>3 DEF SerialReleased
    <2>7. CASE ServiceReturn
      BY <1>o, <2>7, GotoKeepsReleased DEF ServiceReturn
    <2>. QED BY <1>2, <1>3, <2>1, <2>2, <2>3, <2>4, <2>5, <2>6, <2>7 DEF ServiceRuns
  <1>4. CASE NotifyRuns
    <2>1. CASE NotifyTerminated
      BY <2>1, GotoKeepsReleased DEF NotifyTerminated, CanEnter
    <2>2. CASE NotifyDrain \/ NotifyFenceOnly
      BY <1>o, <2>2, GotoKeepsReleased DEF NotifyDrain, NotifyFenceOnly
    <2>3. CASE NotifyRevoke
      BY <1>o, <2>3, RequestKeepsReleased DEF NotifyRevoke
    <2>. QED BY <1>2, <1>4, <2>1, <2>2, <2>3 DEF NotifyRuns
  <1>5. CASE UserBegin \/ UserEnd \/ ProviderTerminates \/ UNCHANGED vars
    BY <1>a, <1>5 DEF UserBegin, UserEnd, ProviderTerminates, vars
  <1>. QED BY <1>1, <1>3, <1>4, <1>5 DEF Next

\* On one queue a driver that reports Stopped and runs no handler holds no
\* runtime graph and accepts no submissions: no path skips ServiceContext::Reset.
THEOREM StoppedReleased == Spec => []StoppedIsReleased
  <1>1. Init => (serialQueue => SerialReleased)
    BY DEF Init, SerialReleased, OneHandler, StartingIsFramed, ReleasePending
  <1>2. TypeOK /\ (serialQueue => SerialReleased) /\ [Next /\ UNCHANGED serialQueue]_<<vars, serialQueue>>
            => (serialQueue => SerialReleased)'
    BY ReleasedStep, StepIsNext
  <1>3. (serialQueue => SerialReleased) => StoppedIsReleased
    BY DEF SerialReleased, StartingIsFramed, ReleasePending, StoppedIsReleased
  <1>. QED BY <1>1, <1>2, <1>3, TypeCorrect, PTL DEF Spec

=============================================================================
