--------------------------- MODULE RuntimeLifecycle ---------------------------
(***************************************************************************)
(* The root runtime lifecycle of the driver: the seven-state controller    *)
(* state machine, the coordinator that issues quiesce plans, the teardown  *)
(* executor that carries a plan out, and the gate that fences OHCI MMIO    *)
(* against provider revocation.                                            *)
(*                                                                         *)
(* Two handlers run: "service" (Start, Stop, SetPowerState and the wake    *)
(* verification timer) and "notify" (provider termination).  DriverKit     *)
(* delivers both on the Default queue (serialQueue = TRUE); the            *)
(* coordinator is also written for callers that race (serialQueue =        *)
(* FALSE).  "user" stands for the code on other queues that touches        *)
(* registers through HardwareAccessScope.                                  *)
(***************************************************************************)
EXTENDS Naturals, FiniteSets

CONSTANTS
    MaxAttempts         \* kWakeVerifyMaxAttempts

ASSUME LifecycleAssumption == MaxAttempts \in Nat \ {0}

VARIABLES
    serialQueue,            \* are the two handlers serialised? never changes
    state,                  \* ControllerStateMachine::state_
    completedStartStage,    \* the coordinator's start ledger
    teardownActive,
    device,                 \* HardwareInterface::device_ is open
    open,                   \* HardwareAccessGate::open_
    gone,                   \* hardwareGoneReason_
    scope,                  \* who holds the gate's lock through a scope
    built,                  \* what ServiceContext still owns
    producers,              \* AsyncSubsystem accepts submissions
    armed,                  \* provider notifications are armed
    provider,               \* the PCI provider, and its termination notice
    service,                \* DriverKit's view: new, started, stopped
    verify,                 \* pending wake verification attempt, 0 if none
    pc, plan,               \* control point and plan of each handler
    prog,                   \* last stage StartRuntime's frame completed
    caller                  \* who called StartRuntime

coordinator == <<state, completedStartStage, teardownActive>>
hardware == <<device, open, gone, scope>>
context == <<built, producers, armed>>
outside == <<provider, service, verify>>
frames == <<pc, plan, prog, caller>>
vars == <<coordinator, hardware, context, outside, frames>>

Actors == {"service", "notify"}
ControllerState == {"Stopped", "Starting", "Running", "Quiescing",
                    "Suspended", "Revoked", "Failed"}
QuiesceReason == {"PlannedStop", "SystemSuspend", "ProviderRevoked",
                  "StartFailure", "WakeRebuild"}

\* StartStage, in order
None == 0
DependenciesReady == 1
QueueReady == 2
ProviderOpened == 3
InterruptSourceReady == 4
AsyncReady == 5
ControllerReady == 6
StageRunning == 7
StartStage == None..StageRunning

QuiescePlan == [reason : QuiesceReason, stateBefore : ControllerState,
                completedStartStage : StartStage, runTeardown : BOOLEAN]
NoPlan == [reason |-> "PlannedStop", stateBefore |-> "Stopped",
           completedStartStage |-> None, runTeardown |-> FALSE]

TeardownPoints == {"fence", "drain", "producers", "cleanupCheck", "cleanup",
                   "inCleanup", "detach", "complete"}
Points == TeardownPoints \cup
          {"idle", "call", "start", "reset", "failTail", "return",
           "latched", "revoke", "fenceOnly"}

-----------------------------------------------------------------------------
(* ControllerStateMachine *)

\* Mutant: a running controller cannot be revoked.
IsLegalTransition_NoRunningRevoke(from, to) ==
    \/ from = "Stopped" /\ to = "Starting"
    \/ from = "Starting" /\ to \in {"Running", "Failed", "Revoked"}
    \/ from = "Running" /\ to = "Quiescing"
    \/ from = "Quiescing" /\ to \in {"Stopped", "Suspended", "Revoked"}
    \/ from = "Suspended" /\ to \in {"Starting", "Quiescing", "Revoked"}
    \/ from = "Revoked" /\ to = "Stopped"
    \/ from = "Failed" /\ to \in {"Quiescing", "Revoked"}

IsLegalTransition(from, to) ==
    \/ from = "Stopped" /\ to = "Starting"
    \/ from = "Starting" /\ to \in {"Running", "Failed", "Revoked"}
    \/ from = "Running" /\ to \in {"Quiescing", "Revoked"}
    \/ from = "Quiescing" /\ to \in {"Stopped", "Suspended", "Revoked"}
    \/ from = "Suspended" /\ to \in {"Starting", "Quiescing", "Revoked"}
    \/ from = "Revoked" /\ to = "Stopped"
    \/ from = "Failed" /\ to \in {"Quiescing", "Revoked"}

Disposition(from, to) ==
    IF from = to THEN "Idempotent"
    ELSE IF IsLegalTransition(from, to) THEN "Applied" ELSE "Rejected"

\* The state after TransitionTo(to): unchanged unless the request is applied.
TransitionTo(from, to) == IF Disposition(from, to) = "Applied" THEN to ELSE from

-----------------------------------------------------------------------------
(* RuntimeLifecycleCoordinator: each operation runs under the coordinator's  *)
(* lock, so it is one step.                                                  *)

\* Mutant: the ledger is not kept.
MarkStageComplete_Lost(stage) == UNCHANGED completedStartStage

MarkStageComplete(stage) ==
    completedStartStage' =
        IF stage > completedStartStage THEN stage ELSE completedStartStage

IsSuspendReason(reason) == reason \in {"SystemSuspend", "WakeRebuild"}

QuiesceTarget(reason) ==
    IF reason = "ProviderRevoked" THEN "Revoked" ELSE "Quiescing"

\* Mutant: an active teardown does not exclude another.
RunsTeardown_Unguarded(disposition) == disposition = "Applied"

RunsTeardown(disposition) == ~teardownActive /\ disposition = "Applied"

\* BeginQuiesce for an accepted request: the transition, and the plan to run.
BeginQuiesce(a, reason) ==
    LET d == Disposition(state, QuiesceTarget(reason)) IN
    /\ d # "Rejected"
    /\ state' = QuiesceTarget(reason)
    /\ plan' = [plan EXCEPT ![a] =
                  [reason |-> reason, stateBefore |-> state,
                   completedStartStage |-> completedStartStage,
                   runTeardown |-> RunsTeardown(d)]]
    /\ teardownActive' = (teardownActive \/ RunsTeardown(d))
    /\ UNCHANGED completedStartStage

QuiesceRejected(reason) == Disposition(state, QuiesceTarget(reason)) = "Rejected"

\* BeginFailedStart moves to Failed and on to Quiescing in one locked step.
\* From Failed the second transition is always applied.
BeginFailedStart(a) ==
    LET failed == TransitionTo(state, "Failed")
        d == Disposition(failed, "Quiescing") IN
    /\ Disposition(state, "Failed") # "Rejected"
    /\ state' = "Quiescing"
    /\ plan' = [plan EXCEPT ![a] =
                  [reason |-> "StartFailure", stateBefore |-> "Failed",
                   completedStartStage |-> completedStartStage,
                   runTeardown |-> RunsTeardown(d)]]
    /\ teardownActive' = (teardownActive \/ RunsTeardown(d))
    /\ UNCHANGED completedStartStage

FailedStartRejected == Disposition(state, "Failed") = "Rejected"

\* Mutant: a revocation during a suspend is overlooked.
CompleteQuiesceTarget_IgnoresRevoked(p) ==
    IF IsSuspendReason(p.reason) THEN "Suspended" ELSE "Stopped"

CompleteQuiesceTarget(p) ==
    IF state # "Revoked" /\ IsSuspendReason(p.reason) THEN "Suspended"
    ELSE "Stopped"

CompleteQuiesce(p) ==
    /\ teardownActive' = FALSE
    /\ state' = TransitionTo(state, CompleteQuiesceTarget(p))
    /\ completedStartStage' =
         IF CompleteQuiesceTarget(p) = "Stopped" THEN None
         ELSE completedStartStage

-----------------------------------------------------------------------------
(* HardwareInterface and HardwareAccessGate *)

\* The CAS that latches the revocation, before the drain takes the lock.
LatchGone(reason) == gone' = IF gone = "None" THEN reason ELSE gone

\* Mutant: the gate closes without waiting for the scope that is inside.
RevokeAndDrain_NoWait == open' = FALSE

\* RevokeAndDrain takes the lock, so it waits for an admitted scope to end.
RevokeAndDrain == scope = "none" /\ open' = FALSE

\* Mutant: the gate closes but the provider stays open.
Detach_KeepsDevice ==
    /\ RevokeAndDrain
    /\ UNCHANGED <<device, gone, scope>>

Detach ==
    /\ RevokeAndDrain
    /\ device' = FALSE
    /\ UNCHANGED <<gone, scope>>

TryBeginAccess(who) ==
    /\ scope = "none" /\ open /\ built = "full"
    /\ scope' = who
    /\ UNCHANGED <<device, open, gone>>

\* Leaving a scope; a presence probe that reads all ones inside it latches
\* the loss and closes the gate in place, without taking the lock again.
EndAccess(who) ==
    /\ scope = who
    /\ scope' = "none"
    /\ \/ UNCHANGED <<open, gone>>
       \/ /\ provider # "present" /\ device /\ gone = "None"
          /\ gone' = "MmioAllOnes" /\ open' = FALSE
    /\ UNCHANGED device

\* The destructor detaches; EnsureDeps makes a fresh object.
FreshHardware == device' = FALSE /\ open' = FALSE /\ gone' = "None" /\ scope' = scope

-----------------------------------------------------------------------------
(* ServiceContext::Reset *)

ResetFull ==
    /\ scope = "none" /\ FreshHardware
    /\ built' = "none" /\ producers' = FALSE /\ armed' = FALSE

ResetForSuspend ==
    /\ scope = "none" /\ FreshHardware
    /\ built' = "suspended" /\ producers' = FALSE /\ armed' = FALSE

-----------------------------------------------------------------------------
(* Handlers *)

Goto(a, point) == pc' = [pc EXCEPT ![a] = point]

\* A handler is delivered when its own actor is idle and, on one queue, when
\* nobody else runs.
CanEnter(a) ==
    /\ pc[a] = "idle"
    /\ serialQueue => \A b \in Actors : pc[b] = "idle"

\* Where RequestRuntimeQuiesce returns to.
AfterQuiesce(a, who) ==
    IF a = "notify" THEN "idle" ELSE IF who = "verify" THEN "call" ELSE "return"

RequestRuntimeQuiesce(a, reason, who) ==
    \/ /\ built # "none"
       /\ BeginQuiesce(a, reason)
       /\ Goto(a, IF plan'[a].runTeardown THEN "fence"
                  ELSE IF reason = "ProviderRevoked" THEN "fenceOnly"
                  ELSE AfterQuiesce(a, who))
    \/ /\ built = "none" \/ QuiesceRejected(reason)
       /\ Goto(a, AfterQuiesce(a, who))
       /\ UNCHANGED <<coordinator, plan>>

Start ==
    /\ CanEnter("service") /\ service = "new"
    /\ service' = "started" /\ caller' = "Start" /\ Goto("service", "call")
    /\ UNCHANGED <<coordinator, hardware, context, provider, verify, plan, prog>>

Stop ==
    /\ CanEnter("service") /\ service = "started"
    /\ caller' = "Stop"
    /\ RequestRuntimeQuiesce("service", "PlannedStop", "Stop")
    /\ UNCHANGED <<hardware, context, outside, prog>>

\* SetPowerState below full power quiesces only a running runtime.
Sleep ==
    /\ CanEnter("service") /\ service = "started"
    /\ built # "none" /\ state = "Running"
    /\ caller' = "sleep"
    /\ RequestRuntimeQuiesce("service", "SystemSuspend", "sleep")
    /\ UNCHANGED <<hardware, context, outside, prog>>

Wake ==
    /\ CanEnter("service") /\ service = "started"
    /\ built # "none" /\ state = "Suspended"
    /\ caller' = "wake" /\ Goto("service", "call")
    /\ UNCHANGED <<coordinator, hardware, context, outside, plan, prog>>

\* The timer fires: attempt "verify" of VerifyWakeRuntime.
VerifyDue == CanEnter("service") /\ verify > 0
VerifyAdmitted == built = "full" /\ state = "Running" /\ open

VerifyWakeSkipped ==
    /\ VerifyDue /\ ~VerifyAdmitted
    /\ verify' = 0
    /\ UNCHANGED <<coordinator, hardware, context, provider, service, frames>>

\* The registers are read in a scope of their own.  HCControl is a presence
\* probe: an all-ones answer also latches the loss of the hardware.
ReadHCControl ==
    /\ scope = "none"
    /\ IF provider # "present" /\ gone = "None"
       THEN gone' = "MmioAllOnes" /\ open' = FALSE
       ELSE UNCHANGED <<gone, open>>
    /\ UNCHANGED <<device, scope>>

\* The controller is alive, or the attempts are used up.
VerifyWakeDone ==
    /\ VerifyDue /\ VerifyAdmitted
    /\ provider = "present" \/ verify >= MaxAttempts
    /\ ReadHCControl
    /\ verify' = 0
    /\ UNCHANGED <<coordinator, context, provider, service, frames>>

\* Mutant: one attempt too many.
VerifyWakeRebuild_OffByOne ==
    /\ VerifyDue /\ VerifyAdmitted /\ verify <= MaxAttempts
    /\ ReadHCControl
    /\ caller' = "verify"
    /\ RequestRuntimeQuiesce("service", "WakeRebuild", "verify")
    /\ UNCHANGED <<context, outside, prog>>

VerifyWakeRebuild ==
    /\ VerifyDue /\ VerifyAdmitted /\ verify < MaxAttempts
    /\ ReadHCControl
    /\ caller' = "verify"
    /\ RequestRuntimeQuiesce("service", "WakeRebuild", "verify")
    /\ UNCHANGED <<context, outside, prog>>

\* The end of a service handler: Stop cancels the verification timer, a wake
\* that reached Running schedules it, a verification schedules the next one.
ServiceReturn ==
    /\ pc["service"] = "return"
    /\ Goto("service", "idle")
    /\ service' = IF caller = "Stop" THEN "stopped" ELSE service
    /\ verify' = CASE caller = "Stop" -> 0
                   [] caller = "wake" /\ prog = StageRunning -> 1
                   [] caller = "verify" -> verify + 1
                   [] OTHER -> verify
    /\ caller' = "none" /\ prog' = None
    /\ UNCHANGED <<coordinator, hardware, context, provider, plan>>

-----------------------------------------------------------------------------
(* StartRuntime *)

CallStartRuntime ==
    /\ pc["service"] = "call"
    /\ built' = "full"                                    \* EnsureDeps
    /\ IF Disposition(state, "Starting") = "Applied"
       THEN /\ state' = "Starting" /\ completedStartStage' = DependenciesReady
            /\ prog' = DependenciesReady /\ Goto("service", "start")
       ELSE /\ prog' = None /\ Goto("service", "return")
            /\ UNCHANGED <<state, completedStartStage>>
    /\ UNCHANGED <<teardownActive, hardware, producers, armed, outside, plan, caller>>

InFrame(stage) == pc["service"] = "start" /\ prog = stage

Advance(stage) == MarkStageComplete(stage) /\ prog' = stage

\* HardwareInterface::Attach: a revoked interface that is still open must be
\* detached first; a provider that has terminated cannot be opened.
AttachProvider ==
    /\ InFrame(QueueReady)
    /\ \/ device /\ open /\ UNCHANGED hardware
       \/ /\ ~device /\ provider = "present" /\ scope = "none"
          /\ device' = TRUE /\ open' = TRUE /\ gone' = "None"
          /\ UNCHANGED scope
    /\ Advance(ProviderOpened) /\ armed' = TRUE
    /\ UNCHANGED <<state, teardownActive, built, producers, outside, pc, plan, caller>>

\* PrepareQueue, PrepareInterrupts, and the controller and its services.
PlainStage ==
    /\ \/ InFrame(DependenciesReady) /\ Advance(QueueReady)
       \/ InFrame(ProviderOpened) /\ Advance(InterruptSourceReady)
       \/ InFrame(AsyncReady) /\ Advance(ControllerReady)
    /\ UNCHANGED <<state, teardownActive, hardware, context, outside, pc, plan, caller>>

StartAsync ==
    /\ InFrame(InterruptSourceReady)
    /\ producers' = TRUE
    /\ Advance(AsyncReady)
    /\ UNCHANGED <<state, teardownActive, hardware, built, armed, outside, pc, plan, caller>>

CompleteStart ==
    /\ InFrame(ControllerReady)
    /\ Disposition(state, "Running") # "Rejected"
    /\ state' = "Running" /\ Advance(StageRunning) /\ Goto("service", "return")
    /\ UNCHANGED <<teardownActive, hardware, context, outside, plan, caller>>

\* Any stage may fail, and CompleteStart is rejected once the state moved on.
FailStart ==
    /\ pc["service"] = "start"
    /\ \/ BeginFailedStart("service") /\ Goto("service",
              IF plan'["service"].runTeardown THEN "fence" ELSE "failTail")
       \/ /\ FailedStartRejected
          /\ Goto("service", "failTail") /\ UNCHANGED <<coordinator, plan>>
    /\ prog' = None
    /\ UNCHANGED <<hardware, context, outside, caller>>

FailTail ==
    /\ pc["service"] = "failTail"
    /\ IF built # "none" /\ state = "Stopped" THEN ResetFull
       ELSE UNCHANGED <<hardware, context>>
    /\ Goto("service", "return")
    /\ UNCHANGED <<coordinator, outside, plan, prog, caller>>

-----------------------------------------------------------------------------
(* ExecuteRuntimeTeardown and ReleaseQuiescedRuntime, by whichever handler   *)
(* holds a plan that runs the teardown.                                      *)

Fence(a) ==
    /\ pc[a] = "fence"
    /\ IF built = "full" /\ (plan[a].reason = "ProviderRevoked" \/ gone # "None")
       THEN LatchGone("ProviderRevoked") /\ Goto(a, "drain")
       ELSE Goto(a, "producers") /\ UNCHANGED gone
    /\ UNCHANGED <<coordinator, device, open, scope, context, outside, plan, prog, caller>>

Drain(a) ==
    /\ pc[a] = "drain"
    /\ RevokeAndDrain /\ Goto(a, "producers")
    /\ UNCHANGED <<coordinator, device, gone, scope, context, outside, plan, prog, caller>>

\* Notifications, submissions, audio, AV/C, SBP-2, watchdog, interrupts.
StopProducers(a) ==
    /\ pc[a] = "producers"
    /\ armed' = FALSE /\ producers' = FALSE /\ Goto(a, "cleanupCheck")
    /\ UNCHANGED <<coordinator, hardware, built, outside, plan, prog, caller>>

\* Final register cleanup is decided here and done later, in a scope.
CleanupCheck(a) ==
    /\ pc[a] = "cleanupCheck"
    /\ Goto(a, IF /\ built = "full" /\ gone = "None"
                  /\ plan[a].completedStartStage >= ProviderOpened
               THEN "cleanup" ELSE "detach")
    /\ UNCHANGED <<coordinator, hardware, context, outside, plan, prog, caller>>

Cleanup(a) ==
    /\ pc[a] = "cleanup"
    /\ \/ TryBeginAccess(a) /\ Goto(a, "inCleanup")
       \/ ~open /\ scope = "none" /\ Goto(a, "detach") /\ UNCHANGED hardware
    /\ UNCHANGED <<coordinator, context, outside, plan, prog, caller>>

EndCleanup(a) ==
    /\ pc[a] = "inCleanup"
    /\ EndAccess(a) /\ Goto(a, "detach")
    /\ UNCHANGED <<coordinator, context, outside, plan, prog, caller>>

\* Async and controller stop are software only; then the provider is closed.
DetachProvider(a) ==
    /\ pc[a] = "detach"
    /\ Detach /\ Goto(a, "complete")
    /\ UNCHANGED <<coordinator, context, outside, plan, prog, caller>>

Complete(a) ==
    /\ pc[a] = "complete"
    /\ CompleteQuiesce(plan[a]) /\ Goto(a, "reset")
    /\ UNCHANGED <<hardware, context, outside, plan, prog, caller>>

\* Mutant: only a runtime that was running is released.
Reset_OnlyRunning(a) ==
    /\ pc[a] = "reset"
    /\ \/ plan[a].stateBefore # "Running" /\ UNCHANGED <<hardware, context>>
       \/ plan[a].stateBefore = "Running" /\ state = "Suspended" /\ ResetForSuspend
       \/ plan[a].stateBefore = "Running" /\ state # "Suspended" /\ ResetFull
    /\ Goto(a, IF plan[a].reason = "StartFailure" THEN "failTail"
               ELSE AfterQuiesce(a, caller))
    /\ UNCHANGED <<coordinator, outside, plan, prog, caller>>

\* The graph of a start that was revoked half way is left to that frame.
Reset(a) ==
    /\ pc[a] = "reset"
    /\ \/ plan[a].stateBefore = "Starting" /\ UNCHANGED <<hardware, context>>
       \/ plan[a].stateBefore # "Starting" /\ state = "Suspended" /\ ResetForSuspend
       \/ plan[a].stateBefore # "Starting" /\ state # "Suspended" /\ ResetFull
    /\ Goto(a, IF plan[a].reason = "StartFailure" THEN "failTail"
               ELSE AfterQuiesce(a, caller))
    /\ UNCHANGED <<coordinator, outside, plan, prog, caller>>

-----------------------------------------------------------------------------
(* ProviderNotificationReady *)

NotifyTerminated ==
    /\ CanEnter("notify") /\ armed /\ provider = "terminated"
    /\ provider' = "notified"
    /\ IF built = "full" THEN LatchGone("ProviderRevoked") ELSE UNCHANGED gone
    /\ Goto("notify", "latched")
    /\ UNCHANGED <<coordinator, device, open, scope, context, service, verify, plan, prog, caller>>

NotifyDrain ==
    /\ pc["notify"] = "latched"
    /\ RevokeAndDrain /\ Goto("notify", "revoke")
    /\ UNCHANGED <<coordinator, device, gone, scope, context, outside, plan, prog, caller>>

NotifyRevoke ==
    /\ pc["notify"] = "revoke"
    /\ RequestRuntimeQuiesce("notify", "ProviderRevoked", "notify")
    /\ UNCHANGED <<hardware, context, outside, prog, caller>>

\* Another handler runs the teardown: only fence the hardware.
NotifyFenceOnly ==
    /\ pc["notify"] = "fenceOnly"
    /\ IF built = "full" THEN LatchGone("ProviderRevoked") /\ RevokeAndDrain
       ELSE UNCHANGED <<gone, open>>
    /\ Goto("notify", "idle")
    /\ UNCHANGED <<coordinator, device, scope, context, outside, plan, prog, caller>>

-----------------------------------------------------------------------------
(* Other queues, and the world outside *)

UserBegin ==
    /\ TryBeginAccess("user")
    /\ UNCHANGED <<coordinator, context, outside, frames>>

UserEnd ==
    /\ EndAccess("user")
    /\ UNCHANGED <<coordinator, context, outside, frames>>

ProviderTerminates ==
    /\ provider = "present" /\ provider' = "terminated"
    /\ UNCHANGED <<coordinator, hardware, context, service, verify, frames>>

-----------------------------------------------------------------------------
Executor(a) ==
    \/ Fence(a) \/ Drain(a) \/ StopProducers(a) \/ CleanupCheck(a)
    \/ Cleanup(a) \/ EndCleanup(a) \/ DetachProvider(a) \/ Complete(a) \/ Reset(a)

ServiceRuns ==
    \/ CallStartRuntime \/ AttachProvider \/ PlainStage \/ StartAsync
    \/ CompleteStart \/ FailStart \/ FailTail \/ ServiceReturn
    \/ Executor("service")

NotifyRuns ==
    \/ NotifyTerminated \/ NotifyDrain \/ NotifyRevoke \/ NotifyFenceOnly
    \/ Executor("notify")

ServiceCalls ==
    \/ Start \/ Stop \/ Sleep \/ Wake
    \/ VerifyWakeSkipped \/ VerifyWakeDone \/ VerifyWakeRebuild

Next ==
    \/ ServiceCalls \/ ServiceRuns \/ NotifyRuns
    \/ UserBegin \/ UserEnd \/ ProviderTerminates

Init ==
    /\ serialQueue \in BOOLEAN
    /\ state = "Stopped" /\ completedStartStage = None /\ teardownActive = FALSE
    /\ device = FALSE /\ open = FALSE /\ gone = "None" /\ scope = "none"
    /\ built = "none" /\ producers = FALSE /\ armed = FALSE
    /\ provider = "present" /\ service = "new" /\ verify = 0
    /\ pc = [a \in Actors |-> "idle"] /\ plan = [a \in Actors |-> NoPlan]
    /\ prog = None /\ caller = "none"

\* A handler that was delivered runs to its end, a termination notice is
\* delivered, and a scope is synchronous and stack-bound.  Strong fairness:
\* a drain gets the gate's lock although scopes keep coming and going.
Fairness == SF_vars(ServiceRuns) /\ SF_vars(NotifyRuns) /\ WF_vars(UserEnd)

Spec ==
    Init /\ [][Next /\ UNCHANGED serialQueue]_<<vars, serialQueue>> /\ Fairness

-----------------------------------------------------------------------------
(* Properties *)

CoordinatorTyped ==
    /\ state \in ControllerState /\ completedStartStage \in StartStage
    /\ teardownActive \in BOOLEAN
HardwareTyped ==
    /\ device \in BOOLEAN /\ open \in BOOLEAN
    /\ gone \in {"None", "ProviderRevoked", "MmioAllOnes"}
    /\ scope \in Actors \cup {"none", "user"}
ContextTyped ==
    /\ built \in {"none", "suspended", "full"}
    /\ producers \in BOOLEAN /\ armed \in BOOLEAN
OutsideTyped ==
    /\ provider \in {"present", "terminated", "notified"}
    /\ service \in {"new", "started", "stopped"}
    /\ verify \in 0..MaxAttempts
FramesTyped ==
    /\ pc \in [Actors -> Points] /\ plan \in [Actors -> QuiescePlan]
    /\ prog \in StartStage
    /\ caller \in {"none", "Start", "Stop", "sleep", "wake", "verify"}

\* Every variable has its type; a verification attempt stays within
\* kWakeVerifyMaxAttempts.
TypeOK ==
    CoordinatorTyped /\ HardwareTyped /\ ContextTyped /\ OutsideTyped /\ FramesTyped

\* No register is touched through a provider that has been closed: whoever is
\* inside an admitted scope still has the device open, whatever teardown or
\* revocation runs meanwhile (HardwareAccessGate.hpp, Detach's drain).
ScopeHoldsProvider == scope # "none" => device /\ built = "full"

\* Stop, revoke and failed start never run two teardown bodies at a time, and
\* teardownActive_ is held by exactly the one that runs.
OneTeardown ==
    /\ \A a, b \in Actors :
          pc[a] \in TeardownPoints /\ pc[b] \in TeardownPoints => a = b
    /\ teardownActive <=> \E a \in Actors : pc[a] \in TeardownPoints

\* A runtime that reports Stopped or Suspended has closed the gate and the
\* provider, also when a revocation raced the bring-up or another teardown.
QuiescedIsDetached == state \in {"Stopped", "Suspended"} => ~device /\ ~open

\* The start ledger in a plan never understates what was brought up: a
\* teardown that meets an open, healthy provider always does the final
\* register cleanup.
LedgerCoversProvider ==
    \A a \in Actors :
        /\ pc[a] = "cleanupCheck" /\ device /\ gone = "None"
        => plan[a].completedStartStage >= ProviderOpened

\* On one queue a driver that has stopped and is between handlers holds no
\* runtime graph and accepts no submissions.
StoppedIsReleased ==
    serialQueue /\ state = "Stopped" /\ (\A a \in Actors : pc[a] = "idle")
        => built = "none" /\ ~producers

\* Every quiesce, failed start and revocation comes to rest.
TeardownTerminates ==
    state \in {"Quiescing", "Failed", "Revoked"} ~> state \in {"Stopped", "Suspended"}

\* A provider that terminates while the runtime is armed for it does not
\* leave the driver running: it is stopped or asleep in the end.
RevocationStops == provider = "terminated" /\ armed ~> state \in {"Stopped", "Suspended"}

=============================================================================
