---------------------------- MODULE AudioDuplex ----------------------------
(***************************************************************************)
(* The duplex streaming of one FireWire audio device: AudioCoordinator     *)
(* (who may stream, what happens when the device disappears), the duplex   *)
(* coordinator (one operation at a time behind DuplexOperationGate, the    *)
(* stored restart session, the queue of clock requests, the staged start   *)
(* with its rollback, the stop, the recovery policy), the DICE backend's   *)
(* recovery queue and the host isochronous transport the stages drive.     *)
(*                                                                         *)
(* Four threads call in: "io" (CoreAudio's StartIO and StopIO), "clock" (a *)
(* rate change), "recovery" (the backend's serial work queue) and the      *)
(* discovery thread, which reports resets, resumed and lost devices.  An   *)
(* operation blocks in every device stage and in every host call, and      *)
(* everyone else runs meanwhile.                                           *)
(***************************************************************************)
EXTENDS Naturals, Sequences, FiniteSets

CONSTANTS
    Profiles,    \* stream profiles to start with: "dice" (StreamStartShape::Default), "avc"
                 \* (ApogeeInterleaved) and "cmp" (CmpReceiveThenTransmit, also the AV/C backend)
    MaxEvents    \* bound: calls of StartIO, StopIO and RequestClockConfig, bus resets,
                 \* devices that come back, faults, failing stages, waits that time out, the
                 \* teardown

ASSUME ProfilesAssumption == Profiles \subseteq {"dice", "avc", "cmp"}
ASSUME BoundsAssumption == MaxEvents \in Nat

VARIABLES
    profile,   \* what DuplexStreamProfileResolver finds for the device
    coord,     \* AudioCoordinator: active (activeGuid_ is ours), lost (remoteLostGuids_), teardown
    gate,      \* DuplexOperationGate: active, stop, lost
    session,   \* RestartSessionStore::sessions_ for the device, NoSession when absent
    nextId,    \* nextRestartId_
    broker,    \* ClockRequestBroker: pending request, completed tokens, next token;
               \* picked: the rate last applied while idle, until a start (history)
    host,      \* IsochDuplexHostTransport and IsochService
    device,    \* the rate the device is clocked at
    route,     \* DeviceRegistry: live, epoch; nub: the endpoint is published
    recovery,  \* DiceAudioBackend: recoveringGuids_ and the blocks on workQueue_
    removal,   \* where OnDeviceRemoved and BeginTeardown stand; left: what a removal left
               \* behind, an operation inside its body or a host not stopped (history)
    th,        \* the calling threads
    budget     \* what is left of the bounds

vars == <<profile, coord, gate, session, nextId, broker, host, device, route,
          recovery, removal, th, budget>>

Now == [coord |-> coord, gate |-> gate, session |-> session, nextId |-> nextId,
        broker |-> broker, host |-> host, device |-> device, route |-> route,
        recovery |-> recovery, removal |-> removal, th |-> th, budget |-> budget]

Become(x) ==
    /\ coord' = x.coord /\ gate' = x.gate /\ session' = x.session /\ nextId' = x.nextId
    /\ broker' = x.broker /\ host' = x.host /\ device' = x.device /\ route' = x.route
    /\ recovery' = x.recovery /\ removal' = x.removal /\ th' = x.th /\ budget' = x.budget
    /\ UNCHANGED profile

Callers == {"io", "clock", "recovery"}

(* Sample rates: 0 is no rate, Default the fallback of a start, 48 kHz.    *)
Default == 1
Rates == {1, 2}

NoRequest == [tok |-> 0, clk |-> 0]

-----------------------------------------------------------------------------
(* The restart session (DuplexControlTypes.hpp).                           *)

Kinds == {"Idle", "ApplyingIdleClock", "Starting", "Running", "Stopping", "Recovering", "Failed"}
Phases == {"Idle", "Busy", "Running", "Stopping", "Failed"}

(* The progress flags that ClearRestartProgress resets.                    *)
HostFlags == {"claimed", "playback", "capture", "rx", "tx"}
DeviceFlags == {"prepared", "rxProgrammed", "txArmed", "running"}

DuplexRestartSession ==
    [kind |-> "Idle", phase |-> "Idle", flags |-> {}, id |-> 0, route |-> 0,
     desired |-> 0, applied |-> 0, pending |-> 0, failure |-> "none"]

NoSession == [DuplexRestartSession EXCEPT !.kind = "None"]

CanTransitionLifecycle(from, to) ==
    to \in CASE from = "Idle" -> {"Starting", "ApplyingIdleClock", "Recovering", "Failed"}
             [] from = "ApplyingIdleClock" -> {"Idle", "Failed"}
             [] from = "Starting" -> {"Idle", "Running", "Stopping", "Recovering", "Failed"}
             [] from = "Running" -> {"Idle", "Stopping", "Recovering", "Failed"}
             [] from = "Stopping" -> {"Idle", "Failed"}
             [] from = "Recovering" -> {"Idle", "Running", "Stopping", "Failed"}
             [] OTHER -> {"Starting", "Recovering", "Stopping", "ApplyingIdleClock", "Idle", "Failed"}

HasRestartIntent(s) == s.desired # 0 \/ s.pending # 0
HasAnyRestartState(s) == s.flags # {}

EnterIdle(s) ==
    IF s.kind = "Idle" \/ CanTransitionLifecycle(s.kind, "Idle")
    THEN [s EXCEPT !.kind = "Idle", !.phase = "Idle", !.flags = {}]
    ELSE s

(* Mutant: the progress of the failed start is kept.                       *)
EnterFailed_KeepsProgress(s) ==
    IF CanTransitionLifecycle(s.kind, "Failed")
    THEN [s EXCEPT !.kind = "Failed", !.phase = "Failed"]
    ELSE s

EnterFailed(s) ==
    IF CanTransitionLifecycle(s.kind, "Failed")
    THEN [s EXCEPT !.kind = "Failed", !.phase = "Failed", !.flags = {}]
    ELSE s

IsRetryableStatus(st) == st \in {"timeout", "aborted", "notready", "nodevice"}

(* RecordIssue on lastFailure, of which only the retry bit is read again.  *)
RecordFailure(s, st) ==
    [s EXCEPT !.failure = IF IsRetryableStatus(st) THEN "retryable" ELSE "terminal"]

LoadSession(x) == IF x.session = NoSession THEN DuplexRestartSession ELSE x.session
StoreSession(x, s) == [x EXCEPT !.session = s]
IsStreaming(x) == x.session # NoSession /\ "running" \in x.session.flags

-----------------------------------------------------------------------------
(* Gate and clock broker.                                                  *)

IsStopRequested(x) == x.gate.stop \/ x.gate.lost
IsOperationInFlight(x) == x.gate.active \/ x.broker.pending # NoRequest

Complete(x, tok, st) == [x EXCEPT !.broker.done = @ \cup {[tok |-> tok, st |-> st]}]

(* The mark that a queued request leaves in the stored session.            *)
MarkPending(x, clk) == IF x.session = NoSession THEN x ELSE [x EXCEPT !.session.pending = clk]

QueuePending(x, req) ==
    LET y == IF x.broker.pending = NoRequest THEN x
             ELSE Complete(x, x.broker.pending.tok, "aborted")
    IN  MarkPending([y EXCEPT !.broker.pending = req], req.clk)

ConsumePending(x) == MarkPending([x EXCEPT !.broker.pending = NoRequest], 0)

FailPending(x) ==
    IF x.broker.pending = NoRequest THEN x
    ELSE Complete(ConsumePending(x), x.broker.pending.tok, "aborted")

-----------------------------------------------------------------------------
(* The host transport.  A context is off, ready (configured) or on; the    *)
(* reservations remember the bus generation they were made in.             *)

HostOff == [claimed |-> FALSE, reserved |-> {}, gen |-> 0, rx |-> "off", tx |-> "off"]

(* IsochService::StopAll: contexts first; ownership and reservations go    *)
(* only when both contexts are quiet, and both are asked, whichever of them *)
(* is stuck.                                                               *)
StopAll(x, stuck) ==
    IF stuck = {} THEN [x EXCEPT !.host = HostOff, !.removal.left = @ \ {"host"}]
    ELSE [x EXCEPT !.host.rx = IF @ = "on" /\ "rx" \notin stuck THEN "ready" ELSE @,
                   !.host.tx = IF @ = "on" /\ "tx" \notin stuck THEN "ready" ELSE @]

(* A running context may not quiesce in time.                              *)
MayRefuse(x) == "on" \in {x.host.rx, x.host.tx} /\ x.budget > 0

(* The contexts that may be stuck when a stop is refused.                  *)
Stuck(x) ==
    {s \in SUBSET {"rx", "tx"} :
        s # {} /\ ("rx" \in s => x.host.rx = "on") /\ ("tx" \in s => x.host.tx = "on")}

(* A CMP device has no clock to lock to before its connections exist.      *)
Stages(p) ==
    IF p = "dice"
    THEN <<"claim", "prepare", "playback", "capture", "prepareRx", "prepareTx", "clockLock",
           "programRx", "programTx", "startRx", "startTx", "confirm">>
    ELSE IF p = "avc"
    THEN <<"claim", "prepare", "playback", "capture", "prepareRx", "prepareTx", "clockLock",
           "startRx", "programRx", "startTx", "programTx", "confirm">>
    ELSE <<"claim", "prepare", "playback", "capture", "prepareRx", "prepareTx",
           "programRx", "programTx", "startRx", "startTx", "confirm">>

DeviceStages == {"prepare", "clockLock", "programRx", "programTx", "confirm"}

(* What a stage that succeeds does to the host and to the device.          *)
StageEffect(x, g, clk) ==
    CASE g = "claim" -> [x EXCEPT !.host.claimed = TRUE, !.host.reserved = {}]
      [] g \in {"playback", "capture"} ->
            [x EXCEPT !.host.reserved = @ \cup {g}, !.host.gen = x.route.epoch]
      [] g = "prepareRx" -> [x EXCEPT !.host.rx = IF @ = "off" THEN "ready" ELSE @]
      [] g = "prepareTx" -> [x EXCEPT !.host.tx = IF @ = "off" THEN "ready" ELSE @]
      [] g = "startRx" -> [x EXCEPT !.host.rx = "on"]
      [] g = "startTx" -> [x EXCEPT !.host.tx = "on"]
      [] g = "prepare" -> [x EXCEPT !.device = clk]
      [] OTHER -> x

(* What it needs: a claimed transport for the reservations, a configured   *)
(* context that is not already running, a device that can be reached.      *)
StageCanSucceed(x, g) ==
    /\ g \in {"playback", "capture"} => x.host.claimed
    /\ g = "startRx" => x.host.rx = "ready"
    /\ g = "startTx" => x.host.tx = "ready"
    /\ g \in DeviceStages => x.route.live

(* A failed reservation lets go of every reservation.                      *)
StageFailed(x, g) ==
    IF g \in {"playback", "capture"} THEN [x EXCEPT !.host.reserved = {}] ELSE x

(* The session after the stage: progress flag, phase, clock, lifecycle.    *)
StageFlag(g) ==
    CASE g = "claim" -> {"claimed"}
      [] g = "prepare" -> {"prepared"}
      [] g \in {"playback", "capture"} -> {g}
      [] g = "programRx" -> {"rxProgrammed"}
      [] g = "programTx" -> {"txArmed"}
      [] g = "startRx" -> {"rx"}
      [] g = "startTx" -> {"tx"}
      [] g = "confirm" -> {"running"}
      [] OTHER -> {}

StageSession(s, g, clk) ==
    LET t == [s EXCEPT !.flags = @ \cup StageFlag(g),
                       !.applied = IF g \in {"prepare", "confirm"} THEN clk ELSE @]
    IN  IF g = "confirm"
        THEN [t EXCEPT !.kind = "Running", !.phase = "Running", !.failure = "none"]
        ELSE t

(* The steps of a stop after the session says Stopping.                    *)
StopSteps(p) ==
    IF p = "avc" THEN <<"disconnectPlayback", "stopTx", "disconnectCapture", "stopRx", "all">>
    ELSE <<"all", "device">>

-----------------------------------------------------------------------------
(* A calling thread: pc, the operation, the local session copy s, the      *)
(* start's restart id, route and clock, stage counter k, the lifecycle it  *)
(* enters, what follows a stop (after), a status, the clock request the    *)
(* body is serving (cur) and the caller's own token (tok).                 *)

Idling == [pc |-> "idle", op |-> "none", s |-> DuplexRestartSession, id |-> 0, route |-> 0,
           clk |-> 0, k |-> 0, kind |-> "Starting", after |-> "none", st |-> "ok",
           refused |-> FALSE, cur |-> NoRequest, tok |-> 0]

(* A thread between TryAcquireGuid and ReleaseGuid.                        *)
InBody(t) == t.pc \notin {"idle", "entry", "wait", "exit", "await"}

Init ==
    /\ profile \in Profiles
    /\ coord = [active |-> FALSE, lost |-> FALSE, teardown |-> FALSE]
    /\ gate = [active |-> FALSE, stop |-> FALSE, lost |-> FALSE]
    /\ session = NoSession
    /\ nextId = 1
    /\ broker = [pending |-> NoRequest, done |-> {}, next |-> 1, picked |-> 0]
    /\ host = HostOff
    /\ device = Default
    /\ route = [live |-> TRUE, epoch |-> 1, nub |-> TRUE]
    /\ recovery = [busy |-> FALSE, queue |-> <<>>]
    /\ removal = [pc |-> "idle", wasActive |-> FALSE, left |-> {}]
    /\ th = [c \in Callers |-> Idling]
    /\ budget = MaxEvents

Goto(x, c, t) == [x EXCEPT !.th[c] = t]
At(x, c, pc) == [x EXCEPT !.th[c].pc = pc]
Spend(x) == [x EXCEPT !.budget = @ - 1]

-----------------------------------------------------------------------------
(* Entering the coordinator.                                               *)

(* AudioCoordinator::StartStreaming up to the call of the duplex           *)
(* coordinator; a start while active is acknowledged and changes nothing.  *)
StartIO ==
    /\ th["io"].pc = "idle" /\ budget > 0 /\ route.nub
    /\ ~coord.lost /\ ~coord.active
    /\ Become(Goto([Spend(Now) EXCEPT !.coord.active = TRUE], "io",
                   [Idling EXCEPT !.pc = "entry", !.op = "start"]))

(* AudioCoordinator::StopStreaming, likewise.                              *)
StopIO ==
    /\ th["io"].pc = "idle" /\ budget > 0 /\ route.nub
    /\ ~coord.lost
    /\ Become(Goto(Spend(Now), "io", [Idling EXCEPT !.pc = "entry", !.op = "stop"]))

(* StartStreaming, StopStreaming and RecoverStreaming before their wait.   *)
Enter(c) ==
    /\ th[c].pc = "entry"
    /\ Become(IF coord.teardown \/ (th[c].op # "stop" /\ IsStopRequested(Now))
              THEN Goto(Now, c, [th[c] EXCEPT !.pc = "exit", !.st = "aborted"])
              ELSE IF th[c].op = "stop"
              THEN FailPending([At(Now, c, "wait") EXCEPT !.gate.stop = TRUE])
              ELSE At(Now, c, "wait"))

TryAcquireGuid(c) ==
    /\ th[c].pc = "wait" /\ ~gate.active
    /\ Become([At(Now, c, "body") EXCEPT !.gate.active = TRUE])

(* The polling loop ends without the gate: teardown, or 15 seconds.        *)
GiveUpWaiting(c) ==
    /\ th[c].pc = "wait" /\ gate.active
    /\ coord.teardown \/ budget > 0
    /\ LET x == Goto([Now EXCEPT !.gate.stop = @ /\ th[c].op # "stop"], c,
                     [th[c] EXCEPT !.pc = "exit", !.st = "timeout"])
       IN  Become(IF coord.teardown THEN x ELSE Spend(x))

(* RequestClockConfig: one locked section decides between launching the    *)
(* loop and queueing behind the running operation.                         *)
RequestClockConfig(clk) ==
    /\ th["clock"].pc = "idle" /\ budget > 0 /\ route.nub
    /\ ~coord.teardown /\ ~gate.stop
    /\ LET req == [tok |-> broker.next, clk |-> clk]
           x == [Spend(Now) EXCEPT !.broker.next = @ + 1]
           t == [Idling EXCEPT !.op = "clock", !.tok = req.tok]
       IN  Become(IF gate.active
                  THEN QueuePending(Goto(x, "clock", [t EXCEPT !.pc = "await"]), req)
                  ELSE [Goto(x, "clock", [t EXCEPT !.pc = "top", !.cur = req])
                           EXCEPT !.gate.active = TRUE])

(* The caller polls for its completion; teardown and 15 seconds end it.    *)
AwaitClock ==
    /\ th["clock"].pc = "await"
    /\ LET mine == {d \in broker.done : d.tok = th["clock"].tok}
           x == Goto(Now, "clock", Idling)
       IN  \/ mine # {} /\ Become([x EXCEPT !.broker.done = @ \ mine])
           \/ mine = {} /\ coord.teardown /\ Become(x)
           \/ mine = {} /\ ~coord.teardown /\ budget > 0 /\ Become(Spend(x))

-----------------------------------------------------------------------------
(* The end of an operation body with status st.                            *)

(* A clock request that was served is completed and the queue looked at    *)
(* again; a stop or a teardown aborts it and whatever is still queued.  How *)
(* it ended is not how the start that served it ends: that has succeeded.  *)
Aborting(x, t) == IsStopRequested(x) \/ (x.coord.teardown /\ t.op = "clock")

(* The locals of the body are gone.                                        *)
Leave(x, c, pc, st) ==
    LET t == x.th[c]
    IN  Goto(x, c, [Idling EXCEPT !.pc = pc, !.op = t.op, !.st = st, !.refused = t.refused,
                                  !.tok = t.tok])

FinishRequest(x, c, st) ==
    LET t == x.th[c]
    IN  IF Aborting(x, t)
        THEN FailPending(Complete(Leave(x, c, "release", "ok"), t.cur.tok, "aborted"))
        ELSE Complete(Leave(x, c, "loop", "ok"), t.cur.tok, st)

Finish(x, c, st) ==
    LET t == x.th[c]
        y == Leave(x, c, "release", st)
    IN  IF t.cur # NoRequest THEN FinishRequest(x, c, st)
        ELSE IF t.op = "start" /\ st = "ok" /\ ~IsStopRequested(x) THEN Leave(x, c, "loop", st)
        ELSE IF t.op = "start" THEN FailPending(y)
        ELSE IF t.op = "stop" THEN [FailPending(y) EXCEPT !.gate.stop = FALSE]
        ELSE y

(* TryConsumePendingClockRequest after a start or an applied request.      *)
ConsumeNext(c) ==
    /\ th[c].pc = "loop"
    /\ Become(IF broker.pending = NoRequest THEN At(Now, c, "release")
              ELSE LET x == Goto(ConsumePending(Now), c, [th[c] EXCEPT !.pc = "apply",
                                                                      !.cur = broker.pending])
                   IN  IF Aborting(Now, th[c]) THEN Finish(x, c, "aborted") ELSE x)

ReleaseGuid(c) ==
    /\ th[c].pc = "release"
    /\ Become([At(Now, c, IF th[c].op = "clock" THEN "await" ELSE "exit")
                 EXCEPT !.gate.active = FALSE])

(* The caller of the coordinator acts on the status: AudioCoordinator for  *)
(* StartIO and StopIO, FinishRecovery for a recovery.                      *)
Exit(c) ==
    /\ th[c].pc = "exit"
    /\ LET x == Goto(Now, c, Idling)
       IN  Become(IF \/ th[c].op = "start" /\ th[c].st # "ok"
                     \/ th[c].op = "stop" /\ th[c].st = "ok"
                  THEN [x EXCEPT !.coord.active = FALSE]
                  ELSE IF th[c].op = "recover" THEN [x EXCEPT !.recovery.busy = FALSE]
                  ELSE x)

-----------------------------------------------------------------------------
(* The operation bodies.                                                   *)

(* RequireDuplexRecord: a live node id and a published protocol.           *)
HasRecord(x) == x.route.live /\ x.route.nub

(* pending, desired, applied, default: the clock a start runs at.          *)
StartClock(s) ==
    IF s.pending # 0 THEN s.pending
    ELSE IF s.desired # 0 THEN s.desired
    ELSE IF s.applied # 0 THEN s.applied ELSE Default

(* ClassifyRestartReason and RestartStateForStartReason.                   *)
StartKind(s, clk) ==
    IF HasRestartIntent(s) /\ s.desired \in {0, clk} /\ s.phase = "Failed"
    THEN "Recovering" ELSE "Starting"

RunStartStreaming(x, c) ==
    LET s == LoadSession(x)
        clk == StartClock(s)
    IN  IF x.coord.teardown THEN Finish(x, c, "aborted")
        ELSE IF ~HasRecord(x) THEN Finish(x, c, "notready")
        ELSE Goto(x, c, [x.th[c] EXCEPT !.pc = "begin", !.s = s, !.clk = clk,
                                        !.kind = StartKind(s, clk)])

RunStopStreaming(x, c) ==
    LET s == LoadSession(x)
    IN  IF x.coord.teardown THEN Finish(x, c, "aborted")
        ELSE IF /\ x.session # NoSession /\ ~HasAnyRestartState(s)
                /\ s.phase = "Idle" /\ s.kind = "Idle" THEN Finish(x, c, "ok")
        ELSE IF HasRecord(x)
        THEN Goto(x, c, [x.th[c] EXCEPT !.pc = "stop", !.s = s, !.after = "done"])
        ELSE Finish(StoreSession(x, [s EXCEPT !.phase = "Idle", !.flags = {}, !.failure = "none"]),
                    c, "nodevice")

(* EvaluateRecoveryPolicy.                                                 *)
RecoveryPolicy(x, s) ==
    LET footprint == HasRestartIntent(s) \/ HasAnyRestartState(s)
        engaged == s.kind \in {"Starting", "Running", "Recovering"}
    IN  IF IsStopRequested(x) \/ s.kind \in {"Stopping", "ApplyingIdleClock"} THEN "suppress"
        ELSE IF ~HasRecord(x)
        THEN IF engaged \/ s.kind = "Failed" \/ footprint THEN "fail" ELSE "ignore"
        ELSE IF s.kind = "Failed"
        THEN IF s.failure = "retryable" THEN "restart" ELSE "fail"
        ELSE IF engaged \/ footprint THEN "restart" ELSE "ignore"

RunRecoveryStreaming(x, c) ==
    LET y == FailPending(x)
        s == LoadSession(y)
        t == [x.th[c] EXCEPT !.s = s, !.kind = "Recovering", !.after = "restart",
                             !.clk = IF s.desired # 0 THEN s.desired
                                     ELSE IF s.applied # 0 THEN s.applied ELSE Default]
        z == StoreSession(y, s)
    IN  IF IsStopRequested(x) THEN Finish(x, c, "aborted")
        ELSE IF x.coord.teardown THEN Finish(y, c, "aborted")
        ELSE IF RecoveryPolicy(y, s) = "suppress" THEN Finish(z, c, "aborted")
        ELSE IF RecoveryPolicy(y, s) = "ignore" THEN Finish(z, c, "unsupported")
        ELSE IF RecoveryPolicy(y, s) = "fail"
        THEN Finish(StoreSession(y, EnterFailed(IF HasRecord(y) THEN s
                                                ELSE [s EXCEPT !.failure = "terminal"])), c, "error")
        ELSE Goto(z, c, [t EXCEPT !.pc = IF HasAnyRestartState(s) \/ s.phase = "Running"
                                         THEN "stop" ELSE "begin"])

Body(c) ==
    /\ th[c].pc = "body"
    /\ Become(IF th[c].op = "start" THEN RunStartStreaming(Now, c)
              ELSE IF th[c].op = "stop" THEN RunStopStreaming(Now, c)
              ELSE RunRecoveryStreaming(Now, c))

(* The top of RunClockRequestLoop, and ApplyClockRequest: a session with   *)
(* any footprint is stopped and restarted, an idle one gets the rate set.  *)
ApplyClockRequest(c) ==
    /\ th[c].pc \in {"top", "apply"}
    /\ LET s == LoadSession(Now)
           t == [th[c] EXCEPT !.s = s, !.clk = th[c].cur.clk, !.after = "restart"]
       IN  Become(IF IsStopRequested(Now) \/ coord.teardown THEN Finish(Now, c, "aborted")
                  ELSE IF ~HasRecord(Now) THEN Finish(Now, c, "notready")
                  ELSE Goto(Now, c, [t EXCEPT !.pc =
                          IF HasAnyRestartState(s) \/ s.phase = "Running"
                             \/ s.kind \in {"Running", "Recovering", "Failed"}
                          THEN "stop" ELSE "idleBegin"]))

AllocateRestartId(x) == [x EXCEPT !.nextId = @ + 1]

(* ApplyIdleClock: record the attempt, set the rate, check, store.         *)
IdleBegin(c) ==
    /\ th[c].pc = "idleBegin"
    /\ Become(IF coord.teardown \/ ~route.live
              THEN Finish(Now, c, IF coord.teardown THEN "aborted" ELSE "notready")
              ELSE LET s == [EnterIdle(th[c].s) EXCEPT !.id = nextId, !.route = route.epoch,
                                !.kind = "ApplyingIdleClock", !.phase = "Busy"]
                   IN  StoreSession(Goto(AllocateRestartId(Now), c,
                          [th[c] EXCEPT !.pc = "idleDo", !.s = s, !.id = nextId,
                                        !.route = route.epoch]), s))

IdleApply(c) ==
    /\ th[c].pc = "idleDo"
    /\ \/ route.live /\ Become([At(Now, c, "idleCheck") EXCEPT !.device = th[c].clk])
       \/ /\ budget > 0 \/ ~route.live
          /\ LET x == IF route.live THEN Spend(Now) ELSE Now
             IN  Become(Finish(StoreSession(x, EnterFailed(RecordFailure(th[c].s, "timeout"))),
                               c, "timeout"))

(* The stop latches, the stored session's id and route, the live route.    *)
IsRestartEpochCurrent(x, id, rt) ==
    /\ ~IsStopRequested(x)
    /\ x.session # NoSession /\ x.session.id = id /\ x.session.route = rt
    /\ x.route.live /\ x.route.epoch = rt

IdleCheck(c) ==
    /\ th[c].pc = "idleCheck"
    /\ LET s == [EnterIdle(th[c].s) EXCEPT !.failure = "none"]
       IN  Become(IF IsRestartEpochCurrent(Now, th[c].id, th[c].route)
                  THEN [Finish(StoreSession(Now, [s EXCEPT !.applied = th[c].clk]), c, "ok")
                          EXCEPT !.broker.picked = th[c].clk]
                  ELSE Finish(StoreSession(Now, s), c, "aborted"))

-----------------------------------------------------------------------------
(* DuplexStartTransaction::Run.                                            *)

(* The session fields every outcome of this start carries.                 *)
Stamp(s, t) == [s EXCEPT !.id = t.id, !.route = t.route, !.desired = t.clk]

FinalizeFailure(x, c, st) ==
    Finish(StoreSession(x, EnterFailed(RecordFailure(Stamp(x.th[c].s, x.th[c]), st))), c, st)

(* Take the route, then wait for the stream geometry.                      *)
Begin(c) ==
    /\ th[c].pc = "begin"
    /\ Become(IF coord.teardown THEN Finish(Now, c, "aborted")
              ELSE IF ~route.live THEN Finish(Now, c, "notready")
              ELSE Goto(Now, c, [th[c] EXCEPT !.pc = "allocate", !.route = route.epoch]))

(* Mutant: the restart id is not used up.                                  *)
Allocate_SameId(c) ==
    /\ th[c].pc = "allocate"
    /\ LET t == [th[c] EXCEPT !.id = nextId, !.pc = "do", !.k = 1]
           x == Goto(Now, c, t)
           s == [EnterIdle(Stamp(t.s, t)) EXCEPT !.kind = t.kind, !.phase = "Busy"]
       IN  Become(IF route.nub
                  THEN StoreSession(Goto(x, c, [t EXCEPT !.s = s]), s)
                  ELSE FinalizeFailure(x, c, "notready"))

(* AllocateRestartId; no direct-audio binding once the nub is gone; then   *)
(* the session is reset and stored as starting.                            *)
Allocate(c) ==
    /\ th[c].pc = "allocate"
    /\ LET t == [th[c] EXCEPT !.id = nextId, !.pc = "do", !.k = 1]
           x == Goto([AllocateRestartId(Now) EXCEPT !.broker.picked = 0], c, t)
           s == [EnterIdle(Stamp(t.s, t)) EXCEPT !.kind = t.kind, !.phase = "Busy"]
       IN  Become(IF route.nub
                  THEN StoreSession(Goto(x, c, [t EXCEPT !.s = s]), s)
                  ELSE FinalizeFailure(x, c, "notready"))

Stage(c) == Stages(profile)[th[c].k]

(* Give up if the service is going down; else do the stage, or fail in it. *)
DoStage(c) ==
    /\ th[c].pc = "do"
    /\ \/ coord.teardown /\ Become(Finish(Now, c, "aborted"))
       \/ /\ ~coord.teardown /\ StageCanSucceed(Now, Stage(c))
          /\ Become(At(StageEffect(Now, Stage(c), th[c].clk), c, "check"))
       \/ /\ ~coord.teardown /\ Stage(c) # "claim"
          /\ ~StageCanSucceed(Now, Stage(c)) \/ budget > 0
          /\ \E st \in {"timeout", "error"} :
                LET x == StageFailed(IF StageCanSucceed(Now, Stage(c)) THEN Spend(Now) ELSE Now,
                                     Stage(c))
                IN  Become(Goto(x, c, [th[c] EXCEPT !.pc = "rollback", !.after = "fail",
                                                    !.st = st]))

(* The epoch check behind every stage but the claim, and the progress that *)
(* is stored at once when it holds.                                        *)
CheckStage(c) ==
    /\ th[c].pc = "check"
    /\ LET s == StageSession(th[c].s, Stage(c), th[c].clk)
           x == StoreSession(Goto(Now, c, [th[c] EXCEPT !.s = s]), s)
       IN  Become(IF Stage(c) # "claim" /\ ~IsRestartEpochCurrent(Now, th[c].id, th[c].route)
                  THEN Goto(Now, c, [th[c] EXCEPT !.pc = "rollback", !.after = "invalid",
                                                  !.st = "aborted"])
                  ELSE IF th[c].k = Len(Stages(profile)) THEN Finish(x, c, "ok")
                  ELSE Goto(x, c, [th[c] EXCEPT !.pc = "do", !.s = s, !.k = @ + 1]))

(* BreakBothConnections, then the stop.  A teardown skips the rollback.    *)
Rollback(c) ==
    /\ th[c].pc = "rollback"
    /\ Become(IF th[c].st = "aborted" /\ coord.teardown THEN Finish(Now, c, "aborted")
              ELSE At(Now, c, "stop"))

(* What follows a stop whose result is st and left the session s.          *)
AfterStop(x, c, s, st) ==
    LET t == x.th[c]
        y == Goto(x, c, [t EXCEPT !.s = s])
    IN  IF t.after = "fail" THEN FinalizeFailure(y, c, t.st)
        ELSE IF t.after = "invalid"
        THEN IF st # "ok" THEN FinalizeFailure(y, c, st)
             ELSE Finish(StoreSession(y, [EnterIdle(Stamp(s, t)) EXCEPT !.failure = "none"]),
                         c, "aborted")
        ELSE IF t.after # "restart" \/ st # "ok" THEN Finish(y, c, st)
        ELSE IF x.coord.teardown \/ (t.op = "recover" /\ IsStopRequested(x))
        THEN Finish(y, c, "aborted")
        ELSE Goto(y, c, [t EXCEPT !.s = s, !.pc = "begin", !.after = "none", !.k = 0])

(* DuplexStartTransaction::Stop: announce it, ...                          *)
StopBegin(c) ==
    /\ th[c].pc = "stop"
    /\ LET s == [th[c].s EXCEPT !.phase = "Stopping", !.kind = "Stopping"]
       IN  Become(IF coord.teardown THEN AfterStop(Now, c, th[c].s, "aborted")
                  ELSE IF th[c].s.kind # "Stopping"
                            /\ ~CanTransitionLifecycle(th[c].s.kind, "Stopping")
                  THEN AfterStop(Now, c, [th[c].s EXCEPT !.phase = "Stopping"], "error")
                  ELSE StoreSession(Goto(Now, c, [th[c] EXCEPT !.pc = "halt", !.k = 1, !.s = s,
                                       !.st = IF th[c].after = "fail" THEN @ ELSE "ok"]), s))

(* ... the host and the device step by step, the first failure kept, ...   *)
HaltOne(x, step, stuck) ==
    CASE step = "all" -> StopAll(x, stuck)
      [] step = "stopTx" -> [x EXCEPT !.host.tx = IF stuck = {} /\ @ = "on" THEN "ready" ELSE @]
      [] step = "stopRx" -> [x EXCEPT !.host.rx = IF stuck = {} /\ @ = "on" THEN "ready" ELSE @]
      [] OTHER -> x

(* Mutant: the status of the host is dropped.                              *)
StopEnd_Quietly(x, c, refused) ==
    LET s == [EnterIdle(x.th[c].s) EXCEPT !.failure = "none"]
    IN  AfterStop(StoreSession(x, s), c, s, "ok")

(* ... and the terminal state: Idle when everything stopped, else Failed.  *)
StopEnd(x, c, refused) ==
    LET s == IF refused THEN EnterFailed(RecordFailure(x.th[c].s, "timeout"))
             ELSE [EnterIdle(x.th[c].s) EXCEPT !.failure = "none"]
    IN  AfterStop(StoreSession(x, s), c, s, IF refused THEN "timeout" ELSE "ok")

HaltStep(c) ==
    /\ th[c].pc = "halt"
    /\ \E ok \in BOOLEAN, stuck \in {{}} \cup Stuck(Now) :
          LET step == StopSteps(profile)[th[c].k]
              onHost == step \in {"all", "stopTx", "stopRx"}
              can == IF onHost THEN TRUE ELSE route.live
              refused == th[c].refused \/ (~ok /\ (onHost \/ step = "device"))
              h == HaltOne(Now, step, stuck)
              x == IF ok \/ ~can THEN h ELSE Spend(h)
          IN  /\ ok => can
              /\ stuck # {} <=> ~ok /\ onHost
              /\ ~ok => IF onHost THEN MayRefuse(Now) ELSE ~can \/ budget > 0
              /\ Become(IF ~ok /\ step = "device" /\ coord.teardown
                        THEN AfterStop(x, c, th[c].s, "aborted")
                        ELSE IF th[c].k = Len(StopSteps(profile))
                        THEN StopEnd(Goto(x, c, [th[c] EXCEPT !.refused = FALSE]), c, refused)
                        ELSE Goto(x, c, [th[c] EXCEPT !.k = @ + 1, !.refused = refused]))

-----------------------------------------------------------------------------
(* The backends' recovery queues.                                          *)

(* A recovery block is queued unless one is outstanding (recoveringGuids_, *)
(* until FinishRecovery) or the service goes down; the DICE backend also   *)
(* refuses while a stop is requested.  A fault remembers the session that  *)
(* raised it; a rebind is 0.                                               *)
QueueRecovery(x, fault) ==
    IF x.coord.teardown \/ x.recovery.busy \/ (profile = "dice" /\ IsStopRequested(x)) THEN x
    ELSE [x EXCEPT !.recovery.busy = TRUE, !.recovery.queue = Append(@, fault)]

(* The receive consumer reports lost timing to the active session.         *)
TimingLoss ==
    /\ host.rx = "on" /\ host.claimed /\ ~coord.teardown /\ ~coord.lost
    /\ budget > 0
    /\ ~IsOperationInFlight(Now) /\ session # NoSession
    /\ profile # "dice" => IsStreaming(Now)
    /\ Become(QueueRecovery(Spend(Now), session.id))

(* The controller reports cycleInconsistent to the active device; only the *)
(* DICE backend recovers from it, whatever the host's contexts do.         *)
CycleInconsistent ==
    /\ profile = "dice" /\ coord.active /\ budget > 0
    /\ ~IsOperationInFlight(Now) /\ session # NoSession
    /\ Become(QueueRecovery(Spend(Now), session.id))

(* A block that runs too late.  DICE: cancelled meanwhile, and for a fault *)
(* also an operation in flight or another session.  AV/C: the service goes *)
(* down, and for a fault a session that no longer streams.                 *)
StaleRecovery(x, fault) ==
    \/ x.coord.teardown
    \/ profile = "dice" /\ IsStopRequested(x)
    \/ profile = "dice" /\ fault # 0
          /\ (IsOperationInFlight(x) \/ x.session = NoSession \/ x.session.id # fault)
    \/ profile # "dice" /\ fault # 0 /\ ~IsStreaming(x)

(* The block runs: dropped when stale, and for a fault also when the clock *)
(* or the received cadence turns out healthy.                              *)
RunRecoveryBlock ==
    /\ th["recovery"].pc = "idle" /\ recovery.queue # <<>>
    /\ LET fault == Head(recovery.queue)
           x == [Now EXCEPT !.recovery.queue = Tail(@)]
       IN  \/ /\ StaleRecovery(Now, fault) \/ fault # 0
              /\ Become([x EXCEPT !.recovery.busy = FALSE])
           \/ /\ ~StaleRecovery(Now, fault)
              /\ Become(Goto(x, "recovery", [Idling EXCEPT !.pc = "entry", !.op = "recover"]))

-----------------------------------------------------------------------------
(* The discovery thread and the service.                                   *)

(* InvalidateLiveMappingsForBusReset.                                      *)
BusReset ==
    /\ budget > 0 /\ route.live
    /\ Become([Spend(Now) EXCEPT !.route.live = FALSE, !.route.epoch = @ + 1])

(* The scan found the device again: OnDeviceResumed, which asks for a      *)
(* rebind when the session streams.                                        *)
DeviceResumed ==
    /\ ~route.live /\ removal.pc = "idle" /\ route.nub /\ ~coord.lost
    /\ LET x == [Now EXCEPT !.route.live = TRUE, !.gate.lost = FALSE, !.coord.lost = FALSE]
       IN  Become(IF IsStreaming(x) THEN QueueRecovery(x, 0) ELSE x)

(* The device is back after a removal: OnDeviceAdded publishes it again.   *)
DeviceAdded ==
    /\ ~route.live /\ removal.pc = "idle" /\ ~route.nub /\ ~coord.teardown /\ budget > 0
    /\ Become([Spend(Now) EXCEPT !.route.live = TRUE, !.route.nub = TRUE, !.gate.lost = FALSE,
                          !.coord.lost = FALSE])

(* OnDeviceRemoved: latch and forget the active stream; cancel; stop the   *)
(* host transport if it was ours, reservations of the old generation being *)
(* dropped, not released; unpublish; retire the session.  A scan of some   *)
(* other node alone, which a ROM read by hand is, also misses the device,  *)
(* whose route is then still live.                                         *)
DeviceLost ==
    /\ removal.pc = "idle" /\ ~coord.lost /\ ~coord.teardown
    /\ route.live => budget > 0
    /\ Become([(IF route.live THEN Spend(Now) ELSE Now) EXCEPT
                  !.coord.lost = TRUE, !.coord.active = FALSE,
                  !.removal.pc = "cancel", !.removal.wasActive = coord.active])

CancelRemoteDevice ==
    /\ removal.pc = "cancel"
    /\ Become(FailPending([Now EXCEPT !.gate.lost = TRUE, !.recovery.busy = FALSE,
                 !.removal.pc = IF removal.wasActive THEN "host" ELSE "clear"]))

StopHostTransport ==
    /\ removal.pc = "host"
    /\ \/ Become([StopAll(Now, {}) EXCEPT !.removal.pc = "clear"])
       \/ /\ MayRefuse(Now)
          /\ \E stuck \in Stuck(Now) :
                Become([StopAll(Spend(Now), stuck) EXCEPT !.removal.pc = "clear"])

(* What the removal did not wait for: an operation that still runs, whose   *)
(* gate ClearSession frees under it, and a host that is not stopped (the    *)
(* stop was refused, or the stream was not the active one).                 *)
LeftBehind ==
    {l \in {"operation", "host"} :
        IF l = "operation" THEN \E c \in Callers : InBody(th[c]) ELSE host # HostOff}

(* With the session gone the registry retires the device: its route never  *)
(* becomes current again.                                                  *)
ClearSession ==
    /\ removal.pc = "clear"
    /\ Become([Now EXCEPT !.route = [live |-> FALSE, epoch |-> route.epoch + 1, nub |-> FALSE],
                          !.session = NoSession,
                          !.broker.pending = NoRequest, !.broker.done = {}, !.broker.picked = 0,
                          !.gate.active = FALSE, !.gate.stop = FALSE,
                          !.removal = [pc |-> "idle", wasActive |-> FALSE,
                                       left |-> removal.left \cup LeftBehind]])

(* BeginTeardown: raise the flag, drain the recovery queue, stop the host. *)
BeginTeardown ==
    /\ ~coord.teardown /\ removal.pc = "idle" /\ budget > 0
    /\ Become([Spend(Now) EXCEPT !.coord.teardown = TRUE, !.removal.pc = "drain"])

TeardownHost ==
    /\ removal.pc = "drain" /\ recovery.queue = <<>> /\ th["recovery"].pc = "idle"
    /\ \/ Become([StopAll(Now, {}) EXCEPT !.coord.active = FALSE, !.removal.pc = "down"])
       \/ /\ MayRefuse(Now)
          /\ \E stuck \in Stuck(Now) :
                Become([StopAll(Spend(Now), stuck) EXCEPT !.coord.active = FALSE,
                                                          !.removal.pc = "down"])

-----------------------------------------------------------------------------
(* A thread's own step: everything but its waits for somebody else.        *)
Step(c) ==
    \/ Enter(c) \/ TryAcquireGuid(c) \/ Body(c) \/ ConsumeNext(c) \/ ApplyClockRequest(c)
    \/ IdleBegin(c) \/ IdleApply(c) \/ IdleCheck(c)
    \/ Begin(c) \/ Allocate(c) \/ DoStage(c) \/ CheckStage(c) \/ Rollback(c)
    \/ StopBegin(c) \/ HaltStep(c) \/ ReleaseGuid(c) \/ Exit(c)

Discovery ==
    \/ BusReset \/ DeviceResumed \/ DeviceAdded \/ DeviceLost
    \/ CancelRemoteDevice \/ StopHostTransport \/ ClearSession

Next ==
    \/ StartIO \/ StopIO \/ (\E clk \in Rates : RequestClockConfig(clk)) \/ AwaitClock
    \/ \E c \in Callers : Step(c) \/ GiveUpWaiting(c)
    \/ TimingLoss \/ CycleInconsistent \/ RunRecoveryBlock
    \/ Discovery
    \/ BeginTeardown \/ TeardownHost

Spec == Init /\ [][Next]_vars

-----------------------------------------------------------------------------
(* Properties *)

(* Every piece of state has its type; the thread records are covered by    *)
(* what they store.                                                        *)
TypeOK ==
    /\ coord \in [active : BOOLEAN, lost : BOOLEAN, teardown : BOOLEAN]
    /\ gate \in [active : BOOLEAN, stop : BOOLEAN, lost : BOOLEAN]
    /\ session.kind \in Kinds \cup {"None"} /\ session.phase \in Phases
    /\ session.flags \subseteq HostFlags \cup DeviceFlags
    /\ {session.desired, session.applied, session.pending} \subseteq Rates \cup {0}
    /\ nextId \in Nat \ {0} /\ session.id < nextId
    /\ broker.pending.tok < broker.next /\ \A d \in broker.done : d.tok < broker.next
    /\ host \in [claimed : BOOLEAN, reserved : SUBSET {"playback", "capture"}, gen : Nat,
                 rx : {"off", "ready", "on"}, tx : {"off", "ready", "on"}]
    /\ device \in Rates /\ route.epoch \in Nat /\ budget \in Nat

Quiet == \A c \in Callers : ~InBody(th[c])

(* Nobody is working on the stream and nothing is queued that will.        *)
Settled ==
    /\ Quiet /\ th["io"].pc = "idle" /\ th["clock"].pc = "idle"
    /\ recovery.queue = <<>> /\ ~recovery.busy
    /\ removal.pc = "idle" /\ ~coord.teardown /\ ~coord.lost

(* A session the store reports as streaming (IsStreaming, on which resume, *)
(* timing loss and the user client act) tells the truth, however many      *)
(* failed stages, rollbacks, clock changes, recoveries and removals came   *)
(* before: the transport is claimed, both directions are reserved and both *)
(* contexts run; the applied clock is the rate the device runs at; and     *)
(* when the session's route is the current one its reservations were made  *)
(* in the current bus generation (DuplexIRMReservations: an allocation     *)
(* belongs to its generation).  It stops being so once a removal's         *)
(* ClearSession has freed the gate of an operation that was still running: *)
(* from then on two bodies can drive one host (section 5 of the README).   *)
RunningIsTrue ==
    Quiet /\ removal.pc = "idle" /\ ~coord.teardown /\ "operation" \notin removal.left
      /\ IsStreaming(Now) =>
        /\ host.rx = "on" /\ host.tx = "on"
        /\ host.claimed /\ host.reserved = {"playback", "capture"}
        /\ session.applied = device
        /\ session.route = route.epoch => host.gen = route.epoch

(* When StopStreaming is about to return success, no context runs, nothing *)
(* is reserved and the transport has no owner: also when it returned early *)
(* because the stored session was idle already.  A removal that went on    *)
(* with a host it could not stop, or under a running operation, is the     *)
(* exception, until a stop of the whole host has succeeded again.          *)
StopReleases ==
    \A c \in Callers :
        th[c].pc = "release" /\ th[c].op = "stop" /\ th[c].st = "ok"
          /\ ~coord.teardown /\ removal.left = {} => host = HostOff

(* DiceAudioBackend: bus-reset rebinds "must always rebind".  Once all is  *)
(* quiet and the device is back, a stream a client holds and that did not  *)
(* fail runs on the current route.                                         *)
(* Does not hold: see section 5 of the README.                            *)
RebindAlways ==
    Settled /\ coord.active /\ route.live /\ IsStreaming(Now) => session.route = route.epoch

(* "stop wins over everything": a recovery never restarts a session that   *)
(* it finds Idle because a stop completed.                                 *)
(* Does not hold: see section 5 of the README.                            *)
StopWins ==
    ~(th["recovery"].pc = "begin" /\ th["recovery"].after = "restart"
        /\ th["recovery"].s.kind = "Idle")

(* "Honor a clock the user selected before streaming began. A rate pick    *)
(* while idle runs the idle clock-apply path, which persists the rate into *)
(* desiredClock / appliedClock": the next start, once it has loaded the     *)
(* session the pick was stored in, runs at that rate or at a pending one.  *)
PickHonoured ==
    (/\ th["io"].pc = "begin" /\ th["io"].op = "start"
     /\ broker.picked # 0 /\ th["io"].s.applied = broker.picked) =>
        th["io"].clk \in {broker.picked, th["io"].s.pending}

=============================================================================
