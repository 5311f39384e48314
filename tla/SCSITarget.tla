----------------------------- MODULE SCSITarget -----------------------------
(***************************************************************************)
(* The SCSI side of an SBP-2 target: the queue of SCSI tasks that          *)
(* SBP2TargetBridge keeps for the host bus adapter, and the                *)
(* TargetReadinessGate that holds a login back from the adapter until the  *)
(* device answers TEST UNIT READY.                                         *)
(*                                                                         *)
(* All of this runs in blocks of one serial queue and the parts call each  *)
(* other synchronously, so a handler is an operator from a state x of the  *)
(* whole storage stack to the state after it. x is a record with a field   *)
(* for every variable of SBP2Storage; this module touches x.bridge, x.gate *)
(* and x.answered.                                                         *)
(***************************************************************************)
EXTENDS Integers, Sequences, SequencesExt

CONSTANT ProbeBudget    \* kProbeBudget: probes before the gate gives up

None == <<>>

Host(i)  == <<"host", i>>      \* a task of the host bus adapter
Probe(e) == <<"probe", e>>     \* a TEST UNIT READY of the gate's epoch e

\* What a finished task tells the gate: its transport failed, or the device
\* is up, has spent a unit attention, or is still warming up.
Results == {"failed", "ready", "attention", "warming"}

SchedulePump(x) == IF x.bridge.stopping THEN x ELSE [x EXCEPT !.bridge.pump = TRUE]

\* A stopping bridge answers at once. A probe that comes so late finds the
\* gate cancelled, so only a task of the host needs an answer here.
SubmitTask(x, t) ==
    IF x.bridge.stopping
      THEN IF t[1] = "host" THEN [x EXCEPT !.answered[t[2]] = @ + 1] ELSE x
      ELSE SchedulePump([x EXCEPT !.bridge.pending = Append(@, t)])

ProbeOnce(x) == SubmitTask([x EXCEPT !.gate.attempts = @ + 1], Probe(x.gate.epoch))

Finish(x) == [x EXCEPT !.gate.active = FALSE, !.gate.up = TRUE, !.hub = TRUE]

Cancel(x) == [x EXCEPT !.gate.epoch = @ + 1, !.gate.timer = FALSE, !.gate.active = FALSE]

OnProbeResult(x, epoch, result) ==
    IF epoch # x.gate.epoch \/ ~x.gate.active THEN x
    ELSE IF result = "ready" \/ x.gate.attempts >= ProbeBudget THEN Finish(x)
    ELSE IF result = "attention" THEN ProbeOnce(x)
    ELSE [x EXCEPT !.gate.timer = TRUE]

OnEdge(x, loggedIn) ==
    IF ~loggedIn THEN [Cancel(x) EXCEPT !.gate.up = FALSE, !.hub = FALSE]
    ELSE IF x.gate.up THEN [x EXCEPT !.hub = TRUE]
    ELSE IF x.gate.active THEN x
    ELSE ProbeOnce([x EXCEPT !.gate.active = TRUE, !.gate.attempts = 0, !.gate.epoch = @ + 1])

\* The gate's retry timer; a timer of an older epoch was cancelled with it.
GateTimer(x) == ProbeOnce([x EXCEPT !.gate.timer = FALSE])

\* The callback of one task.
TaskCallback(x, t, result) ==
    IF t[1] = "host"
      THEN [x EXCEPT !.answered[t[2]] = @ + 1]
      ELSE OnProbeResult(x, t[2], result)

\* The callback that Pump gives to the session: it frees the slot, answers
\* the task and has the next one pumped.
TaskDone(x, t, result) ==
    LET y == TaskCallback([x EXCEPT !.bridge.inFlight = FALSE], t, result)
    IN  IF y.bridge.pending = <<>> THEN y ELSE SchedulePump(y)

\* The first n queued tasks fail: each task of the host is answered, and a
\* probe of the gate's epoch ends the probing or has it tried again. Further
\* probes find the gate as the first one left it.
FailFirst(x, n) ==
    LET q == x.bridge.pending
        y == [x EXCEPT !.bridge.pending = SubSeq(q, n + 1, Len(q)),
                       !.answered = [i \in DOMAIN @ |->
                                        @[i] + Cardinality({k \in 1 .. n : q[k] = Host(i)})]]
    IN  IF \E k \in 1 .. n : q[k] = Probe(x.gate.epoch)
          THEN OnProbeResult(y, x.gate.epoch, "failed")
          ELSE y

FailAll(x) == FailFirst(x, Len(x.bridge.pending))
=============================================================================
