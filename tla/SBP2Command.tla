---------------------------- MODULE SBP2Command ----------------------------
(***************************************************************************)
(* The command plane of one SBP-2 session: CommandExecutor, which carries  *)
(* one SCSI command at a time, its task management ORB, and FetchAgent,    *)
(* which writes the address of a command ORB to the target's fetch agent   *)
(* and matches the status blocks that come back.                           *)
(*                                                                         *)
(* Like SCSITarget, handlers are operators on the state x of the stack. A  *)
(* command ORB is named by the task it carries. An operator takes from o   *)
(* the outcomes that the code does not choose: whether the bus accepts a   *)
(* write, and what the device answers to a probe.                          *)
(***************************************************************************)
EXTENDS SCSITarget

CONSTANT WriteRetries    \* FetchAgent::defaultWriteRetries_

\* wire counts the completions that are still due: of live ORB_POINTER
\* writes, of cancelled ones, of the agent reset and of the management write.
Clear(x) ==
    [x EXCEPT !.agent = [@ EXCEPT !.out = None, !.timed = FALSE, !.queue = <<>>,
                                  !.active = None, !.inUse = FALSE],
              !.wire = IF x.agent.inUse /\ x.wire.orb > 0
                         THEN [@ EXCEPT !.orb = x.wire.orb - 1, !.cancelled = x.wire.cancelled + 1]
                         ELSE @]

\* The tracking is dropped but the agent stays bound to the old login.
Unbind_ClearOnly(x) == Clear(x)

Unbind(x) == [Clear(x) EXCEPT !.agent.bound = FALSE]

Bind(x) == [Clear(x) EXCEPT !.agent.bound = TRUE]

NotifyResultCallback(x) ==
    IF x.exec.cb = None
      THEN x
      ELSE TaskDone([x EXCEPT !.exec.cb = None, !.exec.result = "none"], x.exec.cb,
                    IF x.exec.result = "none" THEN "failed" ELSE x.exec.result)

\* Frees the command's ORB and buffers; a task that a bus reset or a release
\* interrupts is answered with an aborted result.
FailActiveCommand(x) ==
    IF x.exec.cmd = None
      THEN x
      ELSE NotifyResultCallback([Clear(x) EXCEPT !.exec.cmd = None, !.exec.result = "failed"])

\* An ORB timeout or a failed write resets the logical unit first; the failed
\* result is held until that management ORB is done.
SubmitTaskManagement(x) == [x EXCEPT !.exec.mgmt = TRUE, !.wire.mgmt = TRUE,
                                     !.owed = @ \cup {<<"mgmt">>}]

CanSubmitTaskManagement(x) == x.session.state = "LoggedIn" /\ ~x.exec.mgmt

\* The completion callback of a command ORB. A command that is no longer the
\* executor's own is ignored.
OrbComplete(x, c, result, o) ==
    LET y == [x EXCEPT !.exec.cmd = None, !.exec.result = result]
    IN  IF x.exec.cmd # c THEN x
        ELSE IF result # "failed" THEN NotifyResultCallback(y)
        ELSE IF CanSubmitTaskManagement(y) /\ o.mgmt THEN SubmitTaskManagement(Clear(y))
        ELSE NotifyResultCallback(Clear(y))

\* The end of the management ORB, whichever of its write, its status block
\* and its timeout ends it. A failure asks for a bus reset, which may come at
\* any time as it is.
ManagementComplete(x, failed) ==
    LET y == [x EXCEPT !.exec.mgmt = FALSE, !.wire.mgmt = FALSE, !.owed = @ \ {<<"mgmt">>}]
    IN  NotifyResultCallback(IF failed THEN y ELSE Clear(FailActiveCommand(y)))

\* A result that waits for a management ORB is forgotten with that ORB.
OnBusResetExecutor_NoFlush(x) ==
    FailActiveCommand([x EXCEPT !.exec.mgmt = FALSE, !.wire.mgmt = FALSE])

OnBusResetExecutor(x) ==
    NotifyResultCallback(FailActiveCommand([x EXCEPT !.exec.mgmt = FALSE, !.wire.mgmt = FALSE]))

\* An ORB is queued once, when it is submitted.
Dequeue(q, c) ==
    IF \E k \in 1 .. Len(q) : q[k] = c
      THEN RemoveAt(q, CHOOSE k \in 1 .. Len(q) : q[k] = c)
      ELSE q

FailORB(x, c, o) ==
    IF c = None
      THEN x
      ELSE OrbComplete([x EXCEPT !.agent.out = IF @ = c THEN None ELSE @,
                                 !.agent.timed = @ /\ x.agent.out # c,
                                 !.agent.queue = Dequeue(@, c),
                                 !.agent.active = IF @ = c THEN None ELSE @],
                       c, "failed", o)

AppendImmediate(x, c, o) ==
    IF c = None \/ x.agent.inUse THEN x
    ELSE IF o.write THEN [x EXCEPT !.agent.active = c, !.agent.inUse = TRUE,
                                   !.wire.orb = @ + 1, !.owed = @ \cup {c}]
    ELSE FailORB([x EXCEPT !.agent.active = None], c, o)

Submit(x, c, o) ==
    LET y == [x EXCEPT !.agent.out = c, !.agent.timed = FALSE, !.agent.tries = WriteRetries]
    IN  IF y.agent.inUse THEN [y EXCEPT !.agent.queue = Append(@, c)]
                         ELSE AppendImmediate(y, c, o)

\* SubmitCommand: TRUE and the state after it when the executor takes it.
CanSubmitCommand(x) == x.session.state = "LoggedIn" /\ x.exec.cmd = None /\ x.agent.bound

SubmitCommand(x, t, o) ==
    Submit([x EXCEPT !.exec.cmd = t, !.exec.cb = t, !.exec.result = "none"], t, o)

ResetAgent(x, o) ==
    IF ~x.agent.bound \/ x.agent.resetting \/ ~o.write
      THEN x
      ELSE [x EXCEPT !.agent.resetting = TRUE, !.wire.reset = TRUE]

OnAgentResetComplete(x) == Clear([x EXCEPT !.agent.resetting = FALSE, !.wire.reset = FALSE])

\* When the tries are used up, every ORB the agent holds fails. All but the
\* executor's own are ignored there, and the agent's tracking is dropped.
OnFetchAgentWriteComplete(x, ok, o) ==
    LET y == [x EXCEPT !.agent.inUse = FALSE]
        a == x.agent.active
        z == [y EXCEPT !.agent.active = None,
                       !.agent.timed = @ \/ (a # None /\ a = x.agent.out)]
        failed == {a} \cup ToSet(y.agent.queue)
        mine   == IF y.exec.cmd \in failed THEN y.exec.cmd ELSE None
    IN  IF ~x.agent.bound THEN x
        ELSE IF ok /\ z.agent.queue = <<>> THEN z
        ELSE IF ok THEN AppendImmediate([z EXCEPT !.agent.queue = Tail(@)],
                                        Head(z.agent.queue), o)
        ELSE IF a = None THEN y
        ELSE IF x.agent.tries > 0
             THEN [y EXCEPT !.agent.tries = @ - 1, !.wire.retry = @ \cup {a}]
        ELSE ResetAgent(Clear(FailORB(y, mine, o)), o)

\* The retry timer of ORB c. The ORB in c's place may have got c's memory, and
\* then passes for it (reused).
RetryTimer(x, c, reused, o) ==
    LET y == [x EXCEPT !.wire.retry = @ \ {c}]
    IN  IF y.agent.active = c \/ (reused /\ y.agent.active # None)
          THEN AppendImmediate(y, y.agent.active, o)
          ELSE y

\* A status block for ORB c. ORB addresses are handed out first fit, so the
\* ORB of the next command may have the address of c (reused). A dead agent is
\* reset, and the command completes when that write does.
OnStatusBlock(x, c, reused, dead, result, o) ==
    LET hit == x.agent.out
        y   == [x EXCEPT !.agent.out = None, !.agent.timed = FALSE,
                         !.agent.active = IF @ = hit THEN None ELSE @]
    IN  IF hit = None \/ (hit # c /\ ~reused) THEN x
        ELSE IF dead /\ o.write THEN [y EXCEPT !.wire.dead = <<hit, result>>]
        ELSE OrbComplete(y, hit, result, o)

ReviveComplete(x, o) ==
    OrbComplete([x EXCEPT !.wire.dead = None], x.wire.dead[1], x.wire.dead[2], o)

OrbTimeout(x, o) == FailORB(x, x.agent.out, o)
=============================================================================
