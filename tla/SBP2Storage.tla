---------------------------- MODULE SBP2Storage ----------------------------
(***************************************************************************)
(* One SBP-2 target, from bus reset to SCSI task: LoginSession (login,     *)
(* reconnect and logout with their retries), SessionRegistry (the session  *)
(* of the target, the route it was created for), SBP2TargetBridge, and     *)
(* below them the command plane of SBP2Command and SCSITarget.             *)
(*                                                                         *)
(* Every action is one block of the driver's default queue: an interrupt,  *)
(* the completion of an asynchronous write, a status block written by the  *)
(* target, a timer, or a call of the adapter. Writes that are in flight at *)
(* a bus reset complete with the old generation, which the handlers        *)
(* compare, so the reset drops them. The session belongs to the bridge;    *)
(* the user client's polling calls are left out.                           *)
(***************************************************************************)
EXTENDS SBP2Command, FiniteSets

CONSTANTS MaxResets,       \* bus resets that the environment may cause
          MaxTasks,        \* tasks of the host bus adapter
          LoginRetryMax    \* kLoginRetryMax

ASSUME StorageAssumption ==
    /\ MaxResets \in Nat /\ MaxTasks \in Nat
    /\ LoginRetryMax \in Nat /\ WriteRetries \in Nat /\ ProbeBudget \in Nat \ {0}

VARIABLES session,      \* LoginSession: state, retry, timer, res, configured
          agent,        \* FetchAgent
          exec,         \* CommandExecutor
          bridge,       \* SBP2TargetBridge and the registry's record of its session, which
                        \* stands for its handle; silent: the session ended, and no edge
                        \* that says so was sent since, or the stop dropped it (history)
          gate,         \* TargetReadinessGate
          hub,          \* the last edge the adapter was told
          answered,     \* answers per host task
          wire,         \* completions and timers of the command plane still due
          writes,       \* management writes of the session in flight
          owed,         \* status blocks the target may still post
          discovered,   \* the scan of this generation: "no" (not done), "absent", "found"
          resets        \* bus resets so far

vars == <<session, agent, exec, bridge, gate, hub, answered, wire, writes, owed,
          discovered, resets>>

LoginState == {"Idle", "LoggingIn", "LoggedIn", "Reconnecting", "LoggingOut",
               "Suspended", "Failed"}

\* What the one management timer of the session will do.
SessionTimers == {"none", "loginTimeout", "loginRetry", "loginAfterReset",
                  "reconnectTimeout", "reconnect", "logoutTimeout"}

Hosts == 1 .. MaxTasks

Now == [session |-> session, agent |-> agent, exec |-> exec, bridge |-> bridge,
        gate |-> gate, hub |-> hub, answered |-> answered, wire |-> wire,
        writes |-> writes, owed |-> owed, discovered |-> discovered,
        resets |-> resets]

Become(x) ==
    /\ session' = x.session /\ agent' = x.agent /\ exec' = x.exec
    /\ bridge' = x.bridge /\ gate' = x.gate /\ hub' = x.hub
    /\ answered' = x.answered /\ wire' = x.wire /\ writes' = x.writes
    /\ owed' = x.owed /\ discovered' = x.discovered
    /\ resets' = x.resets

\* Outcomes of the calls a block makes: is a write of the command plane
\* accepted by the bus, is a management write, is an address range allocated?
Outcomes(writing, managing, allocating) ==
    [write : IF writing THEN BOOLEAN ELSE {TRUE}, mgmt : IF managing THEN BOOLEAN ELSE {TRUE},
     alloc : IF allocating THEN BOOLEAN ELSE {TRUE}]

SessionOutcomes == Outcomes(FALSE, TRUE, TRUE)
CommandOutcomes == Outcomes(TRUE, TRUE, FALSE)

NoSession == [state |-> "Idle", retry |-> 0, timer |-> "none", res |-> FALSE]

NoWrites == [login |-> 0, reconnect |-> 0, logout |-> 0]

NoWire == [orb |-> 0, cancelled |-> 0, reset |-> FALSE, mgmt |-> FALSE,
           dead |-> None, retry |-> {}]

FreshAgent == [bound |-> FALSE, out |-> None, timed |-> FALSE, active |-> None,
               inUse |-> FALSE, queue |-> <<>>, tries |-> 0, resetting |-> FALSE]

FreshExec == [cmd |-> None, cb |-> None, result |-> "none", mgmt |-> FALSE]

Init ==
    /\ session = NoSession /\ agent = FreshAgent /\ exec = FreshExec
    /\ bridge = [pending |-> <<>>, inFlight |-> FALSE, pump |-> FALSE, stopping |-> FALSE,
                 record |-> FALSE, current |-> FALSE, retiring |-> FALSE,
                 published |-> FALSE, edges |-> <<>>, silent |-> FALSE]
    /\ gate = [up |-> FALSE, active |-> FALSE, epoch |-> 0, attempts |-> 0, timer |-> FALSE]
    /\ hub = FALSE
    /\ answered = [i \in Hosts |-> 0]
    /\ wire = NoWire
    /\ writes = NoWrites
    /\ owed = {}
    /\ discovered = "no" /\ resets = 0
-----------------------------------------------------------------------------
(* LoginSession *)

SetState(x, st) == [x EXCEPT !.session.state = st]
Arm(x, t) == [x EXCEPT !.session.timer = t]
DeallocateResources(x) == [x EXCEPT !.session.res = FALSE]

\* A failure that the login callback is not told about.
FailSilently(x) == [SetState(x, "Failed") EXCEPT !.bridge.silent = TRUE]

\* The registry's login callback: the edge is dispatched to the bridge.
LoginCallback(x, up) ==
    IF x.bridge.record
      THEN [x EXCEPT !.bridge.edges = Append(@, up), !.bridge.silent = FALSE]
      ELSE x

\* A write to the management agent that is accepted: it will complete once,
\* and the target may post a status block for it.
Post(x, op) == [x EXCEPT !.writes[op] = @ + 1, !.owed = @ \cup {<<op>>}]

\* The session object is gone: nothing it started reaches anybody any more.
Forget(x) ==
    [x EXCEPT !.session = NoSession, !.agent = FreshAgent, !.wire = NoWire, !.owed = {},
              !.writes = NoWrites]

Login(x, o) ==
    LET y == [x EXCEPT !.session.res = TRUE]
    IN  IF x.session.state \in {"LoggingIn", "LoggedIn"} THEN x
        ELSE IF ~x.session.res /\ ~o.alloc THEN FailSilently(x)
        ELSE IF ~o.mgmt THEN FailSilently(y)
        ELSE Arm(Post(SetState(y, "LoggingIn"), "login"), "loginTimeout")

Logout(x, o) ==
    IF x.session.state \notin {"LoggedIn", "Suspended"} THEN x
    ELSE IF ~o.mgmt THEN Unbind(FailSilently(x))
    ELSE Arm(Post(Unbind(SetState(x, "LoggingOut")), "logout"), "logoutTimeout")

Reconnect(x, o) ==
    LET y == SetState([x EXCEPT !.session.res = TRUE], "Reconnecting")
    IN  IF x.session.state \notin {"Suspended", "LoggedIn"} THEN x
        ELSE IF ~x.session.res /\ ~o.alloc THEN FailSilently(x)
        ELSE IF o.mgmt THEN Post(y, "reconnect") ELSE Arm(y, "reconnectTimeout")

HandleBusReset(x) ==
    LET y == DeallocateResources(Unbind(Arm(x, "none")))
    IN  CASE x.session.state = "LoggingIn" ->
               Arm(SetState([y EXCEPT !.session.retry = 0], "Idle"), "loginAfterReset")
          [] x.session.state = "LoggedIn"     -> SetState(y, "Suspended")
          [] x.session.state = "Reconnecting" -> Arm(SetState(y, "Suspended"), "reconnect")
          [] x.session.state = "LoggingOut"   -> SetState(y, "Idle")
          [] x.session.state = "Failed"       -> DeallocateResources(x)
          [] OTHER                            -> x

\* One retry more than the limit.
LoginFailed_OffByOne(x, timer) ==
    IF x.session.retry <= LoginRetryMax
      THEN Arm([x EXCEPT !.session.retry = @ + 1], timer)
      ELSE LoginCallback(SetState(x, "Failed"), FALSE)

\* A login attempt that failed: once more after a delay, or give up.
LoginFailed(x, timer) ==
    IF x.session.retry < LoginRetryMax
      THEN Arm([x EXCEPT !.session.retry = @ + 1], timer)
      ELSE LoginCallback(SetState(x, "Failed"), FALSE)

OnLoginWriteComplete(x, ok) ==
    LET y == Arm(x, "none")
    IN  IF x.session.state # "LoggingIn" THEN x
        ELSE IF ok THEN Arm(y, "loginTimeout") ELSE LoginFailed(y, "loginRetry")

\* The timeout logs in again at once.
OnLoginTimeout(x, o) ==
    LET y == LoginFailed(x, "none")
    IN  IF x.session.state # "LoggingIn" THEN x
        ELSE IF y.session.state = "Failed" THEN y ELSE Login(SetState(y, "Idle"), o)

OnReconnectWriteComplete(x, ok) ==
    IF x.session.state # "Reconnecting" THEN x
    ELSE Arm(x, IF ok THEN "reconnectTimeout" ELSE "reconnect")

\* The fallback login starts under the clients of the lost session.
NotifySessionLost_Silent(x) == x

NotifySessionLost(x) == LoginCallback(x, FALSE)

\* A rejected or unanswered reconnect: the session is lost, log in anew.
LoseSession(x, o) == Login(SetState(NotifySessionLost(x), "Idle"), o)

\* The registry forgets the retired session and tells its observer, which the
\* bridge detached before it released the session.
LogoutDone(x) == [Forget(x) EXCEPT !.bridge.retiring = FALSE]

OnLogoutWriteComplete(x, ok) ==
    IF x.session.state # "LoggingOut" THEN x
    ELSE IF ok THEN Arm(x, "logoutTimeout") ELSE LogoutDone(Arm(x, "none"))

CompleteLogin(x, ok) ==
    IF ok THEN LoginCallback(Bind(SetState([x EXCEPT !.session.retry = 0], "LoggedIn")), TRUE)
          ELSE LoginFailed(x, "loginRetry")

CompleteReconnect(x, ok, o) ==
    IF ok THEN LoginCallback(Bind(SetState(x, "LoggedIn")), TRUE) ELSE LoseSession(x, o)

\* A status block is read by the state the session is in, whatever it is for.
\* c is the ORB it names and None for a management status.
OnStatusBlockRemoteWrite(x, c, reused, ok, dead, result, o) ==
    LET y == Arm(x, "none")
    IN  IF ~x.session.res THEN x
        ELSE CASE x.session.state = "LoggingIn"    -> CompleteLogin(y, ok)
               [] x.session.state = "Reconnecting" -> CompleteReconnect(y, ok, o)
               [] x.session.state = "LoggingOut"   -> LogoutDone(y)
               [] x.session.state = "LoggedIn" /\ c # None ->
                    OnStatusBlock(x, c, reused, dead, result, o)
               [] OTHER -> x

SessionTimer(x, o) ==
    LET y == Arm(x, "none")
        t == x.session.timer
    IN  CASE t = "loginTimeout"     -> OnLoginTimeout(y, o)
          [] t = "loginRetry"       -> Login(SetState(y, "Idle"), o)
          [] t = "loginAfterReset"  -> Login(y, o)
          [] t = "reconnect"        -> Reconnect(y, o)
          [] t = "reconnectTimeout" -> IF y.session.state = "Reconnecting" THEN LoseSession(y, o) ELSE y
          [] t = "logoutTimeout"    -> IF y.session.state = "LoggingOut" THEN LogoutDone(y) ELSE y
-----------------------------------------------------------------------------
(* SessionRegistry *)

\* The record of the bridge's session, if its route is still the current one.
RecordIsCurrent(x) == x.bridge.record /\ x.bridge.current

StartLogin(x, o) ==
    IF RecordIsCurrent(x) /\ x.session.state = "Idle" THEN Login(x, o) ELSE x

\* A session is created only for a device with a live route.
CreateSession(x) ==
    [Forget(x) EXCEPT !.bridge.record = TRUE, !.bridge.current = TRUE]

\* CommandExecutor::Cleanup, then the record goes, and its executor with it.
ReleaseRecord(x) ==
    [OnBusResetExecutor(x) EXCEPT !.bridge.record = FALSE, !.exec = FreshExec, !.wire = NoWire]

\* Only a session that is logged in, or was before the reset, says goodbye, and
\* lives on until it has.
ReleaseOwner(x, o) ==
    LET y == Logout(ReleaseRecord(x), o)
    IN  IF ~x.bridge.record THEN x
        ELSE IF y.session.state = "LoggingOut" THEN [y EXCEPT !.bridge.retiring = TRUE]
        ELSE Forget(ReleaseRecord(x))

RefreshTargets(x, o) ==
    IF x.bridge.record /\ x.session.state = "Suspended"
      THEN Reconnect([x EXCEPT !.bridge.current = TRUE], o)
      ELSE x
-----------------------------------------------------------------------------
(* SBP2TargetBridge *)

\* CreateSession refuses a device without a route or with a session that is
\* still logging out. It also refuses (~free) a unit that has gone or changed
\* its node since, and one that the user client has a session for. The handle
\* is then 0, whatever became of the session before.
OnUnitPublished(x, free, o) ==
    LET fresh(y) == IF y.discovered = "found" /\ ~y.bridge.retiring /\ free
                      THEN StartLogin(CreateSession(y), o) ELSE y
    IN  IF ~x.bridge.record THEN fresh(x)
        ELSE CASE x.session.state = "Idle"   -> StartLogin(x, o)
               [] x.session.state = "Failed" -> fresh(Forget(ReleaseRecord(x)))
               [] OTHER                      -> x

\* Without a session that takes commands every queued task fails; otherwise
\* those fail, k of them, whose buffers cannot be allocated, and the next one
\* is submitted.
Pump(x, k, o) ==
    LET y == [x EXCEPT !.bridge.pump = FALSE]
        z == FailFirst(y, k)
        t == Head(z.bridge.pending)
    IN  IF y.bridge.inFlight THEN y
        ELSE IF ~(RecordIsCurrent(y) /\ CanSubmitCommand(y)) THEN FailAll(y)
        ELSE IF z.bridge.pending = <<>> THEN z
        ELSE SubmitCommand([z EXCEPT !.bridge.pending = Tail(@), !.bridge.inFlight = TRUE], t, o)

\* The observer is detached, so an edge that is still queued is dropped.
Detached(x) ==
    Cancel([x EXCEPT !.bridge.stopping = TRUE, !.bridge.pump = FALSE, !.bridge.edges = <<>>,
                     !.bridge.published = FALSE,
                     !.bridge.silent = @ \/ (~x.bridge.record /\ x.bridge.edges # <<>>)])

\* The tasks that were never pumped are left in the queue.
Shutdown_NoDrain(x, o) ==
    [ReleaseOwner(Detached(x), o) EXCEPT !.hub = @ /\ ~x.bridge.record]

\* The adapter is told only if the bridge has a session.
Shutdown(x, o) ==
    [FailAll(ReleaseOwner(Detached(x), o)) EXCEPT !.hub = @ /\ ~x.bridge.record]

-----------------------------------------------------------------------------
(* The blocks of the queue *)

\* The reset edge: routes are invalidated, the session suspends, the command
\* in flight is aborted, and so is every write of the old generation. A
\* session that was released is not in the registry's map and is not told.
BusReset ==
    /\ resets < MaxResets
    /\ LET x == [Now EXCEPT !.resets = @ + 1, !.discovered = "no",
                            !.bridge.current = FALSE, !.owed = {}]
           y == IF bridge.record THEN OnBusResetExecutor(HandleBusReset(x)) ELSE x
       IN  Become([y EXCEPT !.writes = [login |-> 0, reconnect |-> 0,
                                        logout |-> IF bridge.record THEN 0 ELSE @.logout],
                            !.wire = [NoWire EXCEPT !.retry = y.wire.retry]])

\* The scan of this generation is over. The target is found, and its unit is
\* published again, or not.
Discovery ==
    /\ discovered = "no" /\ ~bridge.stopping
    /\ \E found \in BOOLEAN :
         LET x == [Now EXCEPT !.discovered = IF found THEN "found" ELSE "absent",
                              !.bridge.published = found]
         IN  \E y \in IF found THEN {RefreshTargets(x, o) : o \in SessionOutcomes} ELSE {x} : Become(y)

UnitPublished ==
    /\ bridge.published /\ ~bridge.stopping
    /\ \E free \in BOOLEAN :
       \E x \in {OnUnitPublished([Now EXCEPT !.bridge.published = FALSE], free, o) :
                   o \in SessionOutcomes} : Become(x)

LoginWrite ==
    /\ writes.login > 0
    /\ \E ok \in BOOLEAN : Become(OnLoginWriteComplete([Now EXCEPT !.writes.login = @ - 1], ok))

ReconnectWrite ==
    /\ writes.reconnect > 0
    /\ \E ok \in BOOLEAN :
         Become(OnReconnectWriteComplete([Now EXCEPT !.writes.reconnect = @ - 1], ok))

LogoutWrite ==
    /\ writes.logout > 0
    /\ \E ok \in BOOLEAN : Become(OnLogoutWriteComplete([Now EXCEPT !.writes.logout = @ - 1], ok))

SessionTimerFires ==
    /\ session.timer # "none"
    /\ \E x \in {SessionTimer(Now, o) : o \in SessionOutcomes} : Become(x)

\* The target posts the status of a management request.
ManagementStatus ==
    \E op \in owed \cap {<<"login">>, <<"reconnect">>, <<"logout">>} :
    \E ok \in BOOLEAN, o \in SessionOutcomes :
      Become(OnStatusBlockRemoteWrite([Now EXCEPT !.owed = @ \ {op}], None, FALSE, ok, FALSE,
                                      "ready", o))

\* The block with OnUnitPublished is queued by the scan that makes the route
\* current. Commands flow only on a current route, so their completions and
\* timers are queued, and run, after it.
UnitBlockHasRun == ~bridge.published

\* The target posts the status of a command it has fetched, dead or alive. A
\* task of the host fails if its data cannot be read from the buffer.
CommandStatus ==
    /\ UnitBlockHasRun
    /\ \E c \in {t \in owed : t[1] \in {"host", "probe"}} :
       \E reused \in {agent.out # c, FALSE}, dead \in BOOLEAN,
          result \in IF c[1] = "probe" THEN Results \ {"failed"} ELSE {"ready", "failed"} :
       \E x \in {OnStatusBlockRemoteWrite([Now EXCEPT !.owed = @ \ {c}], c, reused, TRUE, dead,
                                           result, o) : o \in CommandOutcomes} : Become(x)

OrbWrite ==
    /\ wire.orb > 0 /\ UnitBlockHasRun
    /\ \E x \in {OnFetchAgentWriteComplete([Now EXCEPT !.wire.orb = @ - 1], ok, o) :
                   ok \in BOOLEAN, o \in CommandOutcomes} : Become(x)

CancelledOrbWrite ==
    /\ wire.cancelled > 0
    /\ \E x \in {OnFetchAgentWriteComplete([Now EXCEPT !.wire.cancelled = @ - 1], FALSE, o) :
                   o \in CommandOutcomes} : Become(x)

OrbRetry ==
    \E c \in wire.retry :
    \E reused \in {agent.active # c, FALSE}, o \in CommandOutcomes :
      Become(RetryTimer(Now, c, reused, o))

OrbTimesOut ==
    /\ agent.timed /\ UnitBlockHasRun
    /\ \E x \in {OrbTimeout(Now, o) : o \in CommandOutcomes} : Become(x)

AgentReset == wire.reset /\ UnitBlockHasRun /\ Become(OnAgentResetComplete(Now))

Revive ==
    /\ wire.dead # None /\ UnitBlockHasRun
    /\ \E o \in Outcomes(FALSE, TRUE, FALSE) : Become(ReviveComplete(Now, o))

\* The write is acknowledged, which changes nothing, or fails.
TaskManagementWrite ==
    /\ wire.mgmt /\ exec.mgmt /\ UnitBlockHasRun
    /\ \E ok \in BOOLEAN : Become(IF ok THEN [Now EXCEPT !.wire.mgmt = FALSE]
                                        ELSE ManagementComplete(Now, TRUE))

TaskManagementStatus ==
    /\ <<"mgmt">> \in owed /\ exec.mgmt /\ UnitBlockHasRun
    /\ Become(ManagementComplete(Now, FALSE))

TaskManagementTimeout == exec.mgmt /\ UnitBlockHasRun /\ Become(ManagementComplete(Now, TRUE))

LoginEdge ==
    /\ bridge.edges # <<>>
    /\ Become(OnEdge([Now EXCEPT !.bridge.edges = Tail(@)], Head(bridge.edges)))

ProbeTimer == gate.timer /\ Become(GateTimer(Now))

PumpRuns ==
    /\ bridge.pump
    /\ \E x \in {Pump(Now, k, o) : k \in 0 .. Len(bridge.pending), o \in CommandOutcomes} : Become(x)

Pending == {t[2] : t \in {u \in ToSet(bridge.pending) : u[1] = "host"}}
InExecutor == IF exec.cb # None /\ exec.cb[1] = "host" THEN {exec.cb[2]} ELSE {}
Unborn == {i \in Hosts : answered[i] = 0 /\ i \notin Pending \cup InExecutor}

\* The adapter hands over its next task, also to a bridge that has stopped.
HostTask ==
    \E i \in Unborn : /\ \A j \in Unborn : i <= j
                      /\ Become(SubmitTask(Now, Host(i)))

Stop ==
    /\ ~bridge.stopping
    /\ \E x \in {Shutdown(Now, o) : o \in SessionOutcomes} : Become(x)

Environment == BusReset \/ HostTask \/ Stop

Queue ==
    \/ Discovery \/ UnitPublished
    \/ LoginWrite \/ ReconnectWrite \/ LogoutWrite \/ SessionTimerFires \/ ManagementStatus
    \/ CommandStatus \/ OrbWrite \/ CancelledOrbWrite \/ OrbRetry \/ OrbTimesOut
    \/ AgentReset \/ Revive
    \/ TaskManagementWrite \/ TaskManagementStatus \/ TaskManagementTimeout
    \/ LoginEdge \/ ProbeTimer \/ PumpRuns

Next == Environment \/ Queue

\* Timers fire, accepted writes complete and dispatched blocks run. What the
\* target does is its own affair: it may never post a status block.
Fairness ==
    /\ WF_vars(Discovery) /\ WF_vars(UnitPublished) /\ WF_vars(LoginWrite)
    /\ WF_vars(ReconnectWrite) /\ WF_vars(LogoutWrite) /\ WF_vars(SessionTimerFires)
    /\ WF_vars(OrbWrite) /\ WF_vars(CancelledOrbWrite) /\ WF_vars(OrbRetry)
    /\ WF_vars(OrbTimesOut) /\ WF_vars(AgentReset) /\ WF_vars(Revive)
    /\ WF_vars(TaskManagementTimeout) /\ WF_vars(LoginEdge) /\ WF_vars(ProbeTimer)
    /\ WF_vars(PumpRuns)

Spec == Init /\ [][Next]_vars /\ Fairness
-----------------------------------------------------------------------------
(* Properties *)

Commands == {Host(i) : i \in Hosts} \cup {Probe(e) : e \in 1 .. gate.epoch}

TypeOK ==
    /\ session \in [state : LoginState, retry : 0 .. LoginRetryMax, timer : SessionTimers,
                    res : BOOLEAN]
    /\ agent \in [bound : BOOLEAN, out : Commands \cup {None}, timed : BOOLEAN,
                  active : Commands \cup {None}, inUse : BOOLEAN, queue : Seq(Commands),
                  tries : 0 .. WriteRetries, resetting : BOOLEAN]
    /\ exec \in [cmd : Commands \cup {None}, cb : Commands \cup {None},
                 result : Results \cup {"none"}, mgmt : BOOLEAN]
    /\ gate.attempts \in 0 .. ProbeBudget /\ gate.epoch \in Nat
    /\ hub \in BOOLEAN /\ resets \in 0 .. MaxResets
    /\ wire.orb \in Nat /\ wire.cancelled \in Nat /\ wire.retry \subseteq Commands

\* SubmitTask promises one answer per task: an answered task is in neither the
\* bridge's queue nor the executor, a waiting task is in one of them, and the
\* one the bridge counts as in flight is the one whose callback the executor
\* still holds, whatever resets, timeouts and releases came between.
AnsweredOnce ==
    /\ \A i \in Hosts : answered[i] <= 1
    /\ \A i \in Pending \cup InExecutor : answered[i] = 0
    /\ Pending \cap InExecutor = {}
    /\ bridge.inFlight <=> exec.cb # None

\* The agent keeps a raw pointer to the ORB whose address it is writing, and
\* the executor frees that ORB when its status comes, which may be before the
\* write completes: the agent never writes for an ORB that is gone.
\* Does not hold: see section 5 of the README.
NoDanglingORB == agent.active # None => exec.cmd = agent.active

\* Commands flow only within a login: the agent is bound exactly while the
\* session is logged in, and no command outlives the login that carried it.
CommandsWithinLogin ==
    /\ agent.bound <=> session.state = "LoggedIn"
    /\ exec.cmd # None \/ exec.mgmt => session.state = "LoggedIn"

\* A lost session is reported before the fallback login (NotifySessionLost):
\* no login starts while the adapter still counts on the old one, unless the
\* edge that ends it is on its way. Only a session that could not allocate its
\* address ranges or send its login fails without an edge, and until the next
\* edge its successors log in unnoticed.
NoSilentRelogin ==
    [][ (session'.state = "LoggingIn" /\ session.state # "LoggingIn")
        => ~gate'.up \/ FALSE \in ToSet(bridge'.edges) \/ bridge'.silent ]_vars

\* A stopped bridge has answered every task it was given, and the adapter has
\* no target. It keeps one only if the bridge had no session left at the stop,
\* and the end of its last session had not been reported: it failed silently,
\* or the stop dropped the edge.
StopDrains ==
    bridge.stopping => /\ Pending \cup InExecutor = {}
                       /\ hub => bridge.silent /\ ~bridge.record

\* IsReady of the bridge means that commands can flow: once the target has been
\* found in this generation, a session that is logged in has a route that is current.
\* Does not hold: see section 5 of the README.
ReadyMeansUsable ==
    session.state = "LoggedIn" /\ discovered = "found" => bridge.current

\* Every task is answered.
\* Does not hold: see section 5 of the README.
TasksAnswered == \A i \in Hosts : (i \in Pending \cup InExecutor) ~> (answered[i] = 1)

\* A reconnect always comes to an end.
\* Does not hold: see section 5 of the README.
ReconnectSettles == session.state = "Reconnecting" ~> session.state # "Reconnecting"
=============================================================================
