------------------------- MODULE SBP2StorageProofs -------------------------
(***************************************************************************)
(* Proofs about SBP2Storage for any number of tasks of the adapter and of  *)
(* bus resets, and for every limit on the retries of logins, of ORB writes *)
(* and of probes.                                                          *)
(*                                                                         *)
(* The handlers are operators on the state x of the stack, and so are the  *)
(* parts of the invariant. n is the epoch of the readiness gate: no probe  *)
(* of a later epoch exists.                                                *)
(***************************************************************************)
EXTENDS SBP2Storage, FiniteSetTheorems, SequenceTheorems, TLAPS

-----------------------------------------------------------------------------
(* States of the stack *)

Tasks(n) == {Host(i) : i \in Hosts} \cup {Probe(e) : e \in 1 .. n}
Maybe(n) == Tasks(n) \cup {None}
Notices(n) == Tasks(n) \cup {<<"login">>, <<"reconnect">>, <<"logout">>, <<"mgmt">>}

Sessions == [state : LoginState, retry : 0 .. LoginRetryMax, timer : SessionTimers, res : BOOLEAN]
Agents(n) == [bound : BOOLEAN, out : Maybe(n), timed : BOOLEAN, active : Maybe(n),
              inUse : BOOLEAN, queue : Seq(Tasks(n)), tries : 0 .. WriteRetries,
              resetting : BOOLEAN]
Execs(n) == [cmd : Maybe(n), cb : Maybe(n), result : Results \cup {"none"}, mgmt : BOOLEAN]
Bridges(n) == [pending : Seq(Tasks(n)), inFlight : BOOLEAN, pump : BOOLEAN, stopping : BOOLEAN,
               record : BOOLEAN, current : BOOLEAN, retiring : BOOLEAN, published : BOOLEAN,
               edges : Seq(BOOLEAN), silent : BOOLEAN]
Gates(n) == [up : BOOLEAN, active : BOOLEAN, epoch : {n}, attempts : Nat, timer : BOOLEAN]
Wires(n) == [orb : Nat, cancelled : Nat, reset : BOOLEAN, mgmt : BOOLEAN,
             dead : (Tasks(n) \X Results) \cup {None}, retry : SUBSET Tasks(n)]
Writes == [login : Nat, reconnect : Nat, logout : Nat]

State(n) ==
    [session : Sessions, agent : Agents(n), exec : Execs(n), bridge : Bridges(n),
     gate : Gates(n), hub : BOOLEAN, answered : [Hosts -> Nat], wire : Wires(n),
     writes : Writes, owed : SUBSET Notices(n), discovered : {"no", "absent", "found"},
     resets : 0 .. MaxResets]

\* A task is not nothing, and tasks differ when their kinds or numbers do.
LEMMA TasksDiffer ==
    /\ \A n : \A t \in Tasks(n) : t # None
    /\ \A i, j : (Host(i) = Host(j) => i = j) /\ (Probe(i) = Probe(j) => i = j) /\ Host(i) # Probe(j)
    /\ \A i : Host(i)[1] = "host" /\ Host(i)[2] = i /\ Probe(i)[1] = "probe" /\ Probe(i)[2] = i
  BY DEF Tasks, None, Host, Probe

\* The parts of a state have their types.
LEMMA Parts ==
    ASSUME NEW n, NEW x \in State(n)
    PROVE  /\ x.session \in Sessions /\ x.agent \in Agents(n) /\ x.exec \in Execs(n)
           /\ x.bridge \in Bridges(n) /\ x.gate \in Gates(n) /\ x.hub \in BOOLEAN
           /\ x.answered \in [Hosts -> Nat] /\ x.wire \in Wires(n) /\ x.writes \in Writes
           /\ x.owed \in SUBSET Notices(n) /\ x.resets \in 0 .. MaxResets
  BY DEF State

-----------------------------------------------------------------------------
(* The tasks that were accepted and are not answered *)

Outstanding(x, t) ==
    x.exec.cb = t \/ \E k \in 1 .. Len(x.bridge.pending) : x.bridge.pending[k] = t

\* Each task is outstanding once, and not after its answer; the bridge knows
\* whether the executor has one.
Once(x) ==
    /\ \A i \in Hosts : x.answered[i] <= 1
    /\ \A i \in Hosts : Outstanding(x, Host(i)) => x.answered[i] = 0
    /\ \A k, l \in 1 .. Len(x.bridge.pending) : x.bridge.pending[k] = x.bridge.pending[l] => k = l
    /\ \A k \in 1 .. Len(x.bridge.pending) : x.bridge.pending[k] # x.exec.cb
    /\ x.bridge.inFlight <=> x.exec.cb # None

\* The gate waits for its timer or for a probe, not for both, and neither can
\* take it past its budget.
Probing(x) ==
    /\ x.gate.attempts <= ProbeBudget
    /\ x.gate.active \/ x.gate.timer => x.gate.epoch >= 1
    /\ x.gate.timer => /\ x.gate.active /\ x.gate.attempts < ProbeBudget
                       /\ ~Outstanding(x, Probe(x.gate.epoch))

Ledger(x) == Once(x) /\ Probing(x)

-----------------------------------------------------------------------------
(* Steps of the command plane *)

\* What the bridge and the registry know of the session is left alone.
SameSession(x, y) ==
    /\ y.session = x.session /\ y.writes = x.writes /\ y.discovered = x.discovered
    /\ y.resets = x.resets /\ y.agent.bound = x.agent.bound
    /\ y.bridge.stopping = x.bridge.stopping /\ y.bridge.record = x.bridge.record
    /\ y.bridge.current = x.bridge.current /\ y.bridge.retiring = x.bridge.retiring
    /\ y.bridge.published = x.bridge.published /\ y.bridge.edges = x.bridge.edges
    /\ y.bridge.silent = x.bridge.silent

\* A command plane in the state y has started nothing that x had not.
NothingNew(x, y) ==
    /\ y.exec.cmd = None \/ y.exec.cmd = x.exec.cmd
    /\ y.exec.cb = None \/ y.exec.cb = x.exec.cb
    /\ y.exec.mgmt => x.exec.mgmt \/ x.session.state = "LoggedIn"
    /\ y.gate.active => x.gate.active
    /\ y.gate.up => x.gate.up \/ x.gate.active
    /\ y.hub => x.hub \/ x.gate.active
    /\ x.gate.up => y.gate.up
    /\ y.hub => x.hub \/ y.gate.up
    /\ x.bridge.stopping => /\ y.bridge.pump => x.bridge.pump
                            /\ x.bridge.pending = <<>> => y.bridge.pending = <<>>

Carries(n, x, y) == y \in State(n) /\ Ledger(y) /\ SameSession(x, y) /\ NothingNew(x, y)

\* Such steps compose.
LEMMA CarriesCompose ==
    ASSUME NEW n, NEW x, NEW y, NEW z, Carries(n, x, y), Carries(n, y, z)
    PROVE  Carries(n, x, z)
  <1>1. SameSession(x, z)
    BY DEF Carries, SameSession
  <1>2. NothingNew(x, z)
    BY DEF Carries, SameSession, NothingNew
  <1>. QED BY <1>1, <1>2 DEF Carries

\* The ledger is a matter of the queue, the callback, the answers and the gate.
SameLedger(x, y) ==
    /\ y.bridge.pending = x.bridge.pending /\ y.bridge.inFlight = x.bridge.inFlight
    /\ y.exec.cb = x.exec.cb /\ y.answered = x.answered /\ y.gate = x.gate

\* Whoever leaves those alone keeps it.
LEMMA LedgerFrame ==
    ASSUME NEW x, NEW y, SameLedger(x, y), Ledger(x)
    PROVE  Ledger(y)
  BY DEF SameLedger, Ledger, Once, Probing, Outstanding

\* Its first half is none of the gate's business.
LEMMA OnceFrame ==
    ASSUME NEW x, NEW y, Once(x), y.bridge.pending = x.bridge.pending,
           y.bridge.inFlight = x.bridge.inFlight, y.exec.cb = x.exec.cb, y.answered = x.answered
    PROVE  Once(y)
  BY DEF Once, Outstanding

\* A step that only drops a command or tracks its ORB.
LEMMA CarriesPlain ==
    ASSUME NEW n, NEW x \in State(n), Ledger(x), NEW y \in State(n),
           y.session = x.session, y.writes = x.writes, y.discovered = x.discovered,
           y.resets = x.resets, y.bridge = x.bridge, y.gate = x.gate, y.hub = x.hub,
           y.answered = x.answered, y.agent.bound = x.agent.bound, y.exec.cb = x.exec.cb,
           y.exec.cmd = None \/ y.exec.cmd = x.exec.cmd,
           y.exec.mgmt => x.exec.mgmt \/ x.session.state = "LoggedIn"
    PROVE  Carries(n, x, y)
  <1>1. Ledger(y)
    BY LedgerFrame DEF SameLedger
  <1>2. SameSession(x, y) /\ NothingNew(x, y)
    BY DEF SameSession, NothingNew
  <1>. QED BY <1>1, <1>2 DEF Carries

-----------------------------------------------------------------------------
(* The fetch agent *)

\* What the agent tracks may be replaced.
LEMMA AgentTracks ==
    ASSUME NEW n, NEW a \in Agents(n), NEW out \in Maybe(n), NEW timed \in BOOLEAN,
           NEW queue \in Seq(Tasks(n)), NEW active \in Maybe(n), NEW inUse \in BOOLEAN
    PROVE  [a EXCEPT !.out = out, !.timed = timed, !.queue = queue, !.active = active,
                     !.inUse = inUse] \in Agents(n)
  BY DEF Agents

\* The completions that are due may be counted anew.
LEMMA WireCounts ==
    ASSUME NEW n, NEW w \in Wires(n), NEW i \in Nat, NEW j \in Nat
    PROVE  [w EXCEPT !.orb = i, !.cancelled = j] \in Wires(n)
  BY DEF Wires

\* Clear forgets the ORBs.
LEMMA ClearTyped ==
    ASSUME NEW n, NEW x \in State(n)
    PROVE  Clear(x) \in State(n)
  <1>. DEFINE a == [x.agent EXCEPT !.out = None, !.timed = FALSE, !.queue = <<>>,
                                   !.active = None, !.inUse = FALSE]
              v == [x.wire EXCEPT !.orb = x.wire.orb - 1, !.cancelled = x.wire.cancelled + 1]
              w == IF x.agent.inUse /\ x.wire.orb > 0 THEN v ELSE x.wire
  <1>0. x.agent \in Agents(n) /\ x.wire \in Wires(n)
    BY Parts
  <1>1. a \in Agents(n)
    <2>1. None \in Maybe(n) /\ <<>> \in Seq(Tasks(n))
      BY DEF Maybe
    <2>. QED BY <1>0, <2>1, AgentTracks
  <1>2. w \in Wires(n)
    <2>1. CASE x.wire.orb > 0
      <3>. DEFINE i == x.wire.orb - 1
                  j == x.wire.cancelled + 1
      <3>1. i \in Nat /\ j \in Nat
        BY <1>0, <2>1 DEF Wires
      <3>. HIDE DEF i, j
      <3>2. [x.wire EXCEPT !.orb = i, !.cancelled = j] \in Wires(n)
        BY <1>0, <3>1, WireCounts
      <3>. QED BY <1>0, <3>2 DEF i, j
    <2>. QED BY <1>0, <2>1
  <1>3. Clear(x) = [x EXCEPT !.agent = a, !.wire = w]
    <2>1. [x.wire EXCEPT !.orb = @ - 1, !.cancelled = @ + 1] = v
      BY <1>0 DEF Wires
    <2>. QED BY <2>1 DEF Clear, State
  <1>. HIDE DEF a, w
  <1>. QED BY <1>1, <1>2, <1>3 DEF State

\* It leaves the rest alone.
LEMMA ClearFrame ==
    ASSUME NEW n, NEW x \in State(n)
    PROVE  /\ Clear(x).session = x.session /\ Clear(x).exec = x.exec /\ Clear(x).bridge = x.bridge
           /\ Clear(x).gate = x.gate /\ Clear(x).hub = x.hub /\ Clear(x).answered = x.answered
           /\ Clear(x).writes = x.writes /\ Clear(x).discovered = x.discovered
           /\ Clear(x).resets = x.resets /\ Clear(x).agent.bound = x.agent.bound
           /\ Clear(x).owed = x.owed
  BY DEF State, Clear, Agents

\* It is a step of the command plane.
LEMMA ClearCarries ==
    ASSUME NEW n, NEW x \in State(n), Ledger(x)
    PROVE  Carries(n, x, Clear(x))
  BY ClearTyped, ClearFrame, CarriesPlain

\* Binding and unbinding also change the login that the agent serves.
Bound(x, b) == [Clear(x) EXCEPT !.agent.bound = b]

\* Nothing else does.
LEMMA BindFrame ==
    ASSUME NEW n, NEW x \in State(n), NEW b \in BOOLEAN, NEW y, y = Bound(x, b)
    PROVE  /\ y \in State(n) /\ y.agent.bound = b
           /\ y.session = x.session /\ y.exec = x.exec /\ y.bridge = x.bridge
           /\ y.gate = x.gate /\ y.hub = x.hub /\ y.answered = x.answered
           /\ y.writes = x.writes /\ y.discovered = x.discovered /\ y.resets = x.resets
  <1>. DEFINE c == Clear(x)
              a == [c.agent EXCEPT !.bound = b]
  <1>1. c \in State(n)
    BY ClearTyped
  <1>2. a \in Agents(n) /\ a.bound = b
    BY <1>1, Parts DEF Agents
  <1>3. y = [c EXCEPT !.agent = a]
    BY DEF Bound
  <1>. HIDE DEF a, c
  <1>4. y \in State(n) /\ y.agent = a
    BY <1>1, <1>2, <1>3 DEF State
  <1>5. /\ y.session = c.session /\ y.exec = c.exec /\ y.bridge = c.bridge
        /\ y.gate = c.gate /\ y.hub = c.hub /\ y.answered = c.answered
        /\ y.writes = c.writes /\ y.discovered = c.discovered /\ y.resets = c.resets
    BY <1>1, <1>3 DEF State
  <1>. QED BY <1>2, <1>4, <1>5, ClearFrame DEF c

-----------------------------------------------------------------------------
(* Answers *)

\* A pump is asked for unless the bridge stops.
LEMMA SchedulePumpFrame ==
    ASSUME NEW n, NEW x \in State(n), NEW y, y = SchedulePump(x)
    PROVE  /\ y \in State(n)
           /\ y.session = x.session /\ y.exec = x.exec /\ y.agent = x.agent
           /\ y.gate = x.gate /\ y.hub = x.hub /\ y.answered = x.answered
           /\ y.writes = x.writes /\ y.discovered = x.discovered /\ y.resets = x.resets
           /\ y.bridge.pending = x.bridge.pending /\ y.bridge.inFlight = x.bridge.inFlight
           /\ y.bridge.stopping = x.bridge.stopping /\ y.bridge.record = x.bridge.record
           /\ y.bridge.current = x.bridge.current /\ y.bridge.retiring = x.bridge.retiring
           /\ y.bridge.published = x.bridge.published /\ y.bridge.edges = x.bridge.edges
           /\ y.bridge.silent = x.bridge.silent
           /\ x.bridge.stopping => y.bridge.pump = x.bridge.pump
  BY DEF SchedulePump, State, Bridges

\* A step may do nothing.
LEMMA CarriesSelf ==
    ASSUME NEW n, NEW x \in State(n), Ledger(x)
    PROVE  Carries(n, x, x)
  BY DEF Carries, SameSession, NothingNew

\* Asking for a pump is a step of the command plane.
LEMMA SchedulePumpCarries ==
    ASSUME NEW n, NEW x \in State(n), Ledger(x)
    PROVE  Carries(n, x, SchedulePump(x))
  <1>. DEFINE y == SchedulePump(x)
  <1>1. /\ y \in State(n)
        /\ y.session = x.session /\ y.exec = x.exec /\ y.agent = x.agent
        /\ y.gate = x.gate /\ y.hub = x.hub /\ y.answered = x.answered
        /\ y.writes = x.writes /\ y.discovered = x.discovered /\ y.resets = x.resets
        /\ y.bridge.pending = x.bridge.pending /\ y.bridge.inFlight = x.bridge.inFlight
        /\ y.bridge.stopping = x.bridge.stopping /\ y.bridge.record = x.bridge.record
        /\ y.bridge.current = x.bridge.current /\ y.bridge.retiring = x.bridge.retiring
        /\ y.bridge.published = x.bridge.published /\ y.bridge.edges = x.bridge.edges
        /\ y.bridge.silent = x.bridge.silent
        /\ x.bridge.stopping => y.bridge.pump = x.bridge.pump
    BY SchedulePumpFrame
  <1>. HIDE DEF y
  <1>2. Ledger(y)
    BY <1>1, LedgerFrame DEF SameLedger
  <1>3. SameSession(x, y) /\ NothingNew(x, y)
    BY <1>1 DEF SameSession, NothingNew
  <1>. QED BY <1>1, <1>2, <1>3 DEF Carries, y

\* The gate may change as long as it starts nothing.
LEMMA GateCarries ==
    ASSUME NEW n, NEW x \in State(n), Once(x), NEW g \in Gates(n), NEW h \in BOOLEAN, NEW y,
           y = [x EXCEPT !.gate = g, !.hub = h],
           g.active => x.gate.active, g.up => x.gate.up \/ x.gate.active, h => x.hub \/ x.gate.active,
           x.gate.up => g.up, h => x.hub \/ g.up, g.attempts <= ProbeBudget, g.active \/ g.timer => n >= 1,
           g.timer => g.active /\ g.attempts < ProbeBudget /\ ~Outstanding(x, Probe(n))
    PROVE  Carries(n, x, y)
  <1>1. /\ y \in State(n) /\ y.gate = g /\ y.hub = h
        /\ y.session = x.session /\ y.exec = x.exec /\ y.agent = x.agent
        /\ y.bridge = x.bridge /\ y.answered = x.answered
        /\ y.writes = x.writes /\ y.discovered = x.discovered /\ y.resets = x.resets
    BY DEF State
  <1>2. Once(y) /\ \A t : Outstanding(y, t) <=> Outstanding(x, t)
    BY <1>1 DEF Once, Outstanding
  <1>3. g.epoch = n
    BY DEF Gates
  <1>4. Probing(y)
    BY <1>1, <1>2, <1>3 DEF Probing
  <1>5. SameSession(x, y)
    BY <1>1 DEF SameSession
  <1>6. NothingNew(x, y)
    <2>1. /\ y.gate.active => x.gate.active
          /\ y.gate.up => x.gate.up \/ x.gate.active
          /\ y.hub => x.hub \/ x.gate.active
          /\ x.gate.up => y.gate.up
          /\ y.hub => x.hub \/ y.gate.up
      BY <1>1
    <2>. QED BY <1>1, <2>1 DEF NothingNew
  <1>. QED BY <1>1, <1>2, <1>4, <1>5, <1>6 DEF Carries, Ledger

\* A task that is new to the bridge is queued.
LEMMA TaskQueued ==
    ASSUME NEW n \in Nat, NEW x \in State(n), Ledger(x), NEW t \in Tasks(n), ~Outstanding(x, t),
           t = Probe(n) => ~x.gate.timer, \A i \in Hosts : t = Host(i) => x.answered[i] = 0,
           ~x.bridge.stopping
    PROVE  Carries(n, x, SubmitTask(x, t))
  <1>. DEFINE q == x.bridge.pending
              p == Append(q, t)
              y == [x EXCEPT !.bridge.pending = p]
  <1>0. x.bridge \in Bridges(n) /\ q \in Seq(Tasks(n)) /\ t \in Tasks(n) /\ Len(q) \in Nat
    <2>1. x.bridge \in Bridges(n)
      BY Parts
    <2>2. q \in Seq(Tasks(n))
      BY <2>1 DEF Bridges
    <2>. QED BY <2>1, <2>2
  <1>1. SubmitTask(x, t) = SchedulePump(y)
    BY DEF SubmitTask
  <1>2. /\ p \in Seq(Tasks(n)) /\ Len(p) = Len(q) + 1 /\ p[Len(q) + 1] = t
        /\ \A k \in 1 .. Len(q) : p[k] = q[k]
    BY <1>0
  <1>3. y \in State(n)
    <2>. DEFINE b == [x.bridge EXCEPT !.pending = p]
    <2>. HIDE DEF p
    <2>1. b \in Bridges(n)
      BY <1>0, <1>2 DEF Bridges
    <2>2. y = [x EXCEPT !.bridge = b]
      OBVIOUS
    <2>. HIDE DEF b
    <2>. QED BY <2>1, <2>2 DEF State
  <1>4. /\ y.session = x.session /\ y.exec = x.exec /\ y.agent = x.agent
        /\ y.gate = x.gate /\ y.hub = x.hub /\ y.answered = x.answered
        /\ y.writes = x.writes /\ y.discovered = x.discovered /\ y.resets = x.resets
    BY DEF State
  <1>5. /\ y.bridge.pending = p /\ y.bridge.inFlight = x.bridge.inFlight
        /\ y.bridge.stopping = x.bridge.stopping /\ y.bridge.record = x.bridge.record
        /\ y.bridge.current = x.bridge.current /\ y.bridge.retiring = x.bridge.retiring
        /\ y.bridge.published = x.bridge.published /\ y.bridge.edges = x.bridge.edges
        /\ y.bridge.silent = x.bridge.silent
    <2>. HIDE DEF p
    <2>. QED BY <1>0 DEF State, Bridges
  <1>. HIDE DEF y, p, q
  <1>6. \A k \in 1 .. Len(p) : k \in 1 .. Len(q) \/ k = Len(q) + 1
    BY <1>0, <1>2
  <1>7. \A u : Outstanding(y, u) => Outstanding(x, u) \/ u = t
    BY <1>2, <1>4, <1>5, <1>6 DEF Outstanding, q
  <1>8. Once(y)
    <2>1. \A k \in 1 .. Len(q) : q[k] # t
      BY DEF Outstanding, q
    <2>2. x.exec.cb # t
      BY DEF Outstanding
    <2>3. \A k, l \in 1 .. Len(p) : p[k] = p[l] => k = l
      BY <1>2, <1>6, <2>1 DEF Ledger, Once, q
    <2>4. \A k \in 1 .. Len(p) : p[k] # y.exec.cb
      BY <1>2, <1>4, <1>6, <2>2 DEF Ledger, Once, q
    <2>5. \A i \in Hosts : Outstanding(y, Host(i)) => y.answered[i] = 0
      BY <1>4, <1>7, TasksDiffer DEF Ledger, Once
    <2>. QED BY <1>4, <1>5, <2>3, <2>4, <2>5 DEF Ledger, Once
  <1>9. Ledger(y)
    <2>1. x.gate.epoch = n
      <3>1. x.gate \in Gates(n)
        BY Parts
      <3>. QED BY <3>1 DEF Gates
    <2>2. Probing(y)
      BY <1>4, <1>7, <2>1 DEF Ledger, Probing
    <2>. QED BY <1>8, <2>2 DEF Ledger
  <1>10. Carries(n, x, y)
    BY <1>2, <1>3, <1>4, <1>5, <1>9 DEF Carries, SameSession, NothingNew
  <1>. QED BY <1>1, <1>3, <1>9, <1>10, SchedulePumpCarries, CarriesCompose

\* Another probe is queued, unless the bridge stops.
LEMMA ProbeQueued ==
    ASSUME NEW n \in Nat, n >= 1, NEW x \in State(n), Ledger(x), ~x.gate.timer,
           ~Outstanding(x, Probe(n))
    PROVE  Carries(n, x, SubmitTask(x, Probe(n)))
  <1>1. Probe(n) \in Tasks(n) /\ \A i \in Hosts : Probe(n) # Host(i)
    BY TasksDiffer DEF Tasks
  <1>2. CASE x.bridge.stopping
    BY <1>2, CarriesSelf, TasksDiffer DEF SubmitTask
  <1>3. CASE ~x.bridge.stopping
    BY <1>1, <1>3, TaskQueued
  <1>. QED BY <1>2, <1>3

\* The answer to a probe that is no longer outstanding: the gate opens, probes
\* again or waits for its timer.
LEMMA OnProbeResultCarries ==
    ASSUME NEW n \in Nat, NEW x \in State(n), Ledger(x), NEW e, NEW result,
           e = n => ~Outstanding(x, Probe(n)) /\ ~x.gate.timer
    PROVE  Carries(n, x, OnProbeResult(x, e, result))
  <1>0. /\ x.gate \in Gates(n) /\ x.gate.epoch = n /\ x.gate.attempts \in Nat /\ x.hub \in BOOLEAN
        /\ x.bridge \in Bridges(n) /\ Once(x) /\ Probing(x) /\ ProbeBudget \in Nat
    BY Parts, StorageAssumption DEF Gates, Ledger
  <1>1. CASE e # x.gate.epoch \/ ~x.gate.active
    BY <1>1, CarriesSelf DEF OnProbeResult
  <1>2. CASE ~(e # x.gate.epoch \/ ~x.gate.active)
    <2>0. n >= 1 /\ ~Outstanding(x, Probe(n)) /\ ~x.gate.timer /\ x.gate.active
      BY <1>0, <1>2 DEF Probing
    <2>1. CASE result = "ready" \/ x.gate.attempts >= ProbeBudget
      <3>. DEFINE g == [x.gate EXCEPT !.active = FALSE, !.up = TRUE]
      <3>1. OnProbeResult(x, e, result) = [x EXCEPT !.gate = g, !.hub = TRUE]
        BY <1>2, <2>1 DEF OnProbeResult, Finish
      <3>2. g \in Gates(n) /\ ~g.active /\ g.up /\ g.timer = x.gate.timer /\ g.attempts = x.gate.attempts
        BY <1>0 DEF Gates
      <3>. HIDE DEF g
      <3>. QED BY <1>0, <2>0, <3>1, <3>2, GateCarries DEF Probing
    <2>2. CASE ~(result = "ready" \/ x.gate.attempts >= ProbeBudget) /\ result = "attention"
      <3>. DEFINE a == x.gate.attempts + 1
                  g == [x.gate EXCEPT !.attempts = a]
                  y == [x EXCEPT !.gate = g, !.hub = x.hub]
      <3>1. a \in Nat /\ a <= ProbeBudget
        BY <1>0, <2>2
      <3>2. g \in Gates(n) /\ g.active = x.gate.active /\ g.up = x.gate.up /\ g.timer = x.gate.timer
            /\ g.attempts = a
        <4>. HIDE DEF a
        <4>. QED BY <1>0, <3>1 DEF Gates
      <3>3. Carries(n, x, y)
        <4>. HIDE DEF g
        <4>. QED BY <1>0, <2>0, <3>1, <3>2, GateCarries
      <3>4. [x EXCEPT !.gate.attempts = @ + 1] = y
        BY <1>0 DEF State
      <3>5. OnProbeResult(x, e, result) = SubmitTask(y, Probe(n))
        BY <1>0, <1>2, <2>2, <3>4 DEF OnProbeResult, ProbeOnce
      <3>6. y \in State(n) /\ Ledger(y) /\ ~y.gate.timer /\ ~Outstanding(y, Probe(n))
        <4>1. y \in State(n) /\ Ledger(y)
          BY <3>3 DEF Carries
        <4>2. y.gate = g /\ y.exec = x.exec /\ y.bridge = x.bridge
          <5>. HIDE DEF g
          <5>. QED BY <1>0, <3>2 DEF State
        <4>. HIDE DEF y, g
        <4>. QED BY <2>0, <3>2, <4>1, <4>2 DEF Outstanding
      <3>. HIDE DEF y
      <3>7. Carries(n, y, SubmitTask(y, Probe(n)))
        BY <2>0, <3>6, ProbeQueued
      <3>. QED BY <3>3, <3>5, <3>7, CarriesCompose
    <2>3. CASE ~(result = "ready" \/ x.gate.attempts >= ProbeBudget) /\ result # "attention"
      <3>. DEFINE g == [x.gate EXCEPT !.timer = TRUE]
      <3>1. OnProbeResult(x, e, result) = [x EXCEPT !.gate = g]
        BY <1>2, <2>3 DEF OnProbeResult
      <3>2. [x EXCEPT !.gate = g] = [x EXCEPT !.gate = g, !.hub = x.hub]
        <4>. HIDE DEF g
        <4>. QED BY DEF State
      <3>3. g \in Gates(n) /\ g.active = x.gate.active /\ g.up = x.gate.up
            /\ g.attempts = x.gate.attempts
        BY <1>0 DEF Gates
      <3>. DEFINE y == [x EXCEPT !.gate = g, !.hub = x.hub]
      <3>. HIDE DEF g
      <3>5. g.attempts < ProbeBudget /\ g.attempts <= ProbeBudget
        BY <1>0, <2>3, <3>3
      <3>4. Carries(n, x, y)
        BY <1>0, <2>0, <3>3, <3>5, GateCarries
      <3>. QED BY <3>1, <3>2, <3>4
    <2>. QED BY <2>1, <2>2, <2>3
  <1>. QED BY <1>1, <1>2

\* The executor gives its callback up.
GivenUp(x) == [x EXCEPT !.exec.cb = None, !.exec.result = "none", !.bridge.inFlight = FALSE]

\* The task is then not outstanding any more.
LEMMA GiveUp ==
    ASSUME NEW n, NEW x \in State(n), Ledger(x), x.exec.cb \in Tasks(n)
    PROVE  /\ Carries(n, x, GivenUp(x)) /\ GivenUp(x).exec.cb = None
           /\ ~Outstanding(GivenUp(x), x.exec.cb) /\ Outstanding(x, x.exec.cb)
           /\ GivenUp(x).answered = x.answered /\ GivenUp(x).gate = x.gate
  <1>. DEFINE t == x.exec.cb
              w == GivenUp(x)
              e == [x.exec EXCEPT !.cb = None, !.result = "none"]
              b == [x.bridge EXCEPT !.inFlight = FALSE]
  <1>0. x.exec \in Execs(n) /\ x.bridge \in Bridges(n)
    BY Parts
  <1>1. /\ e \in Execs(n) /\ e.cb = None /\ e.cmd = x.exec.cmd /\ e.mgmt = x.exec.mgmt
    <2>1. None \in Maybe(n)
      BY DEF Maybe
    <2>. QED BY <1>0, <2>1 DEF Execs
  <1>2. /\ b \in Bridges(n) /\ ~b.inFlight /\ b.pending = x.bridge.pending /\ b.pump = x.bridge.pump
        /\ b.stopping = x.bridge.stopping /\ b.record = x.bridge.record
        /\ b.current = x.bridge.current /\ b.retiring = x.bridge.retiring
        /\ b.published = x.bridge.published /\ b.edges = x.bridge.edges /\ b.silent = x.bridge.silent
    BY <1>0 DEF Bridges
  <1>3. w = [x EXCEPT !.exec = e, !.bridge = b]
    BY DEF State, GivenUp
  <1>. HIDE DEF e, b, w
  <1>4. /\ w \in State(n) /\ w.exec = e /\ w.bridge = b
        /\ w.session = x.session /\ w.agent = x.agent
        /\ w.gate = x.gate /\ w.hub = x.hub /\ w.answered = x.answered
        /\ w.writes = x.writes /\ w.discovered = x.discovered /\ w.resets = x.resets
    BY <1>1, <1>2, <1>3 DEF State
  <1>5. t # None
    BY TasksDiffer
  <1>6. \A u \in Tasks(n) : Outstanding(w, u) => Outstanding(x, u) /\ u # t
    <2>1. \A u \in Tasks(n) : u # None
      BY TasksDiffer
    <2>2. \A k \in 1 .. Len(x.bridge.pending) : x.bridge.pending[k] # t
      BY DEF Ledger, Once
    <2>. QED BY <1>1, <1>2, <1>4, <2>1, <2>2 DEF Outstanding
  <1>6a. \A u : Outstanding(w, u) => u = None \/ Outstanding(x, u)
    BY <1>1, <1>2, <1>4 DEF Outstanding
  <1>7. Once(w)
    <2>1. \A i \in Hosts : Outstanding(w, Host(i)) => w.answered[i] = 0
      BY <1>4, <1>6 DEF Ledger, Once, Tasks
    <2>2. \A k \in 1 .. Len(w.bridge.pending) : w.bridge.pending[k] # w.exec.cb
      <3>1. \A k \in 1 .. Len(x.bridge.pending) : x.bridge.pending[k] \in Tasks(n)
        BY <1>0 DEF Bridges
      <3>. QED BY <1>1, <1>2, <1>4, <3>1, TasksDiffer
    <2>3. w.bridge.inFlight <=> w.exec.cb # None
      BY <1>1, <1>2, <1>4
    <2>4. \A i \in Hosts : w.answered[i] <= 1
      BY <1>4 DEF Ledger, Once
    <2>5. \A k, l \in 1 .. Len(w.bridge.pending) :
            w.bridge.pending[k] = w.bridge.pending[l] => k = l
      BY <1>2, <1>4 DEF Ledger, Once
    <2>. QED BY <2>1, <2>2, <2>3, <2>4, <2>5 DEF Once
  <1>8. Probing(w)
    <2>1. \A e1 : Probe(e1) # None
      BY DEF Probe, None
    <2>. QED BY <1>4, <1>6a, <2>1 DEF Ledger, Probing
  <1>9. SameSession(x, w)
    BY <1>2, <1>4 DEF SameSession
  <1>10. NothingNew(x, w)
    BY <1>1, <1>2, <1>4 DEF NothingNew
  <1>11. Outstanding(x, t)
    BY DEF Outstanding
  <1>. QED BY <1>1, <1>4, <1>6, <1>7, <1>8, <1>9, <1>10, <1>11 DEF Carries, Ledger, w

\* A task of the host that is no longer outstanding is answered.
LEMMA AnswerHost ==
    ASSUME NEW n, NEW x \in State(n), Ledger(x), NEW i \in Hosts, x.answered[i] = 0,
           ~Outstanding(x, Host(i)), NEW y, y = [x EXCEPT !.answered[i] = @ + 1]
    PROVE  Carries(n, x, y) /\ y.exec = x.exec
  <1>0. x.answered \in [Hosts -> Nat]
    BY Parts
  <1>. DEFINE a == [x.answered EXCEPT ![i] = 1]
  <1>1. y = [x EXCEPT !.answered = a]
    BY <1>0 DEF State
  <1>2. a \in [Hosts -> Nat] /\ a[i] = 1 /\ \A j \in Hosts : j # i => a[j] = x.answered[j]
    BY <1>0
  <1>. HIDE DEF a
  <1>3. /\ y \in State(n) /\ y.answered = a
        /\ y.session = x.session /\ y.agent = x.agent /\ y.exec = x.exec /\ y.bridge = x.bridge
        /\ y.gate = x.gate /\ y.hub = x.hub
        /\ y.writes = x.writes /\ y.discovered = x.discovered /\ y.resets = x.resets
    BY <1>1, <1>2 DEF State
  <1>4. \A u : Outstanding(y, u) <=> Outstanding(x, u)
    BY <1>3 DEF Outstanding
  <1>5. /\ \A j \in Hosts : y.answered[j] <= 1
        /\ \A j \in Hosts : Outstanding(y, Host(j)) => y.answered[j] = 0
    <2>1. /\ \A j \in Hosts : x.answered[j] <= 1
          /\ \A j \in Hosts : Outstanding(x, Host(j)) => x.answered[j] = 0
      BY DEF Ledger, Once
    <2>. QED BY <1>2, <1>3, <1>4, <2>1
  <1>6. Once(y) /\ Probing(y)
    BY <1>3, <1>4, <1>5 DEF Ledger, Once, Probing
  <1>7. SameSession(x, y) /\ NothingNew(x, y)
    BY <1>3 DEF SameSession, NothingNew
  <1>. QED BY <1>3, <1>6, <1>7 DEF Carries, Ledger

\* The callback of a task that was just given up.
LEMMA TaskCallbackCarries ==
    ASSUME NEW n \in Nat, NEW x \in State(n), Ledger(x), NEW t \in Tasks(n), NEW result,
           ~Outstanding(x, t), \A i \in Hosts : t = Host(i) => x.answered[i] = 0,
           t = Probe(n) => ~x.gate.timer
    PROVE  Carries(n, x, TaskCallback(x, t, result))
  <1>1. CASE \E i \in Hosts : t = Host(i)
    <2>1. PICK i \in Hosts : t = Host(i)
      BY <1>1
    <2>2. TaskCallback(x, t, result) = [x EXCEPT !.answered[i] = @ + 1]
      BY <2>1, TasksDiffer DEF TaskCallback
    <2>. QED BY <2>1, <2>2, AnswerHost
  <1>2. CASE \E e \in 1 .. n : t = Probe(e)
    <2>1. PICK e \in 1 .. n : t = Probe(e)
      BY <1>2
    <2>2. TaskCallback(x, t, result) = OnProbeResult(x, e, result)
      BY <2>1, TasksDiffer DEF TaskCallback
    <2>3. e = n => ~Outstanding(x, Probe(n)) /\ ~x.gate.timer
      BY <2>1
    <2>. QED BY <2>2, <2>3, OnProbeResultCarries
  <1>. QED BY <1>1, <1>2 DEF Tasks

\* Any task that the executor holds is answered through its callback.
LEMMA NotifyResultCallbackCarries ==
    ASSUME NEW n \in Nat, NEW x \in State(n), Ledger(x)
    PROVE  /\ Carries(n, x, NotifyResultCallback(x))
           /\ NotifyResultCallback(x).exec.cb = None
  <1>1. CASE x.exec.cb = None
    BY <1>1, CarriesSelf DEF NotifyResultCallback
  <1>2. CASE x.exec.cb # None
    <2>. DEFINE t == x.exec.cb
                r == IF x.exec.result = "none" THEN "failed" ELSE x.exec.result
                w == GivenUp(x)
                y == TaskCallback(w, t, r)
    <2>1. t \in Tasks(n)
      <3>1. x.exec \in Execs(n)
        BY Parts
      <3>. QED BY <1>2, <3>1 DEF Execs, Maybe
    <2>2. NotifyResultCallback(x) = IF y.bridge.pending = <<>> THEN y ELSE SchedulePump(y)
      BY <1>2 DEF NotifyResultCallback, TaskDone, GivenUp
    <2>3. /\ Carries(n, x, w) /\ w.exec.cb = None /\ ~Outstanding(w, t)
          /\ w.answered = x.answered /\ w.gate = x.gate /\ Outstanding(x, t)
      BY <2>1, GiveUp
    <2>. HIDE DEF w
    <2>4. w \in State(n) /\ Ledger(w)
      BY <2>3 DEF Carries
    <2>5. \A i \in Hosts : t = Host(i) => w.answered[i] = 0
      BY <2>3 DEF Ledger, Once
    <2>6. t = Probe(n) => ~w.gate.timer
      <3>1. x.gate \in Gates(n)
        BY Parts
      <3>2. x.gate.epoch = n
        BY <3>1 DEF Gates
      <3>. QED BY <2>3, <3>2 DEF Ledger, Probing
    <2>. HIDE DEF t, r
    <2>7. Carries(n, w, y)
      BY <2>1, <2>3, <2>4, <2>5, <2>6, TaskCallbackCarries
    <2>8. Carries(n, x, y) /\ y \in State(n) /\ Ledger(y) /\ y.exec.cb = None
      BY <2>3, <2>7, CarriesCompose DEF Carries, NothingNew
    <2>. HIDE DEF y
    <2>9. Carries(n, y, SchedulePump(y)) /\ SchedulePump(y).exec.cb = None
      BY <2>8, SchedulePumpCarries DEF Carries, NothingNew
    <2>. QED BY <2>2, <2>8, <2>9, CarriesCompose
  <1>. QED BY <1>1, <1>2

\* How many of the first k entries of the queue q are the task t.
Count(q, k, t) == Cardinality({j \in 1 .. k : q[j] = t})

\* In a queue without duplicates there is one or none.
LEMMA CountsOne ==
    ASSUME NEW q, NEW k \in Nat, NEW t, \A i, j \in 1 .. k : q[i] = q[j] => i = j
    PROVE  Count(q, k, t) = IF \E j \in 1 .. k : q[j] = t THEN 1 ELSE 0
  <1>1. CASE \E j \in 1 .. k : q[j] = t
    <2>1. PICK j \in 1 .. k : q[j] = t
      BY <1>1
    <2>2. {i \in 1 .. k : q[i] = t} = {j}
      BY <2>1
    <2>3. Cardinality({j}) = 1
      BY FS_Singleton
    <2>. QED BY <1>1, <2>2, <2>3 DEF Count
  <1>2. CASE ~\E j \in 1 .. k : q[j] = t
    <2>1. {i \in 1 .. k : q[i] = t} = {}
      BY <1>2
    <2>. QED BY <1>2, <2>1, FS_EmptySet DEF Count
  <1>. QED BY <1>1, <1>2

\* The first k tasks leave the queue, and those of the host are answered.
Drained(x, k) ==
    [x EXCEPT !.bridge.pending = SubSeq(x.bridge.pending, k + 1, Len(x.bridge.pending)),
              !.answered = [i \in DOMAIN x.answered |->
                               x.answered[i] + Count(x.bridge.pending, k, Host(i))]]

\* They are not outstanding any more.
LEMMA DrainedCarries ==
    ASSUME NEW n, NEW x \in State(n), Ledger(x), NEW k \in 0 .. Len(x.bridge.pending)
    PROVE  /\ Carries(n, x, Drained(x, k)) /\ Drained(x, k).gate = x.gate
           /\ Drained(x, k).exec = x.exec
           /\ \A j \in 1 .. k : ~Outstanding(Drained(x, k), x.bridge.pending[j])
           /\ k = Len(x.bridge.pending) => Drained(x, k).bridge.pending = <<>>
           /\ Drained(x, k).bridge.pump = x.bridge.pump
           /\ Drained(x, k).bridge.inFlight = x.bridge.inFlight
           /\ \A u : Outstanding(Drained(x, k), u) => Outstanding(x, u)
           /\ Drained(x, k).hub = x.hub
  <1>. DEFINE q == x.bridge.pending
              p == SubSeq(q, k + 1, Len(q))
              a == [i \in DOMAIN x.answered |-> x.answered[i] + Count(q, k, Host(i))]
              b == [x.bridge EXCEPT !.pending = p]
              y == Drained(x, k)
  <1>0. x.bridge \in Bridges(n) /\ x.answered \in [Hosts -> Nat] /\ x.exec \in Execs(n)
    BY Parts
  <1>1. q \in Seq(Tasks(n)) /\ Len(q) \in Nat
    BY <1>0 DEF Bridges
  <1>2. /\ p \in Seq(Tasks(n)) /\ Len(p) = Len(q) - k /\ \A i \in 1 .. Len(p) : p[i] = q[k + i]
        /\ k = Len(q) => p = <<>>
    <2>1. \A i \in k + 1 .. Len(q) : q[i] \in Tasks(n)
      BY <1>1
    <2>2. k + 1 \in Int /\ Len(q) \in Int
      BY <1>1
    <2>3. /\ p \in Seq(Tasks(n))
          /\ Len(p) = IF k + 1 <= Len(q) THEN Len(q) - (k + 1) + 1 ELSE 0
          /\ \A i \in 1 .. Len(q) - (k + 1) + 1 : p[i] = q[k + 1 + i - 1]
      BY <2>1, <2>2, SubSeqProperties
    <2>4. Len(p) = Len(q) - k
      BY <1>1, <2>3
    <2>5. \A i \in 1 .. Len(p) : p[i] = q[k + i]
      BY <1>1, <2>3, <2>4
    <2>6. k = Len(q) => p = <<>>
      BY <2>3, <2>4
    <2>. QED BY <2>3, <2>4, <2>5, <2>6
  <1>. HIDE DEF p
  <1>3. \A i, j \in 1 .. Len(q) : q[i] = q[j] => i = j
    BY DEF Ledger, Once
  <1>4. \A i \in Hosts : Count(q, k, Host(i)) = IF \E j \in 1 .. k : q[j] = Host(i) THEN 1 ELSE 0
    <2>1. \A i, j \in 1 .. k : q[i] = q[j] => i = j
      BY <1>1, <1>3
    <2>2. k \in Nat
      BY <1>1
    <2>. QED BY <2>1, <2>2, CountsOne
  <1>5. \A i \in Hosts : (\E j \in 1 .. k : q[j] = Host(i)) => x.answered[i] = 0
    BY <1>1 DEF Ledger, Once, Outstanding
  <1>6. /\ a \in [Hosts -> Nat]
        /\ \A i \in Hosts : a[i] = IF \E j \in 1 .. k : q[j] = Host(i) THEN 1 ELSE x.answered[i]
    BY <1>0, <1>4, <1>5
  <1>. HIDE DEF a
  <1>7. /\ b \in Bridges(n) /\ b.inFlight = x.bridge.inFlight /\ b.pending = p /\ b.pump = x.bridge.pump
        /\ b.stopping = x.bridge.stopping /\ b.record = x.bridge.record
        /\ b.current = x.bridge.current /\ b.retiring = x.bridge.retiring
        /\ b.published = x.bridge.published /\ b.edges = x.bridge.edges /\ b.silent = x.bridge.silent
    BY <1>0, <1>2 DEF Bridges
  <1>8. y = [x EXCEPT !.bridge = b, !.answered = a]
    BY DEF State, Drained, a, p
  <1>. HIDE DEF b, y
  <1>9. /\ y \in State(n) /\ y.bridge = b /\ y.answered = a
        /\ y.session = x.session /\ y.agent = x.agent /\ y.exec = x.exec
        /\ y.gate = x.gate /\ y.hub = x.hub
        /\ y.writes = x.writes /\ y.discovered = x.discovered /\ y.resets = x.resets
    BY <1>6, <1>7, <1>8 DEF State
  <1>10. \A i \in 1 .. Len(p) : k + i \in 1 .. Len(q) /\ \A j \in 1 .. k : k + i # j
    BY <1>1, <1>2
  <1>11. \A u : Outstanding(y, u) => Outstanding(x, u)
    <2>1. \A i \in 1 .. Len(p) : k + i \in 1 .. Len(q) /\ p[i] = q[k + i]
      BY <1>2, <1>10
    <2>2. \A i \in 1 .. Len(p) : \E j \in 1 .. Len(q) : q[j] = p[i]
      BY <2>1
    <2>. QED BY <1>7, <1>9, <2>2 DEF Outstanding
  <1>12. \A j \in 1 .. k : ~Outstanding(y, q[j])
    <2>1. \A j \in 1 .. k : j \in 1 .. Len(q)
      BY <1>1
    <2>2. \A j \in 1 .. k : q[j] # x.exec.cb
      BY <2>1 DEF Ledger, Once
    <2>3. \A j \in 1 .. k : \A i \in 1 .. Len(p) : p[i] # q[j]
      BY <1>2, <1>3, <1>10, <2>1
    <2>. QED BY <1>7, <1>9, <2>2, <2>3 DEF Outstanding
  <1>13. Once(y)
    <2>1. \A i \in Hosts : y.answered[i] <= 1
      <3>1. \A i \in Hosts : x.answered[i] <= 1
        BY DEF Ledger, Once
      <3>. QED BY <1>6, <1>9, <3>1
    <2>2. \A i \in Hosts : Outstanding(y, Host(i)) => y.answered[i] = 0
      <3>1. \A i \in Hosts : Outstanding(x, Host(i)) => x.answered[i] = 0
        BY DEF Ledger, Once
      <3>. QED BY <1>6, <1>9, <1>11, <1>12, <3>1
    <2>3. \A i, j \in 1 .. Len(p) : p[i] = p[j] => i = j
      <3>1. \A i, j \in 1 .. Len(p) : p[i] = p[j] => k + i = k + j
        BY <1>2, <1>3, <1>10
      <3>. QED BY <1>1, <1>2, <3>1
    <2>4. \A i \in 1 .. Len(p) : p[i] # x.exec.cb
      BY <1>2, <1>10 DEF Ledger, Once
    <2>. QED BY <1>7, <1>9, <2>1, <2>2, <2>3, <2>4 DEF Ledger, Once
  <1>14. Probing(y)
    BY <1>9, <1>11 DEF Ledger, Probing
  <1>15. SameSession(x, y)
    BY <1>7, <1>9 DEF SameSession
  <1>16. NothingNew(x, y)
    <2>1. q = <<>> => p = <<>>
      BY <1>1, <1>2
    <2>. QED BY <1>7, <1>9, <2>1 DEF NothingNew
  <1>. QED
    BY <1>2, <1>7, <1>9, <1>11, <1>12, <1>13, <1>14, <1>15, <1>16 DEF Carries, Ledger, y

\* A probe that failed leaves the queue alone.
LEMMA FailedProbeFrame ==
    ASSUME NEW n, NEW x \in State(n), NEW e
    PROVE  /\ OnProbeResult(x, e, "failed").bridge = x.bridge
           /\ OnProbeResult(x, e, "failed").exec = x.exec
           /\ OnProbeResult(x, e, "failed").agent = x.agent
  BY DEF OnProbeResult, Finish, State

\* Failing the first tasks of the queue, as Pump does.
LEMMA FailFirstCarries ==
    ASSUME NEW n \in Nat, NEW x \in State(n), Ledger(x), NEW k \in 0 .. Len(x.bridge.pending)
    PROVE  /\ Carries(n, x, FailFirst(x, k))
           /\ FailFirst(x, k).exec = x.exec
           /\ k = Len(x.bridge.pending) => FailFirst(x, k).bridge.pending = <<>>
           /\ FailFirst(x, k).bridge.pump = x.bridge.pump
           /\ FailFirst(x, k).bridge.inFlight = x.bridge.inFlight
  <1>. DEFINE q == x.bridge.pending
              y == Drained(x, k)
  <1>1. x.gate \in Gates(n) /\ x.gate.epoch = n /\ x.bridge \in Bridges(n)
    <2>1. x.gate \in Gates(n) /\ x.bridge \in Bridges(n)
      BY Parts
    <2>. QED BY <2>1 DEF Gates
  <1>2. FailFirst(x, k) = IF \E j \in 1 .. k : q[j] = Probe(n) THEN OnProbeResult(y, n, "failed") ELSE y
    BY <1>1 DEF FailFirst, Drained, Count
  <1>3. /\ Carries(n, x, y) /\ y.gate = x.gate /\ y.exec = x.exec
        /\ \A j \in 1 .. k : ~Outstanding(y, q[j])
        /\ k = Len(q) => y.bridge.pending = <<>>
        /\ y.bridge.pump = x.bridge.pump /\ y.bridge.inFlight = x.bridge.inFlight
    BY DrainedCarries
  <1>4. y \in State(n) /\ Ledger(y)
    BY <1>3 DEF Carries
  <1>. HIDE DEF y
  <1>5. CASE \E j \in 1 .. k : q[j] = Probe(n)
    <2>1. PICK j \in 1 .. k : q[j] = Probe(n)
      BY <1>5
    <2>2. ~Outstanding(y, Probe(n))
      BY <1>3, <2>1
    <2>3. Outstanding(x, Probe(n))
      <3>1. j \in 1 .. Len(q)
        <4>1. q \in Seq(Tasks(n))
          BY <1>1 DEF Bridges
        <4>. QED BY <4>1
      <3>. QED BY <2>1, <3>1 DEF Outstanding
    <2>4. ~y.gate.timer
      BY <1>1, <1>3, <2>3 DEF Ledger, Probing
    <2>5. Carries(n, y, OnProbeResult(y, n, "failed"))
      BY <1>4, <2>2, <2>4, OnProbeResultCarries
    <2>6. /\ OnProbeResult(y, n, "failed").bridge = y.bridge
          /\ OnProbeResult(y, n, "failed").exec = y.exec
      BY <1>4, FailedProbeFrame
    <2>. QED BY <1>2, <1>3, <1>5, <2>5, <2>6, CarriesCompose
  <1>. QED BY <1>2, <1>3, <1>5

\* Failing all of them.
LEMMA FailAllCarries ==
    ASSUME NEW n \in Nat, NEW x \in State(n), Ledger(x)
    PROVE  /\ Carries(n, x, FailAll(x)) /\ FailAll(x).bridge.pending = <<>>
           /\ FailAll(x).exec = x.exec /\ FailAll(x).bridge.pump = x.bridge.pump
           /\ FailAll(x).bridge.inFlight = x.bridge.inFlight
  <1>1. x.bridge \in Bridges(n)
    BY Parts
  <1>2. Len(x.bridge.pending) \in 0 .. Len(x.bridge.pending)
    <2>1. x.bridge.pending \in Seq(Tasks(n))
      BY <1>1 DEF Bridges
    <2>. QED BY <2>1
  <1>. QED BY <1>2, FailFirstCarries DEF FailAll

-----------------------------------------------------------------------------
(* The command plane *)

\* The command plane of x replaced: the agent, the executor, what is due and
\* what the target may post.
With(x, a, e, w, o) == [x EXCEPT !.agent = a, !.exec = e, !.wire = w, !.owed = o]

\* It may be, as long as no command starts and no callback goes.
LEMMA WithCarries ==
    ASSUME NEW n, NEW x \in State(n), Ledger(x), NEW a \in Agents(n), NEW e \in Execs(n),
           NEW w \in Wires(n), NEW o \in SUBSET Notices(n),
           a.bound = x.agent.bound, e.cb = x.exec.cb, e.cmd = None \/ e.cmd = x.exec.cmd,
           e.mgmt => x.exec.mgmt \/ x.session.state = "LoggedIn"
    PROVE  /\ Carries(n, x, With(x, a, e, w, o))
           /\ With(x, a, e, w, o).exec = e /\ With(x, a, e, w, o).agent = a
           /\ With(x, a, e, w, o).wire = w /\ With(x, a, e, w, o).owed = o
           /\ With(x, a, e, w, o).bridge = x.bridge
  <1>. DEFINE y == With(x, a, e, w, o)
  <1>1. /\ y \in State(n) /\ y.agent = a /\ y.exec = e /\ y.wire = w /\ y.owed = o
        /\ y.session = x.session /\ y.writes = x.writes /\ y.discovered = x.discovered
        /\ y.resets = x.resets /\ y.bridge = x.bridge /\ y.gate = x.gate /\ y.hub = x.hub
        /\ y.answered = x.answered
    BY DEF State, With
  <1>. HIDE DEF y
  <1>2. Carries(n, x, y)
    BY <1>1, CarriesPlain
  <1>. QED BY <1>1, <1>2 DEF y

\* The command is dropped with the given result.
DropCommand(x, r) == [x EXCEPT !.exec.cmd = None, !.exec.result = r]

\* Its callback stays.
LEMMA DropCommandCarries ==
    ASSUME NEW n, NEW x \in State(n), Ledger(x), NEW r \in Results
    PROVE  Carries(n, x, DropCommand(x, r)) /\ DropCommand(x, r).exec.cmd = None
           /\ DropCommand(x, r).exec.cb = x.exec.cb
  <1>. DEFINE e == [x.exec EXCEPT !.cmd = None, !.result = r]
  <1>0. /\ x.exec \in Execs(n) /\ x.agent \in Agents(n) /\ x.wire \in Wires(n)
        /\ x.owed \in SUBSET Notices(n)
    BY Parts
  <1>1. None \in Maybe(n)
    BY DEF Maybe
  <1>2. e \in Execs(n) /\ e.cmd = None /\ e.cb = x.exec.cb /\ e.mgmt = x.exec.mgmt
    BY <1>0, <1>1 DEF Execs
  <1>3. DropCommand(x, r) = With(x, x.agent, e, x.wire, x.owed)
    BY DEF DropCommand, With, State
  <1>. HIDE DEF e
  <1>. QED BY <1>0, <1>2, <1>3, WithCarries

\* Aborting the command in the executor.
LEMMA FailActiveCommandCarries ==
    ASSUME NEW n \in Nat, NEW x \in State(n), Ledger(x)
    PROVE  Carries(n, x, FailActiveCommand(x)) /\ FailActiveCommand(x).exec.cmd = None
  <1>1. CASE x.exec.cmd = None
    BY <1>1, CarriesSelf DEF FailActiveCommand
  <1>2. CASE x.exec.cmd # None
    <2>. DEFINE c == Clear(x)
                d == DropCommand(c, "failed")
    <2>1. FailActiveCommand(x) = NotifyResultCallback(d)
      BY <1>2 DEF FailActiveCommand, DropCommand
    <2>2. Carries(n, x, c) /\ c \in State(n) /\ Ledger(c)
      BY ClearCarries DEF Carries
    <2>. HIDE DEF c
    <2>3. Carries(n, c, d) /\ d.exec.cmd = None
      <3>1. "failed" \in Results
        BY DEF Results
      <3>. QED BY <2>2, <3>1, DropCommandCarries
    <2>4. d \in State(n) /\ Ledger(d)
      BY <2>3 DEF Carries
    <2>. HIDE DEF d
    <2>5. Carries(n, d, NotifyResultCallback(d))
      BY <2>4, NotifyResultCallbackCarries
    <2>6. NotifyResultCallback(d).exec.cmd = None
      BY <2>3, <2>5 DEF Carries, NothingNew
    <2>. QED BY <2>1, <2>2, <2>3, <2>5, <2>6, CarriesCompose
  <1>. QED BY <1>1, <1>2

\* Starting the management ORB, which only a session that is logged in does.
LEMMA SubmitTaskManagementCarries ==
    ASSUME NEW n, NEW x \in State(n), Ledger(x), x.session.state = "LoggedIn"
    PROVE  Carries(n, x, SubmitTaskManagement(x))
  <1>. DEFINE e == [x.exec EXCEPT !.mgmt = TRUE]
              w == [x.wire EXCEPT !.mgmt = TRUE]
              o == x.owed \cup {<<"mgmt">>}
  <1>0. /\ x.exec \in Execs(n) /\ x.agent \in Agents(n) /\ x.wire \in Wires(n)
        /\ x.owed \in SUBSET Notices(n)
    BY Parts
  <1>1. e \in Execs(n) /\ e.cmd = x.exec.cmd /\ e.cb = x.exec.cb
    BY <1>0 DEF Execs
  <1>2. w \in Wires(n)
    BY <1>0 DEF Wires
  <1>3. o \in SUBSET Notices(n)
    BY <1>0 DEF Notices
  <1>4. SubmitTaskManagement(x) = With(x, x.agent, e, w, o)
    BY DEF SubmitTaskManagement, With, State
  <1>. HIDE DEF e, w, o
  <1>. QED BY <1>0, <1>1, <1>2, <1>3, <1>4, WithCarries

\* The completion of a command ORB.
LEMMA OrbCompleteCarries ==
    ASSUME NEW n \in Nat, NEW x \in State(n), Ledger(x), NEW c, NEW r \in Results, NEW o
    PROVE  Carries(n, x, OrbComplete(x, c, r, o))
  <1>. DEFINE y == DropCommand(x, r)
              z == Clear(y)
  <1>1. OrbComplete(x, c, r, o) =
          IF x.exec.cmd # c THEN x
          ELSE IF r # "failed" THEN NotifyResultCallback(y)
          ELSE IF CanSubmitTaskManagement(y) /\ o.mgmt THEN SubmitTaskManagement(z)
          ELSE NotifyResultCallback(z)
    BY DEF OrbComplete, DropCommand
  <1>2. Carries(n, x, y) /\ y \in State(n) /\ Ledger(y)
    BY DropCommandCarries DEF Carries
  <1>. HIDE DEF y
  <1>3. Carries(n, y, z) /\ z \in State(n) /\ Ledger(z) /\ z.session = y.session
    BY <1>2, ClearCarries DEF Carries, SameSession
  <1>4. Carries(n, x, z)
    BY <1>2, <1>3, CarriesCompose
  <1>. HIDE DEF z
  <1>5. Carries(n, x, x)
    BY CarriesSelf
  <1>6. Carries(n, x, NotifyResultCallback(y))
    BY <1>2, NotifyResultCallbackCarries, CarriesCompose
  <1>7. Carries(n, x, NotifyResultCallback(z))
    BY <1>3, <1>4, NotifyResultCallbackCarries, CarriesCompose
  <1>8. CanSubmitTaskManagement(y) => Carries(n, x, SubmitTaskManagement(z))
    BY <1>3, <1>4, SubmitTaskManagementCarries, CarriesCompose DEF CanSubmitTaskManagement
  <1>. QED BY <1>1, <1>5, <1>6, <1>7, <1>8

\* The management ORB is over.
ManagementOver(x) == [x EXCEPT !.exec.mgmt = FALSE, !.wire.mgmt = FALSE]

\* Nothing else changes with it.
LEMMA ManagementOverCarries ==
    ASSUME NEW n, NEW x \in State(n), Ledger(x), NEW o \in SUBSET Notices(n), NEW y,
           y = [ManagementOver(x) EXCEPT !.owed = o]
    PROVE  Carries(n, x, y)
  <1>. DEFINE e == [x.exec EXCEPT !.mgmt = FALSE]
              w == [x.wire EXCEPT !.mgmt = FALSE]
  <1>0. x.exec \in Execs(n) /\ x.agent \in Agents(n) /\ x.wire \in Wires(n)
    BY Parts
  <1>1. e \in Execs(n) /\ e.cmd = x.exec.cmd /\ e.cb = x.exec.cb /\ ~e.mgmt
    BY <1>0 DEF Execs
  <1>2. w \in Wires(n)
    BY <1>0 DEF Wires
  <1>3. y = With(x, x.agent, e, w, o)
    BY DEF ManagementOver, With, State
  <1>. HIDE DEF e, w
  <1>. QED BY <1>0, <1>1, <1>2, <1>3, WithCarries

\* The end of the management ORB.
LEMMA ManagementCompleteCarries ==
    ASSUME NEW n \in Nat, NEW x \in State(n), Ledger(x), NEW failed
    PROVE  Carries(n, x, ManagementComplete(x, failed))
  <1>. DEFINE o == x.owed \ {<<"mgmt">>}
              y == [ManagementOver(x) EXCEPT !.owed = o]
              f == FailActiveCommand(y)
              z == Clear(f)
  <1>1. o \in SUBSET Notices(n)
    <2>1. x.owed \in SUBSET Notices(n)
      BY Parts
    <2>. QED BY <2>1
  <1>2. ManagementComplete(x, failed) = NotifyResultCallback(IF failed THEN y ELSE z)
    BY DEF ManagementComplete, ManagementOver, State
  <1>. HIDE DEF o
  <1>3. Carries(n, x, y) /\ y \in State(n) /\ Ledger(y)
    BY <1>1, ManagementOverCarries DEF Carries
  <1>. HIDE DEF y
  <1>4. Carries(n, y, f) /\ f \in State(n) /\ Ledger(f)
    BY <1>3, FailActiveCommandCarries DEF Carries
  <1>. HIDE DEF f
  <1>5. Carries(n, f, z) /\ z \in State(n) /\ Ledger(z)
    BY <1>4, ClearCarries DEF Carries
  <1>. HIDE DEF z
  <1>6. Carries(n, x, z)
    BY <1>3, <1>4, <1>5, CarriesCompose
  <1>7. Carries(n, x, NotifyResultCallback(y))
    BY <1>3, NotifyResultCallbackCarries, CarriesCompose
  <1>8. Carries(n, x, NotifyResultCallback(z))
    BY <1>5, <1>6, NotifyResultCallbackCarries, CarriesCompose
  <1>. QED BY <1>2, <1>7, <1>8

\* A bus reset or a release leaves no command and no callback behind.
LEMMA OnBusResetExecutorCarries ==
    ASSUME NEW n \in Nat, NEW x \in State(n), Ledger(x)
    PROVE  /\ Carries(n, x, OnBusResetExecutor(x))
           /\ OnBusResetExecutor(x).exec.cmd = None /\ OnBusResetExecutor(x).exec.cb = None
           /\ x.session.state # "LoggedIn" => ~OnBusResetExecutor(x).exec.mgmt
  <1>. DEFINE y == ManagementOver(x)
              f == FailActiveCommand(y)
              z == NotifyResultCallback(f)
  <1>1. Carries(n, x, y) /\ y \in State(n) /\ Ledger(y) /\ ~y.exec.mgmt
    <2>1. x.owed \in SUBSET Notices(n) /\ x.exec \in Execs(n)
      BY Parts
    <2>2. y = [ManagementOver(x) EXCEPT !.owed = x.owed]
      BY DEF ManagementOver, State
    <2>3. ~y.exec.mgmt
      BY <2>1 DEF ManagementOver, State, Execs
    <2>. HIDE DEF y
    <2>4. Carries(n, x, y)
      BY <2>1, <2>2, ManagementOverCarries
    <2>. QED BY <2>3, <2>4 DEF Carries
  <1>2. OnBusResetExecutor(x) = z
    BY DEF OnBusResetExecutor, ManagementOver
  <1>. HIDE DEF y
  <1>3. Carries(n, y, f) /\ f \in State(n) /\ Ledger(f) /\ f.exec.cmd = None
    BY <1>1, FailActiveCommandCarries DEF Carries
  <1>. HIDE DEF f
  <1>4. Carries(n, f, z) /\ z.exec.cb = None
    BY <1>3, NotifyResultCallbackCarries
  <1>. HIDE DEF z
  <1>5. Carries(n, x, z)
    BY <1>1, <1>3, <1>4, CarriesCompose
  <1>6. z.exec.cmd = None
    BY <1>3, <1>4 DEF Carries, NothingNew
  <1>7. x.session.state # "LoggedIn" => ~z.exec.mgmt
    BY <1>1, <1>3, <1>4 DEF Carries, NothingNew, SameSession
  <1>. QED BY <1>2, <1>4, <1>5, <1>6, <1>7

-----------------------------------------------------------------------------
(* The fetch agent's handlers *)

\* Removing an ORB from a queue leaves a queue.
LEMMA DequeueTyped ==
    ASSUME NEW S, NEW q \in Seq(S), NEW c
    PROVE  Dequeue(q, c) \in Seq(S)
  <1>1. CASE \E k \in 1 .. Len(q) : q[k] = c
    <2>. DEFINE k == CHOOSE j \in 1 .. Len(q) : q[j] = c
    <2>1. k \in 1 .. Len(q)
      BY <1>1
    <2>. HIDE DEF k
    <2>2. SubSeq(q, 1, k - 1) \in Seq(S)
      <3>1. \A j \in 1 .. k - 1 : q[j] \in S
        BY <2>1
      <3>2. 1 \in Int /\ k - 1 \in Int
        BY <2>1
      <3>. QED BY <3>1, <3>2, SubSeqProperties
    <2>3. SubSeq(q, k + 1, Len(q)) \in Seq(S)
      <3>1. \A j \in k + 1 .. Len(q) : q[j] \in S
        BY <2>1
      <3>2. k + 1 \in Int /\ Len(q) \in Int
        BY <2>1
      <3>. QED BY <3>1, <3>2, SubSeqProperties
    <2>4. RemoveAt(q, k) \in Seq(S)
      BY <2>2, <2>3, ConcatProperties DEF RemoveAt
    <2>. QED BY <1>1, <2>4 DEF Dequeue, k
  <1>2. CASE ~\E k \in 1 .. Len(q) : q[k] = c
    BY <1>2 DEF Dequeue
  <1>. QED BY <1>1, <1>2

\* The agent's tracking may change.
LEMMA TrackCarries ==
    ASSUME NEW n, NEW x \in State(n), Ledger(x), NEW a \in Agents(n), NEW w \in Wires(n),
           NEW o \in SUBSET Notices(n), a.bound = x.agent.bound
    PROVE  /\ Carries(n, x, With(x, a, x.exec, w, o))
           /\ With(x, a, x.exec, w, o) \in State(n) /\ Ledger(With(x, a, x.exec, w, o))
           /\ With(x, a, x.exec, w, o).exec = x.exec /\ With(x, a, x.exec, w, o).agent = a
  <1>1. x.exec \in Execs(n)
    BY Parts
  <1>. QED BY <1>1, WithCarries DEF Carries

\* The ORB c fails.
LEMMA FailORBCarries ==
    ASSUME NEW n \in Nat, NEW x \in State(n), Ledger(x), NEW c, NEW o
    PROVE  Carries(n, x, FailORB(x, c, o))
  <1>1. CASE c = None
    BY <1>1, CarriesSelf DEF FailORB
  <1>2. CASE c # None
    <2>. DEFINE out == IF x.agent.out = c THEN None ELSE x.agent.out
                timed == x.agent.timed /\ x.agent.out # c
                queue == Dequeue(x.agent.queue, c)
                active == IF x.agent.active = c THEN None ELSE x.agent.active
                a == [x.agent EXCEPT !.out = out, !.timed = timed, !.queue = queue,
                                     !.active = active]
                y == With(x, a, x.exec, x.wire, x.owed)
    <2>0. x.agent \in Agents(n) /\ x.wire \in Wires(n) /\ x.owed \in SUBSET Notices(n)
      BY Parts
    <2>1. /\ out \in Maybe(n) /\ timed \in BOOLEAN /\ active \in Maybe(n)
          /\ x.agent.queue \in Seq(Tasks(n))
      <3>1. None \in Maybe(n)
        BY DEF Maybe
      <3>. QED BY <2>0, <3>1 DEF Agents
    <2>2. queue \in Seq(Tasks(n))
      BY <2>1, DequeueTyped
    <2>3. FailORB(x, c, o) = OrbComplete(y, c, "failed", o)
      <3>. HIDE DEF out, queue, active
      <3>1. [x EXCEPT !.agent.out = out, !.agent.timed = timed, !.agent.queue = queue,
                      !.agent.active = active] = y
        BY DEF State, With
      <3>. QED BY <1>2, <3>1 DEF FailORB, out, queue, active
    <2>. HIDE DEF out, timed, queue, active
    <2>4. a \in Agents(n) /\ a.bound = x.agent.bound
      BY <2>0, <2>1, <2>2 DEF Agents
    <2>. HIDE DEF a
    <2>5. Carries(n, x, y) /\ y \in State(n) /\ Ledger(y)
      BY <2>0, <2>4, TrackCarries
    <2>. HIDE DEF y
    <2>6. Carries(n, y, OrbComplete(y, c, "failed", o))
      <3>1. "failed" \in Results
        BY DEF Results
      <3>. QED BY <2>5, <3>1, OrbCompleteCarries
    <2>. QED BY <2>3, <2>5, <2>6, CarriesCompose
  <1>. QED BY <1>1, <1>2

\* An ORB_POINTER write is sent, or its ORB fails.
LEMMA AppendImmediateCarries ==
    ASSUME NEW n \in Nat, NEW x \in State(n), Ledger(x), NEW c \in Maybe(n), NEW o
    PROVE  Carries(n, x, AppendImmediate(x, c, o))
  <1>0. x.agent \in Agents(n) /\ x.wire \in Wires(n) /\ x.owed \in SUBSET Notices(n)
    BY Parts
  <1>1. CASE c = None \/ x.agent.inUse
    BY <1>1, CarriesSelf DEF AppendImmediate
  <1>2. CASE ~(c = None \/ x.agent.inUse) /\ o.write
    <2>. DEFINE i == x.wire.orb + 1
                a == [x.agent EXCEPT !.active = c, !.inUse = TRUE]
                w == [x.wire EXCEPT !.orb = i]
                p == x.owed \cup {c}
    <2>1. i \in Nat
      BY <1>0 DEF Wires
    <2>2. AppendImmediate(x, c, o) = With(x, a, x.exec, w, p)
      BY <1>2 DEF AppendImmediate, With, State
    <2>. HIDE DEF i
    <2>3. a \in Agents(n) /\ a.bound = x.agent.bound
      BY <1>0 DEF Agents
    <2>4. w \in Wires(n)
      BY <1>0, <2>1 DEF Wires
    <2>5. p \in SUBSET Notices(n)
      BY <1>0, <1>2 DEF Notices, Maybe
    <2>. HIDE DEF a, w, p
    <2>. QED BY <2>2, <2>3, <2>4, <2>5, TrackCarries
  <1>3. CASE ~(c = None \/ x.agent.inUse) /\ ~o.write
    <2>. DEFINE a == [x.agent EXCEPT !.active = None]
                y == With(x, a, x.exec, x.wire, x.owed)
    <2>1. AppendImmediate(x, c, o) = FailORB(y, c, o)
      <3>1. [x EXCEPT !.agent.active = None] = y
        BY DEF With, State
      <3>. QED BY <1>3, <3>1 DEF AppendImmediate
    <2>2. a \in Agents(n) /\ a.bound = x.agent.bound
      BY <1>0 DEF Agents, Maybe
    <2>. HIDE DEF a
    <2>3. Carries(n, x, y) /\ y \in State(n) /\ Ledger(y)
      BY <1>0, <2>2, TrackCarries
    <2>. HIDE DEF y
    <2>. QED BY <2>1, <2>3, FailORBCarries, CarriesCompose
  <1>. QED BY <1>1, <1>2, <1>3

\* A new ORB is written to the agent, or queued behind the one that is.
LEMMA SubmitCarries ==
    ASSUME NEW n \in Nat, NEW x \in State(n), Ledger(x), NEW c \in Tasks(n), NEW o
    PROVE  Carries(n, x, Submit(x, c, o))
  <1>. DEFINE a == [x.agent EXCEPT !.out = c, !.timed = FALSE, !.tries = WriteRetries]
              y == [x EXCEPT !.agent.out = c, !.agent.timed = FALSE, !.agent.tries = WriteRetries]
  <1>0. x.agent \in Agents(n) /\ x.wire \in Wires(n) /\ x.owed \in SUBSET Notices(n)
    BY Parts
  <1>1. c \in Maybe(n)
    BY DEF Maybe
  <1>2. y = With(x, a, x.exec, x.wire, x.owed)
    BY DEF With, State
  <1>3. a \in Agents(n) /\ a.bound = x.agent.bound
    <2>1. WriteRetries \in 0 .. WriteRetries
      BY StorageAssumption
    <2>. QED BY <1>0, <1>1, <2>1 DEF Agents
  <1>4. Submit(x, c, o) = IF y.agent.inUse THEN [y EXCEPT !.agent.queue = Append(@, c)]
                                          ELSE AppendImmediate(y, c, o)
    BY DEF Submit
  <1>. HIDE DEF a, y
  <1>5. Carries(n, x, y) /\ y \in State(n) /\ Ledger(y)
    BY <1>0, <1>2, <1>3, TrackCarries
  <1>6. CASE y.agent.inUse
    <2>. DEFINE p == Append(y.agent.queue, c)
                b == [y.agent EXCEPT !.queue = p]
                z == With(y, b, y.exec, y.wire, y.owed)
    <2>0. y.agent \in Agents(n) /\ y.wire \in Wires(n) /\ y.owed \in SUBSET Notices(n)
      BY <1>5, Parts
    <2>1. p \in Seq(Tasks(n))
      <3>1. y.agent.queue \in Seq(Tasks(n))
        BY <2>0 DEF Agents
      <3>. QED BY <3>1, AppendProperties
    <2>2. [y EXCEPT !.agent.queue = Append(@, c)] = z
      BY <1>5 DEF With, State
    <2>. HIDE DEF p
    <2>3. b \in Agents(n) /\ b.bound = y.agent.bound
      BY <2>0, <2>1 DEF Agents
    <2>. HIDE DEF b
    <2>4. Carries(n, y, z)
      BY <1>5, <2>0, <2>3, TrackCarries
    <2>. HIDE DEF z
    <2>. QED BY <1>4, <1>5, <1>6, <2>2, <2>4, CarriesCompose
  <1>7. CASE ~y.agent.inUse
    BY <1>1, <1>4, <1>5, <1>7, AppendImmediateCarries, CarriesCompose
  <1>. QED BY <1>6, <1>7

\* The agent is being reset.
LEMMA ResetAgentCarries ==
    ASSUME NEW n, NEW x \in State(n), Ledger(x), NEW o
    PROVE  Carries(n, x, ResetAgent(x, o))
  <1>. DEFINE a == [x.agent EXCEPT !.resetting = TRUE]
              w == [x.wire EXCEPT !.reset = TRUE]
              y == With(x, a, x.exec, w, x.owed)
  <1>0. x.agent \in Agents(n) /\ x.wire \in Wires(n) /\ x.owed \in SUBSET Notices(n)
    BY Parts
  <1>1. a \in Agents(n) /\ a.bound = x.agent.bound /\ w \in Wires(n)
    BY <1>0 DEF Agents, Wires
  <1>2. ResetAgent(x, o) = IF ~x.agent.bound \/ x.agent.resetting \/ ~o.write THEN x ELSE y
    BY DEF ResetAgent, With, State
  <1>. HIDE DEF a, w
  <1>3. Carries(n, x, y)
    BY <1>0, <1>1, TrackCarries
  <1>. QED BY <1>2, <1>3, CarriesSelf

\* It is reset.
LEMMA OnAgentResetCompleteCarries ==
    ASSUME NEW n, NEW x \in State(n), Ledger(x)
    PROVE  Carries(n, x, OnAgentResetComplete(x))
  <1>. DEFINE a == [x.agent EXCEPT !.resetting = FALSE]
              w == [x.wire EXCEPT !.reset = FALSE]
              y == With(x, a, x.exec, w, x.owed)
  <1>0. x.agent \in Agents(n) /\ x.wire \in Wires(n) /\ x.owed \in SUBSET Notices(n)
    BY Parts
  <1>1. a \in Agents(n) /\ a.bound = x.agent.bound /\ w \in Wires(n)
    BY <1>0 DEF Agents, Wires
  <1>2. OnAgentResetComplete(x) = Clear(y)
    <2>1. [x EXCEPT !.agent.resetting = FALSE, !.wire.reset = FALSE] = y
      BY DEF With, State
    <2>. QED BY <2>1 DEF OnAgentResetComplete
  <1>. HIDE DEF a, w
  <1>3. Carries(n, x, y) /\ y \in State(n) /\ Ledger(y)
    BY <1>0, <1>1, TrackCarries
  <1>. HIDE DEF y
  <1>. QED BY <1>2, <1>3, ClearCarries, CarriesCompose

\* The completion of an ORB_POINTER write: the next ORB, another try, or every
\* ORB fails.
LEMMA OnFetchAgentWriteCompleteCarries ==
    ASSUME NEW n \in Nat, NEW x \in State(n), Ledger(x), NEW ok, NEW o
    PROVE  Carries(n, x, OnFetchAgentWriteComplete(x, ok, o))
  <1>. DEFINE y == [x EXCEPT !.agent.inUse = FALSE]
              a == x.agent.active
              z == [y EXCEPT !.agent.active = None,
                             !.agent.timed = @ \/ (a # None /\ a = x.agent.out)]
              failed == {a} \cup ToSet(y.agent.queue)
              mine == IF y.exec.cmd \in failed THEN y.exec.cmd ELSE None
              w == [y EXCEPT !.agent.tries = @ - 1, !.wire.retry = @ \cup {a}]
              v == [z EXCEPT !.agent.queue = Tail(@)]
              f == FailORB(y, mine, o)
              c == Clear(f)
  <1>0. /\ x.agent \in Agents(n) /\ x.wire \in Wires(n) /\ x.owed \in SUBSET Notices(n)
        /\ x.agent.active \in Maybe(n)
    <2>1. x.agent \in Agents(n) /\ x.wire \in Wires(n) /\ x.owed \in SUBSET Notices(n)
      BY Parts
    <2>. QED BY <2>1 DEF Agents
  <1>1. OnFetchAgentWriteComplete(x, ok, o) =
          IF ~x.agent.bound THEN x
          ELSE IF ok /\ z.agent.queue = <<>> THEN z
          ELSE IF ok THEN AppendImmediate(v, Head(z.agent.queue), o)
          ELSE IF a = None THEN y
          ELSE IF x.agent.tries > 0 THEN w
          ELSE ResetAgent(c, o)
    BY DEF OnFetchAgentWriteComplete
  <1>2. Carries(n, x, y) /\ y \in State(n) /\ Ledger(y) /\ y.agent.active = a
    <2>. DEFINE b == [x.agent EXCEPT !.inUse = FALSE]
    <2>1. b \in Agents(n) /\ b.bound = x.agent.bound /\ b.active = a
      BY <1>0 DEF Agents
    <2>2. y = With(x, b, x.exec, x.wire, x.owed)
      BY DEF With, State
    <2>. HIDE DEF y, b, a
    <2>3. Carries(n, x, y) /\ y \in State(n) /\ Ledger(y)
      BY <1>0, <2>1, <2>2, TrackCarries
    <2>4. y.agent = b
      BY <2>2 DEF With, State
    <2>. QED BY <2>1, <2>3, <2>4
  <1>. HIDE DEF y
  <1>3. y.agent \in Agents(n) /\ y.wire \in Wires(n) /\ y.owed \in SUBSET Notices(n)
    BY <1>2, Parts
  <1>4. Carries(n, y, z) /\ z \in State(n) /\ Ledger(z)
    <2>. DEFINE timed == y.agent.timed \/ (a # None /\ a = x.agent.out)
                b == [y.agent EXCEPT !.active = None, !.timed = timed]
    <2>1. timed \in BOOLEAN /\ None \in Maybe(n)
      BY <1>3 DEF Agents, Maybe
    <2>2. z = With(y, b, y.exec, y.wire, y.owed)
      BY <1>2 DEF With, State
    <2>. HIDE DEF timed, z
    <2>3. b \in Agents(n) /\ b.bound = y.agent.bound
      BY <1>3, <2>1 DEF Agents
    <2>. HIDE DEF b
    <2>. QED BY <1>2, <1>3, <2>2, <2>3, TrackCarries
  <1>5. Carries(n, x, z)
    BY <1>2, <1>4, CarriesCompose
  <1>. HIDE DEF z
  <1>6. ASSUME z.agent.queue # <<>>
        PROVE  Carries(n, x, AppendImmediate(v, Head(z.agent.queue), o))
    <2>. DEFINE q == Tail(z.agent.queue)
                b == [z.agent EXCEPT !.queue = q]
    <2>0. z.agent \in Agents(n) /\ z.wire \in Wires(n) /\ z.owed \in SUBSET Notices(n)
      BY <1>4, Parts
    <2>1. q \in Seq(Tasks(n)) /\ Head(z.agent.queue) \in Maybe(n)
      <3>1. z.agent.queue \in Seq(Tasks(n))
        BY <2>0 DEF Agents
      <3>. QED BY <1>6, <3>1, HeadTailProperties DEF Maybe
    <2>2. v = With(z, b, z.exec, z.wire, z.owed)
      BY <1>4 DEF With, State
    <2>. HIDE DEF v, q
    <2>3. b \in Agents(n) /\ b.bound = z.agent.bound
      BY <2>0, <2>1 DEF Agents
    <2>. HIDE DEF b
    <2>4. Carries(n, z, v) /\ v \in State(n) /\ Ledger(v)
      BY <1>4, <2>0, <2>2, <2>3, TrackCarries
    <2>5. Carries(n, v, AppendImmediate(v, Head(z.agent.queue), o))
      BY <2>1, <2>4, AppendImmediateCarries
    <2>. QED BY <1>5, <2>4, <2>5, CarriesCompose
  <1>7. ASSUME a # None, x.agent.tries > 0
        PROVE  Carries(n, x, w)
    <2>. DEFINE i == y.agent.tries - 1
                r == y.wire.retry \cup {a}
                b == [y.agent EXCEPT !.tries = i]
                u == [y.wire EXCEPT !.retry = r]
    <2>1. i \in 0 .. WriteRetries
      <3>1. y.agent.tries = x.agent.tries
        BY <1>0 DEF y, State, Agents
      <3>2. y.agent.tries \in 0 .. WriteRetries
        BY <1>3 DEF Agents
      <3>. QED BY <1>7, <3>1, <3>2, StorageAssumption
    <2>2. r \in SUBSET Tasks(n)
      BY <1>0, <1>3, <1>7 DEF Maybe, Wires
    <2>3. w = With(y, b, y.exec, u, y.owed)
      BY <1>2 DEF With, State
    <2>. HIDE DEF i, r, w
    <2>4. b \in Agents(n) /\ b.bound = y.agent.bound
      BY <1>3, <2>1 DEF Agents
    <2>5. u \in Wires(n)
      BY <1>3, <2>2 DEF Wires
    <2>. HIDE DEF b, u
    <2>6. Carries(n, y, w)
      BY <1>2, <1>3, <2>3, <2>4, <2>5, TrackCarries
    <2>. QED BY <1>2, <2>6, CarriesCompose
  <1>8. Carries(n, x, ResetAgent(c, o))
    <2>1. Carries(n, y, f) /\ f \in State(n) /\ Ledger(f)
      BY <1>2, FailORBCarries DEF Carries
    <2>. HIDE DEF f
    <2>2. Carries(n, f, c) /\ c \in State(n) /\ Ledger(c)
      BY <2>1, ClearCarries DEF Carries
    <2>. HIDE DEF c
    <2>3. Carries(n, c, ResetAgent(c, o))
      BY <2>2, ResetAgentCarries
    <2>. QED BY <1>2, <2>1, <2>2, <2>3, CarriesCompose
  <1>9. Carries(n, x, x)
    BY CarriesSelf
  <1>. HIDE DEF a, v, w, c
  <1>10. /\ ok /\ z.agent.queue # <<>> => Carries(n, x, AppendImmediate(v, Head(z.agent.queue), o))
         /\ a # None /\ x.agent.tries > 0 => Carries(n, x, w)
    BY <1>6, <1>7
  <1>. QED BY <1>1, <1>2, <1>5, <1>8, <1>9, <1>10

\* The retry timer of an ORB.
LEMMA RetryTimerCarries ==
    ASSUME NEW n \in Nat, NEW x \in State(n), Ledger(x), NEW c, NEW reused, NEW o
    PROVE  Carries(n, x, RetryTimer(x, c, reused, o))
  <1>. DEFINE r == x.wire.retry \ {c}
              w == [x.wire EXCEPT !.retry = r]
              y == [x EXCEPT !.wire.retry = @ \ {c}]
  <1>0. x.agent \in Agents(n) /\ x.wire \in Wires(n) /\ x.owed \in SUBSET Notices(n)
    BY Parts
  <1>1. r \in SUBSET Tasks(n)
    BY <1>0 DEF Wires
  <1>2. y = With(x, x.agent, x.exec, w, x.owed)
    BY DEF With, State
  <1>3. RetryTimer(x, c, reused, o) =
          IF y.agent.active = c \/ (reused /\ y.agent.active # None)
            THEN AppendImmediate(y, y.agent.active, o) ELSE y
    BY DEF RetryTimer
  <1>. HIDE DEF r, y
  <1>4. w \in Wires(n)
    BY <1>0, <1>1 DEF Wires
  <1>. HIDE DEF w
  <1>5. Carries(n, x, y) /\ y \in State(n) /\ Ledger(y)
    BY <1>0, <1>2, <1>4, TrackCarries
  <1>6. y.agent.active \in Maybe(n)
    <2>1. y.agent \in Agents(n)
      BY <1>5, Parts
    <2>. QED BY <2>1 DEF Agents
  <1>7. Carries(n, x, AppendImmediate(y, y.agent.active, o))
    BY <1>5, <1>6, AppendImmediateCarries, CarriesCompose
  <1>. QED BY <1>3, <1>5, <1>7

\* A status block of a command.
LEMMA OnStatusBlockCarries ==
    ASSUME NEW n \in Nat, NEW x \in State(n), Ledger(x), NEW c, NEW reused, NEW dead,
           NEW r \in Results, NEW o
    PROVE  Carries(n, x, OnStatusBlock(x, c, reused, dead, r, o))
  <1>. DEFINE hit == x.agent.out
              act == IF x.agent.active = hit THEN None ELSE x.agent.active
              a == [x.agent EXCEPT !.out = None, !.timed = FALSE, !.active = act]
              y == [x EXCEPT !.agent.out = None, !.agent.timed = FALSE,
                             !.agent.active = IF @ = hit THEN None ELSE @]
              z == [y EXCEPT !.wire.dead = <<hit, r>>]
  <1>0. /\ x.agent \in Agents(n) /\ x.wire \in Wires(n) /\ x.owed \in SUBSET Notices(n)
        /\ hit \in Maybe(n)
    <2>1. x.agent \in Agents(n) /\ x.wire \in Wires(n) /\ x.owed \in SUBSET Notices(n)
      BY Parts
    <2>. QED BY <2>1 DEF Agents
  <1>1. OnStatusBlock(x, c, reused, dead, r, o) =
          IF hit = None \/ (hit # c /\ ~reused) THEN x
          ELSE IF dead /\ o.write THEN z
          ELSE OrbComplete(y, hit, r, o)
    BY DEF OnStatusBlock
  <1>2. act \in Maybe(n) /\ None \in Maybe(n)
    BY <1>0 DEF Agents, Maybe
  <1>3. y = With(x, a, x.exec, x.wire, x.owed)
    BY DEF With, State
  <1>. HIDE DEF act, y, hit
  <1>4. a \in Agents(n) /\ a.bound = x.agent.bound
    BY <1>0, <1>2 DEF Agents
  <1>. HIDE DEF a
  <1>5. Carries(n, x, y) /\ y \in State(n) /\ Ledger(y)
    BY <1>0, <1>3, <1>4, TrackCarries
  <1>6. Carries(n, x, OrbComplete(y, hit, r, o))
    BY <1>5, OrbCompleteCarries, CarriesCompose
  <1>7. hit # None => Carries(n, x, z)
    <2>. DEFINE w == [y.wire EXCEPT !.dead = <<hit, r>>]
    <2>0. y.agent \in Agents(n) /\ y.wire \in Wires(n) /\ y.owed \in SUBSET Notices(n)
      BY <1>5, Parts
    <2>1. hit # None => <<hit, r>> \in Tasks(n) \X Results
      BY <1>0 DEF Maybe
    <2>2. hit # None => w \in Wires(n)
      BY <2>0, <2>1 DEF Wires
    <2>3. z = With(y, y.agent, y.exec, w, y.owed)
      BY <1>5 DEF With, State
    <2>. HIDE DEF w, z
    <2>. QED BY <1>5, <2>0, <2>2, <2>3, TrackCarries, CarriesCompose
  <1>8. Carries(n, x, x)
    BY CarriesSelf
  <1>. HIDE DEF z
  <1>. QED BY <1>1, <1>6, <1>7, <1>8

\* The write that revives a dead agent completes.
LEMMA ReviveCompleteCarries ==
    ASSUME NEW n \in Nat, NEW x \in State(n), Ledger(x), x.wire.dead # None, NEW o
    PROVE  Carries(n, x, ReviveComplete(x, o))
  <1>. DEFINE w == [x.wire EXCEPT !.dead = None]
              y == [x EXCEPT !.wire.dead = None]
              c == x.wire.dead[1]
              r == x.wire.dead[2]
  <1>0. x.agent \in Agents(n) /\ x.wire \in Wires(n) /\ x.owed \in SUBSET Notices(n)
    BY Parts
  <1>1. r \in Results
    <2>1. x.wire.dead \in Tasks(n) \X Results
      BY <1>0 DEF Wires
    <2>. QED BY <2>1
  <1>2. ReviveComplete(x, o) = OrbComplete(y, c, r, o)
    BY DEF ReviveComplete
  <1>3. y = With(x, x.agent, x.exec, w, x.owed)
    BY DEF With, State
  <1>4. w \in Wires(n)
    BY <1>0 DEF Wires
  <1>. HIDE DEF w, y, c, r
  <1>5. Carries(n, x, y) /\ y \in State(n) /\ Ledger(y)
    BY <1>0, <1>3, <1>4, TrackCarries
  <1>. QED BY <1>1, <1>2, <1>5, OrbCompleteCarries, CarriesCompose

-----------------------------------------------------------------------------
(* The invariant *)

\* What a session may be in, and its timer, when the registry has or has not a
\* record of it: a logged in session has no timer that could take it out of its
\* login behind the executor's back, a released one has none that could log it
\* in again.
Legs(x) ==
    /\ x.agent.bound <=> x.session.state = "LoggedIn"
    /\ x.session.state = "LoggedIn" => x.session.timer = "none"
    /\ ~x.bridge.record => x.session.state \in {"Idle", "LoggingOut"}
    /\ ~x.bridge.record /\ x.session.state = "Idle" => x.session.timer = "none"
    /\ x.session.state = "LoggingOut" => x.session.timer \in {"none", "logoutTimeout"}
    /\ x.session.state \in {"Suspended", "Reconnecting"} =>
           x.session.timer \in {"none", "reconnect", "reconnectTimeout"}
    /\ x.exec.cb # None => x.bridge.record

\* Commands are executed within a login.
Carried(x) == x.exec.cmd # None \/ x.exec.mgmt => x.session.state = "LoggedIn"

\* Nothing is left in a bridge that was stopped, and nothing can come.
Stopped(x) ==
    x.bridge.stopping =>
        /\ x.bridge.pending = <<>> /\ x.exec.cb = None /\ ~x.bridge.record
        /\ x.bridge.edges = <<>> /\ ~x.bridge.pump /\ ~x.gate.active
        /\ x.hub => x.bridge.silent

\* What the adapter was told went through the gate.
Told(x) == ~x.bridge.stopping /\ x.hub => x.gate.up

\* The last edge of a session without a login is that it was lost: once it has
\* been handled the gate is shut.
Shut(edges, gt) == IF edges = <<>> THEN ~gt.up /\ ~gt.active ELSE ~edges[Len(edges)]

Reported(x) ==
    /\ x.session.state \in {"Idle", "LoggingIn", "LoggingOut", "Failed"}
    /\ ~x.bridge.silent /\ ~x.bridge.stopping
    => Shut(x.bridge.edges, x.gate)

Inv(x) ==
    /\ x.gate.epoch \in Nat /\ x \in State(x.gate.epoch)
    /\ Ledger(x) /\ Legs(x) /\ Carried(x) /\ Stopped(x) /\ Reported(x) /\ Told(x)

\* Steps of the command plane keep it.
LEMMA InvCarries ==
    ASSUME NEW x, Inv(x), NEW y, Carries(x.gate.epoch, x, y)
    PROVE  Inv(y)
  <1>. DEFINE n == x.gate.epoch
  <1>1. n \in Nat /\ x \in State(n) /\ y \in State(n) /\ Ledger(y) /\ SameSession(x, y) /\ NothingNew(x, y)
    BY DEF Inv, Carries
  <1>2. y.gate.epoch = n
    <2>1. y.gate \in Gates(n)
      BY <1>1, Parts
    <2>. QED BY <2>1 DEF Gates
  <1>. HIDE DEF n
  <1>3. Legs(y)
    BY <1>1 DEF Inv, Legs, SameSession, NothingNew
  <1>4. Carried(y)
    BY <1>1 DEF Inv, Carried, SameSession, NothingNew
  <1>5. Stopped(y)
    BY <1>1 DEF Inv, Stopped, SameSession, NothingNew
  <1>6. Reported(y)
    BY <1>1 DEF Inv, Reported, Shut, SameSession, NothingNew
  <1>7. Told(y)
    BY <1>1 DEF Inv, Told, SameSession, NothingNew
  <1>. QED BY <1>1, <1>2, <1>3, <1>4, <1>5, <1>6, <1>7 DEF Inv

-----------------------------------------------------------------------------
(* The session *)

\* A step of the session leaves the queue, the gate and the executor alone.
Moves(n, x, y) ==
    /\ y \in State(n) /\ y.exec = x.exec /\ y.gate = x.gate /\ y.hub = x.hub
    /\ y.answered = x.answered
    /\ y.bridge.pending = x.bridge.pending /\ y.bridge.inFlight = x.bridge.inFlight
    /\ y.bridge.pump = x.bridge.pump /\ y.bridge.stopping = x.bridge.stopping
    /\ y.bridge.record = x.bridge.record
    /\ x.bridge.silent => y.bridge.silent \/ x.bridge.record

\* And it may leave the login and its edges alone.
Calm(x, y) ==
    /\ y.agent.bound = x.agent.bound /\ y.bridge.edges = x.bridge.edges
    /\ y.bridge.silent = x.bridge.silent

\* Such a step keeps the invariant when the session it leads to is in order.
LEMMA InvMoves ==
    ASSUME NEW x, Inv(x), NEW y, Moves(x.gate.epoch, x, y), Legs(y), Carried(y), Reported(y),
           y.bridge.edges = x.bridge.edges \/ x.bridge.record
    PROVE  Inv(y)
  <1>. DEFINE n == x.gate.epoch
  <1>1. n \in Nat /\ x \in State(n) /\ y \in State(n) /\ Ledger(x)
    BY DEF Inv, Moves
  <1>2. y.gate.epoch = n /\ Stopped(y) /\ Told(y)
    BY DEF Inv, Moves, Stopped, Told
  <1>3. Ledger(y)
    BY <1>1, LedgerFrame DEF Moves, SameLedger
  <1>. QED BY <1>1, <1>2, <1>3 DEF Inv

\* Steps of the session compose.
LEMMA MovesCompose ==
    ASSUME NEW n, NEW x, NEW y, NEW z, Moves(n, x, y), Moves(n, y, z)
    PROVE  Moves(n, x, z) /\ (Calm(x, y) /\ Calm(y, z) => Calm(x, z))
  BY DEF Moves, Calm

\* A new value for the session record.
LEMMA SessionMoves ==
    ASSUME NEW n, NEW x \in State(n), NEW s \in Sessions
    PROVE  /\ Moves(n, x, [x EXCEPT !.session = s]) /\ Calm(x, [x EXCEPT !.session = s])
           /\ [x EXCEPT !.session = s].session = s
  <1>. DEFINE y == [x EXCEPT !.session = s]
  <1>1. /\ y \in State(n) /\ y.exec = x.exec /\ y.gate = x.gate /\ y.hub = x.hub
        /\ y.answered = x.answered /\ y.discovered = x.discovered /\ y.resets = x.resets
        /\ y.bridge = x.bridge /\ y.agent = x.agent /\ y.session = s
    BY DEF State
  <1>. HIDE DEF y
  <1>2. Moves(n, x, y) /\ Calm(x, y) /\ y.session = s
    BY <1>1 DEF Moves, Calm
  <1>. QED BY <1>2 DEF y

\* A new state.
LEMMA SetStateMoves ==
    ASSUME NEW n, NEW x \in State(n), NEW st \in LoginState
    PROVE  /\ Moves(n, x, SetState(x, st)) /\ Calm(x, SetState(x, st))
           /\ SetState(x, st).session.state = st
           /\ SetState(x, st).session.timer = x.session.timer
           /\ SetState(x, st).session.retry = x.session.retry
           /\ SetState(x, st) \in State(n)
  <1>. DEFINE s == [x.session EXCEPT !.state = st]
  <1>0. x.session \in Sessions
    BY Parts
  <1>1. s \in Sessions /\ s.state = st /\ s.timer = x.session.timer /\ s.retry = x.session.retry
    BY <1>0 DEF Sessions
  <1>2. SetState(x, st) = [x EXCEPT !.session = s]
    BY DEF SetState
  <1>. HIDE DEF s
  <1>3. Moves(n, x, SetState(x, st)) /\ Calm(x, SetState(x, st)) /\ SetState(x, st).session = s
    BY <1>1, <1>2, SessionMoves
  <1>. QED BY <1>1, <1>3 DEF Moves

\* The timer.
LEMMA ArmMoves ==
    ASSUME NEW n, NEW x \in State(n), NEW t \in SessionTimers
    PROVE  /\ Moves(n, x, Arm(x, t)) /\ Calm(x, Arm(x, t))
           /\ Arm(x, t).session.state = x.session.state
           /\ Arm(x, t).session.timer = t
           /\ Arm(x, t).session.retry = x.session.retry
           /\ Arm(x, t) \in State(n)
  <1>. DEFINE s == [x.session EXCEPT !.timer = t]
  <1>0. x.session \in Sessions
    BY Parts
  <1>1. s \in Sessions /\ s.state = x.session.state /\ s.timer = t /\ s.retry = x.session.retry
    BY <1>0 DEF Sessions
  <1>2. Arm(x, t) = [x EXCEPT !.session = s]
    BY DEF Arm
  <1>. HIDE DEF s
  <1>3. Moves(n, x, Arm(x, t)) /\ Calm(x, Arm(x, t)) /\ Arm(x, t).session = s
    BY <1>1, <1>2, SessionMoves
  <1>. QED BY <1>1, <1>3 DEF Moves

\* The address ranges.
Allocated(x, b) == [x EXCEPT !.session.res = b]

\* They come and go without the state.
LEMMA AllocatedMoves ==
    ASSUME NEW n, NEW x \in State(n), NEW b \in BOOLEAN
    PROVE  /\ Moves(n, x, Allocated(x, b)) /\ Calm(x, Allocated(x, b))
           /\ Allocated(x, b).session.state = x.session.state
           /\ Allocated(x, b).session.timer = x.session.timer
           /\ Allocated(x, b) \in State(n)
  <1>. DEFINE s == [x.session EXCEPT !.res = b]
  <1>0. x.session \in Sessions
    BY Parts
  <1>1. s \in Sessions /\ s.state = x.session.state /\ s.timer = x.session.timer
    BY <1>0 DEF Sessions
  <1>2. Allocated(x, b) = [x EXCEPT !.session = s]
    BY DEF Allocated
  <1>. HIDE DEF s
  <1>3. Moves(n, x, Allocated(x, b)) /\ Calm(x, Allocated(x, b)) /\ Allocated(x, b).session = s
    BY <1>1, <1>2, SessionMoves
  <1>. QED BY <1>1, <1>3 DEF Moves

\* The count of retries.
Retried(x, r) == [x EXCEPT !.session.retry = r]

\* It changes alone.
LEMMA RetriedMoves ==
    ASSUME NEW n, NEW x \in State(n), NEW r \in 0 .. LoginRetryMax
    PROVE  /\ Moves(n, x, Retried(x, r)) /\ Calm(x, Retried(x, r))
           /\ Retried(x, r).session.state = x.session.state
           /\ Retried(x, r).session.timer = x.session.timer
           /\ Retried(x, r) \in State(n)
  <1>. DEFINE s == [x.session EXCEPT !.retry = r]
  <1>0. x.session \in Sessions
    BY Parts
  <1>1. s \in Sessions /\ s.state = x.session.state /\ s.timer = x.session.timer
    BY <1>0 DEF Sessions
  <1>2. Retried(x, r) = [x EXCEPT !.session = s]
    BY DEF Retried
  <1>. HIDE DEF s
  <1>3. Moves(n, x, Retried(x, r)) /\ Calm(x, Retried(x, r)) /\ Retried(x, r).session = s
    BY <1>1, <1>2, SessionMoves
  <1>. QED BY <1>1, <1>3 DEF Moves

\* A management write.
LEMMA PostMoves ==
    ASSUME NEW n, NEW x \in State(n), NEW op \in {"login", "reconnect", "logout"}
    PROVE  /\ Moves(n, x, Post(x, op)) /\ Calm(x, Post(x, op))
           /\ Post(x, op).session = x.session /\ Post(x, op) \in State(n)
  <1>. DEFINE i == x.writes[op] + 1
              wr == [x.writes EXCEPT ![op] = i]
              o == x.owed \cup {<<op>>}
              y == Post(x, op)
  <1>0. x.writes \in Writes /\ x.owed \in SUBSET Notices(n)
    BY Parts
  <1>1. i \in Nat
    BY <1>0 DEF Writes
  <1>2. y = [x EXCEPT !.writes = wr, !.owed = o]
    BY DEF Post, State
  <1>. HIDE DEF i, y
  <1>3. wr \in Writes
    BY <1>0, <1>1 DEF Writes
  <1>4. o \in SUBSET Notices(n)
    BY <1>0 DEF Notices
  <1>. HIDE DEF wr, o
  <1>5. /\ y \in State(n) /\ y.exec = x.exec /\ y.gate = x.gate /\ y.hub = x.hub
        /\ y.answered = x.answered /\ y.discovered = x.discovered /\ y.resets = x.resets
        /\ y.bridge = x.bridge /\ y.agent = x.agent /\ y.session = x.session
    BY <1>2, <1>3, <1>4 DEF State
  <1>6. Moves(n, x, y) /\ Calm(x, y)
    BY <1>5 DEF Moves, Calm
  <1>. QED BY <1>5, <1>6 DEF y

\* What the registry's callback told may change.
LEMMA BridgeMoves ==
    ASSUME NEW n, NEW x \in State(n), NEW b \in Bridges(n),
           b.pending = x.bridge.pending, b.inFlight = x.bridge.inFlight,
           b.pump = x.bridge.pump, b.stopping = x.bridge.stopping,
           b.record = x.bridge.record, x.bridge.silent => b.silent \/ x.bridge.record
    PROVE  /\ Moves(n, x, [x EXCEPT !.bridge = b]) /\ [x EXCEPT !.bridge = b].agent = x.agent
           /\ [x EXCEPT !.bridge = b].session = x.session /\ [x EXCEPT !.bridge = b].bridge = b
  <1>. DEFINE y == [x EXCEPT !.bridge = b]
  <1>1. /\ y \in State(n) /\ y.exec = x.exec /\ y.gate = x.gate /\ y.hub = x.hub
        /\ y.answered = x.answered /\ y.discovered = x.discovered /\ y.resets = x.resets
        /\ y.bridge = b /\ y.agent = x.agent /\ y.session = x.session
    BY DEF State
  <1>. HIDE DEF y
  <1>2. Moves(n, x, y)
    BY <1>1 DEF Moves
  <1>. QED BY <1>1, <1>2 DEF y

\* A failure nobody hears of.
LEMMA FailSilentlyMoves ==
    ASSUME NEW n, NEW x \in State(n)
    PROVE  /\ Moves(n, x, FailSilently(x)) /\ FailSilently(x) \in State(n)
           /\ FailSilently(x).agent.bound = x.agent.bound
           /\ FailSilently(x).session.state = "Failed"
           /\ FailSilently(x).session.timer = x.session.timer
           /\ FailSilently(x).bridge.edges = x.bridge.edges /\ FailSilently(x).bridge.silent
  <1>. DEFINE y == SetState(x, "Failed")
              b == [y.bridge EXCEPT !.silent = TRUE]
              z == [y EXCEPT !.bridge = b]
  <1>1. /\ Moves(n, x, y) /\ Calm(x, y) /\ y.session.state = "Failed"
        /\ y.session.timer = x.session.timer /\ y \in State(n)
    BY SetStateMoves DEF LoginState
  <1>2. FailSilently(x) = z
    BY DEF FailSilently
  <1>. HIDE DEF y
  <1>3. y.bridge \in Bridges(n)
    BY <1>1, Parts
  <1>4. /\ b \in Bridges(n) /\ b.edges = y.bridge.edges /\ b.silent
        /\ b.pending = y.bridge.pending /\ b.inFlight = y.bridge.inFlight
        /\ b.pump = y.bridge.pump /\ b.stopping = y.bridge.stopping
        /\ b.record = y.bridge.record
    BY <1>3 DEF Bridges
  <1>. HIDE DEF b
  <1>5. Moves(n, y, z) /\ z.agent = y.agent /\ z.session = y.session /\ z.bridge = b
    BY <1>1, <1>4, BridgeMoves
  <1>. HIDE DEF z
  <1>6. Moves(n, x, z)
    BY <1>1, <1>5, MovesCompose
  <1>7. z \in State(n) /\ z.agent.bound = x.agent.bound /\ z.bridge.edges = x.bridge.edges
    BY <1>1, <1>4, <1>5 DEF Calm, Moves
  <1>. QED BY <1>1, <1>2, <1>4, <1>5, <1>6, <1>7

\* An edge is sent when the registry knows the session.
LEMMA LoginCallbackMoves ==
    ASSUME NEW n, NEW x \in State(n), NEW up \in BOOLEAN
    PROVE  /\ Moves(n, x, LoginCallback(x, up)) /\ LoginCallback(x, up) \in State(n)
           /\ LoginCallback(x, up).agent = x.agent
           /\ LoginCallback(x, up).session = x.session
           /\ x.bridge.record => /\ LoginCallback(x, up).bridge.edges = Append(x.bridge.edges, up)
                                 /\ ~LoginCallback(x, up).bridge.silent
           /\ ~x.bridge.record => LoginCallback(x, up) = x
  <1>. DEFINE e == Append(x.bridge.edges, up)
              b == [x.bridge EXCEPT !.edges = e, !.silent = FALSE]
              y == [x EXCEPT !.bridge = b]
  <1>0. x.bridge \in Bridges(n) /\ x.bridge.edges \in Seq(BOOLEAN)
    <2>1. x.bridge \in Bridges(n)
      BY Parts
    <2>. QED BY <2>1 DEF Bridges
  <1>1. e \in Seq(BOOLEAN)
    BY <1>0, AppendProperties
  <1>2. LoginCallback(x, up) = IF x.bridge.record THEN y ELSE x
    BY DEF LoginCallback
  <1>. HIDE DEF e
  <1>3. /\ b \in Bridges(n) /\ b.edges = e /\ ~b.silent
        /\ b.pending = x.bridge.pending /\ b.inFlight = x.bridge.inFlight
        /\ b.pump = x.bridge.pump /\ b.stopping = x.bridge.stopping
        /\ b.record = x.bridge.record
    BY <1>0, <1>1 DEF Bridges
  <1>. HIDE DEF b
  <1>4. x.bridge.record => Moves(n, x, y) /\ y.agent = x.agent /\ y.session = x.session /\ y.bridge = b
    BY <1>3, BridgeMoves
  <1>. HIDE DEF y
  <1>5. Moves(n, x, x) /\ (x.bridge.record => y \in State(n))
    BY <1>4 DEF Moves
  <1>. QED BY <1>2, <1>3, <1>4, <1>5 DEF e

\* A lost session.
LEMMA LostMoves ==
    ASSUME NEW n, NEW x \in State(n), x.bridge.record
    PROVE  /\ Moves(n, x, LoginCallback(x, FALSE)) /\ LoginCallback(x, FALSE) \in State(n)
           /\ LoginCallback(x, FALSE).agent = x.agent
           /\ LoginCallback(x, FALSE).session = x.session
           /\ LoginCallback(x, FALSE).bridge.edges = Append(x.bridge.edges, FALSE)
  <1>1. PICK up \in BOOLEAN : up = FALSE
    OBVIOUS
  <1>2. /\ Moves(n, x, LoginCallback(x, up)) /\ LoginCallback(x, up) \in State(n)
        /\ LoginCallback(x, up).agent = x.agent
        /\ LoginCallback(x, up).session = x.session
        /\ LoginCallback(x, up).bridge.edges = Append(x.bridge.edges, up)
    BY LoginCallbackMoves
  <1>. QED BY <1>1, <1>2

\* A new login.
LEMMA FoundMoves ==
    ASSUME NEW n, NEW x \in State(n)
    PROVE  /\ Moves(n, x, LoginCallback(x, TRUE)) /\ LoginCallback(x, TRUE) \in State(n)
           /\ LoginCallback(x, TRUE).agent = x.agent
           /\ LoginCallback(x, TRUE).session = x.session
           /\ ~x.bridge.record => LoginCallback(x, TRUE).bridge.edges = x.bridge.edges
  <1>1. PICK up \in BOOLEAN : up = TRUE
    OBVIOUS
  <1>2. /\ Moves(n, x, LoginCallback(x, up)) /\ LoginCallback(x, up) \in State(n)
        /\ LoginCallback(x, up).agent = x.agent
        /\ LoginCallback(x, up).session = x.session
        /\ ~x.bridge.record => LoginCallback(x, up).bridge.edges = x.bridge.edges
    BY LoginCallbackMoves
  <1>. QED BY <1>1, <1>2

\* The agent is bound to a login or unbound.
LEMMA BindMoves ==
    ASSUME NEW n, NEW x \in State(n)
    PROVE  /\ Moves(n, x, Bind(x)) /\ Bind(x).agent.bound /\ Bind(x).session = x.session
           /\ Bind(x).bridge = x.bridge /\ Bind(x) \in State(n)
           /\ Moves(n, x, Unbind(x)) /\ ~Unbind(x).agent.bound /\ Unbind(x).session = x.session
           /\ Unbind(x).bridge = x.bridge /\ Unbind(x) \in State(n)
  <1>1. ASSUME NEW b \in BOOLEAN, NEW y, y = Bound(x, b)
        PROVE  /\ Moves(n, x, y) /\ y.agent.bound = b /\ y.session = x.session
               /\ y.bridge = x.bridge /\ y \in State(n)
    <2>1. /\ y \in State(n) /\ y.agent.bound = b
          /\ y.session = x.session /\ y.exec = x.exec /\ y.bridge = x.bridge
          /\ y.gate = x.gate /\ y.hub = x.hub /\ y.answered = x.answered
          /\ y.writes = x.writes /\ y.discovered = x.discovered /\ y.resets = x.resets
      BY <1>1, BindFrame
    <2>. QED BY <2>1 DEF Moves
  <1>2. /\ Moves(n, x, Bind(x)) /\ Bind(x).agent.bound = TRUE /\ Bind(x).session = x.session
        /\ Bind(x).bridge = x.bridge /\ Bind(x) \in State(n)
    BY <1>1 DEF Bind, Bound
  <1>3. /\ Moves(n, x, Unbind(x)) /\ Unbind(x).agent.bound = FALSE /\ Unbind(x).session = x.session
        /\ Unbind(x).bridge = x.bridge /\ Unbind(x) \in State(n)
    BY <1>1 DEF Unbind, Bound
  <1>. QED BY <1>2, <1>3

\* The state of a stack without a session is a state.
LEMMA FreshTyped ==
    /\ NoSession \in Sessions /\ NoWrites \in Writes
    /\ \A n : FreshAgent \in Agents(n) /\ FreshExec \in Execs(n) /\ NoWire \in Wires(n)
    /\ NoSession.state = "Idle" /\ NoSession.timer = "none" /\ ~FreshAgent.bound
    /\ FreshExec.cb = None /\ FreshExec.cmd = None /\ ~FreshExec.mgmt
  <1>1. NoSession \in Sessions /\ NoSession.state = "Idle" /\ NoSession.timer = "none"
    BY StorageAssumption DEF NoSession, Sessions, LoginState, SessionTimers
  <1>2. NoWrites \in Writes
    BY DEF NoWrites, Writes
  <1>3. ASSUME NEW n
        PROVE  FreshAgent \in Agents(n) /\ FreshExec \in Execs(n) /\ NoWire \in Wires(n)
    <2>1. None \in Maybe(n) /\ <<>> \in Seq(Tasks(n)) /\ {} \in SUBSET Tasks(n)
      BY DEF Maybe
    <2>2. 0 \in 0 .. WriteRetries
      BY StorageAssumption
    <2>3. FreshAgent \in Agents(n)
      BY <2>1, <2>2 DEF FreshAgent, Agents
    <2>4. FreshExec \in Execs(n)
      BY <2>1 DEF FreshExec, Execs
    <2>5. NoWire \in Wires(n)
      BY DEF NoWire, Wires
    <2>. QED BY <2>3, <2>4, <2>5
  <1>4. FreshExec.cb = None /\ FreshExec.cmd = None /\ ~FreshExec.mgmt /\ ~FreshAgent.bound
    BY DEF FreshExec, FreshAgent
  <1>. QED BY <1>1, <1>2, <1>3, <1>4

\* The session object goes.
LEMMA ForgetMoves ==
    ASSUME NEW n, NEW x \in State(n)
    PROVE  /\ Moves(n, x, Forget(x)) /\ Forget(x) \in State(n) /\ Forget(x).bridge = x.bridge
           /\ Forget(x).session = NoSession /\ ~Forget(x).agent.bound
  <1>. DEFINE y == Forget(x)
  <1>1. {} \in SUBSET Notices(n)
    OBVIOUS
  <1>2. /\ y \in State(n) /\ y.exec = x.exec /\ y.gate = x.gate /\ y.hub = x.hub
        /\ y.answered = x.answered /\ y.discovered = x.discovered /\ y.resets = x.resets
        /\ y.bridge = x.bridge /\ y.agent = FreshAgent /\ y.session = NoSession
    <2>1. /\ NoSession \in Sessions /\ NoWrites \in Writes
          /\ FreshAgent \in Agents(n) /\ NoWire \in Wires(n)
      BY FreshTyped
    <2>. QED BY <1>1, <2>1 DEF State, Forget
  <1>. HIDE DEF y
  <1>3. Moves(n, x, y) /\ ~y.agent.bound
    BY <1>2, FreshTyped DEF Moves
  <1>. QED BY <1>2, <1>3 DEF y

\* The states of a session that has no login, not even one to reconnect to.
Unlogged == {"Idle", "LoggingIn", "LoggingOut", "Failed"}

\* A session known to the registry that changes its state without logging in or
\* out, and without getting into another login unreported.
LEMMA InvCalm ==
    ASSUME NEW x, Inv(x), NEW z, Moves(x.gate.epoch, x, z), Calm(x, z), x.bridge.record,
           x.session.state # "LoggedIn", z.session.state # "LoggedIn",
           z.session.state # "LoggingOut",
           z.session.state \in Unlogged => x.session.state \in Unlogged,
           z.session.state \in {"Suspended", "Reconnecting"} =>
               z.session.timer \in {"none", "reconnect", "reconnectTimeout"}
    PROVE  Inv(z)
  <1>1. Legs(z)
    BY DEF Legs, Inv, Moves, Calm
  <1>2. Carried(z)
    BY DEF Carried, Inv, Moves, Calm
  <1>3. Reported(z)
    BY DEF Reported, Inv, Moves, Calm, Unlogged, Shut
  <1>. QED BY <1>1, <1>2, <1>3, InvMoves DEF Calm

\* One that fails in silence.
LEMMA InvFailed ==
    ASSUME NEW x, Inv(x), NEW z, Moves(x.gate.epoch, x, z), x.bridge.record,
           x.session.state # "LoggedIn", z.session.state = "Failed",
           z.agent.bound = x.agent.bound, z.bridge.edges = x.bridge.edges, z.bridge.silent
    PROVE  Inv(z)
  <1>1. Legs(z)
    BY DEF Legs, Inv, Moves
  <1>2. Carried(z)
    BY DEF Carried, Inv, Moves
  <1>3. Reported(z)
    BY DEF Reported, Inv, Moves
  <1>. QED BY <1>1, <1>2, <1>3, InvMoves

\* One that is reported lost.
LEMMA InvLost ==
    ASSUME NEW x, Inv(x), NEW z, Moves(x.gate.epoch, x, z), x.bridge.record,
           x.session.state # "LoggedIn", z.session.state \in {"Idle", "Failed"},
           z.agent.bound = x.agent.bound, z.bridge.edges = Append(x.bridge.edges, FALSE)
    PROVE  Inv(z)
  <1>1. Legs(z)
    BY DEF Legs, Inv, Moves
  <1>2. Carried(z)
    BY DEF Carried, Inv, Moves
  <1>3. Shut(z.bridge.edges, z.gate)
    <2>. DEFINE n == x.gate.epoch
    <2>1. x.bridge.edges \in Seq(BOOLEAN)
      <3>1. x \in State(n)
        BY DEF Inv
      <3>2. x.bridge \in Bridges(n)
        BY <3>1, Parts
      <3>. QED BY <3>2 DEF Bridges
    <2>2. PICK v \in BOOLEAN : v = FALSE
      OBVIOUS
    <2>. DEFINE e == Append(x.bridge.edges, v)
    <2>3. e # <<>> /\ Len(e) = Len(x.bridge.edges) + 1 /\ e[Len(x.bridge.edges) + 1] = v
      BY <2>1, AppendProperties
    <2>4. z.bridge.edges = e
      BY <2>2
    <2>. HIDE DEF e
    <2>. QED BY <2>2, <2>3, <2>4 DEF Shut
  <1>4. Reported(z)
    BY <1>3 DEF Reported
  <1>. QED BY <1>1, <1>2, <1>4, InvMoves

\* A login of a session that has none.
LEMMA LoginKeeps ==
    ASSUME NEW x, Inv(x), x.bridge.record, x.session.state \in Unlogged \cup {"LoggedIn"}, NEW o
    PROVE  Inv(Login(x, o))
  <1>. DEFINE n == x.gate.epoch
              y == Allocated(x, TRUE)
              s == SetState(y, "LoggingIn")
              p == Post(s, "login")
              a == Arm(p, "loginTimeout")
  <1>0. x \in State(n) /\ TRUE \in BOOLEAN /\ "LoggingIn" \in LoginState /\ "loginTimeout" \in SessionTimers
    BY DEF Inv, LoginState, SessionTimers
  <1>1. Login(x, o) = IF x.session.state \in {"LoggingIn", "LoggedIn"} THEN x
                      ELSE IF ~x.session.res /\ ~o.alloc THEN FailSilently(x)
                      ELSE IF ~o.mgmt THEN FailSilently(y)
                      ELSE a
    BY DEF Login, Allocated
  <1>2. CASE x.session.state \in {"LoggingIn", "LoggedIn"}
    BY <1>1, <1>2
  <1>3. CASE x.session.state \notin {"LoggingIn", "LoggedIn"}
    <2>1. /\ Moves(n, x, y) /\ Calm(x, y) /\ y.session.state = x.session.state
          /\ y.session.timer = x.session.timer /\ y \in State(n)
      BY <1>0, AllocatedMoves
    <2>. HIDE DEF y
    <2>2. Inv(FailSilently(x))
      <3>1. /\ Moves(n, x, FailSilently(x)) /\ FailSilently(x).agent.bound = x.agent.bound
            /\ FailSilently(x).session.state = "Failed"
            /\ FailSilently(x).bridge.edges = x.bridge.edges /\ FailSilently(x).bridge.silent
        BY <1>0, FailSilentlyMoves
      <3>. QED BY <1>3, <3>1, InvFailed
    <2>3. Inv(FailSilently(y))
      <3>1. /\ Moves(n, y, FailSilently(y)) /\ FailSilently(y).agent.bound = y.agent.bound
            /\ FailSilently(y).session.state = "Failed"
            /\ FailSilently(y).bridge.edges = y.bridge.edges /\ FailSilently(y).bridge.silent
        BY <2>1, FailSilentlyMoves
      <3>2. /\ Moves(n, x, FailSilently(y)) /\ FailSilently(y).agent.bound = x.agent.bound
            /\ FailSilently(y).bridge.edges = x.bridge.edges
        BY <2>1, <3>1, MovesCompose DEF Calm
      <3>. QED BY <1>3, <3>1, <3>2, InvFailed
    <2>4. Inv(a)
      <3>1. Moves(n, y, s) /\ Calm(y, s) /\ s.session.state = "LoggingIn" /\ s \in State(n)
        BY <1>0, <2>1, SetStateMoves
      <3>. HIDE DEF s
      <3>2. Moves(n, s, p) /\ Calm(s, p) /\ p.session = s.session /\ p \in State(n)
        BY <3>1, PostMoves
      <3>. HIDE DEF p
      <3>3. Moves(n, p, a) /\ Calm(p, a) /\ a.session.state = p.session.state
        BY <1>0, <3>2, ArmMoves
      <3>. HIDE DEF a
      <3>4. Moves(n, x, a) /\ Calm(x, a) /\ a.session.state = "LoggingIn"
        BY <2>1, <3>1, <3>2, <3>3, MovesCompose
      <3>5. x.session.state \in Unlogged
        BY <1>3
      <3>. QED BY <1>3, <3>4, <3>5, InvCalm
    <2>. HIDE DEF a
    <2>. QED BY <1>1, <1>3, <2>2, <2>3, <2>4
  <1>. QED BY <1>2, <1>3

\* A reconnect of a session that a bus reset suspended.
LEMMA ReconnectKeeps ==
    ASSUME NEW x, Inv(x), x.session.state # "LoggedIn", NEW o
    PROVE  Inv(Reconnect(x, o))
  <1>. DEFINE n == x.gate.epoch
              w == Allocated(x, TRUE)
              y == SetState(w, "Reconnecting")
              p == Post(y, "reconnect")
              a == Arm(y, "reconnectTimeout")
  <1>0. /\ x \in State(n) /\ TRUE \in BOOLEAN /\ "Reconnecting" \in LoginState
        /\ "reconnectTimeout" \in SessionTimers
    BY DEF Inv, LoginState, SessionTimers
  <1>1. Reconnect(x, o) = IF x.session.state \notin {"Suspended", "LoggedIn"} THEN x
                          ELSE IF ~x.session.res /\ ~o.alloc THEN FailSilently(x)
                          ELSE IF o.mgmt THEN p ELSE a
    BY DEF Reconnect, Allocated
  <1>2. CASE x.session.state # "Suspended"
    BY <1>1, <1>2
  <1>3. CASE x.session.state = "Suspended"
    <2>0. x.bridge.record /\ x.session.timer \in {"none", "reconnect", "reconnectTimeout"}
      BY <1>3 DEF Inv, Legs
    <2>1. /\ Moves(n, x, w) /\ Calm(x, w) /\ w.session.state = x.session.state
          /\ w.session.timer = x.session.timer /\ w \in State(n)
      BY <1>0, AllocatedMoves
    <2>. HIDE DEF w
    <2>2. Inv(FailSilently(x))
      <3>1. /\ Moves(n, x, FailSilently(x)) /\ FailSilently(x).agent.bound = x.agent.bound
            /\ FailSilently(x).session.state = "Failed"
            /\ FailSilently(x).bridge.edges = x.bridge.edges /\ FailSilently(x).bridge.silent
        BY <1>0, FailSilentlyMoves
      <3>. QED BY <1>3, <2>0, <3>1, InvFailed
    <2>3. /\ Moves(n, w, y) /\ Calm(w, y) /\ y.session.state = "Reconnecting"
          /\ y.session.timer = w.session.timer /\ y \in State(n)
      BY <1>0, <2>1, SetStateMoves
    <2>. HIDE DEF y
    <2>4. Moves(n, x, y) /\ Calm(x, y)
      BY <2>1, <2>3, MovesCompose
    <2>5. Inv(p)
      <3>1. Moves(n, y, p) /\ Calm(y, p) /\ p.session = y.session
        BY <2>3, PostMoves
      <3>. HIDE DEF p
      <3>2. Moves(n, x, p) /\ Calm(x, p)
        BY <2>4, <3>1, MovesCompose
      <3>. QED BY <1>3, <2>0, <2>1, <2>3, <3>1, <3>2, InvCalm DEF Unlogged
    <2>6. Inv(a)
      <3>1. Moves(n, y, a) /\ Calm(y, a) /\ a.session.state = y.session.state
            /\ a.session.timer = "reconnectTimeout"
        BY <1>0, <2>3, ArmMoves
      <3>. HIDE DEF a
      <3>2. Moves(n, x, a) /\ Calm(x, a)
        BY <2>4, <3>1, MovesCompose
      <3>. QED BY <1>3, <2>0, <2>1, <2>3, <3>1, <3>2, InvCalm DEF Unlogged
    <2>. HIDE DEF a, p
    <2>. QED BY <1>1, <1>3, <2>2, <2>5, <2>6
  <1>. QED BY <1>2, <1>3

\* The timer of a session that is not logged in.
LEMMA ArmKeeps ==
    ASSUME NEW x, Inv(x), NEW t \in SessionTimers,
           \/ t = "none"
           \/ /\ x.bridge.record /\ x.session.state \in {"LoggingIn", "Reconnecting"}
              /\ x.session.state = "Reconnecting" => t \in {"reconnect", "reconnectTimeout"}
           \/ x.session.state = "LoggingOut" /\ t = "logoutTimeout"
    PROVE  /\ Inv(Arm(x, t)) /\ Arm(x, t).session.state = x.session.state
           /\ Arm(x, t).bridge.record = x.bridge.record /\ Arm(x, t).session.timer = t
  <1>. DEFINE n == x.gate.epoch
              y == Arm(x, t)
  <1>1. x \in State(n)
    BY DEF Inv
  <1>2. /\ Moves(n, x, y) /\ Calm(x, y) /\ y.session.state = x.session.state
        /\ y.session.timer = t
    BY <1>1, ArmMoves
  <1>. HIDE DEF y, n
  <1>3. Legs(y)
    BY <1>2 DEF Legs, Inv, Moves, Calm
  <1>4. Carried(y) /\ Reported(y)
    BY <1>2 DEF Carried, Reported, Shut, Inv, Moves, Calm
  <1>5. Inv(y)
    BY <1>2, <1>3, <1>4, InvMoves DEF Calm, n
  <1>. QED BY <1>2, <1>5 DEF y, Moves

\* A login attempt that failed.
LEMMA LoginFailedKeeps ==
    ASSUME NEW x, Inv(x), x.session.state = "LoggingIn", NEW t \in SessionTimers
    PROVE  /\ Inv(LoginFailed(x, t)) /\ LoginFailed(x, t).bridge.record
           /\ LoginFailed(x, t).session.state \in {"LoggingIn", "Failed"}
  <1>. DEFINE n == x.gate.epoch
              r == x.session.retry + 1
              y == Retried(x, r)
              f == SetState(x, "Failed")
              g == LoginCallback(f, FALSE)
  <1>0. x \in State(n) /\ "Failed" \in LoginState
    BY DEF Inv, LoginState
  <1>1. x.bridge.record
    BY DEF Inv, Legs
  <1>2. CASE x.session.retry < LoginRetryMax
    <2>1. r \in 0 .. LoginRetryMax
      <3>1. x.session \in Sessions
        BY <1>0, Parts
      <3>2. x.session.retry \in 0 .. LoginRetryMax
        BY <3>1 DEF Sessions
      <3>. QED BY <1>2, <3>2, StorageAssumption
    <2>2. LoginFailed(x, t) = Arm(y, t)
      BY <1>2 DEF LoginFailed, Retried
    <2>. HIDE DEF r
    <2>3. /\ Moves(n, x, y) /\ Calm(x, y) /\ y.session.state = x.session.state
      BY <1>0, <2>1, RetriedMoves
    <2>. HIDE DEF y
    <2>4. Inv(y)
      BY <1>1, <2>3, InvCalm DEF Unlogged
    <2>5. y.bridge.record /\ y.session.state = "LoggingIn"
      BY <1>1, <2>3 DEF Moves
    <2>. QED BY <2>2, <2>4, <2>5, ArmKeeps
  <1>3. CASE ~(x.session.retry < LoginRetryMax)
    <2>1. LoginFailed(x, t) = g
      BY <1>3 DEF LoginFailed
    <2>2. Moves(n, x, f) /\ Calm(x, f) /\ f.session.state = "Failed" /\ f \in State(n)
      BY <1>0, SetStateMoves
    <2>3. f.bridge.record
      BY <1>1, <2>2 DEF Moves
    <2>. HIDE DEF f
    <2>4. /\ Moves(n, f, g) /\ g.agent = f.agent /\ g.session = f.session
          /\ g.bridge.edges = Append(f.bridge.edges, FALSE)
      BY <2>2, <2>3, LostMoves
    <2>. HIDE DEF g
    <2>5. Moves(n, x, g)
      BY <2>2, <2>4, MovesCompose
    <2>6. /\ g.agent.bound = x.agent.bound /\ g.bridge.edges = Append(x.bridge.edges, FALSE)
          /\ g.session.state = "Failed" /\ g.bridge.record
      BY <1>1, <2>2, <2>4, <2>5 DEF Calm, Moves
    <2>7. Inv(g)
      BY <1>1, <2>5, <2>6, InvLost
    <2>. QED BY <2>1, <2>6, <2>7
  <1>. QED BY <1>2, <1>3

\* The completion of a login write.
LEMMA OnLoginWriteCompleteKeeps ==
    ASSUME NEW x, Inv(x), NEW ok
    PROVE  Inv(OnLoginWriteComplete(x, ok))
  <1>. DEFINE y == Arm(x, "none")
  <1>0. {"none", "loginTimeout", "loginRetry"} \subseteq SessionTimers
    BY DEF SessionTimers
  <1>1. Inv(y) /\ y.session.state = x.session.state /\ y.bridge.record = x.bridge.record
    BY <1>0, ArmKeeps
  <1>2. OnLoginWriteComplete(x, ok) = IF x.session.state # "LoggingIn" THEN x
                                      ELSE IF ok THEN Arm(y, "loginTimeout")
                                      ELSE LoginFailed(y, "loginRetry")
    BY DEF OnLoginWriteComplete
  <1>. HIDE DEF y
  <1>3. CASE x.session.state = "LoggingIn"
    <2>1. y.bridge.record
      BY <1>1, <1>3 DEF Inv, Legs
    <2>2. Inv(Arm(y, "loginTimeout"))
      BY <1>0, <1>1, <1>3, <2>1, ArmKeeps
    <2>3. Inv(LoginFailed(y, "loginRetry"))
      BY <1>0, <1>1, <1>3, LoginFailedKeeps
    <2>. QED BY <1>2, <1>3, <2>2, <2>3
  <1>. QED BY <1>2, <1>3

\* A session that goes back to Idle.
LEMMA IdleKeeps ==
    ASSUME NEW x, Inv(x), x.bridge.record, x.session.state \in {"Idle", "LoggingIn", "Failed"}
    PROVE  /\ Inv(SetState(x, "Idle")) /\ SetState(x, "Idle").bridge.record
           /\ SetState(x, "Idle").session.state = "Idle"
  <1>. DEFINE n == x.gate.epoch
              y == SetState(x, "Idle")
  <1>0. x \in State(n) /\ "Idle" \in LoginState
    BY DEF Inv, LoginState
  <1>1. Moves(n, x, y) /\ Calm(x, y) /\ y.session.state = "Idle"
    BY <1>0, SetStateMoves
  <1>. HIDE DEF y
  <1>2. Inv(y)
    BY <1>1, InvCalm DEF Unlogged
  <1>. QED BY <1>1, <1>2 DEF y, Moves

\* The login timer.
LEMMA OnLoginTimeoutKeeps ==
    ASSUME NEW x, Inv(x), NEW o
    PROVE  Inv(OnLoginTimeout(x, o))
  <1>. DEFINE y == LoginFailed(x, "none")
              z == SetState(y, "Idle")
  <1>0. "none" \in SessionTimers
    BY DEF SessionTimers
  <1>1. OnLoginTimeout(x, o) = IF x.session.state # "LoggingIn" THEN x
                               ELSE IF y.session.state = "Failed" THEN y
                               ELSE Login(z, o)
    BY DEF OnLoginTimeout
  <1>2. CASE x.session.state = "LoggingIn"
    <2>1. Inv(y) /\ y.bridge.record /\ y.session.state \in {"LoggingIn", "Failed"}
      BY <1>0, <1>2, LoginFailedKeeps
    <2>. HIDE DEF y
    <2>2. Inv(z) /\ z.bridge.record /\ z.session.state = "Idle"
      BY <2>1, IdleKeeps
    <2>. HIDE DEF z
    <2>3. Inv(Login(z, o))
      BY <2>2, LoginKeeps DEF Unlogged
    <2>. QED BY <1>1, <1>2, <2>1, <2>3
  <1>. QED BY <1>1, <1>2

\* The completion of a reconnect write.
LEMMA OnReconnectWriteCompleteKeeps ==
    ASSUME NEW x, Inv(x), NEW ok
    PROVE  Inv(OnReconnectWriteComplete(x, ok))
  <1>0. {"reconnect", "reconnectTimeout"} \subseteq SessionTimers
    BY DEF SessionTimers
  <1>1. CASE x.session.state = "Reconnecting"
    <2>1. x.bridge.record
      BY <1>1 DEF Inv, Legs
    <2>2. Inv(Arm(x, "reconnect")) /\ Inv(Arm(x, "reconnectTimeout"))
      BY <1>0, <1>1, <2>1, ArmKeeps
    <2>. QED BY <1>1, <2>2 DEF OnReconnectWriteComplete
  <1>. QED BY <1>1 DEF OnReconnectWriteComplete

\* A session that could not reconnect is reported lost and logs in again.
LEMMA LoseSessionKeeps ==
    ASSUME NEW x, Inv(x), x.session.state = "Reconnecting", NEW o
    PROVE  Inv(LoseSession(x, o))
  <1>. DEFINE n == x.gate.epoch
              f == LoginCallback(x, FALSE)
              z == SetState(f, "Idle")
  <1>0. x \in State(n) /\ "Idle" \in LoginState
    BY DEF Inv, LoginState
  <1>1. x.bridge.record
    BY DEF Inv, Legs
  <1>2. LoseSession(x, o) = Login(z, o)
    BY DEF LoseSession, NotifySessionLost
  <1>3. /\ Moves(n, x, f) /\ f.agent = x.agent /\ f.session = x.session /\ f \in State(n)
        /\ f.bridge.edges = Append(x.bridge.edges, FALSE)
    BY <1>0, <1>1, LostMoves
  <1>. HIDE DEF f
  <1>4. Moves(n, f, z) /\ Calm(f, z) /\ z.session.state = "Idle"
    BY <1>0, <1>3, SetStateMoves
  <1>. HIDE DEF z
  <1>5. Moves(n, x, z)
    BY <1>3, <1>4, MovesCompose
  <1>6. /\ z.agent.bound = x.agent.bound /\ z.bridge.edges = Append(x.bridge.edges, FALSE)
        /\ z.bridge.record
    BY <1>1, <1>3, <1>4, <1>5 DEF Calm, Moves
  <1>7. Inv(z)
    BY <1>1, <1>4, <1>5, <1>6, InvLost
  <1>. QED BY <1>2, <1>4, <1>6, <1>7, LoginKeeps DEF Unlogged

\* The session object goes, once nothing depends on it.
LEMMA ForgetKeeps ==
    ASSUME NEW x, Inv(x), x.session.state \in Unlogged
    PROVE  /\ Inv(Forget(x)) /\ Forget(x).session.state = "Idle" /\ Forget(x).session.timer = "none"
           /\ Forget(x).bridge = x.bridge
  <1>. DEFINE n == x.gate.epoch
              y == Forget(x)
  <1>0. x \in State(n)
    BY DEF Inv
  <1>1. Moves(n, x, y) /\ y.bridge = x.bridge /\ y.session = NoSession /\ ~y.agent.bound
    BY <1>0, ForgetMoves
  <1>2. y.session.state = "Idle" /\ y.session.timer = "none"
    BY <1>1, FreshTyped
  <1>. HIDE DEF y
  <1>3. Legs(y)
    BY <1>1, <1>2 DEF Legs, Inv, Moves
  <1>4. Carried(y) /\ Reported(y)
    BY <1>1, <1>2 DEF Carried, Reported, Shut, Inv, Moves, Unlogged
  <1>5. Inv(y)
    BY <1>1, <1>3, <1>4, InvMoves
  <1>. QED BY <1>1, <1>2, <1>5 DEF y

\* Only the route, the retirement and the publication of the unit change.
LEMMA BridgeKeeps ==
    ASSUME NEW x, Inv(x), NEW b \in Bridges(x.gate.epoch),
           b.pending = x.bridge.pending, b.inFlight = x.bridge.inFlight,
           b.pump = x.bridge.pump, b.stopping = x.bridge.stopping,
           b.record = x.bridge.record, b.edges = x.bridge.edges, b.silent = x.bridge.silent
    PROVE  /\ Inv([x EXCEPT !.bridge = b]) /\ [x EXCEPT !.bridge = b].session = x.session
           /\ [x EXCEPT !.bridge = b].bridge = b
  <1>. DEFINE n == x.gate.epoch
              y == [x EXCEPT !.bridge = b]
  <1>0. x \in State(n)
    BY DEF Inv
  <1>1. Moves(n, x, y) /\ y.agent = x.agent /\ y.session = x.session /\ y.bridge = b
    BY <1>0, BridgeMoves
  <1>. HIDE DEF y
  <1>2. Legs(y)
    BY <1>1 DEF Legs, Inv, Moves
  <1>3. Carried(y) /\ Reported(y)
    BY <1>1 DEF Carried, Reported, Shut, Inv, Moves
  <1>4. Inv(y)
    BY <1>1, <1>2, <1>3, InvMoves
  <1>. QED BY <1>1, <1>4 DEF y

\* The end of a logout.
LEMMA LogoutDoneKeeps ==
    ASSUME NEW x, Inv(x), x.session.state = "LoggingOut"
    PROVE  Inv(LogoutDone(x))
  <1>. DEFINE y == Forget(x)
              b == [y.bridge EXCEPT !.retiring = FALSE]
  <1>1. Inv(y)
    BY ForgetKeeps DEF Unlogged
  <1>2. LogoutDone(x) = [y EXCEPT !.bridge = b]
    BY DEF LogoutDone
  <1>. HIDE DEF y
  <1>3. y.bridge \in Bridges(y.gate.epoch)
    BY <1>1, Parts DEF Inv
  <1>4. /\ b \in Bridges(y.gate.epoch)
        /\ b.pending = y.bridge.pending /\ b.inFlight = y.bridge.inFlight
        /\ b.pump = y.bridge.pump /\ b.stopping = y.bridge.stopping
        /\ b.record = y.bridge.record /\ b.edges = y.bridge.edges /\ b.silent = y.bridge.silent
    BY <1>3 DEF Bridges
  <1>. HIDE DEF b
  <1>. QED BY <1>1, <1>2, <1>4, BridgeKeeps

\* The completion of a logout write.
LEMMA OnLogoutWriteCompleteKeeps ==
    ASSUME NEW x, Inv(x), NEW ok
    PROVE  Inv(OnLogoutWriteComplete(x, ok))
  <1>0. {"none", "logoutTimeout"} \subseteq SessionTimers
    BY DEF SessionTimers
  <1>1. CASE x.session.state = "LoggingOut"
    <2>1. Inv(Arm(x, "logoutTimeout"))
      BY <1>0, <1>1, ArmKeeps
    <2>2. Inv(Arm(x, "none")) /\ Arm(x, "none").session.state = "LoggingOut"
      BY <1>0, <1>1, ArmKeeps
    <2>3. Inv(LogoutDone(Arm(x, "none")))
      BY <2>2, LogoutDoneKeeps
    <2>. QED BY <1>1, <2>1, <2>3 DEF OnLogoutWriteComplete
  <1>. QED BY <1>1 DEF OnLogoutWriteComplete

\* The session logs in: the agent is bound and the bridge is told.
LEMMA LoggedInKeeps ==
    ASSUME NEW x, Inv(x), x.session.state \in {"LoggingIn", "Reconnecting"}, NEW y,
           Moves(x.gate.epoch, x, y), Calm(x, y), y.session.timer = "none"
    PROVE  Inv(LoginCallback(Bind(SetState(y, "LoggedIn")), TRUE))
  <1>. DEFINE n == x.gate.epoch
              s == SetState(y, "LoggedIn")
              b == Bind(s)
              z == LoginCallback(b, TRUE)
  <1>0. x.bridge.record
    BY DEF Inv, Legs
  <1>1. y \in State(n) /\ "LoggedIn" \in LoginState
    BY DEF Moves, LoginState
  <1>2. /\ Moves(n, y, s) /\ s.session.state = "LoggedIn" /\ s.session.timer = y.session.timer
        /\ s \in State(n)
    BY <1>1, SetStateMoves
  <1>. HIDE DEF s
  <1>3. Moves(n, s, b) /\ b.agent.bound /\ b.session = s.session /\ b \in State(n)
    BY <1>2, BindMoves
  <1>. HIDE DEF b
  <1>4. Moves(n, b, z) /\ z.agent = b.agent /\ z.session = b.session
    BY <1>3, FoundMoves
  <1>. HIDE DEF z
  <1>5. Moves(n, x, z)
    BY <1>2, <1>3, <1>4, MovesCompose
  <1>6. Legs(z)
    BY <1>0, <1>2, <1>3, <1>4, <1>5 DEF Legs, Moves
  <1>7. Carried(z) /\ Reported(z)
    BY <1>2, <1>3, <1>4 DEF Carried, Reported
  <1>8. Inv(z)
    BY <1>0, <1>5, <1>6, <1>7, InvMoves
  <1>. QED BY <1>8 DEF z, b, s

\* The status of a login.
LEMMA CompleteLoginKeeps ==
    ASSUME NEW x, Inv(x), x.session.state = "LoggingIn", x.session.timer = "none", NEW ok
    PROVE  Inv(CompleteLogin(x, ok))
  <1>. DEFINE y == Retried(x, 0)
  <1>1. x \in State(x.gate.epoch) /\ 0 \in 0 .. LoginRetryMax /\ "loginRetry" \in SessionTimers
    BY StorageAssumption DEF Inv, SessionTimers
  <1>2. CompleteLogin(x, ok) = IF ok THEN LoginCallback(Bind(SetState(y, "LoggedIn")), TRUE)
                               ELSE LoginFailed(x, "loginRetry")
    BY DEF CompleteLogin, Retried
  <1>3. Moves(x.gate.epoch, x, y) /\ Calm(x, y) /\ y.session.timer = x.session.timer
    BY <1>1, RetriedMoves
  <1>. HIDE DEF y
  <1>4. Inv(LoginCallback(Bind(SetState(y, "LoggedIn")), TRUE))
    BY <1>3, LoggedInKeeps
  <1>5. Inv(LoginFailed(x, "loginRetry"))
    BY <1>1, LoginFailedKeeps
  <1>. QED BY <1>2, <1>4, <1>5

\* The status of a reconnect.
LEMMA CompleteReconnectKeeps ==
    ASSUME NEW x, Inv(x), x.session.state = "Reconnecting", x.session.timer = "none", NEW ok, NEW o
    PROVE  Inv(CompleteReconnect(x, ok, o))
  <1>1. Moves(x.gate.epoch, x, x) /\ Calm(x, x)
    BY DEF Moves, Calm, Inv
  <1>2. Inv(LoginCallback(Bind(SetState(x, "LoggedIn")), TRUE))
    BY <1>1, LoggedInKeeps
  <1>3. Inv(LoseSession(x, o))
    BY LoseSessionKeeps
  <1>. QED BY <1>2, <1>3 DEF CompleteReconnect

\* A status block, whatever it is for.
LEMMA OnStatusBlockRemoteWriteKeeps ==
    ASSUME NEW x, Inv(x), NEW c, NEW reused, NEW ok, NEW dead, NEW r \in Results, NEW o
    PROVE  Inv(OnStatusBlockRemoteWrite(x, c, reused, ok, dead, r, o))
  <1>. DEFINE y == Arm(x, "none")
              st == x.session.state
              z == OnStatusBlockRemoteWrite(x, c, reused, ok, dead, r, o)
  <1>1. Inv(y) /\ y.session.state = st /\ y.session.timer = "none"
    <2>1. "none" \in SessionTimers
      BY DEF SessionTimers
    <2>. QED BY <2>1, ArmKeeps
  <1>2. CASE ~x.session.res
    BY <1>2 DEF OnStatusBlockRemoteWrite
  <1>3. CASE x.session.res /\ st = "LoggingIn"
    <2>1. z = CompleteLogin(y, ok)
      BY <1>3 DEF OnStatusBlockRemoteWrite
    <2>. HIDE DEF y, z
    <2>2. Inv(z)
      BY <1>1, <1>3, <2>1, CompleteLoginKeeps
    <2>. QED BY <2>2 DEF z
  <1>4. CASE x.session.res /\ st = "Reconnecting"
    <2>1. z = CompleteReconnect(y, ok, o)
      BY <1>4 DEF OnStatusBlockRemoteWrite
    <2>. HIDE DEF y, z
    <2>2. Inv(z)
      BY <1>1, <1>4, <2>1, CompleteReconnectKeeps
    <2>. QED BY <2>2 DEF z
  <1>5. CASE x.session.res /\ st = "LoggingOut"
    <2>1. z = LogoutDone(y)
      BY <1>5 DEF OnStatusBlockRemoteWrite
    <2>. HIDE DEF y, z
    <2>2. Inv(z)
      BY <1>1, <1>5, <2>1, LogoutDoneKeeps
    <2>. QED BY <2>2 DEF z
  <1>6. CASE x.session.res /\ st = "LoggedIn" /\ c # None
    <2>1. z = OnStatusBlock(x, c, reused, dead, r, o)
      BY <1>6 DEF OnStatusBlockRemoteWrite
    <2>2. x.gate.epoch \in Nat /\ x \in State(x.gate.epoch) /\ Ledger(x)
      BY DEF Inv
    <2>. HIDE DEF z
    <2>3. Inv(z)
      BY <2>1, <2>2, OnStatusBlockCarries, InvCarries
    <2>. QED BY <2>3 DEF z
  <1>7. CASE /\ x.session.res /\ st \notin {"LoggingIn", "Reconnecting", "LoggingOut"}
             /\ ~(st = "LoggedIn" /\ c # None)
    BY <1>7 DEF OnStatusBlockRemoteWrite
  <1>. QED BY <1>2, <1>3, <1>4, <1>5, <1>6, <1>7

\* The timer of the session.
LEMMA SessionTimerKeeps ==
    ASSUME NEW x, Inv(x), x.session.timer # "none", NEW o
    PROVE  Inv(SessionTimer(x, o))
  <1>. DEFINE y == Arm(x, "none")
              t == x.session.timer
              z == SessionTimer(x, o)
  <1>1. Inv(y) /\ y.session.state = x.session.state /\ y.bridge.record = x.bridge.record
    <2>1. "none" \in SessionTimers
      BY DEF SessionTimers
    <2>. QED BY <2>1, ArmKeeps
  <1>2. x.session \in Sessions
    BY Parts DEF Inv
  <1>3. t \in SessionTimers /\ x.session.state \in LoginState
    BY <1>2 DEF Sessions
  <1>4. x.session.state # "LoggedIn"
    BY DEF Inv, Legs
  <1>5. t \in {"loginRetry", "loginAfterReset"} =>
          x.bridge.record /\ x.session.state \in {"Idle", "LoggingIn", "Failed"}
    BY <1>3, <1>4 DEF Inv, Legs, LoginState
  <1>6. CASE t = "loginTimeout"
    <2>1. z = OnLoginTimeout(y, o)
      BY <1>6 DEF SessionTimer
    <2>. HIDE DEF y, z
    <2>2. Inv(z)
      BY <1>1, <2>1, OnLoginTimeoutKeeps
    <2>. QED BY <2>2 DEF z
  <1>7. CASE t = "loginRetry"
    <2>1. z = Login(SetState(y, "Idle"), o)
      BY <1>7 DEF SessionTimer
    <2>. HIDE DEF y, z
    <2>2. /\ Inv(SetState(y, "Idle")) /\ SetState(y, "Idle").bridge.record
          /\ SetState(y, "Idle").session.state = "Idle"
      BY <1>1, <1>5, <1>7, IdleKeeps
    <2>3. Inv(z)
      BY <2>1, <2>2, LoginKeeps DEF Unlogged
    <2>. QED BY <2>3 DEF z
  <1>8. CASE t = "loginAfterReset"
    <2>1. z = Login(y, o)
      BY <1>8 DEF SessionTimer
    <2>2. y.bridge.record /\ y.session.state \in Unlogged
      BY <1>1, <1>5, <1>8 DEF Unlogged
    <2>. HIDE DEF y, z
    <2>3. Inv(z)
      BY <1>1, <2>1, <2>2, LoginKeeps
    <2>. QED BY <2>3 DEF z
  <1>9. CASE t = "reconnect"
    <2>1. z = Reconnect(y, o)
      BY <1>9 DEF SessionTimer
    <2>. HIDE DEF y, z
    <2>2. Inv(z)
      BY <1>1, <1>4, <2>1, ReconnectKeeps
    <2>. QED BY <2>2 DEF z
  <1>10. CASE t = "reconnectTimeout"
    <2>1. z = IF y.session.state = "Reconnecting" THEN LoseSession(y, o) ELSE y
      BY <1>10 DEF SessionTimer
    <2>. HIDE DEF y, z
    <2>2. Inv(z)
      BY <1>1, <2>1, LoseSessionKeeps
    <2>. QED BY <2>2 DEF z
  <1>11. CASE t = "logoutTimeout"
    <2>1. z = IF y.session.state = "LoggingOut" THEN LogoutDone(y) ELSE y
      BY <1>11 DEF SessionTimer
    <2>. HIDE DEF y, z
    <2>2. Inv(z)
      BY <1>1, <2>1, LogoutDoneKeeps
    <2>. QED BY <2>2 DEF z
  <1>. QED BY <1>3, <1>6, <1>7, <1>8, <1>9, <1>10, <1>11 DEF SessionTimers

-----------------------------------------------------------------------------
(* The bus reset *)

\* A step that neither the session nor the command plane has part in.
LEMMA InvAside ==
    ASSUME NEW x, Inv(x), NEW y \in State(x.gate.epoch), y.session = x.session,
           y.agent = x.agent, y.exec = x.exec, y.bridge = x.bridge, y.gate = x.gate,
           y.hub = x.hub, y.answered = x.answered
    PROVE  Inv(y)
  <1>1. Moves(x.gate.epoch, x, y)
    BY DEF Moves
  <1>2. Legs(y) /\ Carried(y) /\ Reported(y)
    BY DEF Inv, Legs, Carried, Reported
  <1>. QED BY <1>1, <1>2, InvMoves

\* The session is suspended, or gives up the login that it was about.
LEMMA HandleBusResetMoves ==
    ASSUME NEW x, Inv(x), x.bridge.record, NEW y, y = HandleBusReset(x)
    PROVE  /\ Moves(x.gate.epoch, x, y) /\ Legs(y) /\ Reported(y)
           /\ y.session.state # "LoggedIn" /\ y.bridge.edges = x.bridge.edges
  <1>. DEFINE n == x.gate.epoch
              a == Arm(x, "none")
              u == Unbind(a)
  <1>1. PICK f \in BOOLEAN : f = FALSE
    OBVIOUS
  <1>. DEFINE d == Allocated(u, f)
  <1>0. /\ x \in State(n) /\ "none" \in SessionTimers /\ "reconnect" \in SessionTimers
        /\ "loginAfterReset" \in SessionTimers /\ "Idle" \in LoginState
        /\ "Suspended" \in LoginState /\ 0 \in 0 .. LoginRetryMax
    BY StorageAssumption DEF Inv, LoginState, SessionTimers
  <1>2. /\ Moves(n, x, a) /\ Calm(x, a) /\ a.session.state = x.session.state
        /\ a.session.timer = "none" /\ a \in State(n)
    BY <1>0, ArmMoves
  <1>3. DeallocateResources(u) = d /\ DeallocateResources(x) = Allocated(x, f)
    BY <1>1 DEF DeallocateResources, Allocated
  <1>. HIDE DEF a
  <1>4. /\ Moves(n, a, u) /\ ~u.agent.bound /\ u.session = a.session
        /\ u.bridge = a.bridge /\ u \in State(n)
    BY <1>2, BindMoves
  <1>. HIDE DEF u
  <1>5. /\ Moves(n, u, d) /\ Calm(u, d) /\ d.session.state = u.session.state
        /\ d.session.timer = u.session.timer /\ d \in State(n)
    BY <1>4, AllocatedMoves
  <1>6. y = CASE x.session.state = "LoggingIn" ->
                   Arm(SetState(Retried(d, 0), "Idle"), "loginAfterReset")
              [] x.session.state = "LoggedIn"     -> SetState(d, "Suspended")
              [] x.session.state = "Reconnecting" -> Arm(SetState(d, "Suspended"), "reconnect")
              [] x.session.state = "LoggingOut"   -> SetState(d, "Idle")
              [] x.session.state = "Failed"       -> Allocated(x, f)
              [] OTHER                            -> x
    BY <1>3 DEF HandleBusReset, Retried, a, u
  <1>. HIDE DEF d
  <1>7. /\ Moves(n, x, d) /\ ~d.agent.bound /\ d.session.state = x.session.state
        /\ d.session.timer = "none" /\ d.bridge.edges = x.bridge.edges
        /\ d.bridge.silent = x.bridge.silent /\ d \in State(n)
    BY <1>2, <1>4, <1>5, MovesCompose DEF Calm
  <1>8. ASSUME NEW s, s = SetState(d, "Suspended")
        PROVE  /\ Moves(n, x, s) /\ ~s.agent.bound /\ s.session.state = "Suspended"
               /\ s.session.timer = "none" /\ s.bridge.edges = x.bridge.edges
               /\ s.bridge.silent = x.bridge.silent /\ s \in State(n)
    <2>1. /\ Moves(n, d, s) /\ Calm(d, s) /\ s.session.state = "Suspended"
          /\ s.session.timer = d.session.timer /\ s \in State(n)
      BY <1>0, <1>7, <1>8, SetStateMoves
    <2>. QED BY <1>7, <2>1, MovesCompose DEF Calm
  <1>9. CASE x.session.state = "LoggingIn"
    <2>. DEFINE r == Retried(d, 0)
                s == SetState(r, "Idle")
                t == Arm(s, "loginAfterReset")
    <2>1. y = t
      BY <1>6, <1>9
    <2>2. Moves(n, d, r) /\ Calm(d, r) /\ r \in State(n)
      BY <1>0, <1>7, RetriedMoves
    <2>. HIDE DEF r
    <2>3. Moves(n, r, s) /\ Calm(r, s) /\ s.session.state = "Idle" /\ s \in State(n)
      BY <1>0, <2>2, SetStateMoves
    <2>. HIDE DEF s
    <2>4. Moves(n, s, t) /\ Calm(s, t) /\ t.session.state = s.session.state
      BY <1>0, <2>3, ArmMoves
    <2>. HIDE DEF t
    <2>5. /\ Moves(n, x, t) /\ t.bridge.edges = x.bridge.edges
          /\ t.bridge.silent = x.bridge.silent /\ ~t.agent.bound
      BY <1>7, <2>2, <2>3, <2>4, MovesCompose DEF Calm
    <2>6. Legs(t)
      BY <2>3, <2>4, <2>5 DEF Moves, Inv, Legs
    <2>7. Reported(t)
      BY <1>9, <2>5 DEF Moves, Inv, Reported
    <2>. QED BY <2>1, <2>3, <2>4, <2>5, <2>6, <2>7
  <1>10. CASE x.session.state = "LoggedIn"
    <2>1. y = SetState(d, "Suspended")
      BY <1>6, <1>10
    <2>2. Legs(y)
      BY <1>8, <2>1 DEF Moves, Inv, Legs
    <2>3. Reported(y)
      BY <1>8, <2>1 DEF Reported
    <2>. QED BY <1>8, <2>1, <2>2, <2>3
  <1>11. CASE x.session.state = "Reconnecting"
    <2>. DEFINE s == SetState(d, "Suspended")
                t == Arm(s, "reconnect")
    <2>1. y = t
      BY <1>6, <1>11
    <2>2. /\ Moves(n, x, s) /\ ~s.agent.bound /\ s.session.state = "Suspended"
          /\ s.bridge.edges = x.bridge.edges /\ s \in State(n)
      BY <1>8
    <2>. HIDE DEF s
    <2>3. /\ Moves(n, s, t) /\ Calm(s, t) /\ t.session.state = s.session.state
          /\ t.session.timer = "reconnect"
      BY <1>0, <2>2, ArmMoves
    <2>. HIDE DEF t
    <2>4. /\ Moves(n, x, t) /\ t.bridge.edges = x.bridge.edges /\ ~t.agent.bound
      BY <2>2, <2>3, MovesCompose DEF Calm
    <2>5. Legs(t)
      BY <2>2, <2>3, <2>4 DEF Moves, Inv, Legs
    <2>6. Reported(t)
      BY <2>2, <2>3 DEF Reported
    <2>. QED BY <2>1, <2>2, <2>3, <2>4, <2>5, <2>6
  <1>12. CASE x.session.state = "LoggingOut"
    <2>1. y = SetState(d, "Idle")
      BY <1>6, <1>12
    <2>2. /\ Moves(n, d, y) /\ Calm(d, y) /\ y.session.state = "Idle"
      BY <1>0, <1>7, <2>1, SetStateMoves
    <2>3. /\ Moves(n, x, y) /\ y.bridge.edges = x.bridge.edges
          /\ y.bridge.silent = x.bridge.silent /\ ~y.agent.bound
      BY <1>7, <2>2, MovesCompose DEF Calm
    <2>4. Legs(y)
      BY <2>2, <2>3 DEF Moves, Inv, Legs
    <2>5. Reported(y)
      BY <1>12, <2>3 DEF Moves, Inv, Reported
    <2>. QED BY <2>2, <2>3, <2>4, <2>5
  <1>13. CASE x.session.state \notin {"LoggingIn", "LoggedIn", "Reconnecting", "LoggingOut"}
    <2>1. y = Allocated(x, f) \/ y = x
      BY <1>6, <1>13
    <2>2. /\ Moves(n, x, y) /\ Calm(x, y) /\ y.session.state = x.session.state
          /\ y.session.timer = x.session.timer
      <3>1. CASE y = x
        BY <1>0, <3>1 DEF Moves, Calm
      <3>2. CASE y = Allocated(x, f)
        BY <1>0, <3>2, AllocatedMoves
      <3>. QED BY <2>1, <3>1, <3>2
    <2>3. Legs(y)
      BY <2>2 DEF Moves, Calm, Inv, Legs
    <2>4. Reported(y)
      BY <2>2 DEF Moves, Calm, Inv, Reported
    <2>. QED BY <1>13, <2>2, <2>3, <2>4 DEF Calm
  <1>. QED BY <1>9, <1>10, <1>11, <1>12, <1>13

\* A session the registry knows is told of the reset, and its command aborted.
LEMMA BusResetKeeps ==
    ASSUME NEW x, Inv(x), x.bridge.record
    PROVE  /\ Inv(OnBusResetExecutor(HandleBusReset(x)))
           /\ OnBusResetExecutor(HandleBusReset(x)).gate.epoch = x.gate.epoch
  <1>. DEFINE n == x.gate.epoch
              y == HandleBusReset(x)
              z == OnBusResetExecutor(y)
  <1>1. n \in Nat /\ x \in State(n) /\ Ledger(x)
    BY DEF Inv
  <1>2. /\ Moves(n, x, y) /\ Legs(y) /\ Reported(y) /\ y.session.state # "LoggedIn"
        /\ y.bridge.edges = x.bridge.edges
    BY HandleBusResetMoves
  <1>. HIDE DEF y
  <1>3. y \in State(n) /\ Ledger(y) /\ ~y.bridge.stopping
    <2>1. SameLedger(x, y)
      BY <1>2 DEF Moves, SameLedger
    <2>2. ~y.bridge.stopping
      BY <1>2 DEF Inv, Stopped, Moves
    <2>. QED BY <1>1, <1>2, <2>1, <2>2, LedgerFrame DEF Moves
  <1>4. Carries(n, y, z) /\ z.exec.cmd = None /\ ~z.exec.mgmt
    BY <1>1, <1>2, <1>3, OnBusResetExecutorCarries
  <1>. HIDE DEF z
  <1>5. z \in State(n) /\ Ledger(z) /\ SameSession(y, z) /\ NothingNew(y, z)
    BY <1>4 DEF Carries
  <1>6. z.gate.epoch = n
    <2>1. z.gate \in Gates(n)
      BY <1>5, Parts
    <2>. QED BY <2>1 DEF Gates
  <1>. HIDE DEF n
  <1>7. Legs(z)
    BY <1>2, <1>5 DEF Legs, SameSession, NothingNew
  <1>8. Carried(z)
    BY <1>4 DEF Carried
  <1>9. Stopped(z)
    BY <1>3, <1>5 DEF Stopped, SameSession
  <1>10. Reported(z) /\ Told(z)
    BY <1>2, <1>5 DEF Inv, Moves, Reported, Shut, Told, SameSession, NothingNew
  <1>11. Inv(z)
    BY <1>1, <1>5, <1>6, <1>7, <1>8, <1>9, <1>10 DEF Inv
  <1>. QED BY <1>6, <1>11 DEF n, y, z

\* The variables are the state that the block leaves.
LEMMA Became ==
    ASSUME NEW n, NEW x \in State(n), Become(x)
    PROVE  Now' = x
  BY DEF Become, Now, State

\* So a block that leaves the stack in order keeps the invariant.
LEMMA BecameKeeps ==
    ASSUME NEW x, Inv(x), Become(x)
    PROVE  Inv(Now')
  <1>1. x \in State(x.gate.epoch)
    BY DEF Inv
  <1>2. Now' = x
    BY <1>1, Became
  <1>. QED BY <1>2

\* The fields of the state are the variables.
LEMMA NowParts ==
    /\ Now.session = session /\ Now.agent = agent /\ Now.exec = exec /\ Now.bridge = bridge
    /\ Now.gate = gate /\ Now.hub = hub /\ Now.answered = answered /\ Now.wire = wire
    /\ Now.writes = writes /\ Now.owed = owed /\ Now.discovered = discovered
    /\ Now.resets = resets
  BY DEF Now

\* The reset edge.
LEMMA BusResetStep ==
    ASSUME Inv(Now), BusReset
    PROVE  Inv(Now')
  <1>. DEFINE n == gate.epoch
              r == resets + 1
              b == [bridge EXCEPT !.current = FALSE]
              w == [Now EXCEPT !.bridge = b]
              x == [w EXCEPT !.resets = r, !.discovered = "no", !.owed = {}]
              y == IF bridge.record THEN OnBusResetExecutor(HandleBusReset(x)) ELSE x
              wr == [login |-> 0, reconnect |-> 0,
                     logout |-> IF bridge.record THEN 0 ELSE y.writes.logout]
              wi == [NoWire EXCEPT !.retry = y.wire.retry]
              z == [y EXCEPT !.writes = wr, !.wire = wi]
  <1>1. Now.gate.epoch = n /\ n \in Nat /\ Now \in State(n) /\ bridge \in Bridges(n)
    <2>1. Now.gate.epoch = n
      BY NowParts
    <2>2. n \in Nat /\ Now \in State(n)
      BY <2>1 DEF Inv
    <2>. QED BY <2>1, <2>2, Parts, NowParts
  <1>2. r \in 0 .. MaxResets
    <2>1. resets \in 0 .. MaxResets /\ resets < MaxResets
      BY <1>1, Parts, NowParts DEF BusReset
    <2>. QED BY <2>1, StorageAssumption
  <1>3. Become(z)
    <2>1. x = [Now EXCEPT !.resets = @ + 1, !.discovered = "no", !.bridge.current = FALSE, !.owed = {}]
      BY <1>1, NowParts DEF State
    <2>. HIDE DEF x
    <2>. QED BY <2>1 DEF BusReset
  <1>. HIDE DEF r
  <1>4. /\ b \in Bridges(n)
        /\ b.pending = bridge.pending /\ b.inFlight = bridge.inFlight
        /\ b.pump = bridge.pump /\ b.stopping = bridge.stopping
        /\ b.record = bridge.record /\ b.edges = bridge.edges /\ b.silent = bridge.silent
    BY <1>1 DEF Bridges
  <1>. HIDE DEF b
  <1>5. Inv(w) /\ w.bridge = b /\ w \in State(n) /\ w.gate.epoch = n
    <2>1. Inv(w) /\ w.bridge = b
      BY <1>1, <1>4, BridgeKeeps, NowParts
    <2>2. w \in State(n)
      BY <1>1, <1>4 DEF State
    <2>3. w.gate = Now.gate
      BY <1>1 DEF State
    <2>. QED BY <1>1, <2>1, <2>2, <2>3
  <1>. HIDE DEF w
  <1>6. /\ x \in State(n) /\ x.session = w.session /\ x.agent = w.agent /\ x.exec = w.exec
        /\ x.bridge = w.bridge /\ x.gate = w.gate /\ x.hub = w.hub /\ x.answered = w.answered
    <2>1. {} \in SUBSET Notices(n)
      OBVIOUS
    <2>. QED BY <1>2, <1>5, <2>1 DEF State
  <1>. HIDE DEF x
  <1>7. Inv(x) /\ x.gate.epoch = n
    BY <1>5, <1>6, InvAside
  <1>8. Inv(y) /\ y.gate.epoch = n
    <2>1. CASE bridge.record
      BY <1>4, <1>5, <1>6, <1>7, <2>1, BusResetKeeps
    <2>2. CASE ~bridge.record
      BY <1>7, <2>2
    <2>. QED BY <2>1, <2>2
  <1>. HIDE DEF y
  <1>9. y \in State(n)
    BY <1>8 DEF Inv
  <1>10. wr \in Writes /\ wi \in Wires(n)
    <2>1. y.writes \in Writes /\ y.wire \in Wires(n)
      BY <1>9, Parts
    <2>2. y.writes.logout \in Nat /\ y.wire.retry \in SUBSET Tasks(n)
      BY <2>1 DEF Writes, Wires
    <2>. QED BY <2>2, FreshTyped DEF Writes, Wires
  <1>. HIDE DEF wr, wi
  <1>11. /\ z \in State(n) /\ z.session = y.session /\ z.agent = y.agent /\ z.exec = y.exec
         /\ z.bridge = y.bridge /\ z.gate = y.gate /\ z.hub = y.hub /\ z.answered = y.answered
    BY <1>9, <1>10 DEF State
  <1>. HIDE DEF z
  <1>12. Inv(z)
    BY <1>8, <1>11, InvAside
  <1>. QED BY <1>3, <1>12, BecameKeeps

-----------------------------------------------------------------------------
(* The blocks of the session and of the command plane *)

\* Writes, status blocks and completions that are due are nobody's state yet.
LEMMA InvDue ==
    ASSUME NEW x, Inv(x)
    PROVE  /\ \A w \in Writes : Inv([x EXCEPT !.writes = w])
           /\ \A w \in SUBSET Notices(x.gate.epoch) : Inv([x EXCEPT !.owed = w])
           /\ \A w \in Wires(x.gate.epoch) : Inv([x EXCEPT !.wire = w])
  <1>. DEFINE n == x.gate.epoch
  <1>1. x \in State(n)
    BY DEF Inv
  <1>2. ASSUME NEW w \in Writes PROVE Inv([x EXCEPT !.writes = w])
    <2>. DEFINE z == [x EXCEPT !.writes = w]
    <2>1. /\ z \in State(n) /\ z.session = x.session /\ z.agent = x.agent /\ z.exec = x.exec
          /\ z.bridge = x.bridge /\ z.gate = x.gate /\ z.hub = x.hub /\ z.answered = x.answered
      BY <1>1, <1>2 DEF State
    <2>. HIDE DEF z
    <2>2. Inv(z)
      BY <2>1, InvAside
    <2>. QED BY <2>2 DEF z
  <1>3. ASSUME NEW w \in SUBSET Notices(n) PROVE Inv([x EXCEPT !.owed = w])
    <2>. DEFINE z == [x EXCEPT !.owed = w]
    <2>1. /\ z \in State(n) /\ z.session = x.session /\ z.agent = x.agent /\ z.exec = x.exec
          /\ z.bridge = x.bridge /\ z.gate = x.gate /\ z.hub = x.hub /\ z.answered = x.answered
      BY <1>1, <1>3 DEF State
    <2>. HIDE DEF z
    <2>2. Inv(z)
      BY <2>1, InvAside
    <2>. QED BY <2>2 DEF z
  <1>4. ASSUME NEW w \in Wires(n) PROVE Inv([x EXCEPT !.wire = w])
    <2>. DEFINE z == [x EXCEPT !.wire = w]
    <2>1. /\ z \in State(n) /\ z.session = x.session /\ z.agent = x.agent /\ z.exec = x.exec
          /\ z.bridge = x.bridge /\ z.gate = x.gate /\ z.hub = x.hub /\ z.answered = x.answered
      BY <1>1, <1>4 DEF State
    <2>. HIDE DEF z
    <2>2. Inv(z)
      BY <2>1, InvAside
    <2>. QED BY <2>2 DEF z
  <1>. QED BY <1>2, <1>3, <1>4

\* The variables of a stack in order have their types.
LEMMA NowTyped ==
    ASSUME Inv(Now)
    PROVE  /\ gate.epoch \in Nat /\ Now.gate.epoch = gate.epoch /\ Now \in State(gate.epoch)
           /\ session \in Sessions /\ agent \in Agents(gate.epoch) /\ exec \in Execs(gate.epoch)
           /\ bridge \in Bridges(gate.epoch) /\ gate \in Gates(gate.epoch) /\ hub \in BOOLEAN
           /\ answered \in [Hosts -> Nat] /\ wire \in Wires(gate.epoch) /\ writes \in Writes
           /\ owed \in SUBSET Notices(gate.epoch) /\ resets \in 0 .. MaxResets
           /\ Ledger(Now)
  <1>1. Now.gate.epoch = gate.epoch
    BY NowParts
  <1>2. gate.epoch \in Nat /\ Now \in State(gate.epoch) /\ Ledger(Now)
    BY <1>1 DEF Inv
  <1>. QED BY <1>1, <1>2, Parts, NowParts

\* Management writes complete.
LEMMA LoginWriteStep ==
    ASSUME Inv(Now), LoginWrite
    PROVE  Inv(Now')
  <1>. DEFINE i == writes.login - 1
              w == [writes EXCEPT !.login = i]
              x == [Now EXCEPT !.writes = w]
  <1>1. PICK ok \in BOOLEAN : Become(OnLoginWriteComplete(x, ok))
    <2>1. x = [Now EXCEPT !.writes.login = @ - 1]
      BY NowParts DEF Now
    <2>. HIDE DEF x
    <2>. QED BY <2>1 DEF LoginWrite
  <1>2. i \in Nat
    BY NowTyped DEF Writes, LoginWrite
  <1>. HIDE DEF i
  <1>3. w \in Writes
    BY <1>2, NowTyped DEF Writes
  <1>. HIDE DEF w
  <1>4. Inv(x)
    BY <1>3, InvDue
  <1>. HIDE DEF x
  <1>. QED BY <1>1, <1>4, OnLoginWriteCompleteKeeps, BecameKeeps

\* A reconnect write.
LEMMA ReconnectWriteStep ==
    ASSUME Inv(Now), ReconnectWrite
    PROVE  Inv(Now')
  <1>. DEFINE i == writes.reconnect - 1
              w == [writes EXCEPT !.reconnect = i]
              x == [Now EXCEPT !.writes = w]
  <1>1. PICK ok \in BOOLEAN : Become(OnReconnectWriteComplete(x, ok))
    <2>1. x = [Now EXCEPT !.writes.reconnect = @ - 1]
      BY NowParts DEF Now
    <2>. HIDE DEF x
    <2>. QED BY <2>1 DEF ReconnectWrite
  <1>2. i \in Nat
    BY NowTyped DEF Writes, ReconnectWrite
  <1>. HIDE DEF i
  <1>3. w \in Writes
    BY <1>2, NowTyped DEF Writes
  <1>. HIDE DEF w
  <1>4. Inv(x)
    BY <1>3, InvDue
  <1>. HIDE DEF x
  <1>. QED BY <1>1, <1>4, OnReconnectWriteCompleteKeeps, BecameKeeps

\* A logout write.
LEMMA LogoutWriteStep ==
    ASSUME Inv(Now), LogoutWrite
    PROVE  Inv(Now')
  <1>. DEFINE i == writes.logout - 1
              w == [writes EXCEPT !.logout = i]
              x == [Now EXCEPT !.writes = w]
  <1>1. PICK ok \in BOOLEAN : Become(OnLogoutWriteComplete(x, ok))
    <2>1. x = [Now EXCEPT !.writes.logout = @ - 1]
      BY NowParts DEF Now
    <2>. HIDE DEF x
    <2>. QED BY <2>1 DEF LogoutWrite
  <1>2. i \in Nat
    BY NowTyped DEF Writes, LogoutWrite
  <1>. HIDE DEF i
  <1>3. w \in Writes
    BY <1>2, NowTyped DEF Writes
  <1>. HIDE DEF w
  <1>4. Inv(x)
    BY <1>3, InvDue
  <1>. HIDE DEF x
  <1>. QED BY <1>1, <1>4, OnLogoutWriteCompleteKeeps, BecameKeeps

\* The management timer.
LEMMA SessionTimerStep ==
    ASSUME Inv(Now), SessionTimerFires
    PROVE  Inv(Now')
  <1>1. PICK o \in SessionOutcomes : Become(SessionTimer(Now, o))
    BY DEF SessionTimerFires
  <1>2. Now.session.timer # "none"
    BY NowParts DEF SessionTimerFires
  <1>. QED BY <1>1, <1>2, SessionTimerKeeps, BecameKeeps

\* A status block arrives.
LEMMA StatusStep ==
    ASSUME Inv(Now), ManagementStatus \/ CommandStatus
    PROVE  Inv(Now')
  <1>1. ASSUME NEW c PROVE Inv([Now EXCEPT !.owed = @ \ {c}])
    <2>. DEFINE s == owed \ {c}
    <2>1. s \in SUBSET Notices(Now.gate.epoch)
      BY NowTyped
    <2>2. [Now EXCEPT !.owed = @ \ {c}] = [Now EXCEPT !.owed = s]
      BY NowParts DEF Now
    <2>. HIDE DEF s
    <2>. QED BY <2>1, <2>2, InvDue
  <1>2. CASE ManagementStatus
    <2>1. PICK op \in owed \cap {<<"login">>, <<"reconnect">>, <<"logout">>} :
          \E ok \in BOOLEAN, o \in SessionOutcomes :
            Become(OnStatusBlockRemoteWrite([Now EXCEPT !.owed = @ \ {op}], None, FALSE, ok, FALSE,
                                            "ready", o))
      BY <1>2 DEF ManagementStatus
    <2>4. PICK ok \in BOOLEAN, o \in SessionOutcomes :
            Become(OnStatusBlockRemoteWrite([Now EXCEPT !.owed = @ \ {op}], None, FALSE, ok, FALSE,
                                            "ready", o))
      BY <2>1
    <2>2. "ready" \in Results
      BY DEF Results
    <2>3. ASSUME NEW f PROVE Inv(OnStatusBlockRemoteWrite([Now EXCEPT !.owed = @ \ {op}], None, f,
                                                          ok, f, "ready", o))
      BY <1>1, <2>2, OnStatusBlockRemoteWriteKeeps
    <2>. QED BY <2>3, <2>4, BecameKeeps
  <1>3. CASE CommandStatus
    <2>0. PICK c \in {t \in owed : t[1] \in {"host", "probe"}} :
          \E reused \in {agent.out # c, FALSE}, dead \in BOOLEAN,
             r \in IF c[1] = "probe" THEN Results \ {"failed"} ELSE {"ready", "failed"} :
          \E x \in {OnStatusBlockRemoteWrite([Now EXCEPT !.owed = @ \ {c}], c, reused, TRUE, dead, r, o) :
                      o \in CommandOutcomes} : Become(x)
      BY <1>3 DEF CommandStatus
    <2>4. PICK reused \in {agent.out # c, FALSE}, dead \in BOOLEAN,
               r \in IF c[1] = "probe" THEN Results \ {"failed"} ELSE {"ready", "failed"} :
          \E x \in {OnStatusBlockRemoteWrite([Now EXCEPT !.owed = @ \ {c}], c, reused, TRUE, dead, r, o) :
                      o \in CommandOutcomes} : Become(x)
      BY <2>0
    <2>1. PICK o \in CommandOutcomes :
            Become(OnStatusBlockRemoteWrite([Now EXCEPT !.owed = @ \ {c}], c, reused, TRUE, dead, r, o))
      BY <2>4
    <2>3. r \in Results
      BY DEF Results
    <2>2. ASSUME NEW ok PROVE Inv(OnStatusBlockRemoteWrite([Now EXCEPT !.owed = @ \ {c}], c, reused,
                                                           ok, dead, r, o))
      BY <1>1, <2>3, OnStatusBlockRemoteWriteKeeps
    <2>. QED BY <2>1, <2>2, BecameKeeps
  <1>. QED BY <1>2, <1>3

\* The handlers of the command plane start from a stack in order.
LEMMA PlaneKeeps ==
    ASSUME NEW x, Inv(x)
    PROVE  /\ x.gate.epoch \in Nat /\ x \in State(x.gate.epoch) /\ Ledger(x)
           /\ \A y : Carries(x.gate.epoch, x, y) => Inv(y)
  BY InvCarries DEF Inv

\* An ORB_POINTER write completes, alive or cancelled.
LEMMA OrbWriteStep ==
    ASSUME Inv(Now), OrbWrite \/ CancelledOrbWrite
    PROVE  Inv(Now')
  <1>1. ASSUME NEW w \in Wires(gate.epoch), NEW x, x = [Now EXCEPT !.wire = w], NEW ok, NEW o,
               Become(OnFetchAgentWriteComplete(x, ok, o))
        PROVE  Inv(Now')
    <2>1. Inv(x)
      BY <1>1, InvDue, NowTyped
    <2>2. Carries(x.gate.epoch, x, OnFetchAgentWriteComplete(x, ok, o))
      BY <2>1, PlaneKeeps, OnFetchAgentWriteCompleteCarries
    <2>. QED BY <1>1, <2>1, <2>2, PlaneKeeps, BecameKeeps
  <1>2. wire \in Wires(gate.epoch)
    BY NowTyped
  <1>3. CASE OrbWrite
    <2>. DEFINE i == wire.orb - 1
                w == [wire EXCEPT !.orb = i]
                x == [Now EXCEPT !.wire = w]
    <2>1. x = [Now EXCEPT !.wire.orb = @ - 1]
      BY NowParts DEF Now
    <2>2. i \in Nat
      BY <1>2, <1>3 DEF Wires, OrbWrite
    <2>. HIDE DEF i
    <2>3. w \in Wires(gate.epoch)
      BY <1>2, <2>2 DEF Wires
    <2>. HIDE DEF x, w
    <2>4. PICK ok \in BOOLEAN, o \in CommandOutcomes : Become(OnFetchAgentWriteComplete(x, ok, o))
      BY <1>3, <2>1 DEF OrbWrite
    <2>. QED BY <1>1, <2>3, <2>4 DEF x
  <1>4. CASE CancelledOrbWrite
    <2>. DEFINE i == wire.cancelled - 1
                w == [wire EXCEPT !.cancelled = i]
                x == [Now EXCEPT !.wire = w]
    <2>1. x = [Now EXCEPT !.wire.cancelled = @ - 1]
      BY NowParts DEF Now
    <2>2. i \in Nat
      BY <1>2, <1>4 DEF Wires, CancelledOrbWrite
    <2>. HIDE DEF i
    <2>3. w \in Wires(gate.epoch)
      BY <1>2, <2>2 DEF Wires
    <2>. HIDE DEF x, w
    <2>4. PICK o \in CommandOutcomes : Become(OnFetchAgentWriteComplete(x, FALSE, o))
      BY <1>4, <2>1 DEF CancelledOrbWrite
    <2>5. ASSUME NEW ok, Become(OnFetchAgentWriteComplete(x, ok, o)) PROVE Inv(Now')
      BY <1>1, <2>3, <2>5 DEF x
    <2>. QED BY <2>4, <2>5
  <1>. QED BY <1>3, <1>4

\* The timers and completions of the command plane.
LEMMA CommandPlaneStep ==
    ASSUME Inv(Now), OrbRetry \/ OrbTimesOut \/ AgentReset \/ Revive
    PROVE  Inv(Now')
  <1>. DEFINE n == Now.gate.epoch
  <1>1. n \in Nat /\ Now \in State(n) /\ Ledger(Now)
    BY PlaneKeeps
  <1>. HIDE DEF n
  <1>2. ASSUME NEW y, Carries(n, Now, y), Become(y) PROVE Inv(Now')
    BY <1>2, PlaneKeeps, BecameKeeps DEF n
  <1>3. CASE OrbRetry
    <2>1. PICK c \in wire.retry :
          \E reused \in {agent.active # c, FALSE}, o \in CommandOutcomes :
            Become(RetryTimer(Now, c, reused, o))
      BY <1>3 DEF OrbRetry
    <2>2. PICK reused \in {agent.active # c, FALSE}, o \in CommandOutcomes :
            Become(RetryTimer(Now, c, reused, o))
      BY <2>1
    <2>. QED BY <1>1, <1>2, <2>2, RetryTimerCarries
  <1>4. CASE OrbTimesOut
    <2>1. PICK o \in CommandOutcomes : Become(OrbTimeout(Now, o))
      BY <1>4 DEF OrbTimesOut
    <2>. QED BY <1>1, <1>2, <2>1, FailORBCarries DEF OrbTimeout
  <1>5. CASE AgentReset
    BY <1>1, <1>2, <1>5, OnAgentResetCompleteCarries DEF AgentReset
  <1>6. CASE Revive
    <2>1. PICK o : Become(ReviveComplete(Now, o))
      BY <1>6 DEF Revive
    <2>2. Now.wire.dead # None
      BY <1>6, NowParts DEF Revive
    <2>. QED BY <1>1, <1>2, <2>1, <2>2, ReviveCompleteCarries
  <1>. QED BY <1>3, <1>4, <1>5, <1>6

\* The end of a task management ORB.
LEMMA ManagementStep ==
    ASSUME Inv(Now), TaskManagementWrite \/ TaskManagementStatus \/ TaskManagementTimeout
    PROVE  Inv(Now')
  <1>. DEFINE n == Now.gate.epoch
              w == [wire EXCEPT !.mgmt = FALSE]
  <1>1. n \in Nat /\ Now \in State(n) /\ Ledger(Now) /\ wire \in Wires(n)
    BY PlaneKeeps, NowTyped
  <1>. HIDE DEF n
  <1>2. ASSUME NEW failed, Become(ManagementComplete(Now, failed)) PROVE Inv(Now')
    BY <1>1, <1>2, PlaneKeeps, BecameKeeps, ManagementCompleteCarries DEF n
  <1>3. w \in Wires(n)
    BY <1>1 DEF Wires
  <1>4. [Now EXCEPT !.wire.mgmt = FALSE] = [Now EXCEPT !.wire = w]
    BY NowParts DEF Now
  <1>. HIDE DEF w
  <1>5. Inv([Now EXCEPT !.wire = w])
    BY <1>3, InvDue DEF n
  <1>6. CASE TaskManagementWrite
    <2>1. \/ Become([Now EXCEPT !.wire.mgmt = FALSE])
          \/ Become(ManagementComplete(Now, TRUE))
      BY <1>6 DEF TaskManagementWrite
    <2>. QED BY <1>2, <1>4, <1>5, <2>1, BecameKeeps
  <1>7. CASE TaskManagementStatus
    BY <1>2, <1>7 DEF TaskManagementStatus
  <1>8. CASE TaskManagementTimeout
    BY <1>2, <1>8 DEF TaskManagementTimeout
  <1>. QED BY <1>6, <1>7, <1>8

-----------------------------------------------------------------------------
(* The release of a session *)

\* The executor goes with the record, and answers its task before it does.
LEMMA ReleaseRecordFrame ==
    ASSUME NEW n \in Nat, NEW x \in State(n), Ledger(x), NEW y, y = ReleaseRecord(x)
    PROVE  /\ y \in State(n) /\ Ledger(y) /\ ~y.bridge.record /\ y.session = x.session
           /\ y.exec.cb = None /\ y.exec.cmd = None /\ ~y.exec.mgmt
           /\ y.agent.bound = x.agent.bound /\ y.bridge.stopping = x.bridge.stopping
           /\ y.bridge.edges = x.bridge.edges /\ y.bridge.silent = x.bridge.silent
           /\ y.gate.active => x.gate.active
           /\ y.gate.up => x.gate.up \/ x.gate.active
           /\ x.gate.up => y.gate.up
           /\ y.hub => x.hub \/ y.gate.up
           /\ x.bridge.stopping => (y.bridge.pump => x.bridge.pump)
  <1>. DEFINE z == OnBusResetExecutor(x)
              b == [z.bridge EXCEPT !.record = FALSE]
  <1>1. Carries(n, x, z) /\ z.exec.cb = None
    BY OnBusResetExecutorCarries
  <1>2. y = [z EXCEPT !.bridge = b, !.exec = FreshExec, !.wire = NoWire]
    BY DEF ReleaseRecord
  <1>. HIDE DEF z
  <1>3. z \in State(n) /\ Ledger(z) /\ SameSession(x, z) /\ NothingNew(x, z)
    BY <1>1 DEF Carries
  <1>4. z.bridge \in Bridges(n)
    BY <1>3, Parts
  <1>5. /\ b \in Bridges(n) /\ ~b.record
        /\ b.pending = z.bridge.pending /\ b.inFlight = z.bridge.inFlight
        /\ b.pump = z.bridge.pump /\ b.stopping = z.bridge.stopping
        /\ b.edges = z.bridge.edges /\ b.silent = z.bridge.silent
    BY <1>4 DEF Bridges
  <1>. HIDE DEF b
  <1>6. /\ y \in State(n) /\ y.session = z.session /\ y.agent = z.agent /\ y.exec = FreshExec
        /\ y.bridge = b /\ y.gate = z.gate /\ y.hub = z.hub /\ y.answered = z.answered
    <2>1. FreshExec \in Execs(n) /\ NoWire \in Wires(n)
      BY FreshTyped
    <2>. QED BY <1>2, <1>3, <1>5, <2>1 DEF State
  <1>7. Ledger(y)
    <2>1. SameLedger(z, y)
      BY <1>1, <1>5, <1>6, FreshTyped DEF SameLedger
    <2>. QED BY <1>3, <2>1, LedgerFrame
  <1>8. y.exec.cb = None /\ y.exec.cmd = None /\ ~y.exec.mgmt
    BY <1>6, FreshTyped
  <1>. QED BY <1>3, <1>5, <1>6, <1>7, <1>8 DEF SameSession, NothingNew

\* A released session that says goodbye has given up its login.
LEMMA LogoutMoves ==
    ASSUME NEW n, NEW x \in State(n), NEW o, NEW y, y = Logout(x, o),
           y.session.state = "LoggingOut"
    PROVE  /\ Moves(n, x, y) /\ y.bridge.edges = x.bridge.edges
           /\ y = x \/ (~y.agent.bound /\ y.session.timer = "logoutTimeout")
  <1>. DEFINE s == SetState(x, "LoggingOut")
              u == Unbind(s)
              p == Post(u, "logout")
              a == Arm(p, "logoutTimeout")
              f == FailSilently(x)
  <1>0. "LoggingOut" \in LoginState /\ "logoutTimeout" \in SessionTimers
    BY DEF LoginState, SessionTimers
  <1>1. y = IF x.session.state \notin {"LoggedIn", "Suspended"} THEN x
            ELSE IF ~o.mgmt THEN Unbind(f) ELSE a
    BY DEF Logout
  <1>2. Unbind(f).session.state = "Failed"
    <2>1. f \in State(n) /\ f.session.state = "Failed"
      BY FailSilentlyMoves
    <2>. HIDE DEF f
    <2>. QED BY <2>1, BindMoves
  <1>3. CASE y = x
    BY <1>3 DEF Moves
  <1>4. CASE y = a
    <2>1. Moves(n, x, s) /\ Calm(x, s) /\ s \in State(n)
      BY <1>0, SetStateMoves
    <2>. HIDE DEF s
    <2>2. Moves(n, s, u) /\ ~u.agent.bound /\ u.bridge = s.bridge /\ u \in State(n)
      BY <2>1, BindMoves
    <2>. HIDE DEF u
    <2>3. Moves(n, u, p) /\ Calm(u, p) /\ p \in State(n)
      BY <2>2, PostMoves
    <2>. HIDE DEF p
    <2>4. Moves(n, p, a) /\ Calm(p, a) /\ a.session.timer = "logoutTimeout"
      BY <1>0, <2>3, ArmMoves
    <2>. HIDE DEF a
    <2>5. Moves(n, x, a)
      BY <2>1, <2>2, <2>3, <2>4, MovesCompose
    <2>6. a.bridge.edges = x.bridge.edges /\ ~a.agent.bound
      BY <2>1, <2>2, <2>3, <2>4 DEF Calm
    <2>. QED BY <1>4, <2>4, <2>5, <2>6
  <1>. QED BY <1>1, <1>2, <1>3, <1>4

\* The owner of a session lets it go: what is left of the session has neither a
\* command nor a login.
LEMMA ReleaseOwnerFrame ==
    ASSUME NEW n \in Nat, NEW x \in State(n), Ledger(x), Legs(x), Carried(x), NEW o,
           NEW y, y = ReleaseOwner(x, o)
    PROVE  /\ y \in State(n) /\ Ledger(y) /\ Legs(y) /\ Carried(y)
           /\ ~y.bridge.record /\ y.exec.cb = None
           /\ y.bridge.stopping = x.bridge.stopping /\ y.bridge.edges = x.bridge.edges
           /\ y.gate.active => x.gate.active
           /\ x.bridge.stopping => (y.bridge.pump => x.bridge.pump)
           /\ ~x.bridge.record => y = x
  <1>. DEFINE r == ReleaseRecord(x)
              l == Logout(r, o)
              b == [l.bridge EXCEPT !.retiring = TRUE]
              z == [l EXCEPT !.bridge = b]
              f == Forget(r)
  <1>1. y = IF ~x.bridge.record THEN x ELSE IF l.session.state = "LoggingOut" THEN z ELSE f
    BY DEF ReleaseOwner
  <1>2. /\ r \in State(n) /\ Ledger(r) /\ ~r.bridge.record /\ r.session = x.session
        /\ r.exec.cb = None /\ r.exec.cmd = None /\ ~r.exec.mgmt
        /\ r.agent.bound = x.agent.bound /\ r.bridge.stopping = x.bridge.stopping
        /\ r.bridge.edges = x.bridge.edges
        /\ r.gate.active => x.gate.active
        /\ x.bridge.stopping => (r.bridge.pump => x.bridge.pump)
    BY ReleaseRecordFrame
  <1>. HIDE DEF r
  <1>3. ASSUME NEW w, Moves(n, r, w), w.bridge.edges = r.bridge.edges, ~w.agent.bound,
               \/ w.session.state = "Idle" /\ w.session.timer = "none"
               \/ w.session.state = "LoggingOut" /\ w.session.timer \in {"none", "logoutTimeout"}
        PROVE  /\ w \in State(n) /\ Ledger(w) /\ Legs(w) /\ Carried(w)
               /\ ~w.bridge.record /\ w.exec.cb = None
               /\ w.bridge.stopping = x.bridge.stopping /\ w.bridge.edges = x.bridge.edges
               /\ w.gate.active => x.gate.active
               /\ x.bridge.stopping => (w.bridge.pump => x.bridge.pump)
    <2>1. Ledger(w)
      <3>1. SameLedger(r, w)
        BY <1>3 DEF Moves, SameLedger
      <3>. QED BY <1>2, <3>1, LedgerFrame
    <2>2. Legs(w)
      BY <1>2, <1>3 DEF Moves, Legs
    <2>3. Carried(w)
      BY <1>2, <1>3 DEF Moves, Carried
    <2>. QED BY <1>2, <1>3, <2>1, <2>2, <2>3 DEF Moves
  <1>4. CASE ~x.bridge.record
    <2>1. x.exec.cb = None
      BY <1>4 DEF Legs
    <2>. QED BY <1>1, <1>4, <2>1
  <1>5. CASE x.bridge.record /\ l.session.state = "LoggingOut"
    <2>1. /\ Moves(n, r, l) /\ l.bridge.edges = r.bridge.edges
          /\ l = r \/ (~l.agent.bound /\ l.session.timer = "logoutTimeout")
      BY <1>2, <1>5, LogoutMoves
    <2>. HIDE DEF l
    <2>2. ~l.agent.bound /\ l.session.timer \in {"none", "logoutTimeout"}
      BY <1>2, <1>5, <2>1 DEF Legs
    <2>3. l \in State(n) /\ l.bridge \in Bridges(n)
      <3>1. l \in State(n)
        BY <2>1 DEF Moves
      <3>. QED BY <3>1, Parts
    <2>4. /\ b \in Bridges(n) /\ b.edges = l.bridge.edges
          /\ b.pending = l.bridge.pending /\ b.inFlight = l.bridge.inFlight
          /\ b.pump = l.bridge.pump /\ b.stopping = l.bridge.stopping
          /\ b.record = l.bridge.record /\ b.silent = l.bridge.silent
      BY <2>3 DEF Bridges
    <2>. HIDE DEF b
    <2>5. Moves(n, l, z) /\ z.agent = l.agent /\ z.session = l.session /\ z.bridge = b
      BY <2>3, <2>4, BridgeMoves
    <2>. HIDE DEF z
    <2>6. Moves(n, r, z)
      BY <2>1, <2>5, MovesCompose
    <2>7. y = z
      BY <1>1, <1>5
    <2>. QED BY <1>3, <1>5, <2>1, <2>2, <2>4, <2>5, <2>6, <2>7
  <1>6. CASE x.bridge.record /\ l.session.state # "LoggingOut"
    <2>1. y = f
      BY <1>1, <1>6
    <2>2. Moves(n, r, f) /\ f.bridge = r.bridge /\ f.session = NoSession /\ ~f.agent.bound
      BY <1>2, ForgetMoves
    <2>. HIDE DEF f
    <2>. QED BY <1>3, <1>6, <2>1, <2>2, FreshTyped
  <1>. QED BY <1>4, <1>5, <1>6

-----------------------------------------------------------------------------
(* The gate's epochs *)

\* What the bridge, its gate and the adapter know is replaced.
Tuned(x, b, g, h) == [x EXCEPT !.bridge = b, !.gate = g, !.hub = h]

\* A state in which probes of a later epoch may exist as well.
LEMMA LaterEpoch ==
    ASSUME NEW n \in Nat, NEW x \in State(n), NEW m \in Nat, n <= m, NEW b \in Bridges(n),
           NEW g \in Gates(m), NEW h \in BOOLEAN, NEW y, y = Tuned(x, b, g, h)
    PROVE  /\ y \in State(m) /\ y.session = x.session /\ y.agent = x.agent /\ y.exec = x.exec
           /\ y.answered = x.answered /\ y.bridge = b /\ y.gate = g /\ y.hub = h
  <1>1. Tasks(n) \subseteq Tasks(m)
    <2>1. 1 .. n \subseteq 1 .. m
      OBVIOUS
    <2>. QED BY <2>1 DEF Tasks
  <1>2. Seq(Tasks(n)) \subseteq Seq(Tasks(m))
    BY <1>1
  <1>3. Maybe(n) \subseteq Maybe(m) /\ Notices(n) \subseteq Notices(m)
    BY <1>1 DEF Maybe, Notices
  <1>4. Agents(n) \subseteq Agents(m)
    BY <1>2, <1>3 DEF Agents
  <1>5. Execs(n) \subseteq Execs(m)
    BY <1>3 DEF Execs
  <1>6. Bridges(n) \subseteq Bridges(m)
    BY <1>2 DEF Bridges
  <1>7. Wires(n) \subseteq Wires(m)
    BY <1>1 DEF Wires
  <1>8. /\ x.agent \in Agents(m) /\ x.exec \in Execs(m) /\ x.wire \in Wires(m) /\ b \in Bridges(m)
        /\ x.owed \in SUBSET Notices(m)
    <2>1. /\ x.agent \in Agents(n) /\ x.exec \in Execs(n) /\ x.wire \in Wires(n)
          /\ x.owed \in SUBSET Notices(n)
      BY Parts
    <2>. QED BY <1>3, <1>4, <1>5, <1>6, <1>7, <2>1
  <1>9. y \in State(m)
    BY <1>8 DEF State, Tuned
  <1>10. /\ y.session = x.session /\ y.agent = x.agent /\ y.exec = x.exec
         /\ y.answered = x.answered /\ y.bridge = b /\ y.gate = g /\ y.hub = h
    BY DEF State, Tuned
  <1>. QED BY <1>9, <1>10

\* No probe of an epoch that has not begun is outstanding.
LEMMA NoLaterProbe ==
    ASSUME NEW n \in Nat, NEW x \in State(n), NEW m \in Nat, n < m
    PROVE  ~Outstanding(x, Probe(m))
  <1>1. Probe(m) \notin Tasks(n) /\ Probe(m) # None
    BY TasksDiffer DEF Tasks, Probe, Host, None
  <1>2. x.exec.cb \in Maybe(n)
    <2>1. x.exec \in Execs(n)
      BY Parts
    <2>. QED BY <2>1 DEF Execs
  <1>3. \A k \in 1 .. Len(x.bridge.pending) : x.bridge.pending[k] \in Tasks(n)
    <2>1. x.bridge \in Bridges(n)
      BY Parts
    <2>2. x.bridge.pending \in Seq(Tasks(n))
      BY <2>1 DEF Bridges
    <2>. QED BY <2>2
  <1>. QED BY <1>1, <1>2, <1>3 DEF Outstanding, Maybe

\* The adapter stops the bridge.
LEMMA StopStep ==
    ASSUME Inv(Now), Stop
    PROVE  Inv(Now')
  <1>. DEFINE n == gate.epoch
              m == n + 1
              quiet == bridge.silent \/ (~bridge.record /\ bridge.edges # <<>>)
              b == [bridge EXCEPT !.stopping = TRUE, !.pump = FALSE, !.edges = <<>>,
                                  !.published = FALSE, !.silent = quiet]
              g == [gate EXCEPT !.epoch = m, !.timer = FALSE, !.active = FALSE]
              c == Tuned(Now, b, g, hub)
  <1>1. PICK o \in SessionOutcomes : Become(Shutdown(Now, o))
    BY DEF Stop
  <1>2. /\ n \in Nat /\ Now \in State(n) /\ bridge \in Bridges(n) /\ gate \in Gates(n)
        /\ hub \in BOOLEAN /\ Ledger(Now) /\ Legs(Now) /\ Carried(Now)
    BY NowTyped DEF Inv
  <1>. DEFINE r == ReleaseOwner(c, o)
              f == FailAll(r)
              h == f.hub /\ ~bridge.record
              z == [f EXCEPT !.hub = h]
  <1>3. Shutdown(Now, o) = z
    <2>1. c = Detached(Now)
      <3>. DEFINE d == [Now EXCEPT !.bridge = b]
      <3>1. Detached(Now) = Cancel(d)
        BY <1>2, NowParts DEF Detached, Now
      <3>. HIDE DEF b, d
      <3>2. d.gate = gate
        BY DEF Now, d
      <3>3. [d EXCEPT !.gate.epoch = @ + 1, !.gate.timer = FALSE, !.gate.active = FALSE]
              = [d EXCEPT !.gate = g]
        BY <3>2
      <3>. HIDE DEF g
      <3>4. [d EXCEPT !.gate = g] = c
        BY <1>2, NowParts DEF State, Tuned, d
      <3>. QED BY <3>1, <3>3, <3>4 DEF Cancel
    <2>. HIDE DEF c
    <2>. QED BY <2>1, NowParts DEF Shutdown
  <1>4. m \in Nat /\ n <= m
    BY <1>2
  <1>. HIDE DEF m
  <1>. HIDE DEF quiet
  <1>5. /\ b \in Bridges(n) /\ b.stopping /\ ~b.pump /\ b.edges = <<>> /\ b.silent = quiet
        /\ b.pending = bridge.pending /\ b.inFlight = bridge.inFlight /\ b.record = bridge.record
    <2>1. <<>> \in Seq(BOOLEAN)
      OBVIOUS
    <2>2. quiet \in BOOLEAN
      BY <1>2 DEF Bridges, quiet
    <2>. QED BY <1>2, <2>1, <2>2 DEF Bridges
  <1>6. /\ g \in Gates(m) /\ ~g.active /\ ~g.timer /\ g.attempts = gate.attempts
    BY <1>2 DEF Gates
  <1>. HIDE DEF b, g
  <1>7. /\ c \in State(m) /\ c.session = session /\ c.agent = agent /\ c.exec = exec
        /\ c.answered = answered /\ c.bridge = b /\ c.gate = g /\ c.hub = hub
    <2>1. /\ c \in State(m) /\ c.session = Now.session /\ c.agent = Now.agent /\ c.exec = Now.exec
          /\ c.answered = Now.answered /\ c.bridge = b /\ c.gate = g /\ c.hub = hub
      BY <1>2, <1>4, <1>5, <1>6, LaterEpoch
    <2>. QED BY <2>1, NowParts
  <1>. HIDE DEF c
  <1>8. Ledger(c)
    <2>1. Once(c)
      BY <1>2, <1>5, <1>7, NowParts DEF Ledger, Once, Outstanding
    <2>2. Probing(c)
      BY <1>2, <1>6, <1>7, NowParts DEF Ledger, Probing
    <2>. QED BY <2>1, <2>2 DEF Ledger
  <1>9. Legs(c) /\ Carried(c)
    BY <1>2, <1>5, <1>7, NowParts DEF Legs, Carried
  <1>10. /\ r \in State(m) /\ Ledger(r) /\ Legs(r) /\ Carried(r)
         /\ ~r.bridge.record /\ r.exec.cb = None
         /\ r.bridge.stopping /\ r.bridge.edges = <<>>
         /\ ~r.gate.active /\ ~r.bridge.pump /\ (~bridge.record => r = c)
    BY <1>4, <1>5, <1>6, <1>7, <1>8, <1>9, ReleaseOwnerFrame
  <1>. HIDE DEF r
  <1>11. /\ Carries(m, r, f) /\ f.bridge.pending = <<>> /\ f.exec = r.exec
         /\ f.bridge.pump = r.bridge.pump
    BY <1>4, <1>10, FailAllCarries
  <1>. HIDE DEF f
  <1>12. f \in State(m) /\ Ledger(f) /\ SameSession(r, f) /\ NothingNew(r, f)
    BY <1>11 DEF Carries
  <1>13. /\ z \in State(m) /\ z.session = f.session /\ z.agent = f.agent /\ z.exec = f.exec
         /\ z.answered = f.answered /\ z.bridge = f.bridge /\ z.gate = f.gate
         /\ z.hub = (f.hub /\ ~bridge.record)
    <2>1. h \in BOOLEAN
      BY <1>12, Parts
    <2>. HIDE DEF h
    <2>2. /\ z \in State(m) /\ z.session = f.session /\ z.agent = f.agent /\ z.exec = f.exec
          /\ z.answered = f.answered /\ z.bridge = f.bridge /\ z.gate = f.gate /\ z.hub = h
      BY <1>12, <2>1 DEF State
    <2>. QED BY <2>2 DEF h
  <1>. HIDE DEF z
  <1>14. Ledger(z)
    BY <1>12, <1>13, LedgerFrame DEF SameLedger
  <1>15. Legs(z)
    BY <1>10, <1>11, <1>12, <1>13 DEF Legs, SameSession
  <1>16. Carried(z)
    BY <1>10, <1>11, <1>12, <1>13 DEF Carried, SameSession
  <1>20. z.hub => z.bridge.silent
    <2>. SUFFICES ASSUME z.hub PROVE z.bridge.silent
      OBVIOUS
    <2>1. ~bridge.record /\ r = c /\ f.hub
      BY <1>10, <1>13
    <2>2. hub /\ z.bridge.silent = quiet
      BY <1>5, <1>6, <1>7, <1>12, <1>13, <2>1 DEF SameSession, NothingNew
    <2>3. ~bridge.stopping /\ gate.up
      BY <2>2, NowParts DEF Stop, Inv, Told
    <2>4. ~bridge.silent => Shut(bridge.edges, gate)
      BY <1>2, <2>1, <2>3, NowParts DEF Inv, Legs, Reported
    <2>. QED BY <2>1, <2>2, <2>3, <2>4 DEF Shut, quiet
  <1>17. Stopped(z) /\ Reported(z) /\ Told(z)
    BY <1>10, <1>11, <1>12, <1>13, <1>20 DEF Stopped, Reported, Told, SameSession, NothingNew
  <1>18. z.gate.epoch = m
    <2>1. z.gate \in Gates(m)
      BY <1>13, Parts
    <2>. QED BY <2>1 DEF Gates
  <1>19. Inv(z)
    BY <1>4, <1>13, <1>14, <1>15, <1>16, <1>17, <1>18 DEF Inv
  <1>. QED BY <1>1, <1>3, <1>19, BecameKeeps

\* An edge is taken from the queue. A shut gate stays shut, for the last edge is
\* the one that shuts it.
LEMMA EdgeKeeps ==
    ASSUME NEW x, Inv(x), x.bridge.edges # <<>>, NEW up \in BOOLEAN, up = Head(x.bridge.edges),
           NEW m \in Nat, x.gate.epoch <= m, NEW g \in Gates(m), NEW h \in BOOLEAN, NEW y,
           y = Tuned(x, [x.bridge EXCEPT !.edges = Tail(@)], g, h), Probing(y),
           up \/ (~g.up /\ ~g.active), h => g.up
    PROVE  Inv(y)
  <1>. DEFINE n == x.gate.epoch
              e == Tail(x.bridge.edges)
              b == [x.bridge EXCEPT !.edges = e]
  <1>1. n \in Nat /\ x \in State(n) /\ Ledger(x)
    BY DEF Inv
  <1>2. x.bridge \in Bridges(n) /\ x.bridge.edges \in Seq(BOOLEAN)
    <2>1. x.bridge \in Bridges(n)
      BY <1>1, Parts
    <2>. QED BY <2>1 DEF Bridges
  <1>3. /\ e \in Seq(BOOLEAN)
        /\ e = <<>> => x.bridge.edges[Len(x.bridge.edges)] = up
        /\ e # <<>> => e[Len(e)] = x.bridge.edges[Len(x.bridge.edges)]
    <2>. DEFINE q == x.bridge.edges
    <2>1. q \in Seq(BOOLEAN) /\ q # <<>> /\ Len(q) \in Nat \ {0} /\ Head(q) = q[1]
      BY <1>2, EmptySeq
    <2>2. /\ e \in Seq(BOOLEAN) /\ Len(e) = Len(q) - 1
          /\ \A i \in 1 .. Len(e) : e[i] = q[i + 1]
      BY <2>1, HeadTailProperties
    <2>. HIDE DEF e
    <2>3. Len(e) \in Nat /\ (e # <<>> => Len(e) \in Nat \ {0}) /\ (e = <<>> => Len(e) = 0)
      BY <2>2, EmptySeq, LenProperties
    <2>4. e = <<>> => q[Len(q)] = up
      <3>1. e = <<>> => Len(q) = 1
        BY <2>1, <2>2, <2>3
      <3>. QED BY <2>1, <3>1
    <2>5. e # <<>> => e[Len(e)] = q[Len(q)]
      <3>1. e # <<>> => Len(e) \in 1 .. Len(e) /\ Len(e) + 1 = Len(q)
        BY <2>1, <2>2, <2>3
      <3>2. e # <<>> => e[Len(e)] = q[Len(e) + 1]
        BY <2>2, <3>1
      <3>. QED BY <3>1, <3>2
    <2>. QED BY <2>2, <2>4, <2>5
  <1>4. y = Tuned(x, b, g, h)
    OBVIOUS
  <1>. HIDE DEF e
  <1>5. /\ b \in Bridges(n) /\ b.edges = e
        /\ b.pending = x.bridge.pending /\ b.inFlight = x.bridge.inFlight
        /\ b.record = x.bridge.record /\ b.stopping = x.bridge.stopping
        /\ b.silent = x.bridge.silent
    BY <1>2, <1>3 DEF Bridges
  <1>. HIDE DEF b
  <1>6. /\ y \in State(m) /\ y.session = x.session /\ y.agent = x.agent /\ y.exec = x.exec
        /\ y.answered = x.answered /\ y.bridge = b /\ y.gate = g /\ y.hub = h
    BY <1>1, <1>4, <1>5, LaterEpoch
  <1>7. y.gate.epoch = m
    BY <1>6 DEF Gates
  <1>8. Ledger(y)
    <2>1. /\ y.bridge.pending = x.bridge.pending /\ y.bridge.inFlight = x.bridge.inFlight
          /\ y.exec.cb = x.exec.cb /\ y.answered = x.answered
      BY <1>5, <1>6
    <2>2. Once(y)
      BY <1>1, <2>1, OnceFrame DEF Ledger
    <2>. QED BY <2>2 DEF Ledger
  <1>9. Legs(y) /\ Carried(y)
    BY <1>5, <1>6 DEF Inv, Legs, Carried
  <1>10. Stopped(y)
    BY <1>5, <1>6 DEF Inv, Stopped
  <1>11. Reported(y)
    <2>1. Reported(x)
      BY DEF Inv
    <2>2. CASE e = <<>>
      BY <1>3, <1>5, <1>6, <2>1, <2>2 DEF Reported, Shut
    <2>3. CASE e # <<>>
      BY <1>3, <1>5, <1>6, <2>1, <2>3 DEF Reported, Shut
    <2>. QED BY <2>2, <2>3
  <1>12. Told(y)
    BY <1>6 DEF Told
  <1>. QED BY <1>6, <1>7, <1>8, <1>9, <1>10, <1>11, <1>12 DEF Inv

\* A login edge.
LEMMA LoginEdgeStep ==
    ASSUME Inv(Now), LoginEdge
    PROVE  Inv(Now')
  <1>. DEFINE n == gate.epoch
              m == n + 1
              b == [bridge EXCEPT !.edges = Tail(@)]
              x == [Now EXCEPT !.bridge.edges = Tail(@)]
  <1>1. /\ n \in Nat /\ Now \in State(n) /\ gate \in Gates(n) /\ hub \in BOOLEAN /\ Probing(Now)
        /\ bridge.edges # <<>> /\ Now.gate.epoch = n /\ (hub => gate.up)
    BY NowTyped, NowParts DEF Ledger, LoginEdge, Inv, Stopped, Told
  <1>2. m \in Nat /\ n <= m /\ n < m /\ m >= 1 /\ n <= n
    BY <1>1
  <1>0. PICK e \in BOOLEAN : e = Head(bridge.edges)
    <2>1. bridge.edges \in Seq(BOOLEAN)
      BY NowTyped DEF Bridges
    <2>. QED BY <1>1, <2>1, HeadTailProperties
  <1>3. Become(OnEdge(x, e))
    BY <1>0 DEF LoginEdge
  <1>4. x.gate = gate /\ x = [Now EXCEPT !.bridge = b] /\ x.hub = hub
    BY DEF Now
  <1>12. x \in State(n)
    <2>1. b \in Bridges(n)
      <3>1. bridge \in Bridges(n) /\ bridge.edges \in Seq(BOOLEAN)
        BY NowTyped DEF Bridges
      <3>2. Tail(bridge.edges) \in Seq(BOOLEAN)
        BY <1>1, <3>1, HeadTailProperties
      <3>. QED BY <3>1, <3>2 DEF Bridges
    <2>. HIDE DEF b, x
    <2>. QED BY <1>1, <1>4, <2>1 DEF State
  <1>5. ASSUME NEW h
        PROVE  /\ [x EXCEPT !.hub = h] = Tuned(Now, b, gate, h)
               /\ \A g : [x EXCEPT !.gate = g, !.hub = h] = Tuned(Now, b, g, h)
    <2>. HIDE DEF x, b
    <2>1. [x EXCEPT !.hub = h] = Tuned(Now, b, gate, h)
      BY <1>1, <1>4, NowParts DEF State, Tuned
    <2>2. ASSUME NEW g PROVE [x EXCEPT !.gate = g, !.hub = h] = Tuned(Now, b, g, h)
      BY <1>1, <1>4, NowParts DEF State, Tuned
    <2>. QED BY <2>1, <2>2
  <1>6. ASSUME NEW k \in Nat, n <= k, NEW g \in Gates(k), NEW h \in BOOLEAN, NEW y,
               y = Tuned(Now, b, g, h), Probing(y), e \/ (~g.up /\ ~g.active), h => g.up
        PROVE  Inv(y)
    BY <1>0, <1>1, <1>6, EdgeKeeps, NowParts
  <1>7. \A g, h : Tuned(Now, b, g, h).gate = g /\ Tuned(Now, b, g, h).exec = exec
                  /\ Tuned(Now, b, g, h).bridge.pending = bridge.pending
    <2>1. \A g, h : Tuned(Now, b, g, h).gate = g /\ Tuned(Now, b, g, h).exec = exec
                    /\ Tuned(Now, b, g, h).bridge = b
      BY DEF Tuned, Now
    <2>2. b.pending = bridge.pending
      BY <1>1, NowTyped DEF Bridges
    <2>. QED BY <2>1, <2>2
  <1>8. CASE ~e
    <2>. DEFINE g == [gate EXCEPT !.epoch = m, !.timer = FALSE, !.active = FALSE, !.up = FALSE]
                y == Tuned(Now, b, g, FALSE)
    <2>1. OnEdge(x, e) = [x EXCEPT !.gate = g, !.hub = FALSE]
      <3>. HIDE DEF x
      <3>1. OnEdge(x, e) = [Cancel(x) EXCEPT !.gate.up = FALSE, !.hub = FALSE]
        BY <1>8 DEF OnEdge
      <3>2. Cancel(x) = [x EXCEPT !.gate = [gate EXCEPT !.epoch = m, !.timer = FALSE, !.active = FALSE]]
        BY <1>4 DEF Cancel
      <3>. QED BY <3>1, <3>2, <1>4
    <2>. HIDE DEF m, x, b
    <2>2. g \in Gates(m) /\ ~g.up /\ ~g.active /\ ~g.timer /\ g.attempts = gate.attempts
      BY <1>1, <1>2 DEF Gates
    <2>3. y.gate = g /\ y = OnEdge(x, e)
      BY <1>5, <1>7, <2>1
    <2>. HIDE DEF g
    <2>4. PICK h \in BOOLEAN : h = FALSE
      OBVIOUS
    <2>5. y = Tuned(Now, b, g, h)
      BY <2>4
    <2>. HIDE DEF y
    <2>6. Probing(y)
      BY <1>1, <2>2, <2>3, NowParts DEF Probing
    <2>7. Inv(y)
      BY <1>2, <1>6, <2>2, <2>4, <2>5, <2>6
    <2>. QED BY <1>3, <2>3, <2>7, BecameKeeps
  <1>9. CASE e /\ (gate.up \/ gate.active)
    <2>1. PICK h \in BOOLEAN : OnEdge(x, e) = Tuned(Now, b, gate, h) /\ (h => gate.up)
      <3>1. CASE gate.up
        <4>. HIDE DEF x, b
        <4>1. OnEdge(x, e) = [x EXCEPT !.hub = TRUE]
          BY <1>4, <1>9, <3>1 DEF OnEdge
        <4>. QED BY <1>5, <3>1, <4>1
      <3>2. CASE ~gate.up
        <4>1. OnEdge(x, e) = x
          BY <1>4, <1>9, <3>2 DEF OnEdge
        <4>. HIDE DEF x, b
        <4>2. x = [x EXCEPT !.hub = hub]
          BY <1>4, <1>12 DEF State
        <4>. QED BY <1>1, <1>5, <4>1, <4>2
      <3>. QED BY <3>1, <3>2
    <2>. DEFINE y == Tuned(Now, b, gate, h)
    <2>2. y.gate = gate /\ y.exec = exec /\ y.bridge.pending = bridge.pending
      BY <1>7
    <2>. HIDE DEF x, b
    <2>3. Probing(y)
      <3>. HIDE DEF y
      <3>. QED BY <1>1, <2>2, NowParts DEF Probing, Outstanding
    <2>4. Inv(y)
      BY <1>1, <1>2, <1>6, <1>9, <2>1, <2>3
    <2>. QED BY <1>3, <2>1, <2>4, BecameKeeps
  <1>10. CASE e /\ ~gate.up /\ ~gate.active
    <2>. DEFINE g == [gate EXCEPT !.active = TRUE, !.attempts = 1, !.epoch = m]
                y == Tuned(Now, b, g, hub)
                z == SubmitTask(y, Probe(m))
    <2>1. OnEdge(x, e) = z
      <3>. DEFINE a == [gate EXCEPT !.active = TRUE, !.attempts = 0, !.epoch = m]
                  w == [x EXCEPT !.gate = a]
      <3>1. w = [x EXCEPT !.gate.active = TRUE, !.gate.attempts = 0, !.gate.epoch = @ + 1]
        <4>. HIDE DEF x
        <4>. QED BY <1>4
      <3>2. w.gate = a /\ a.epoch = m /\ [a EXCEPT !.attempts = @ + 1] = g
        <4>. HIDE DEF x, m
        <4>1. w.gate = a
          BY <1>12 DEF State
        <4>2. a.epoch = m /\ a.attempts + 1 = 1
          BY <1>1 DEF Gates
        <4>3. [a EXCEPT !.attempts = 1] = g
          BY <1>1 DEF Gates
        <4>. QED BY <4>1, <4>2, <4>3
      <3>. HIDE DEF x
      <3>3. [w EXCEPT !.gate = g] = [x EXCEPT !.gate = g, !.hub = hub]
        <4>. HIDE DEF a, g
        <4>. QED BY <1>4, <1>12 DEF State
      <3>4. OnEdge(x, e) = ProbeOnce(w)
        BY <1>4, <1>10, <3>1 DEF OnEdge
      <3>. HIDE DEF w, a, m, g, b
      <3>5. ProbeOnce(w) = SubmitTask([w EXCEPT !.gate = g], Probe(m))
        BY <3>2 DEF ProbeOnce
      <3>. QED BY <1>5, <3>3, <3>4, <3>5
    <2>. HIDE DEF m, x
    <2>2. /\ g \in Gates(m) /\ ~g.timer /\ g.attempts <= ProbeBudget /\ g.epoch = m /\ g.up = gate.up
      <3>1. ~gate.timer
        BY <1>1, <1>10, NowParts DEF Probing
      <3>2. 1 \in Nat /\ 1 <= ProbeBudget
        BY StorageAssumption
      <3>3. g \in Gates(m) /\ g.timer = gate.timer /\ g.attempts = 1 /\ g.epoch = m /\ g.up = gate.up
        BY <1>1, <1>2, <3>2 DEF Gates
      <3>. QED BY <3>1, <3>2, <3>3
    <2>3. y.gate = g /\ y.exec = exec /\ y.bridge.pending = bridge.pending
      BY <1>7
    <2>. HIDE DEF g, y
    <2>4. Probing(y)
      BY <1>2, <2>2, <2>3 DEF Probing
    <2>5. Inv(y)
      BY <1>1, <1>2, <1>6, <1>10, <2>2, <2>4 DEF y
    <2>6. ~Outstanding(y, Probe(m))
      <3>1. ~Outstanding(Now, Probe(m))
        BY <1>1, <1>2, NoLaterProbe
      <3>. QED BY <2>3, <3>1, NowParts DEF Outstanding
    <2>7. Carries(m, y, z)
      <3>1. y.gate.epoch = m /\ y \in State(m) /\ Ledger(y) /\ ~y.gate.timer
        BY <2>2, <2>3, <2>5 DEF Inv
      <3>. QED BY <1>2, <2>6, <3>1, ProbeQueued
    <2>. HIDE DEF z
    <2>8. Inv(z)
      BY <2>2, <2>3, <2>5, <2>7, InvCarries
    <2>. QED BY <1>3, <2>1, <2>8, BecameKeeps
  <1>11. gate.up \in BOOLEAN /\ gate.active \in BOOLEAN
    BY <1>1 DEF Gates
  <1>. QED BY <1>8, <1>9, <1>10, <1>11

\* The gate's retry timer.
LEMMA ProbeTimerStep ==
    ASSUME Inv(Now), ProbeTimer
    PROVE  Inv(Now')
  <1>. DEFINE n == gate.epoch
              i == gate.attempts + 1
              g == [gate EXCEPT !.timer = FALSE, !.attempts = i]
              y == Tuned(Now, bridge, g, hub)
              z == SubmitTask(y, Probe(n))
  <1>1. /\ n \in Nat /\ Now \in State(n) /\ gate \in Gates(n) /\ hub \in BOOLEAN /\ Ledger(Now)
        /\ bridge \in Bridges(n) /\ Now.gate.epoch = n /\ gate.timer
    BY NowTyped DEF ProbeTimer
  <1>2. n >= 1 /\ gate.attempts < ProbeBudget /\ ~Outstanding(Now, Probe(n))
    BY <1>1, NowParts DEF Ledger, Probing
  <1>3. i \in Nat /\ i <= ProbeBudget
    BY <1>1, <1>2, StorageAssumption DEF Gates
  <1>4. GateTimer(Now) = z
    <2>. DEFINE a == [gate EXCEPT !.timer = FALSE]
                x == [Now EXCEPT !.gate = a]
    <2>1. [Now EXCEPT !.gate.timer = FALSE] = x
      BY NowParts
    <2>2. x.gate = a /\ x.bridge = bridge /\ x.hub = hub
      BY DEF Now
    <2>3. a.epoch = n /\ [a EXCEPT !.attempts = a.attempts + 1] = g
      BY <1>1 DEF Gates
    <2>. HIDE DEF a, g, i
    <2>4. [x EXCEPT !.gate = g] = y
      BY <1>1, NowParts DEF State, Tuned
    <2>. HIDE DEF x
    <2>5. ProbeOnce(x) = SubmitTask([x EXCEPT !.gate = g], Probe(n))
      BY <2>2, <2>3 DEF ProbeOnce
    <2>. QED BY <2>1, <2>4, <2>5 DEF GateTimer
  <1>. HIDE DEF i
  <1>5. /\ g \in Gates(n) /\ ~g.timer /\ g.attempts = i /\ g.epoch = n /\ g.up = gate.up
        /\ g.active = gate.active
    BY <1>1, <1>3 DEF Gates
  <1>. HIDE DEF g
  <1>6. /\ y \in State(n) /\ y.session = session /\ y.agent = agent /\ y.exec = exec
        /\ y.answered = answered /\ y.bridge = bridge /\ y.gate = g /\ y.hub = hub
    <2>1. n <= n
      BY <1>1
    <2>2. /\ y \in State(n) /\ y.session = Now.session /\ y.agent = Now.agent /\ y.exec = Now.exec
          /\ y.answered = Now.answered /\ y.bridge = bridge /\ y.gate = g /\ y.hub = hub
      BY <1>1, <1>5, <2>1, LaterEpoch
    <2>. QED BY <2>2, NowParts
  <1>. HIDE DEF y
  <1>7. Ledger(y)
    <2>1. Once(y)
      BY <1>1, <1>6, OnceFrame, NowParts DEF Ledger
    <2>2. Probing(y)
      BY <1>2, <1>3, <1>5, <1>6 DEF Probing
    <2>. QED BY <2>1, <2>2 DEF Ledger
  <1>8. Legs(y) /\ Carried(y) /\ Stopped(y)
    BY <1>5, <1>6, NowParts DEF Inv, Legs, Carried, Stopped
  <1>9. Reported(y) /\ Told(y)
    BY <1>5, <1>6, NowParts DEF Inv, Reported, Shut, Told
  <1>10. Inv(y) /\ y.gate.epoch = n
    BY <1>1, <1>5, <1>6, <1>7, <1>8, <1>9 DEF Inv
  <1>11. ~Outstanding(y, Probe(n))
    BY <1>2, <1>6, NowParts DEF Outstanding
  <1>12. Carries(n, y, z)
    BY <1>1, <1>2, <1>5, <1>6, <1>7, <1>11, ProbeQueued
  <1>. HIDE DEF z
  <1>13. Inv(z)
    BY <1>10, <1>12, InvCarries
  <1>. QED BY <1>4, <1>13, BecameKeeps DEF ProbeTimer

-----------------------------------------------------------------------------
(* The bridge *)

\* The scan of the new generation is over.
LEMMA DiscoveryStep ==
    ASSUME Inv(Now), Discovery
    PROVE  Inv(Now')
  <1>. DEFINE n == gate.epoch
  <1>1. n \in Nat /\ Now \in State(n) /\ bridge \in Bridges(n) /\ Now.gate.epoch = n
    BY NowTyped
  <1>2. PICK found \in BOOLEAN :
          LET x == [Now EXCEPT !.discovered = IF found THEN "found" ELSE "absent",
                               !.bridge.published = found]
          IN  \E y \in IF found THEN {RefreshTargets(x, o) : o \in SessionOutcomes} ELSE {x} : Become(y)
    BY DEF Discovery
  <1>. DEFINE d == IF found THEN "found" ELSE "absent"
              b == [bridge EXCEPT !.published = found]
              v == [Now EXCEPT !.bridge = b]
              x == [v EXCEPT !.discovered = d]
  <1>3. x = [Now EXCEPT !.discovered = d, !.bridge.published = found]
    BY <1>1, NowParts DEF State
  <1>. HIDE DEF x
  <1>4. Become(x) \/ \E o : Become(RefreshTargets(x, o))
    BY <1>2, <1>3
  <1>5. d \in {"no", "absent", "found"}
    OBVIOUS
  <1>6. /\ b \in Bridges(n)
        /\ b.pending = bridge.pending /\ b.inFlight = bridge.inFlight
        /\ b.pump = bridge.pump /\ b.stopping = bridge.stopping
        /\ b.record = bridge.record /\ b.edges = bridge.edges /\ b.silent = bridge.silent
    BY <1>1 DEF Bridges
  <1>. HIDE DEF b, d
  <1>7. Inv(v)
    BY <1>1, <1>6, BridgeKeeps, NowParts
  <1>. HIDE DEF v
  <1>8. Inv(x) /\ x.bridge \in Bridges(x.gate.epoch)
    <2>. DEFINE m == v.gate.epoch
    <2>1. v \in State(m)
      BY <1>7 DEF Inv
    <2>2. /\ x \in State(m) /\ x.session = v.session /\ x.agent = v.agent /\ x.exec = v.exec
          /\ x.bridge = v.bridge /\ x.gate = v.gate /\ x.hub = v.hub /\ x.answered = v.answered
      BY <1>5, <2>1 DEF State, x
    <2>3. Inv(x)
      BY <1>7, <2>2, InvAside
    <2>. QED BY <2>2, <2>3, Parts
  <1>9. ASSUME NEW o PROVE Inv(RefreshTargets(x, o))
    <2>. DEFINE c == [x.bridge EXCEPT !.current = TRUE]
                w == [x EXCEPT !.bridge = c]
    <2>1. /\ c \in Bridges(x.gate.epoch)
          /\ c.pending = x.bridge.pending /\ c.inFlight = x.bridge.inFlight
          /\ c.pump = x.bridge.pump /\ c.stopping = x.bridge.stopping
          /\ c.record = x.bridge.record /\ c.edges = x.bridge.edges /\ c.silent = x.bridge.silent
      BY <1>8 DEF Bridges
    <2>2. RefreshTargets(x, o) = IF x.bridge.record /\ x.session.state = "Suspended"
                                   THEN Reconnect(w, o) ELSE x
      BY DEF RefreshTargets
    <2>. HIDE DEF c
    <2>3. Inv(w) /\ w.session = x.session
      BY <1>8, <2>1, BridgeKeeps
    <2>. HIDE DEF w
    <2>4. CASE x.bridge.record /\ x.session.state = "Suspended"
      BY <2>2, <2>3, <2>4, ReconnectKeeps
    <2>. QED BY <1>8, <2>2, <2>4
  <1>. QED BY <1>4, <1>8, <1>9, BecameKeeps

\* The registry's StartLogin.
LEMMA StartLoginKeeps ==
    ASSUME NEW x, Inv(x), NEW o
    PROVE  Inv(StartLogin(x, o))
  <1>1. CASE RecordIsCurrent(x) /\ x.session.state = "Idle"
    <2>1. x.bridge.record /\ x.session.state \in Unlogged \cup {"LoggedIn"}
      BY <1>1 DEF RecordIsCurrent, Unlogged
    <2>. QED BY <1>1, <2>1, LoginKeeps DEF StartLogin
  <1>2. CASE ~(RecordIsCurrent(x) /\ x.session.state = "Idle")
    BY <1>2 DEF StartLogin
  <1>. QED BY <1>1, <1>2

\* A session is created for a bridge that has none and was not stopped.
LEMMA CreateSessionKeeps ==
    ASSUME NEW x, Inv(x), ~x.bridge.record, ~x.bridge.stopping
    PROVE  Inv(CreateSession(x))
  <1>. DEFINE n == x.gate.epoch
              f == Forget(x)
              b == [f.bridge EXCEPT !.record = TRUE, !.current = TRUE]
              y == [f EXCEPT !.bridge = b]
  <1>0. x \in State(n) /\ n \in Nat /\ x.session.state \in Unlogged
    BY DEF Inv, Legs, Unlogged
  <1>1. /\ Inv(f) /\ f.session.state = "Idle" /\ f.session.timer = "none"
    BY <1>0, ForgetKeeps
  <1>2. Moves(n, x, f) /\ f.bridge = x.bridge /\ f \in State(n)
    BY <1>0, ForgetMoves
  <1>3. CreateSession(x) = y
    BY DEF CreateSession
  <1>. HIDE DEF f
  <1>4. f.gate.epoch = n /\ f.bridge \in Bridges(n)
    BY <1>2, Parts DEF Moves
  <1>5. /\ b \in Bridges(n) /\ b.record
        /\ b.pending = f.bridge.pending /\ b.inFlight = f.bridge.inFlight
        /\ b.pump = f.bridge.pump /\ b.stopping = f.bridge.stopping
        /\ b.edges = f.bridge.edges /\ b.silent = f.bridge.silent
    BY <1>4 DEF Bridges
  <1>. HIDE DEF b
  <1>6. /\ y \in State(n) /\ y.session = f.session /\ y.agent = f.agent /\ y.exec = f.exec
        /\ y.bridge = b /\ y.gate = f.gate /\ y.hub = f.hub /\ y.answered = f.answered
    BY <1>2, <1>5 DEF State
  <1>. HIDE DEF y
  <1>7. Ledger(y)
    BY <1>1, <1>5, <1>6, LedgerFrame DEF Inv, SameLedger
  <1>8. Legs(y)
    BY <1>1, <1>5, <1>6 DEF Inv, Legs
  <1>9. Carried(y) /\ Reported(y) /\ Told(y)
    BY <1>1, <1>5, <1>6 DEF Inv, Carried, Reported, Told
  <1>10. Stopped(y)
    BY <1>2, <1>5, <1>6 DEF Stopped
  <1>11. Inv(y)
    BY <1>0, <1>4, <1>6, <1>7, <1>8, <1>9, <1>10 DEF Inv
  <1>. QED BY <1>3, <1>11

\* A session that failed is released, and forgotten with its executor.
LEMMA ReleaseFailedKeeps ==
    ASSUME NEW x, Inv(x), x.session.state = "Failed", ~x.bridge.stopping
    PROVE  /\ Inv(Forget(ReleaseRecord(x))) /\ ~Forget(ReleaseRecord(x)).bridge.record
           /\ ~Forget(ReleaseRecord(x)).bridge.stopping
  <1>. DEFINE n == x.gate.epoch
              r == ReleaseRecord(x)
              f == Forget(r)
  <1>0. x \in State(n) /\ n \in Nat /\ Ledger(x)
    BY DEF Inv
  <1>1. /\ r \in State(n) /\ Ledger(r) /\ ~r.bridge.record
        /\ r.exec.cb = None /\ r.exec.cmd = None /\ ~r.exec.mgmt
        /\ r.bridge.stopping = x.bridge.stopping
        /\ r.bridge.edges = x.bridge.edges /\ r.bridge.silent = x.bridge.silent
        /\ r.gate.active => x.gate.active
        /\ r.gate.up => x.gate.up \/ x.gate.active
        /\ x.gate.up => r.gate.up
        /\ r.hub => x.hub \/ r.gate.up
    BY <1>0, ReleaseRecordFrame
  <1>. HIDE DEF r
  <1>2. Moves(n, r, f) /\ f \in State(n) /\ f.bridge = r.bridge /\ f.session = NoSession /\ ~f.agent.bound
    BY <1>1, ForgetMoves
  <1>. HIDE DEF f
  <1>3. Ledger(f)
    BY <1>1, <1>2, LedgerFrame DEF Moves, SameLedger
  <1>4. Legs(f)
    BY <1>1, <1>2, FreshTyped DEF Moves, Legs
  <1>5. Carried(f)
    BY <1>1, <1>2 DEF Moves, Carried
  <1>6. Stopped(f)
    BY <1>1, <1>2 DEF Stopped
  <1>7. Reported(f)
    <2>1. Reported(x) /\ f.gate = r.gate
      BY <1>2 DEF Inv, Moves
    <2>. QED BY <1>1, <1>2, <2>1 DEF Reported, Shut
  <1>8. f.gate.epoch = n
    <2>1. f.gate \in Gates(n)
      BY <1>2, Parts
    <2>. QED BY <2>1 DEF Gates
  <1>10. Told(f)
    BY <1>1, <1>2 DEF Inv, Moves, Told
  <1>9. Inv(f)
    BY <1>0, <1>2, <1>3, <1>4, <1>5, <1>6, <1>7, <1>8, <1>10 DEF Inv
  <1>. QED BY <1>1, <1>2, <1>9 DEF f, r

\* The unit of the target is published.
LEMMA UnitPublishedStep ==
    ASSUME Inv(Now), UnitPublished
    PROVE  Inv(Now')
  <1>. DEFINE n == gate.epoch
              b == [bridge EXCEPT !.published = FALSE]
              x == [Now EXCEPT !.bridge = b]
  <1>1. n \in Nat /\ Now \in State(n) /\ bridge \in Bridges(n) /\ Now.gate.epoch = n /\ ~bridge.stopping
    BY NowTyped DEF UnitPublished
  <1>2. PICK free \in BOOLEAN, o \in SessionOutcomes : Become(OnUnitPublished(x, free, o))
    <2>1. x = [Now EXCEPT !.bridge.published = FALSE]
      BY NowParts
    <2>. HIDE DEF x
    <2>2. \E free \in BOOLEAN :
             \E y \in {OnUnitPublished(x, free, o) : o \in SessionOutcomes} : Become(y)
      BY <2>1 DEF UnitPublished
    <2>. QED BY <2>2
  <1>3. /\ b \in Bridges(n)
        /\ b.pending = bridge.pending /\ b.inFlight = bridge.inFlight
        /\ b.pump = bridge.pump /\ b.stopping = bridge.stopping
        /\ b.record = bridge.record /\ b.edges = bridge.edges /\ b.silent = bridge.silent
    BY <1>1 DEF Bridges
  <1>. HIDE DEF b
  <1>4. Inv(x) /\ ~x.bridge.stopping
    BY <1>1, <1>3, BridgeKeeps, NowParts
  <1>. HIDE DEF x
  <1>. DEFINE fresh(y) == IF y.discovered = "found" /\ ~y.bridge.retiring /\ free
                            THEN StartLogin(CreateSession(y), o) ELSE y
              r == Forget(ReleaseRecord(x))
  <1>5. ASSUME NEW y, Inv(y), ~y.bridge.record, ~y.bridge.stopping PROVE Inv(fresh(y))
    BY <1>5, CreateSessionKeeps, StartLoginKeeps
  <1>6. OnUnitPublished(x, free, o) = IF ~x.bridge.record THEN fresh(x)
                                ELSE CASE x.session.state = "Idle"   -> StartLogin(x, o)
                                       [] x.session.state = "Failed" -> fresh(r)
                                       [] OTHER                      -> x
    BY DEF OnUnitPublished
  <1>. HIDE DEF fresh
  <1>7. CASE ~x.bridge.record
    <2>1. OnUnitPublished(x, free, o) = fresh(x)
      BY <1>6, <1>7
    <2>. QED BY <1>2, <1>4, <1>5, <1>7, <2>1, BecameKeeps
  <1>8. CASE x.bridge.record /\ x.session.state = "Idle"
    <2>1. OnUnitPublished(x, free, o) = StartLogin(x, o)
      BY <1>6, <1>8
    <2>. QED BY <1>2, <1>4, <2>1, StartLoginKeeps, BecameKeeps
  <1>9. CASE x.bridge.record /\ x.session.state = "Failed"
    <2>1. OnUnitPublished(x, free, o) = fresh(r)
      BY <1>6, <1>9
    <2>2. Inv(r) /\ ~r.bridge.record /\ ~r.bridge.stopping
      BY <1>4, <1>9, ReleaseFailedKeeps
    <2>. HIDE DEF r
    <2>. QED BY <1>2, <1>5, <2>1, <2>2, BecameKeeps
  <1>10. CASE x.bridge.record /\ x.session.state \notin {"Idle", "Failed"}
    <2>1. OnUnitPublished(x, free, o) = x
      BY <1>6, <1>10
    <2>. QED BY <1>2, <1>4, <2>1, BecameKeeps
  <1>. QED BY <1>7, <1>8, <1>9, <1>10

-----------------------------------------------------------------------------
(* Tasks *)

\* The tasks of the host that the properties count are the outstanding ones.
LEMMA HostsOutstanding ==
    ASSUME Inv(Now), NEW i \in Hosts
    PROVE  i \in Pending \cup InExecutor <=> Outstanding(Now, Host(i))
  <1>. DEFINE n == gate.epoch
              q == bridge.pending
  <1>1. q \in Seq(Tasks(n)) /\ exec.cb \in Maybe(n)
    <2>1. bridge \in Bridges(n) /\ exec \in Execs(n)
      BY NowTyped
    <2>. QED BY <2>1 DEF Bridges, Execs
  <1>2. Outstanding(Now, Host(i)) <=> exec.cb = Host(i) \/ \E k \in 1 .. Len(q) : q[k] = Host(i)
    BY NowParts DEF Outstanding
  <1>3. \A t \in Tasks(n) : t[1] = "host" /\ t[2] = i <=> t = Host(i)
    BY DEF Tasks, Host, Probe
  <1>4. i \in InExecutor <=> exec.cb = Host(i)
    <2>1. CASE exec.cb = None
      BY <2>1, TasksDiffer DEF InExecutor, Host, None
    <2>2. CASE exec.cb # None
      <3>1. exec.cb \in Tasks(n)
        BY <1>1, <2>2 DEF Maybe
      <3>. QED BY <1>3, <2>2, <3>1 DEF InExecutor
    <2>. QED BY <2>1, <2>2
  <1>5. i \in Pending <=> \E k \in 1 .. Len(q) : q[k] = Host(i)
    <2>1. ToSet(q) = {q[k] : k \in 1 .. Len(q)}
      BY <1>1 DEF ToSet
    <2>2. \A k \in 1 .. Len(q) : q[k] \in Tasks(n)
      BY <1>1
    <2>3. Host(i)[1] = "host" /\ Host(i)[2] = i
      BY TasksDiffer
    <2>4. i \in Pending <=> \E t \in ToSet(q) : t[1] = "host" /\ i = t[2]
      BY DEF Pending
    <2>. QED BY <1>3, <2>1, <2>2, <2>3, <2>4
  <1>. QED BY <1>2, <1>4, <1>5

\* The adapter hands over a task.
LEMMA HostTaskStep ==
    ASSUME Inv(Now), HostTask
    PROVE  Inv(Now')
  <1>. DEFINE n == gate.epoch
  <1>1. PICK i \in Unborn : Become(SubmitTask(Now, Host(i)))
    BY DEF HostTask
  <1>2. /\ n \in Nat /\ Now \in State(n) /\ Ledger(Now) /\ Now.gate.epoch = n
    BY NowTyped
  <1>3. i \in Hosts /\ answered[i] = 0 /\ i \notin Pending \cup InExecutor
    BY DEF Unborn
  <1>4. ~Outstanding(Now, Host(i))
    BY <1>3, HostsOutstanding
  <1>5. Host(i) \in Tasks(n) /\ Host(i) # Probe(n)
    BY <1>3, TasksDiffer DEF Tasks
  <1>6. \A j \in Hosts : Host(i) = Host(j) => Now.answered[j] = 0
    BY <1>3, TasksDiffer, NowParts
  <1>8. Carries(n, Now, SubmitTask(Now, Host(i)))
    <2>1. CASE ~Now.bridge.stopping
      BY <1>2, <1>4, <1>5, <1>6, <2>1, TaskQueued
    <2>2. CASE Now.bridge.stopping
      <3>1. SubmitTask(Now, Host(i)) = [Now EXCEPT !.answered[i] = @ + 1]
        BY <2>2, TasksDiffer DEF SubmitTask
      <3>. QED BY <1>2, <1>3, <1>4, <3>1, AnswerHost, NowParts
    <2>. QED BY <2>1, <2>2
  <1>. QED BY <1>1, <1>2, <1>8, InvCarries, BecameKeeps

\* The head of the queue becomes the executor's command.
Taken(x) ==
    [x EXCEPT !.bridge.pending = Tail(x.bridge.pending), !.bridge.inFlight = TRUE,
              !.exec.cmd = Head(x.bridge.pending), !.exec.cb = Head(x.bridge.pending),
              !.exec.result = "none"]

\* It does so within a login, and is outstanding as before.
LEMMA TakenKeeps ==
    ASSUME NEW x, Inv(x), x.bridge.pending # <<>>, ~x.bridge.inFlight, x.bridge.record,
           x.session.state = "LoggedIn"
    PROVE  /\ Inv(Taken(x)) /\ Taken(x).gate.epoch = x.gate.epoch
           /\ Head(x.bridge.pending) \in Tasks(x.gate.epoch)
  <1>. DEFINE n == x.gate.epoch
              q == x.bridge.pending
              t == Head(q)
              p == Tail(q)
              b == [x.bridge EXCEPT !.pending = p, !.inFlight = TRUE]
              e == [x.exec EXCEPT !.cmd = t, !.cb = t, !.result = "none"]
              y == Taken(x)
  <1>1. n \in Nat /\ x \in State(n) /\ Ledger(x) /\ Legs(x) /\ Stopped(x) /\ Reported(x) /\ Told(x)
    BY DEF Inv
  <1>2. x.bridge \in Bridges(n) /\ x.exec \in Execs(n)
    BY <1>1, Parts
  <1>3. q \in Seq(Tasks(n)) /\ q # <<>>
    BY <1>2 DEF Bridges
  <1>4. /\ t \in Tasks(n) /\ t \in Maybe(n) /\ t # None /\ p \in Seq(Tasks(n)) /\ t = q[1]
        /\ Len(p) = Len(q) - 1 /\ Len(q) \in Nat \ {0} /\ \A k \in 1 .. Len(p) : p[k] = q[k + 1]
    <2>1. t \in Tasks(n) /\ p \in Seq(Tasks(n)) /\ Len(p) = Len(q) - 1
          /\ \A k \in 1 .. Len(p) : p[k] = q[k + 1]
      BY <1>3, HeadTailProperties
    <2>2. Len(q) \in Nat \ {0} /\ t = q[1]
      BY <1>3, EmptySeq
    <2>. QED BY <2>1, <2>2, TasksDiffer DEF Maybe
  <1>5. y = [x EXCEPT !.bridge = b, !.exec = e]
    BY <1>1 DEF Taken, State
  <1>. HIDE DEF q, t, p, y
  <1>6. \A k \in 1 .. Len(p) : k + 1 \in 1 .. Len(q) /\ k + 1 # 1
    BY <1>4
  <1>7. 1 \in 1 .. Len(q)
    BY <1>4
  <1>8. /\ b \in Bridges(n) /\ b.pending = p /\ b.inFlight /\ b.record = x.bridge.record
        /\ b.stopping = x.bridge.stopping /\ b.edges = x.bridge.edges
        /\ b.silent = x.bridge.silent
    BY <1>2, <1>4 DEF Bridges
  <1>9. e \in Execs(n) /\ e.cb = t
    BY <1>2, <1>4 DEF Execs
  <1>. HIDE DEF b, e
  <1>10. /\ y \in State(n) /\ y.session = x.session /\ y.agent = x.agent /\ y.exec = e
         /\ y.bridge = b /\ y.gate = x.gate /\ y.hub = x.hub /\ y.answered = x.answered
    BY <1>1, <1>5, <1>8, <1>9 DEF State
  <1>11. \A u : Outstanding(y, u) => Outstanding(x, u)
    BY <1>4, <1>6, <1>7, <1>8, <1>9, <1>10 DEF Outstanding, q
  <1>12. Once(y)
    <2>0. Once(x) /\ x.bridge.pending = q
      BY <1>1 DEF Ledger, q
    <2>1. \A i \in Hosts : y.answered[i] <= 1
      BY <1>10, <2>0 DEF Once
    <2>2. \A i \in Hosts : Outstanding(y, Host(i)) => y.answered[i] = 0
      BY <1>10, <1>11, <2>0 DEF Once
    <2>3. \A k, l \in 1 .. Len(p) : p[k] = p[l] => k = l
      <3>1. TAKE k, l \in 1 .. Len(p)
      <3>2. p[k] = q[k + 1] /\ p[l] = q[l + 1]
        BY <1>4
      <3>3. k + 1 \in 1 .. Len(q) /\ l + 1 \in 1 .. Len(q)
        BY <1>6
      <3>4. q[k + 1] = q[l + 1] => k + 1 = l + 1
        BY <2>0, <3>3 DEF Once
      <3>. QED BY <3>2, <3>4
    <2>4. \A k \in 1 .. Len(p) : p[k] # t
      <3>1. TAKE k \in 1 .. Len(p)
      <3>2. p[k] = q[k + 1] /\ t = q[1] /\ k + 1 \in 1 .. Len(q) /\ k + 1 # 1
        BY <1>4, <1>6
      <3>. QED BY <1>7, <2>0, <3>2 DEF Once
    <2>. QED BY <1>4, <1>8, <1>9, <1>10, <2>1, <2>2, <2>3, <2>4 DEF Once
  <1>13. Probing(y)
    BY <1>1, <1>10, <1>11 DEF Ledger, Probing
  <1>14. Legs(y)
    BY <1>1, <1>8, <1>10 DEF Legs
  <1>15. Carried(y) /\ Stopped(y) /\ Reported(y) /\ Told(y)
    BY <1>1, <1>8, <1>10 DEF Carried, Stopped, Reported, Told
  <1>16. Inv(y) /\ y.gate.epoch = n
    BY <1>1, <1>10, <1>12, <1>13, <1>14, <1>15 DEF Inv, Ledger
  <1>. QED BY <1>4, <1>16 DEF y, t, q

\* The bridge pumps its queue.
LEMMA PumpStep ==
    ASSUME Inv(Now), PumpRuns
    PROVE  Inv(Now')
  <1>. DEFINE n == gate.epoch
              b == [bridge EXCEPT !.pump = FALSE]
              y == [Now EXCEPT !.bridge = b]
  <1>1. /\ n \in Nat /\ Now \in State(n) /\ bridge \in Bridges(n) /\ Now.gate.epoch = n
    BY NowTyped
  <1>2. PICK k \in 0 .. Len(bridge.pending), o \in CommandOutcomes : Become(Pump(Now, k, o))
    BY DEF PumpRuns
  <1>3. y = [Now EXCEPT !.bridge.pump = FALSE]
    BY NowParts
  <1>4. /\ b \in Bridges(n) /\ ~b.pump
        /\ b.pending = bridge.pending /\ b.inFlight = bridge.inFlight
        /\ b.stopping = bridge.stopping
        /\ b.record = bridge.record /\ b.edges = bridge.edges /\ b.silent = bridge.silent
    BY <1>1 DEF Bridges
  <1>. HIDE DEF b
  <1>5. /\ y \in State(n) /\ y.session = Now.session /\ y.agent = Now.agent /\ y.exec = Now.exec
        /\ y.bridge = b /\ y.gate = Now.gate /\ y.hub = Now.hub /\ y.answered = Now.answered
    BY <1>1, <1>4 DEF State
  <1>. HIDE DEF y
  <1>6. Inv(y) /\ y.gate.epoch = n /\ Ledger(y)
    <2>1. Ledger(y)
      BY <1>4, <1>5, LedgerFrame, NowParts DEF Inv, SameLedger
    <2>2. Legs(y) /\ Carried(y)
      BY <1>4, <1>5, NowParts DEF Inv, Legs, Carried
    <2>3. Stopped(y) /\ Reported(y) /\ Told(y)
      BY <1>4, <1>5, NowParts DEF Inv, Stopped, Reported, Told
    <2>. QED BY <1>1, <1>5, <2>1, <2>2, <2>3 DEF Inv
  <1>7. k \in 0 .. Len(y.bridge.pending)
    BY <1>4, <1>5
  <1>. DEFINE z == FailFirst(y, k)
              t == Head(z.bridge.pending)
              v == Taken(z)
  <1>8. /\ Carries(n, y, z) /\ z.exec = y.exec /\ z.bridge.inFlight = y.bridge.inFlight
        /\ z \in State(n)
    BY <1>1, <1>5, <1>6, <1>7, FailFirstCarries DEF Carries
  <1>9. Pump(Now, k, o) = IF y.bridge.inFlight THEN y
                          ELSE IF ~(RecordIsCurrent(y) /\ CanSubmitCommand(y)) THEN FailAll(y)
                          ELSE IF z.bridge.pending = <<>> THEN z
                          ELSE SubmitCommand([z EXCEPT !.bridge.pending = Tail(@),
                                                       !.bridge.inFlight = TRUE], t, o)
    BY <1>3 DEF Pump
  <1>. HIDE DEF z
  <1>10. Inv(z)
    BY <1>6, <1>8, InvCarries
  <1>11. CASE y.bridge.inFlight
    BY <1>2, <1>6, <1>9, <1>11, BecameKeeps
  <1>12. CASE ~y.bridge.inFlight /\ ~(RecordIsCurrent(y) /\ CanSubmitCommand(y))
    <2>1. Carries(n, y, FailAll(y))
      BY <1>1, <1>5, <1>6, FailAllCarries
    <2>. QED BY <1>2, <1>6, <1>9, <1>12, <2>1, InvCarries, BecameKeeps
  <1>13. CASE ~y.bridge.inFlight /\ RecordIsCurrent(y) /\ CanSubmitCommand(y) /\ z.bridge.pending = <<>>
    BY <1>2, <1>9, <1>10, <1>13, BecameKeeps
  <1>14. CASE ~y.bridge.inFlight /\ RecordIsCurrent(y) /\ CanSubmitCommand(y) /\ z.bridge.pending # <<>>
    <2>1. z.bridge.record /\ z.session.state = "LoggedIn" /\ ~z.bridge.inFlight /\ z.gate.epoch = n
      <3>1. z.gate \in Gates(n)
        BY <1>8, Parts
      <3>2. z.gate.epoch = n
        BY <3>1 DEF Gates
      <3>. QED BY <1>8, <1>14, <3>2 DEF Carries, SameSession, RecordIsCurrent, CanSubmitCommand
    <2>2. Inv(v) /\ v.gate.epoch = n /\ t \in Tasks(n)
      BY <1>10, <1>14, <2>1, TakenKeeps
    <2>3. SubmitCommand([z EXCEPT !.bridge.pending = Tail(@), !.bridge.inFlight = TRUE], t, o)
            = Submit(v, t, o)
      BY <1>8 DEF SubmitCommand, Taken, State
    <2>. HIDE DEF v, t
    <2>4. Carries(n, v, Submit(v, t, o))
      <3>1. v \in State(n) /\ Ledger(v)
        BY <2>2 DEF Inv
      <3>. QED BY <1>1, <2>2, <3>1, SubmitCarries
    <2>5. Inv(Submit(v, t, o))
      BY <2>2, <2>4, InvCarries
    <2>. QED BY <1>2, <1>9, <1>14, <2>3, <2>5, BecameKeeps
  <1>. QED BY <1>11, <1>12, <1>13, <1>14

-----------------------------------------------------------------------------
(* The theorems *)

\* The inductive invariant, of the variables.
InOrder == Inv(Now)

\* The driver starts without a session, a task or a login.
LEMMA InitInOrder == Init => InOrder
  <1>. SUFFICES ASSUME Init PROVE Inv(Now)
    BY DEF InOrder
  <1>. DEFINE q == bridge.pending
  <1>1. gate.epoch = 0 /\ gate \in Gates(0) /\ ~gate.up /\ ~gate.active /\ ~gate.timer /\ gate.attempts = 0
    BY DEF Init, Gates
  <1>2. /\ q = <<>> /\ bridge.edges = <<>> /\ ~bridge.inFlight /\ ~bridge.record /\ ~bridge.stopping
        /\ bridge \in Bridges(0)
    <2>1. <<>> \in Seq(Tasks(0)) /\ <<>> \in Seq(BOOLEAN)
      OBVIOUS
    <2>. QED BY <2>1 DEF Init, Bridges
  <1>3. /\ session = NoSession /\ agent = FreshAgent /\ exec = FreshExec /\ wire = NoWire
        /\ writes = NoWrites /\ owed = {} /\ hub = FALSE
    BY DEF Init
  <1>4. answered \in [Hosts -> Nat] /\ \A i \in Hosts : answered[i] = 0
    BY DEF Init
  <1>5. discovered \in {"no", "absent", "found"} /\ resets \in 0 .. MaxResets /\ 0 \in Nat
    BY StorageAssumption DEF Init
  <1>6. /\ session \in Sessions /\ agent \in Agents(0) /\ exec \in Execs(0) /\ wire \in Wires(0)
        /\ writes \in Writes /\ owed \in SUBSET Notices(0) /\ hub \in BOOLEAN
    BY <1>3, FreshTyped
  <1>7. Now \in State(0)
    BY <1>1, <1>2, <1>4, <1>5, <1>6 DEF Now, State
  <1>8. /\ exec.cb = None /\ exec.cmd = None /\ ~exec.mgmt /\ ~agent.bound
        /\ session.state = "Idle" /\ session.timer = "none"
    BY <1>3, FreshTyped
  <1>9. Len(q) = 0 /\ 1 .. Len(q) = {}
    BY <1>2
  <1>10. Once(Now)
    <2>1. \A i \in Hosts : Now.answered[i] <= 1 /\ Now.answered[i] = 0
      BY <1>4, NowParts
    <2>2. Now.bridge.pending = q /\ Now.exec.cb = None /\ ~Now.bridge.inFlight
      BY <1>2, <1>8, NowParts
    <2>. QED BY <1>9, <2>1, <2>2 DEF Once
  <1>11. Probing(Now)
    BY <1>1, NowParts, StorageAssumption DEF Probing
  <1>12. Legs(Now) /\ Carried(Now)
    BY <1>8, NowParts DEF Legs, Carried
  <1>13. Stopped(Now)
    BY <1>2, NowParts DEF Stopped
  <1>14. Reported(Now) /\ Told(Now)
    BY <1>1, <1>2, <1>3, NowParts DEF Reported, Shut, Told
  <1>15. Now.gate.epoch = 0
    BY <1>1, NowParts
  <1>. QED BY <1>5, <1>7, <1>10, <1>11, <1>12, <1>13, <1>14, <1>15 DEF Inv, Ledger

\* Every block of the queue keeps it.
LEMMA NextInOrder == InOrder /\ [Next]_vars => InOrder'
  <1>. SUFFICES ASSUME Inv(Now), [Next]_vars PROVE Inv(Now')
    BY DEF InOrder
  <1>1. CASE UNCHANGED vars
    <2>1. Now' = Now
      BY <1>1 DEF vars, Now
    <2>. QED BY <2>1
  <1>2. CASE Environment
    BY <1>2, BusResetStep, HostTaskStep, StopStep DEF Environment
  <1>3. CASE Discovery \/ UnitPublished
    BY <1>3, DiscoveryStep, UnitPublishedStep
  <1>4. CASE LoginWrite \/ ReconnectWrite \/ LogoutWrite \/ SessionTimerFires
    BY <1>4, LoginWriteStep, ReconnectWriteStep, LogoutWriteStep, SessionTimerStep
  <1>5. CASE ManagementStatus \/ CommandStatus \/ OrbWrite \/ CancelledOrbWrite
    BY <1>5, StatusStep, OrbWriteStep
  <1>6. CASE OrbRetry \/ OrbTimesOut \/ AgentReset \/ Revive
    BY <1>6, CommandPlaneStep
  <1>7. CASE TaskManagementWrite \/ TaskManagementStatus \/ TaskManagementTimeout
    BY <1>7, ManagementStep
  <1>8. CASE LoginEdge \/ ProbeTimer \/ PumpRuns
    BY <1>8, LoginEdgeStep, ProbeTimerStep, PumpStep
  <1>. QED BY <1>1, <1>2, <1>3, <1>4, <1>5, <1>6, <1>7, <1>8 DEF Next, Queue

\* So it always holds.
LEMMA AlwaysInOrder == Spec => []InOrder
  <1>. QED BY InitInOrder, NextInOrder, PTL DEF Spec

\* The properties are parts of it, or follow from them.
LEMMA InOrderTyped == InOrder => TypeOK
  <1>. SUFFICES ASSUME Inv(Now) PROVE TypeOK
    BY DEF InOrder
  <1>1. Commands = Tasks(gate.epoch) /\ Commands \cup {None} = Maybe(gate.epoch)
    BY DEF Commands, Tasks, Maybe
  <1>2. session \in Sessions /\ agent \in Agents(gate.epoch) /\ exec \in Execs(gate.epoch)
    BY NowTyped
  <1>3. gate.attempts \in 0 .. ProbeBudget
    <2>1. gate.attempts \in Nat
      BY NowTyped DEF Gates
    <2>2. gate.attempts <= ProbeBudget
      BY NowTyped, NowParts DEF Ledger, Probing
    <2>. QED BY <2>1, <2>2, StorageAssumption
  <1>4. wire.orb \in Nat /\ wire.cancelled \in Nat /\ wire.retry \subseteq Commands
    <2>1. wire \in Wires(gate.epoch)
      BY NowTyped
    <2>. QED BY <1>1, <2>1 DEF Wires
  <1>5. gate.epoch \in Nat /\ hub \in BOOLEAN /\ resets \in 0 .. MaxResets
    BY NowTyped
  <1>. QED BY <1>1, <1>2, <1>3, <1>4, <1>5 DEF TypeOK, Sessions, Agents, Execs

\* A task the properties count is one of the adapter's.
LEMMA CountedAreHosts ==
    ASSUME Inv(Now)
    PROVE  Pending \subseteq Hosts /\ InExecutor \subseteq Hosts
  <1>. DEFINE n == gate.epoch
              q == bridge.pending
  <1>1. q \in Seq(Tasks(n)) /\ exec.cb \in Maybe(n)
    <2>1. bridge \in Bridges(n) /\ exec \in Execs(n)
      BY NowTyped
    <2>. QED BY <2>1 DEF Bridges, Execs
  <1>2. \A t \in Tasks(n) : t[1] = "host" => t[2] \in Hosts
    BY DEF Tasks, Host, Probe
  <1>3. ToSet(q) \subseteq Tasks(n)
    BY <1>1 DEF ToSet
  <1>4. Pending \subseteq Hosts
    BY <1>2, <1>3 DEF Pending
  <1>5. InExecutor \subseteq Hosts
    BY <1>1, <1>2 DEF InExecutor, Maybe
  <1>. QED BY <1>4, <1>5

\* Each accepted task is in one place until its one answer.
LEMMA InOrderAnswered == InOrder => AnsweredOnce
  <1>. SUFFICES ASSUME Inv(Now) PROVE AnsweredOnce
    BY DEF InOrder
  <1>1. Once(Now)
    BY DEF Inv, Ledger
  <1>2. \A i \in Hosts : answered[i] <= 1
    BY <1>1, NowParts DEF Once
  <1>3. \A i \in Pending \cup InExecutor : answered[i] = 0
    <2>1. TAKE i \in Pending \cup InExecutor
    <2>2. i \in Hosts
      BY CountedAreHosts
    <2>3. Outstanding(Now, Host(i))
      BY <2>2, HostsOutstanding
    <2>. QED BY <1>1, <2>2, <2>3, NowParts DEF Once
  <1>4. Pending \cap InExecutor = {}
    <2>. SUFFICES ASSUME NEW i \in Pending, i \in InExecutor PROVE FALSE
      OBVIOUS
    <2>. DEFINE q == bridge.pending
                n == gate.epoch
    <2>1. q \in Seq(Tasks(n)) /\ exec.cb \in Maybe(n)
      <3>1. bridge \in Bridges(n) /\ exec \in Execs(n)
        BY NowTyped
      <3>. QED BY <3>1 DEF Bridges, Execs
    <2>2. exec.cb = Host(i)
      <3>1. exec.cb # None /\ exec.cb[1] = "host" /\ exec.cb[2] = i
        BY DEF InExecutor
      <3>2. exec.cb \in Tasks(n)
        BY <2>1, <3>1 DEF Maybe
      <3>. QED BY <3>1, <3>2 DEF Tasks, Host, Probe
    <2>3. PICK k \in 1 .. Len(q) : q[k] = Host(i)
      <3>1. PICK t \in ToSet(q) : t[1] = "host" /\ t[2] = i
        BY DEF Pending
      <3>2. PICK k \in 1 .. Len(q) : q[k] = t
        BY <2>1 DEF ToSet
      <3>3. t \in Tasks(n)
        BY <2>1, <3>2
      <3>4. t = Host(i)
        BY <3>1, <3>3 DEF Tasks, Host, Probe
      <3>. QED BY <3>2, <3>4
    <2>. QED BY <1>1, <2>2, <2>3, NowParts DEF Once
  <1>5. bridge.inFlight <=> exec.cb # None
    BY <1>1, NowParts DEF Once
  <1>. QED BY <1>2, <1>3, <1>4, <1>5 DEF AnsweredOnce

\* Commands, their agent and the login.
LEMMA InOrderWithin == InOrder => CommandsWithinLogin
  BY NowParts DEF InOrder, Inv, Legs, Carried, CommandsWithinLogin

\* A stopped bridge.
LEMMA InOrderDrained == InOrder => StopDrains
  <1>. SUFFICES ASSUME Inv(Now), bridge.stopping
                PROVE  /\ Pending \cup InExecutor = {}
                       /\ hub => bridge.silent /\ ~bridge.record
    BY DEF InOrder, StopDrains
  <1>1. bridge.pending = <<>> /\ exec.cb = None /\ ~bridge.record /\ (hub => bridge.silent)
    BY NowParts DEF Inv, Stopped
  <1>2. ToSet(bridge.pending) = {}
    <2>1. DOMAIN <<>> = {}
      OBVIOUS
    <2>. QED BY <1>1, <2>1 DEF ToSet
  <1>3. Pending = {}
    BY <1>2 DEF Pending
  <1>. QED BY <1>1, <1>3 DEF InExecutor

\* While a session logs in the adapter counts on no other, or will soon not.
LEMMA InOrderReported ==
    InOrder => (session.state = "LoggingIn"
                => ~gate.up \/ FALSE \in ToSet(bridge.edges) \/ bridge.silent)
  <1>. SUFFICES ASSUME Inv(Now), session.state = "LoggingIn", ~bridge.silent
                PROVE  ~gate.up \/ FALSE \in ToSet(bridge.edges)
    BY DEF InOrder
  <1>1. ~bridge.stopping
    BY NowParts DEF Inv, Legs, Stopped
  <1>2. Shut(bridge.edges, gate)
    BY <1>1, NowParts DEF Inv, Reported
  <1>3. bridge.edges \in Seq(BOOLEAN)
    BY NowTyped DEF Bridges
  <1>4. CASE bridge.edges = <<>>
    BY <1>2, <1>4 DEF Shut
  <1>5. CASE bridge.edges # <<>>
    <2>. DEFINE q == bridge.edges
    <2>1. Len(q) \in Nat \ {0} /\ DOMAIN q = 1 .. Len(q)
      BY <1>3, <1>5, EmptySeq, LenProperties
    <2>2. Len(q) \in DOMAIN q
      BY <2>1
    <2>3. q[Len(q)] \in BOOLEAN
      BY <1>3, <2>1, <2>2, ElementOfSeq
    <2>4. q[Len(q)] = FALSE
      BY <1>2, <1>5, <2>3 DEF Shut
    <2>. QED BY <2>2, <2>4 DEF ToSet
  <1>. QED BY <1>4, <1>5

\* Type correctness: no handler leaves its part of the state malformed, the
\* gate never probes more often than its budget and no task is made up.
THEOREM TypeCorrect == Spec => []TypeOK
  BY AlwaysInOrder, InOrderTyped, PTL

\* SubmitTask's promise, for any number of tasks, resets and retries: a task is
\* answered at most once, and until then it is in the bridge's queue or is the
\* one whose callback the executor holds.
THEOREM AnsweredOnceAlways == Spec => []AnsweredOnce
  BY AlwaysInOrder, InOrderAnswered, PTL

\* The fetch agent is bound exactly while the session is logged in, and no
\* command or task management ORB outlives the login that carried it.
THEOREM CommandsWithinLoginAlways == Spec => []CommandsWithinLogin
  BY AlwaysInOrder, InOrderWithin, PTL

\* Shutdown answers every task it was given, and nothing that was still under
\* way can bring a task back. It takes the target from the adapter unless the
\* bridge has lost its session unreported, and nothing brings the target back.
THEOREM StopDrainsAlways == Spec => []StopDrains
  BY AlwaysInOrder, InOrderDrained, PTL

\* NotifySessionLost comes before the fallback login: no login starts while the
\* adapter counts on an older one, unless the edge that ends it is on its way
\* or the older session failed without one.
THEOREM NoSilentReloginAlways == Spec => NoSilentRelogin
  <1>. DEFINE R == session.state = "LoggingIn"
                   => ~gate.up \/ FALSE \in ToSet(bridge.edges) \/ bridge.silent
  <1>1. InOrder => R
    BY InOrderReported
  <1>2. R' => [(session'.state = "LoggingIn" /\ session.state # "LoggingIn")
                => ~gate'.up \/ FALSE \in ToSet(bridge'.edges) \/ bridge'.silent]_vars
    BY DEF ToSet
  <1>. HIDE DEF R
  <1>. QED BY <1>1, <1>2, AlwaysInOrder, PTL DEF NoSilentRelogin

=============================================================================
