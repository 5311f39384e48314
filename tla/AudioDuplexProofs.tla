------------------------- MODULE AudioDuplexProofs -------------------------
(***************************************************************************)
(* Proofs about AudioDuplex, for every value of its constants: the types,  *)
(* that a session the store calls streaming tells the truth                *)
(* (RunningIsTrue), and that a stop that succeeds leaves nothing on        *)
(* (StopReleases).                                                         *)
(*                                                                         *)
(* The state is handled as one record x (Now), as the handlers do.  The    *)
(* inductive invariant says of every thread what its program counter       *)
(* implies about the host, and of the stored session what holds while no   *)
(* thread is in the middle of changing the host.  What carries it is the   *)
(* gate: as long as no removal freed it under a running operation, at most *)
(* one thread is inside an operation body.                                 *)
(***************************************************************************)
EXTENDS AudioDuplex, TLAPS

-----------------------------------------------------------------------------
(* Types *)

Flags == HostFlags \cup DeviceFlags
Clocks == Rates \cup {0}
Statuses == {"ok", "aborted", "timeout", "notready", "nodevice", "unsupported", "error"}

Pcs == {"idle", "entry", "wait", "exit", "await", "body", "top", "apply", "loop", "release",
        "begin", "allocate", "do", "check", "rollback", "stop", "halt",
        "idleBegin", "idleDo", "idleCheck"}

Sessions ==
    [kind : Kinds \cup {"None"}, phase : Phases, flags : SUBSET Flags, id : Nat, route : Nat,
     desired : Clocks, applied : Clocks, pending : Clocks,
     failure : {"none", "retryable", "terminal"}]

Requests == {NoRequest} \cup [tok : Nat, clk : Rates]

Threads ==
    [pc : Pcs, op : {"none", "start", "stop", "clock", "recover"}, s : Sessions, id : Nat,
     route : Nat, clk : Clocks, k : Nat, kind : Kinds,
     after : {"none", "done", "restart", "fail", "invalid"}, st : Statuses,
     refused : BOOLEAN, cur : Requests, tok : Nat]

Hosts ==
    [claimed : BOOLEAN, reserved : SUBSET {"playback", "capture"}, gen : Nat,
     rx : {"off", "ready", "on"}, tx : {"off", "ready", "on"}]

State ==
    [coord : [active : BOOLEAN, lost : BOOLEAN, teardown : BOOLEAN],
     gate : [active : BOOLEAN, stop : BOOLEAN, lost : BOOLEAN],
     session : Sessions,
     nextId : Nat \ {0},
     broker : [pending : Requests, done : SUBSET [tok : Nat, st : Statuses], next : Nat \ {0},
               picked : Clocks],
     host : Hosts,
     device : Rates,
     route : [live : BOOLEAN, epoch : Nat, nub : BOOLEAN],
     recovery : [busy : BOOLEAN, queue : Seq(Nat)],
     removal : [pc : {"idle", "cancel", "host", "clear", "drain", "down"}, wasActive : BOOLEAN,
                left : SUBSET {"operation", "host"}],
     th : [Callers -> Threads],
     budget : Nat]

(* Ids, tokens and routes are never ahead of the counters they come from.  *)
Dated(x, s) == s.id < x.nextId /\ s.route <= x.route.epoch

Counted(x) ==
    /\ Dated(x, x.session)
    /\ x.broker.pending.tok < x.broker.next
    /\ \A d \in x.broker.done : d.tok < x.broker.next
    /\ \A c \in Callers :
          /\ Dated(x, x.th[c].s) /\ Dated(x, x.th[c])
          /\ x.th[c].cur.tok < x.broker.next

-----------------------------------------------------------------------------
(* What a thread's program counter implies *)

(* Its registers: a clock to start at, a request to serve, a stage in      *)
(* range; a stop serves no request and starts nothing.                     *)
Flow(p, t) ==
    /\ t.pc \in {"begin", "allocate", "do", "check", "idleBegin", "idleDo", "idleCheck"} =>
          t.clk \in Rates
    /\ t.pc \in {"stop", "halt"} /\ t.after = "restart" => t.clk \in Rates
    /\ t.pc \in {"top", "apply"} => t.cur.clk \in Rates
    /\ t.pc = "rollback" => t.after \in {"fail", "invalid"}
    /\ t.pc \in {"do", "check"} => t.k \in 1..Len(Stages(p))
    /\ t.pc = "halt" => t.k \in 1..Len(StopSteps(p))
    /\ t.op = "stop" =>
          /\ t.cur = NoRequest /\ t.after \in {"none", "done"}
          /\ t.pc \in {"entry", "wait", "body", "stop", "halt", "release", "exit"}

(* No removal has freed the gate under a running operation.                *)
Sole(x) == "operation" \notin x.removal.left
(* ... and none is about to, nor does the service go down.                 *)
Sound(x) == Sole(x) /\ ~x.coord.teardown /\ x.removal.pc # "clear"
(* No removal has left a running host behind either.                       *)
Clean(x) == x.removal.left = {} /\ ~x.coord.teardown

(* The gate works: one body at a time.                                     *)
Alone(x) ==
    Sole(x) => \A c \in Callers : InBody(x.th[c]) =>
                  /\ x.gate.active
                  /\ \A d \in Callers \ {c} : ~InBody(x.th[d])

(* What a stage that was done has left on the host and the device.         *)
Achieved(x, t, g) ==
    /\ g = "claim" => x.host.claimed
    /\ g = "prepare" => x.device = t.clk
    /\ g \in {"playback", "capture"} =>
          g \in x.host.reserved /\ (t.route = x.route.epoch => x.host.gen = x.route.epoch)
    /\ g = "startRx" => x.host.rx = "on"
    /\ g = "startTx" => x.host.tx = "on"

(* A start in its stages has all the earlier ones behind it.               *)
Staged(p, x, t) ==
    /\ t.pc = "do" => /\ t.s.route = t.route
                      /\ \A j \in 1..(t.k - 1) : Achieved(x, t, Stages(p)[j])
    /\ t.pc = "check" => /\ t.s.route = t.route
                         /\ \A j \in 1..t.k : Achieved(x, t, Stages(p)[j])

(* Where nothing may be on: behind the host's stop, around an idle clock   *)
(* change, and when a stop returns success.                                *)
Off(p, t) ==
    \/ t.pc = "halt" /\ p # "avc" /\ t.k > 1 /\ ~t.refused
    \/ t.pc \in {"idleBegin", "idleDo", "idleCheck"}
    \/ t.pc = "release" /\ t.op = "stop" /\ t.st = "ok"

Claim(p, x, t) ==
    /\ Sound(x) => Staged(p, x, t)
    /\ Clean(x) /\ Off(p, t) => x.host = HostOff

-----------------------------------------------------------------------------
(* What the stored session implies *)

(* A thread in the middle of changing the host, the device or the session. *)
Working(t) ==
    \/ t.pc \in {"do", "check", "rollback", "halt", "idleDo", "idleCheck"}
    \/ t.pc = "stop" /\ t.after \in {"fail", "invalid"}

Still(x) == \A c \in Callers : ~Working(x.th[c])

Truth(x) ==
    /\ x.host.rx = "on" /\ x.host.tx = "on"
    /\ x.host.claimed /\ x.host.reserved = {"playback", "capture"}
    /\ x.session.applied = x.device
    /\ x.session.route = x.route.epoch => x.host.gen = x.route.epoch

(* "running" tells the truth.                                              *)
Truthful(x) == "running" \in x.session.flags => Truth(x)

(* Between operations a session is idle, running or failed, and an idle    *)
(* one has nothing on.                                                     *)
Rested(x) ==
    /\ x.session.kind \in {"None", "Idle", "Running", "Failed"}
    /\ Clean(x) /\ x.session.kind \in {"None", "Idle"} => x.host = HostOff

Stored(x) ==
    /\ Sound(x) /\ Still(x) => Truthful(x)
    /\ Sole(x) /\ ~x.coord.teardown /\ Still(x) => Rested(x)

(* The thread copies of a session are never the absent one.                *)
Loaded(t) == t.s.kind # "None"

(* Typed, counted, and only the absent session has no lifecycle.           *)
Proper(x) ==
    /\ x \in State /\ Counted(x)
    /\ x.session.kind = "None" => x.session = NoSession

(* The service's teardown is behind a raised flag.                         *)
Torn(x) == x.removal.pc \in {"drain", "down"} => x.coord.teardown

Inv(p, x) ==
    /\ Proper(x) /\ Torn(x)
    /\ \A c \in Callers : Loaded(x.th[c]) /\ Flow(p, x.th[c])
    /\ Alone(x)
    /\ \A c \in Callers : Claim(p, x, x.th[c])
    /\ Stored(x)

(* The inductive invariant.                                                *)
InOrder == Inv(profile, Now)

-----------------------------------------------------------------------------
(* Shapes and types *)

\* The parts of a state have their types.
LEMMA Parts ==
    ASSUME NEW x \in State
    PROVE  /\ x.coord \in [active : BOOLEAN, lost : BOOLEAN, teardown : BOOLEAN]
           /\ x.gate \in [active : BOOLEAN, stop : BOOLEAN, lost : BOOLEAN]
           /\ x.session \in Sessions /\ x.nextId \in Nat \ {0}
           /\ x.broker \in [pending : Requests, done : SUBSET [tok : Nat, st : Statuses],
                            next : Nat \ {0}, picked : Clocks]
           /\ x.host \in Hosts /\ x.device \in Rates
           /\ x.route \in [live : BOOLEAN, epoch : Nat, nub : BOOLEAN]
           /\ x.recovery \in [busy : BOOLEAN, queue : Seq(Nat)]
           /\ x.removal \in [pc : {"idle", "cancel", "host", "clear", "drain", "down"},
                             wasActive : BOOLEAN, left : SUBSET {"operation", "host"}]
           /\ x.th \in [Callers -> Threads] /\ x.budget \in Nat
           /\ \A c \in Callers : x.th[c] \in Threads
  BY DEF State

\* The parts of a thread and of a session have their types.
LEMMA ThreadParts ==
    ASSUME NEW t \in Threads
    PROVE  /\ t.pc \in Pcs /\ t.op \in {"none", "start", "stop", "clock", "recover"}
           /\ t.s \in Sessions /\ t.id \in Nat /\ t.route \in Nat /\ t.clk \in Clocks
           /\ t.k \in Nat /\ t.kind \in Kinds
           /\ t.after \in {"none", "done", "restart", "fail", "invalid"} /\ t.st \in Statuses
           /\ t.refused \in BOOLEAN /\ t.cur \in Requests /\ t.tok \in Nat
  BY DEF Threads

\* No request is a request, token and clock zero; every other one has a rate.
LEMMA RequestParts ==
    ASSUME NEW r \in Requests
    PROVE  r.tok \in Nat /\ (r # NoRequest => r.clk \in Rates)
  BY DEF Requests, NoRequest

\* The start has twelve stages, without the clock lock eleven: the claim first, the
\* preparation and the reservations before the contexts run, the confirmation last.
LEMMA StageShape ==
  \A p :
    /\ Len(Stages(p)) \in {11, 12} /\ 1 \in 1 .. Len(Stages(p))
    /\ Stages(p)[1] = "claim" /\ Stages(p)[2] = "prepare"
    /\ Stages(p)[3] = "playback" /\ Stages(p)[4] = "capture"
    /\ Stages(p)[Len(Stages(p))] = "confirm"
    /\ \E j \in 5 .. (Len(Stages(p)) - 1) : Stages(p)[j] = "startRx"
    /\ \E j \in 5 .. (Len(Stages(p)) - 1) : Stages(p)[j] = "startTx"
    /\ \A j \in 2 .. Len(Stages(p)) : Stages(p)[j] # "claim"
    /\ \A j \in 1 .. (Len(Stages(p)) - 1) : Stages(p)[j] # "confirm"
  <1>. TAKE p
  <1>1. CASE p = "dice"
    <2>. DEFINE q == <<"claim", "prepare", "playback", "capture", "prepareRx", "prepareTx",
                       "clockLock", "programRx", "programTx", "startRx", "startTx", "confirm">>
    <2>1. Stages(p) = q  BY <1>1 DEF Stages
    <2>2. Len(q) = 12 /\ q[1] = "claim" /\ q[2] = "prepare" /\ q[3] = "playback" /\ q[4] = "capture"
          /\ q[5] = "prepareRx" /\ q[6] = "prepareTx" /\ q[7] = "clockLock" /\ q[8] = "programRx"
          /\ q[9] = "programTx" /\ q[10] = "startRx" /\ q[11] = "startTx" /\ q[12] = "confirm"
      OBVIOUS
    <2>. HIDE DEF q
    <2>3. \A j \in 2 .. 12 : j = 2 \/ j = 3 \/ j = 4 \/ j = 5 \/ j = 6 \/ j = 7
             \/ j = 8 \/ j = 9 \/ j = 10 \/ j = 11 \/ j = 12
      OBVIOUS
    <2>4. \A j \in 1 .. 11 : j = 1 \/ (j \in 2 .. 12 /\ j # 12)
      OBVIOUS
    <2>5. 10 \in 5 .. 11 /\ 11 \in 5 .. 11 /\ 12 - 1 = 11 /\ 1 \in 1 .. 12
      OBVIOUS
    <2>. QED  BY <2>1, <2>2, <2>3, <2>4, <2>5
  <1>2. CASE p = "avc"
    <2>. DEFINE q == <<"claim", "prepare", "playback", "capture", "prepareRx", "prepareTx",
                       "clockLock", "startRx", "programRx", "startTx", "programTx", "confirm">>
    <2>1. Stages(p) = q  BY <1>2 DEF Stages
    <2>2. Len(q) = 12 /\ q[1] = "claim" /\ q[2] = "prepare" /\ q[3] = "playback" /\ q[4] = "capture"
          /\ q[5] = "prepareRx" /\ q[6] = "prepareTx" /\ q[7] = "clockLock" /\ q[8] = "startRx"
          /\ q[9] = "programRx" /\ q[10] = "startTx" /\ q[11] = "programTx" /\ q[12] = "confirm"
      OBVIOUS
    <2>. HIDE DEF q
    <2>3. \A j \in 2 .. 12 : j = 2 \/ j = 3 \/ j = 4 \/ j = 5 \/ j = 6 \/ j = 7
             \/ j = 8 \/ j = 9 \/ j = 10 \/ j = 11 \/ j = 12
      OBVIOUS
    <2>4. \A j \in 1 .. 11 : j = 1 \/ (j \in 2 .. 12 /\ j # 12)
      OBVIOUS
    <2>5. 8 \in 5 .. 11 /\ 10 \in 5 .. 11 /\ 12 - 1 = 11 /\ 1 \in 1 .. 12
      OBVIOUS
    <2>. QED  BY <2>1, <2>2, <2>3, <2>4, <2>5
  <1>3. CASE p \notin {"dice", "avc"}
    <2>. DEFINE q == <<"claim", "prepare", "playback", "capture", "prepareRx", "prepareTx",
                       "programRx", "programTx", "startRx", "startTx", "confirm">>
    <2>1. Stages(p) = q  BY <1>3 DEF Stages
    <2>2. Len(q) = 11 /\ q[1] = "claim" /\ q[2] = "prepare" /\ q[3] = "playback" /\ q[4] = "capture"
          /\ q[5] = "prepareRx" /\ q[6] = "prepareTx" /\ q[7] = "programRx" /\ q[8] = "programTx"
          /\ q[9] = "startRx" /\ q[10] = "startTx" /\ q[11] = "confirm"
      OBVIOUS
    <2>. HIDE DEF q
    <2>3. \A j \in 2 .. 11 : j = 2 \/ j = 3 \/ j = 4 \/ j = 5 \/ j = 6 \/ j = 7
             \/ j = 8 \/ j = 9 \/ j = 10 \/ j = 11
      OBVIOUS
    <2>4. \A j \in 1 .. 10 : j = 1 \/ (j \in 2 .. 11 /\ j # 11)
      OBVIOUS
    <2>5. 9 \in 5 .. 10 /\ 10 \in 5 .. 10 /\ 11 - 1 = 10 /\ 1 \in 1 .. 11
      OBVIOUS
    <2>. QED  BY <2>1, <2>2, <2>3, <2>4, <2>5
  <1>. QED  BY <1>1, <1>2, <1>3

\* A stop ends with the host's StopAll (the interleaved AV/C stop), or begins with it
\* and ends with the device (DICE and CMP).
LEMMA StopShape ==
  \A p :
    /\ p # "avc" => /\ Len(StopSteps(p)) = 2
                           /\ StopSteps(p)[1] = "all" /\ StopSteps(p)[2] = "device"
    /\ p = "avc" => /\ Len(StopSteps(p)) = 5 /\ StopSteps(p)[5] = "all"
    /\ \A k \in 1 .. Len(StopSteps(p)) : k \in Nat
  BY DEF StopSteps

-----------------------------------------------------------------------------
(* The session's operators *)

\* EnterIdle is always allowed: it clears the progress and keeps everything else.
LEMMA EnterIdleFacts ==
    ASSUME NEW s \in Sessions
    PROVE  EnterIdle(s) = [s EXCEPT !.kind = "Idle", !.phase = "Idle", !.flags = {}]
  BY DEF EnterIdle, CanTransitionLifecycle, Sessions, Kinds

\* So is EnterFailed.
LEMMA EnterFailedFacts ==
    ASSUME NEW s \in Sessions
    PROVE  EnterFailed(s) = [s EXCEPT !.kind = "Failed", !.phase = "Failed", !.flags = {}]
  BY DEF EnterFailed, CanTransitionLifecycle, Sessions, Kinds

\* A recorded failure changes nothing but the retry bit.
LEMMA RecordFailureFacts ==
    ASSUME NEW s \in Sessions, NEW st
    PROVE  /\ RecordFailure(s, st) \in Sessions
           /\ RecordFailure(s, st).kind = s.kind /\ RecordFailure(s, st).flags = s.flags
           /\ RecordFailure(s, st).id = s.id /\ RecordFailure(s, st).route = s.route
           /\ RecordFailure(s, st).applied = s.applied
  BY DEF RecordFailure, Sessions

\* The fresh session and the absent one.
LEMMA FreshSessions ==
    /\ DuplexRestartSession \in Sessions /\ NoSession \in Sessions
    /\ DuplexRestartSession.kind = "Idle" /\ NoSession.kind = "None"
    /\ DuplexRestartSession.flags = {} /\ NoSession.flags = {}
    /\ DuplexRestartSession.id = 0 /\ NoSession.id = 0
    /\ DuplexRestartSession.route = 0 /\ NoSession.route = 0
  BY DEF DuplexRestartSession, NoSession, Sessions, Kinds, Phases, Flags, Clocks

\* An idle thread.
LEMMA IdlingFacts ==
  \A p :
    /\ Idling \in Threads /\ ~InBody(Idling) /\ ~Working(Idling) /\ ~Off(p, Idling)
    /\ Idling.pc = "idle" /\ Idling.op = "none" /\ Idling.s = DuplexRestartSession
    /\ Idling.id = 0 /\ Idling.route = 0 /\ Idling.cur = NoRequest /\ Idling.after = "none"
    /\ Loaded(Idling) /\ Flow(p, Idling)
  BY FreshSessions
     DEF Idling, Threads, Pcs, Kinds, Clocks, Statuses, Requests, NoRequest, InBody, Working,
         Off, Flow, Loaded

-----------------------------------------------------------------------------
(* Steps beside the stream: the broker and the pending mark of the session *)

Aside(x, y) ==
    /\ y.coord = x.coord /\ y.nextId = x.nextId /\ y.host = x.host /\ y.device = x.device
    /\ y.route = x.route /\ y.removal = x.removal
    /\ y.gate.active = x.gate.active /\ y.gate.lost = x.gate.lost
    /\ y.broker.next = x.broker.next
    /\ y.session.kind = x.session.kind /\ y.session.flags = x.session.flags
    /\ y.session.route = x.session.route /\ y.session.applied = x.session.applied

\* Completing a request files its token.
LEMMA CompleteFacts ==
    ASSUME NEW x, Proper(x), NEW tok \in Nat, NEW st \in Statuses, tok < x.broker.next
    PROVE  LET y == Complete(x, tok, st)
           IN  Proper(y) /\ Aside(x, y) /\ y.th = x.th /\ y.session = x.session
               /\ y.gate = x.gate /\ y.broker.pending = x.broker.pending
  <1>. DEFINE d == [tok |-> tok, st |-> st]
              y == [x EXCEPT !.broker.done = @ \cup {d}]
  <1>1. Complete(x, tok, st) = y  BY DEF Complete
  <1>2. x \in State /\ Counted(x)  BY DEF Proper
  <1>3. x.broker \in [pending : Requests, done : SUBSET [tok : Nat, st : Statuses],
                      next : Nat \ {0}, picked : Clocks]
    BY <1>2, Parts
  <1>4. d \in [tok : Nat, st : Statuses] /\ d.tok = tok  OBVIOUS
  <1>. HIDE DEF d
  <1>5. y.broker = [x.broker EXCEPT !.done = @ \cup {d}]  BY <1>2 DEF State
  <1>6. y.broker \in [pending : Requests, done : SUBSET [tok : Nat, st : Statuses],
                      next : Nat \ {0}, picked : Clocks]
    BY <1>3, <1>4, <1>5
  <1>7. y \in State  BY <1>2, <1>5, <1>6 DEF State
  <1>8. y.broker.next = x.broker.next /\ y.broker.pending = x.broker.pending
        /\ y.broker.done = x.broker.done \cup {d}
    BY <1>3, <1>5
  <1>9. /\ y.coord = x.coord /\ y.nextId = x.nextId /\ y.host = x.host /\ y.device = x.device
        /\ y.route = x.route /\ y.recovery = x.recovery /\ y.removal = x.removal
        /\ y.budget = x.budget /\ y.gate = x.gate /\ y.session = x.session /\ y.th = x.th
    BY <1>2 DEF State
  <1>. HIDE DEF y
  <1>10. Counted(y)  BY <1>2, <1>4, <1>8, <1>9 DEF Counted, Dated
  <1>. QED  BY <1>1, <1>7, <1>8, <1>9, <1>10 DEF Proper, Aside

\* The pending mark is beside the stream.
LEMMA MarkPendingFacts ==
    ASSUME NEW x, Proper(x), NEW clk \in Clocks
    PROVE  LET y == MarkPending(x, clk)
           IN  Proper(y) /\ Aside(x, y) /\ y.th = x.th /\ y.broker = x.broker /\ y.gate = x.gate
  <1>. DEFINE y == MarkPending(x, clk)
  <1>1. CASE x.session = NoSession
    <2>1. y = x  BY <1>1 DEF MarkPending
    <2>. QED  BY <2>1 DEF Aside
  <1>2. CASE x.session # NoSession
    <2>1. y = [x EXCEPT !.session.pending = clk]  BY <1>2 DEF MarkPending
    <2>2. x \in State /\ Counted(x) /\ x.session.kind # "None"  BY <1>2 DEF Proper
    <2>3. x.session \in Sessions  BY <2>2, Parts
    <2>4. y.session = [x.session EXCEPT !.pending = clk]  BY <2>1, <2>2 DEF State
    <2>5. y.session \in Sessions /\ y.session.kind = x.session.kind
          /\ y.session.flags = x.session.flags /\ y.session.route = x.session.route
          /\ y.session.applied = x.session.applied /\ y.session.id = x.session.id
      BY <2>3, <2>4 DEF Sessions
    <2>6. y \in State  BY <2>1, <2>2, <2>5 DEF State
    <2>7. /\ y.coord = x.coord /\ y.nextId = x.nextId /\ y.host = x.host /\ y.device = x.device
          /\ y.route = x.route /\ y.recovery = x.recovery /\ y.removal = x.removal
          /\ y.budget = x.budget /\ y.gate = x.gate /\ y.broker = x.broker /\ y.th = x.th
      BY <2>1, <2>2 DEF State
    <2>0. MarkPending(x, clk) = y  OBVIOUS
    <2>. HIDE DEF y
    <2>8. Counted(y)  BY <2>2, <2>5, <2>7 DEF Counted, Dated
    <2>. QED  BY <2>0, <2>2, <2>5, <2>6, <2>7, <2>8 DEF Proper, Aside
  <1>. QED  BY <1>1, <1>2

\* A state with another pending request.
Pend(x, r) == [x EXCEPT !.broker.pending = r]

\* Setting the pending request is beside the stream.
LEMMA PendFacts ==
    ASSUME NEW x, Proper(x), NEW r \in Requests, r.tok < x.broker.next
    PROVE  LET y == Pend(x, r)
           IN  Proper(y) /\ Aside(x, y) /\ y.th = x.th /\ y.session = x.session
               /\ y.gate = x.gate /\ y.broker.pending = r
  <1>. DEFINE y == [x EXCEPT !.broker.pending = r]
  <1>1. Pend(x, r) = y  BY DEF Pend
  <1>2. x \in State /\ Counted(x)  BY DEF Proper
  <1>3. x.broker \in [pending : Requests, done : SUBSET [tok : Nat, st : Statuses],
                      next : Nat \ {0}, picked : Clocks]
    BY <1>2, Parts
  <1>5. y.broker = [x.broker EXCEPT !.pending = r]  BY <1>2 DEF State
  <1>6. y.broker \in [pending : Requests, done : SUBSET [tok : Nat, st : Statuses],
                      next : Nat \ {0}, picked : Clocks]
    BY <1>3, <1>5
  <1>7. y \in State  BY <1>2, <1>5, <1>6 DEF State
  <1>8. y.broker.next = x.broker.next /\ y.broker.pending = r /\ y.broker.done = x.broker.done
    BY <1>3, <1>5
  <1>9. /\ y.coord = x.coord /\ y.nextId = x.nextId /\ y.host = x.host /\ y.device = x.device
        /\ y.route = x.route /\ y.recovery = x.recovery /\ y.removal = x.removal
        /\ y.budget = x.budget /\ y.gate = x.gate /\ y.session = x.session /\ y.th = x.th
    BY <1>2 DEF State
  <1>. HIDE DEF y
  <1>10. Counted(y)  BY <1>2, <1>8, <1>9 DEF Counted, Dated
  <1>. QED  BY <1>1, <1>7, <1>8, <1>9, <1>10 DEF Proper, Aside

\* Aside composes.
LEMMA AsideTrans ==
    ASSUME NEW x, NEW y, NEW z, Aside(x, y), Aside(y, z)
    PROVE  Aside(x, z)
  BY DEF Aside

\* Taking the pending request out is beside the stream.
LEMMA ConsumePendingFacts ==
    ASSUME NEW x, Proper(x)
    PROVE  LET y == ConsumePending(x)
           IN  Proper(y) /\ Aside(x, y) /\ y.th = x.th /\ y.gate = x.gate
               /\ y.broker.pending = NoRequest
  <1>1. x.broker.next \in Nat \ {0} /\ NoRequest \in Requests /\ NoRequest.tok = 0 /\ 0 \in Clocks
    BY Parts DEF Proper, Requests, NoRequest, Clocks
  <1>. DEFINE p == Pend(x, NoRequest)
              y == MarkPending(p, 0)
  <1>2. Proper(p) /\ Aside(x, p) /\ p.th = x.th /\ p.gate = x.gate /\ p.broker.pending = NoRequest
    BY <1>1, PendFacts
  <1>3. Proper(y) /\ Aside(p, y) /\ y.th = p.th /\ y.broker = p.broker /\ y.gate = p.gate
    BY <1>1, <1>2, MarkPendingFacts
  <1>4. ConsumePending(x) = y  BY DEF ConsumePending, Pend
  <1>. HIDE DEF p, y
  <1>. QED  BY <1>2, <1>3, <1>4, AsideTrans

\* Failing the pending request is beside the stream.
LEMMA FailPendingFacts ==
    ASSUME NEW x, Proper(x)
    PROVE  LET y == FailPending(x)
           IN  Proper(y) /\ Aside(x, y) /\ y.th = x.th /\ y.gate = x.gate
               /\ y.broker.pending = NoRequest
  <1>. DEFINE y == FailPending(x)
  <1>1. CASE x.broker.pending = NoRequest
    <2>1. y = x  BY <1>1 DEF FailPending
    <2>. QED  BY <1>1, <2>1 DEF Aside
  <1>2. CASE x.broker.pending # NoRequest
    <2>. DEFINE u == ConsumePending(x)
                tok == x.broker.pending.tok
                w == Complete(u, tok, "aborted")
    <2>1. y = w  BY <1>2 DEF FailPending
    <2>2. Proper(u) /\ Aside(x, u) /\ u.th = x.th /\ u.gate = x.gate
          /\ u.broker.pending = NoRequest
      BY ConsumePendingFacts
    <2>3. x.broker.pending \in Requests  BY Parts DEF Proper
    <2>4. tok \in Nat /\ tok < x.broker.next /\ "aborted" \in Statuses
      BY <2>3, RequestParts DEF Proper, Counted, Statuses
    <2>5. u.broker.next = x.broker.next  BY <2>2 DEF Aside
    <2>. HIDE DEF u, tok
    <2>6. Proper(w) /\ Aside(u, w) /\ w.th = u.th /\ w.gate = u.gate
          /\ w.broker.pending = u.broker.pending
      BY <2>2, <2>4, <2>5, CompleteFacts
    <2>. HIDE DEF w
    <2>. QED  BY <2>1, <2>2, <2>6, AsideTrans
  <1>. QED  BY <1>1, <1>2

-----------------------------------------------------------------------------
(* Thread updates and the end of a body *)

\* A thread's locals that the counters allow.
Fits(x, t) == t \in Threads /\ Dated(x, t) /\ Dated(x, t.s) /\ t.cur.tok < x.broker.next

\* Every thread of a proper state fits.
LEMMA ThreadFits ==
    ASSUME NEW x, Proper(x), NEW c \in Callers
    PROVE  Fits(x, x.th[c])
  BY Parts DEF Proper, Counted, Fits

\* Replacing a thread changes nothing else.
LEMMA GotoFacts ==
    ASSUME NEW x, Proper(x), NEW c \in Callers, NEW t, Fits(x, t)
    PROVE  LET y == Goto(x, c, t)
           IN  /\ Proper(y) /\ Aside(x, y) /\ y.session = x.session /\ y.broker = x.broker
               /\ y.gate = x.gate /\ y.th[c] = t /\ \A d \in Callers \ {c} : y.th[d] = x.th[d]
  <1>. DEFINE y == [x EXCEPT !.th[c] = t]
  <1>1. Goto(x, c, t) = y  BY DEF Goto
  <1>2. x \in State /\ Counted(x) /\ x.th \in [Callers -> Threads] /\ t \in Threads
    BY Parts DEF Proper, Fits
  <1>3. y.th = [x.th EXCEPT ![c] = t]  BY <1>2 DEF State
  <1>4. y.th \in [Callers -> Threads] /\ y.th[c] = t /\ \A d \in Callers \ {c} : y.th[d] = x.th[d]
    BY <1>2, <1>3
  <1>5. y \in State  BY <1>2, <1>4 DEF State
  <1>6. /\ y.coord = x.coord /\ y.nextId = x.nextId /\ y.host = x.host /\ y.device = x.device
        /\ y.route = x.route /\ y.recovery = x.recovery /\ y.removal = x.removal
        /\ y.budget = x.budget /\ y.gate = x.gate /\ y.broker = x.broker /\ y.session = x.session
    BY <1>2 DEF State
  <1>. HIDE DEF y
  <1>7. \A d \in Callers : Dated(y, y.th[d].s) /\ Dated(y, y.th[d])
                           /\ y.th[d].cur.tok < y.broker.next
    BY <1>2, <1>4, <1>6 DEF Fits, Counted, Dated
  <1>8. Counted(y)  BY <1>2, <1>6, <1>7 DEF Counted, Dated
  <1>. QED  BY <1>1, <1>4, <1>5, <1>6, <1>8 DEF Proper, Aside

\* A thread that moves keeps its locals.
Move(t, pc) == [t EXCEPT !.pc = pc]

\* At is a thread update.
LEMMA AtIsGoto ==
    ASSUME NEW x \in State, NEW c \in Callers, NEW pc
    PROVE  At(x, c, pc) = Goto(x, c, Move(x.th[c], pc))
  BY DEF At, Goto, Move, State

\* A moved thread still fits.
LEMMA MoveFacts ==
    ASSUME NEW x, NEW t, Fits(x, t), NEW pc \in Pcs
    PROVE  LET u == Move(t, pc)
           IN  /\ Fits(x, u) /\ u.pc = pc /\ u.op = t.op /\ u.s = t.s /\ u.id = t.id
               /\ u.route = t.route /\ u.clk = t.clk /\ u.k = t.k /\ u.kind = t.kind
               /\ u.after = t.after /\ u.st = t.st /\ u.refused = t.refused /\ u.cur = t.cur
               /\ u.tok = t.tok
  BY DEF Fits, Move, Threads, Dated

\* What is left of a thread's locals behind its body.
Rest(t, pc, st) ==
    [Idling EXCEPT !.pc = pc, !.op = t.op, !.st = st, !.refused = t.refused, !.tok = t.tok]

\* The rest of a thread fits.
LEMMA RestFacts ==
    ASSUME NEW x, Proper(x), NEW t \in Threads, NEW pc \in Pcs, NEW st \in Statuses
    PROVE  LET u == Rest(t, pc, st)
           IN  /\ Fits(x, u) /\ u.pc = pc /\ u.op = t.op /\ u.st = st /\ u.cur = NoRequest
               /\ u.after = "none" /\ u.s = DuplexRestartSession
  <1>1. x.nextId \in Nat \ {0} /\ x.broker.next \in Nat \ {0} /\ x.route.epoch \in Nat
    BY Parts DEF Proper
  <1>. DEFINE u == Rest(t, pc, st)
  <1>2. t.op \in {"none", "start", "stop", "clock", "recover"} /\ t.refused \in BOOLEAN
        /\ t.tok \in Nat
    BY ThreadParts
  <1>3. /\ u \in Threads /\ u.pc = pc /\ u.op = t.op /\ u.st = st /\ u.cur = NoRequest
        /\ u.after = "none" /\ u.s = DuplexRestartSession /\ u.id = 0 /\ u.route = 0
    BY <1>2, IdlingFacts DEF Rest, Threads
  <1>4. NoRequest.tok = 0  BY DEF NoRequest
  <1>5. Rest(t, pc, st) = u  OBVIOUS
  <1>. HIDE DEF u
  <1>. QED  BY <1>1, <1>3, <1>4, <1>5, FreshSessions DEF Fits, Dated

\* How a body ends: beside the stream, at the release or at the look for another
\* request, with no locals left; a stop keeps its status and goes to the release.
Ended(x, y, c, st) ==
    /\ Proper(y) /\ Aside(x, y)
    /\ \A d \in Callers \ {c} : y.th[d] = x.th[d]
    /\ y.th[c].pc \in {"loop", "release"} /\ y.th[c].op = x.th[c].op
    /\ y.th[c].cur = NoRequest /\ y.th[c].after = "none" /\ y.th[c].s = DuplexRestartSession
    /\ x.th[c].op = "stop" /\ x.th[c].cur = NoRequest => y.th[c].pc = "release" /\ y.th[c].st = st

\* Leave ends a body.
LEMMA LeaveFacts ==
    ASSUME NEW x, Proper(x), NEW c \in Callers, NEW pc \in Pcs, NEW st \in Statuses
    PROVE  LET y == Leave(x, c, pc, st)
           IN  /\ Proper(y) /\ Aside(x, y) /\ y.broker = x.broker /\ y.gate = x.gate
               /\ \A d \in Callers \ {c} : y.th[d] = x.th[d]
               /\ y.th[c].pc = pc /\ y.th[c].op = x.th[c].op /\ y.th[c].st = st
               /\ y.th[c].cur = NoRequest /\ y.th[c].after = "none"
               /\ y.th[c].s = DuplexRestartSession
  <1>. DEFINE t == x.th[c]
              u == Rest(t, pc, st)
  <1>1. t \in Threads  BY ThreadFits DEF Fits
  <1>2. Leave(x, c, pc, st) = Goto(x, c, u)  BY DEF Leave, Rest
  <1>. HIDE DEF t
  <1>3. /\ Fits(x, u) /\ u.pc = pc /\ u.op = t.op /\ u.st = st /\ u.cur = NoRequest
        /\ u.after = "none" /\ u.s = DuplexRestartSession
    BY <1>1, RestFacts
  <1>. HIDE DEF u
  <1>. DEFINE y == Goto(x, c, u)
  <1>4. /\ Proper(y) /\ Aside(x, y) /\ y.broker = x.broker /\ y.gate = x.gate
        /\ y.th[c] = u /\ \A d \in Callers \ {c} : y.th[d] = x.th[d]
    BY <1>3, GotoFacts
  <1>. HIDE DEF y
  <1>5. Leave(x, c, pc, st) = y  BY <1>2 DEF y
  <1>. QED  BY <1>3, <1>4, <1>5 DEF t

\* Finish ends a body.
LEMMA FinishFacts ==
    ASSUME NEW x, Proper(x), NEW c \in Callers, NEW st \in Statuses
    PROVE  Ended(x, Finish(x, c, st), c, st)
  <1>. DEFINE t == x.th[c]
  <1>1. t \in Threads /\ t.cur \in Requests /\ t.cur.tok \in Nat /\ t.cur.tok < x.broker.next
        /\ t.st \in Statuses
    BY ThreadFits, ThreadParts, RequestParts DEF Fits
  <1>2. "release" \in Pcs /\ "loop" \in Pcs /\ "aborted" \in Statuses /\ "ok" \in Statuses
    BY DEF Pcs, Statuses
  <1>3. CASE t.cur # NoRequest
    <2>1. Finish(x, c, st) = FinishRequest(x, c, st)  BY <1>3 DEF Finish
    <2>2. CASE Aborting(x, t)
      <3>. DEFINE u == Leave(x, c, "release", "ok")
                  v == Complete(u, t.cur.tok, "aborted")
                  y == FailPending(v)
      <3>1. Finish(x, c, st) = y  BY <2>1, <2>2 DEF FinishRequest
      <3>2. /\ Proper(u) /\ Aside(x, u) /\ u.broker = x.broker /\ u.gate = x.gate
            /\ \A d \in Callers \ {c} : u.th[d] = x.th[d]
            /\ u.th[c].pc = "release" /\ u.th[c].op = x.th[c].op
            /\ u.th[c].cur = NoRequest /\ u.th[c].after = "none"
            /\ u.th[c].s = DuplexRestartSession
        BY <1>1, <1>2, LeaveFacts
      <3>. HIDE DEF u
      <3>3. Proper(v) /\ Aside(u, v) /\ v.th = u.th
        BY <1>1, <1>2, <3>2, CompleteFacts
      <3>. HIDE DEF v
      <3>4. Proper(y) /\ Aside(v, y) /\ y.th = v.th  BY <3>3, FailPendingFacts
      <3>. HIDE DEF y
      <3>5. Aside(x, y)  BY <3>2, <3>3, <3>4, AsideTrans
      <3>. QED  BY <1>3, <3>1, <3>2, <3>3, <3>4, <3>5 DEF Ended
    <2>3. CASE ~Aborting(x, t)
      <3>. DEFINE u == Leave(x, c, "loop", "ok")
                  v == Complete(u, t.cur.tok, st)
      <3>1. Finish(x, c, st) = v  BY <2>1, <2>3 DEF FinishRequest
      <3>2. /\ Proper(u) /\ Aside(x, u) /\ u.broker = x.broker /\ u.gate = x.gate
            /\ \A d \in Callers \ {c} : u.th[d] = x.th[d]
            /\ u.th[c].pc = "loop" /\ u.th[c].op = x.th[c].op
            /\ u.th[c].cur = NoRequest /\ u.th[c].after = "none"
            /\ u.th[c].s = DuplexRestartSession
        BY <1>1, <1>2, LeaveFacts
      <3>. HIDE DEF u
      <3>3. Proper(v) /\ Aside(u, v) /\ v.th = u.th
        BY <1>1, <1>2, <3>2, CompleteFacts
      <3>. HIDE DEF v
      <3>5. Aside(x, v)  BY <3>2, <3>3, AsideTrans
      <3>. QED  BY <1>3, <3>1, <3>2, <3>3, <3>5 DEF Ended
    <2>. QED  BY <2>2, <2>3
  <1>4. CASE t.cur = NoRequest
    <2>. DEFINE u == Leave(x, c, "release", st)
                v == Leave(x, c, "loop", st)
    <2>1. /\ Proper(u) /\ Aside(x, u) /\ u.broker = x.broker /\ u.gate = x.gate
          /\ \A d \in Callers \ {c} : u.th[d] = x.th[d]
          /\ u.th[c].pc = "release" /\ u.th[c].op = x.th[c].op /\ u.th[c].st = st
          /\ u.th[c].cur = NoRequest /\ u.th[c].after = "none"
          /\ u.th[c].s = DuplexRestartSession
      BY <1>2, LeaveFacts
    <2>2. /\ Proper(v) /\ Aside(x, v) /\ v.broker = x.broker /\ v.gate = x.gate
          /\ \A d \in Callers \ {c} : v.th[d] = x.th[d]
          /\ v.th[c].pc = "loop" /\ v.th[c].op = x.th[c].op
          /\ v.th[c].cur = NoRequest /\ v.th[c].after = "none"
          /\ v.th[c].s = DuplexRestartSession
      BY <1>2, LeaveFacts
    <2>. DEFINE f == FailPending(u)
                g == [f EXCEPT !.gate.stop = FALSE]
    <2>3. Finish(x, c, st) = IF t.op = "start" /\ st = "ok" /\ ~IsStopRequested(x) THEN v
                             ELSE IF t.op = "start" THEN f
                             ELSE IF t.op = "stop" THEN g ELSE u
      BY <1>4 DEF Finish
    <2>. HIDE DEF u, v
    <2>4. Proper(f) /\ Aside(u, f) /\ f.th = u.th /\ f.gate = u.gate
      BY <2>1, FailPendingFacts
    <2>. HIDE DEF f
    <2>5. Proper(g) /\ Aside(f, g) /\ g.th = f.th
      <3>1. f \in State /\ Counted(f)
            /\ f.gate \in [active : BOOLEAN, stop : BOOLEAN, lost : BOOLEAN]
        BY <2>4, Parts DEF Proper
      <3>2. g.gate = [f.gate EXCEPT !.stop = FALSE]  BY <3>1 DEF State
      <3>3. g.gate \in [active : BOOLEAN, stop : BOOLEAN, lost : BOOLEAN]
            /\ g.gate.active = f.gate.active /\ g.gate.lost = f.gate.lost
        BY <3>1, <3>2
      <3>4. g \in State  BY <3>1, <3>3 DEF State
      <3>5. /\ g.coord = f.coord /\ g.nextId = f.nextId /\ g.host = f.host /\ g.device = f.device
            /\ g.route = f.route /\ g.recovery = f.recovery /\ g.removal = f.removal
            /\ g.budget = f.budget /\ g.broker = f.broker /\ g.session = f.session /\ g.th = f.th
        BY <3>1 DEF State
      <3>. HIDE DEF g
      <3>6. Counted(g)  BY <3>1, <3>5 DEF Counted, Dated
      <3>. QED  BY <2>4, <3>3, <3>4, <3>5, <3>6 DEF Proper, Aside
    <2>. HIDE DEF g
    <2>6. Ended(x, u, c, st)  BY <2>1 DEF Ended
    <2>7. Ended(x, f, c, st)  BY <2>1, <2>4, AsideTrans DEF Ended
    <2>8. Ended(x, g, c, st)  BY <2>1, <2>4, <2>5, AsideTrans DEF Ended
    <2>9. t.op # "stop" => Ended(x, v, c, st)  BY <2>2 DEF Ended
    <2>. QED  BY <2>3, <2>6, <2>7, <2>8, <2>9
  <1>. QED  BY <1>3, <1>4

-----------------------------------------------------------------------------
(* Steps of a thread inside its body *)

(* What such a step leaves alone: the other threads, the gate, the         *)
(* teardown flag, where a removal stands; what a removal left behind,      *)
(* unless the whole host stops.                                            *)
Within(x, y, c) ==
    /\ \A d \in Callers \ {c} : y.th[d] = x.th[d]
    /\ y.gate.active = x.gate.active
    /\ y.coord.teardown = x.coord.teardown /\ y.removal.pc = x.removal.pc
    /\ \/ y.removal.left = x.removal.left
       \/ y.removal.left = x.removal.left \ {"host"} /\ y.host = HostOff

\* A thread that is not inside a body is nowhere the invariant speaks of.
LEMMA OutsideFacts ==
    ASSUME NEW p, NEW t, ~InBody(t)
    PROVE  ~Working(t) /\ ~Off(p, t) /\ t.pc \notin {"do", "check"}
  BY DEF InBody, Working, Off

\* A thread that works is inside its body.
LEMMA WorkingFacts ==
    ASSUME NEW p, NEW t, Working(t) \/ Off(p, t) \/ t.pc \in {"do", "check"}
    PROVE  InBody(t)
  BY OutsideFacts

\* A step inside a body preserves the invariant when it does so for the thread that
\* takes it, and for the stored session when the thread then rests.
LEMMA BodyStep ==
    ASSUME NEW p, NEW x, Inv(p, x), NEW c \in Callers, InBody(x.th[c]),
           NEW y, Proper(y), Within(x, y, c), InBody(y.th[c]), Loaded(y.th[c]), Flow(p, y.th[c]),
           Sole(x) /\ Sound(y) => Staged(p, y, y.th[c]),
           Sole(x) /\ Clean(y) /\ Off(p, y.th[c]) => y.host = HostOff,
           Sole(x) /\ Sound(y) /\ ~Working(y.th[c]) => Truthful(y),
           Sole(x) /\ ~y.coord.teardown /\ ~Working(y.th[c]) => Rested(y)
    PROVE  Inv(p, y)
  <1>1. /\ \A d \in Callers : Loaded(x.th[d]) /\ Flow(p, x.th[d])
        /\ Alone(x)
    BY DEF Inv
  <1>2. Sole(y) <=> Sole(x)  BY DEF Within, Sole
  <1>3. \A d \in Callers : Loaded(y.th[d]) /\ Flow(p, y.th[d])  BY <1>1 DEF Within
  <1>4. Sole(x) => /\ x.gate.active
                   /\ \A d \in Callers \ {c} : ~InBody(x.th[d]) /\ ~InBody(y.th[d])
    BY <1>1 DEF Alone, Within
  <1>5. Alone(y)
    <2>1. SUFFICES ASSUME Sole(y), NEW d \in Callers, InBody(y.th[d])
                   PROVE  y.gate.active /\ \A e \in Callers \ {d} : ~InBody(y.th[e])
      BY DEF Alone
    <2>2. d = c  BY <1>2, <1>4, <2>1
    <2>. QED  BY <1>2, <1>4, <2>1, <2>2 DEF Within
  <1>6. \A d \in Callers : Claim(p, y, y.th[d])
    <2>1. Claim(p, y, y.th[c])  BY <1>2 DEF Claim, Sound, Clean, Sole
    <2>2. ASSUME NEW d \in Callers \ {c}  PROVE Claim(p, y, y.th[d])
      <3>1. Sound(y) \/ Clean(y) => Sole(y)  BY DEF Sound, Clean, Sole
      <3>2. CASE Sole(y)
        <4>1. ~InBody(y.th[d])  BY <1>2, <1>4, <2>2, <3>2
        <4>. QED  BY <4>1, OutsideFacts DEF Claim, Staged
      <3>3. CASE ~Sole(y)  BY <3>1, <3>3 DEF Claim
      <3>. QED  BY <3>2, <3>3
    <2>. QED  BY <2>1, <2>2
  <1>7. Stored(y)
    <2>1. Still(y) => ~Working(y.th[c])  BY DEF Still
    <2>2. Sound(y) => Sole(y)  BY DEF Sound
    <2>. QED  BY <1>2, <2>1, <2>2 DEF Stored
  <1>8. Torn(y)  BY DEF Inv, Torn, Within
  <1>. QED  BY <1>3, <1>5, <1>6, <1>7, <1>8 DEF Inv

\* So does the end of a body, when the stored session is in order: w is the state
\* that Finish is applied to.
LEMMA Finishing ==
    ASSUME NEW p, NEW x, Inv(p, x), NEW c \in Callers, InBody(x.th[c]),
           NEW w, Proper(w), Within(x, w, c), NEW st \in Statuses,
           w.th[c].op = "stop" => w.th[c].cur = NoRequest,
           Sole(x) /\ Sound(w) => Truthful(w),
           Sole(x) /\ ~w.coord.teardown => Rested(w),
           Sole(x) /\ Clean(w) /\ w.th[c].op = "stop" /\ st = "ok" => w.host = HostOff
    PROVE  Inv(p, Finish(w, c, st))
  <1>. DEFINE y == Finish(w, c, st)
  <1>1. Ended(w, y, c, st)  BY FinishFacts
  <1>. HIDE DEF y
  <1>. DEFINE t == y.th[c]
  <1>2. /\ Proper(y) /\ Aside(w, y) /\ \A d \in Callers \ {c} : y.th[d] = w.th[d]
        /\ t.pc \in {"loop", "release"} /\ t.op = w.th[c].op
        /\ t.cur = NoRequest /\ t.after = "none" /\ t.s = DuplexRestartSession
        /\ w.th[c].op = "stop" => t.pc = "release" /\ t.st = st
    BY <1>1 DEF Ended
  <1>. HIDE DEF t
  <1>3. /\ y.coord = w.coord /\ y.host = w.host /\ y.device = w.device /\ y.route = w.route
        /\ y.removal = w.removal /\ y.gate.active = w.gate.active
        /\ y.session.kind = w.session.kind /\ y.session.flags = w.session.flags
        /\ y.session.route = w.session.route /\ y.session.applied = w.session.applied
    BY <1>2 DEF Aside
  <1>4. Within(x, y, c)  BY <1>2, <1>3 DEF Within
  <1>5. InBody(t) /\ ~Working(t)  BY <1>2 DEF InBody, Working
  <1>6. Loaded(t)  BY <1>2, FreshSessions DEF Loaded
  <1>7. Flow(p, t)  BY <1>2 DEF Flow
  <1>8. Staged(p, y, t)  BY <1>2 DEF Staged
  <1>9. Sole(x) /\ Clean(y) /\ Off(p, t) => y.host = HostOff
    <2>1. Off(p, t) => t.op = "stop" /\ t.st = "ok"  BY <1>2 DEF Off
    <2>2. Clean(y) <=> Clean(w)  BY <1>3 DEF Clean
    <2>. QED  BY <1>2, <1>3, <2>1, <2>2
  <1>10. Sole(x) /\ Sound(y) => Truthful(y)
    <2>1. Sound(y) <=> Sound(w)  BY <1>3 DEF Sound, Sole
    <2>2. Truthful(w) => Truthful(y)  BY <1>3 DEF Truthful, Truth
    <2>. QED  BY <2>1, <2>2
  <1>11. Sole(x) /\ ~y.coord.teardown => Rested(y)
    <2>1. Rested(w) => Rested(y)  BY <1>3 DEF Rested, Clean
    <2>. QED  BY <1>3, <2>1
  <1>12. Inv(p, y)
    BY <1>2, <1>4, <1>5, <1>6, <1>7, <1>8, <1>9, <1>10, <1>11, BodyStep DEF t
  <1>. QED  BY <1>12 DEF y

\* The facts an operation body starts from.
LEMMA InBodyFacts ==
    ASSUME NEW p, NEW x, Inv(p, x), NEW c \in Callers, InBody(x.th[c])
    PROVE  /\ Proper(x) /\ x \in State /\ Fits(x, x.th[c]) /\ x.th[c] \in Threads
           /\ Loaded(x.th[c]) /\ Flow(p, x.th[c]) /\ Within(x, x, c)
           /\ Sound(x) => Staged(p, x, x.th[c])
           /\ Clean(x) /\ Off(p, x.th[c]) => x.host = HostOff
           /\ Sole(x) /\ Sound(x) /\ ~Working(x.th[c]) => Truthful(x)
           /\ Sole(x) /\ ~x.coord.teardown /\ ~Working(x.th[c]) => Rested(x)
           /\ x.th[c].op = "stop" => x.th[c].cur = NoRequest
  <1>1. Proper(x) /\ x \in State /\ Fits(x, x.th[c])  BY ThreadFits DEF Inv, Proper
  <1>2. Loaded(x.th[c]) /\ Flow(p, x.th[c]) /\ Claim(p, x, x.th[c]) /\ Alone(x) /\ Stored(x)
    BY DEF Inv
  <1>3. Sole(x) /\ ~Working(x.th[c]) => Still(x)
    <2>1. Sole(x) => \A d \in Callers \ {c} : ~InBody(x.th[d])  BY <1>2 DEF Alone
    <2>2. Sole(x) => \A d \in Callers \ {c} : ~Working(x.th[d])  BY <2>1, OutsideFacts
    <2>. QED  BY <2>2 DEF Still
  <1>4. Within(x, x, c)  BY DEF Within
  <1>5. x.th[c].op = "stop" => x.th[c].cur = NoRequest  BY <1>2 DEF Flow
  <1>. QED  BY <1>1, <1>2, <1>3, <1>4, <1>5 DEF Claim, Stored, Fits

\* A step beside the stream that moves no thread preserves the invariant.
LEMMA AsideInv ==
    ASSUME NEW p, NEW x, Inv(p, x), NEW y, Proper(y), Aside(x, y), y.th = x.th
    PROVE  Inv(p, y)
  <1>1. /\ y.coord = x.coord /\ y.host = x.host /\ y.device = x.device /\ y.route = x.route
        /\ y.removal = x.removal /\ y.gate.active = x.gate.active
        /\ y.session.kind = x.session.kind /\ y.session.flags = x.session.flags
        /\ y.session.route = x.session.route /\ y.session.applied = x.session.applied
    BY DEF Aside
  <1>2. (Sole(y) <=> Sole(x)) /\ (Sound(y) <=> Sound(x)) /\ (Clean(y) <=> Clean(x))
        /\ (Still(y) <=> Still(x))
    BY <1>1 DEF Sole, Sound, Clean, Still
  <1>3. Alone(y)  BY <1>1, <1>2 DEF Inv, Alone
  <1>4. ASSUME NEW d \in Callers  PROVE Claim(p, y, y.th[d])
    <2>1. Claim(p, x, x.th[d])  BY DEF Inv
    <2>2. Staged(p, x, x.th[d]) => Staged(p, y, x.th[d])  BY <1>1 DEF Staged, Achieved
    <2>. QED  BY <1>1, <1>2, <2>1, <2>2 DEF Claim
  <1>5. Stored(y)
    <2>1. Stored(x)  BY DEF Inv
    <2>2. Truthful(x) => Truthful(y)  BY <1>1 DEF Truthful, Truth
    <2>3. Rested(x) => Rested(y)  BY <1>1, <1>2 DEF Rested
    <2>. QED  BY <1>1, <1>2, <2>1, <2>2, <2>3 DEF Stored
  <1>6. Torn(y)  BY <1>1 DEF Inv, Torn
  <1>. QED  BY <1>3, <1>4, <1>5, <1>6 DEF Inv

\* A thread that moves inside its body, touching nothing else.
LEMMA Moving ==
    ASSUME NEW p, NEW x, Inv(p, x), NEW c \in Callers, InBody(x.th[c]),
           NEW t, Fits(x, t), InBody(t), Loaded(t), Flow(p, t), t.pc \notin {"do", "check"},
           Working(x.th[c]) => Working(t),
           Sole(x) /\ Clean(x) /\ Off(p, t) => x.host = HostOff
    PROVE  Inv(p, Goto(x, c, t))
  <1>. DEFINE y == Goto(x, c, t)
  <1>1. /\ Proper(x)
        /\ Sole(x) /\ Sound(x) /\ ~Working(x.th[c]) => Truthful(x)
        /\ Sole(x) /\ ~x.coord.teardown /\ ~Working(x.th[c]) => Rested(x)
    BY InBodyFacts
  <1>2. /\ Proper(y) /\ Aside(x, y) /\ y.session = x.session
        /\ y.gate = x.gate /\ y.th[c] = t /\ \A d \in Callers \ {c} : y.th[d] = x.th[d]
    BY <1>1, GotoFacts
  <1>3. Goto(x, c, t) = y  OBVIOUS
  <1>. HIDE DEF y
  <1>4. /\ y.coord = x.coord /\ y.host = x.host /\ y.device = x.device /\ y.route = x.route
        /\ y.removal = x.removal
    BY <1>2 DEF Aside
  <1>5. Within(x, y, c)  BY <1>2, <1>4 DEF Within
  <1>6. Staged(p, y, t)  BY DEF Staged
  <1>7. Sole(x) /\ Clean(y) /\ Off(p, t) => y.host = HostOff  BY <1>4 DEF Clean
  <1>8. Sole(x) /\ Sound(y) /\ ~Working(t) => Truthful(y)
    BY <1>1, <1>2, <1>4 DEF Sound, Sole, Truthful, Truth
  <1>9. Sole(x) /\ ~y.coord.teardown /\ ~Working(t) => Rested(y)
    BY <1>1, <1>2, <1>4 DEF Rested, Clean
  <1>. QED  BY <1>2, <1>3, <1>5, <1>6, <1>7, <1>8, <1>9, BodyStep

\* A body that ends where the session is in order, or because of a teardown.
LEMMA FinishNow ==
    ASSUME NEW p, NEW x, Inv(p, x), NEW c \in Callers, InBody(x.th[c]),
           ~Working(x.th[c]) \/ x.coord.teardown, NEW st \in Statuses,
           Sole(x) /\ Clean(x) /\ x.th[c].op = "stop" /\ st = "ok" => x.host = HostOff
    PROVE  Inv(p, Finish(x, c, st))
  <1>1. /\ Proper(x) /\ Within(x, x, c)
        /\ Sole(x) /\ Sound(x) /\ ~Working(x.th[c]) => Truthful(x)
        /\ Sole(x) /\ ~x.coord.teardown /\ ~Working(x.th[c]) => Rested(x)
        /\ x.th[c].op = "stop" => x.th[c].cur = NoRequest
    BY InBodyFacts
  <1>2. Sole(x) /\ Sound(x) => Truthful(x)  BY <1>1 DEF Sound
  <1>3. Sole(x) /\ ~x.coord.teardown => Rested(x)  BY <1>1
  <1>. QED  BY <1>1, <1>2, <1>3, Finishing

\* Everything but the stored session is the same.
Rewritten(x, y) ==
    /\ y.coord = x.coord /\ y.gate = x.gate /\ y.nextId = x.nextId /\ y.broker = x.broker
    /\ y.host = x.host /\ y.device = x.device /\ y.route = x.route /\ y.removal = x.removal
    /\ y.th = x.th

\* Storing a session changes nothing else.
LEMMA StoreFacts ==
    ASSUME NEW x, Proper(x), NEW s \in Sessions, Dated(x, s), s.kind # "None"
    PROVE  LET y == StoreSession(x, s)
           IN  Proper(y) /\ y.session = s /\ Rewritten(x, y)
  <1>. DEFINE y == [x EXCEPT !.session = s]
  <1>1. StoreSession(x, s) = y  BY DEF StoreSession
  <1>2. x \in State /\ Counted(x)  BY DEF Proper
  <1>3. y \in State /\ y.session = s  BY <1>2 DEF State
  <1>4. Rewritten(x, y)  BY <1>2 DEF State, Rewritten
  <1>. HIDE DEF y
  <1>5. Counted(y)  BY <1>2, <1>3, <1>4 DEF Counted, Dated, Rewritten
  <1>. QED  BY <1>1, <1>3, <1>4, <1>5 DEF Proper

\* A body that stores a session and ends.
LEMMA StoreAndFinish ==
    ASSUME NEW p, NEW x, Inv(p, x), NEW c \in Callers, InBody(x.th[c]),
           NEW w, Proper(w), Within(x, w, c), w.th[c].op = "stop" => w.th[c].cur = NoRequest,
           NEW s \in Sessions, Dated(w, s), s.kind \in {"Idle", "Running", "Failed"},
           NEW st \in Statuses,
           Sole(x) /\ Sound(w) /\ "running" \in s.flags =>
               /\ w.host.rx = "on" /\ w.host.tx = "on"
               /\ w.host.claimed /\ w.host.reserved = {"playback", "capture"}
               /\ s.applied = w.device
               /\ s.route = w.route.epoch => w.host.gen = w.route.epoch,
           Sole(x) /\ Clean(w) /\ s.kind = "Idle" => w.host = HostOff,
           Sole(x) /\ Clean(w) /\ w.th[c].op = "stop" /\ st = "ok" => w.host = HostOff
    PROVE  Inv(p, Finish(StoreSession(w, s), c, st))
  <1>. DEFINE y == StoreSession(w, s)
  <1>1. Proper(y) /\ y.session = s /\ Rewritten(w, y)  BY StoreFacts
  <1>. HIDE DEF y
  <1>2. /\ y.coord = w.coord /\ y.gate = w.gate /\ y.host = w.host /\ y.device = w.device
        /\ y.route = w.route /\ y.removal = w.removal /\ y.th = w.th
    BY <1>1 DEF Rewritten
  <1>3. Within(x, y, c)  BY <1>2 DEF Within
  <1>4. (Sound(y) <=> Sound(w)) /\ (Clean(y) <=> Clean(w))  BY <1>2 DEF Sound, Sole, Clean
  <1>5. Sole(x) /\ Sound(y) => Truthful(y)  BY <1>1, <1>2, <1>4 DEF Truthful, Truth
  <1>6. Sole(x) /\ ~y.coord.teardown => Rested(y)  BY <1>1, <1>2, <1>4 DEF Rested
  <1>7. Inv(p, Finish(y, c, st))
    BY <1>1, <1>2, <1>3, <1>4, <1>5, <1>6, Finishing
  <1>. QED  BY <1>7 DEF y

\* Spending of the budget is beside the stream.
LEMMA SpendFacts ==
    ASSUME NEW x, Proper(x), x.budget > 0
    PROVE  LET y == Spend(x)
           IN  Proper(y) /\ Aside(x, y) /\ Rewritten(x, y) /\ y.session = x.session
               /\ y.recovery = x.recovery
  <1>1. x \in State /\ Counted(x) /\ x.budget \in Nat  BY Parts DEF Proper
  <1>. DEFINE b == x.budget - 1
              y == [x EXCEPT !.budget = b]
  <1>2. Spend(x) = y  BY DEF Spend
  <1>3. b \in Nat  BY <1>1
  <1>. HIDE DEF b
  <1>4. y \in State  BY <1>1, <1>3 DEF State
  <1>5. Rewritten(x, y) /\ y.session = x.session /\ y.recovery = x.recovery
    BY <1>1 DEF State, Rewritten
  <1>. HIDE DEF y
  <1>6. Counted(y)  BY <1>1, <1>5 DEF Counted, Dated, Rewritten
  <1>. QED  BY <1>2, <1>4, <1>5, <1>6 DEF Proper, Aside, Rewritten

\* What the store holds, or a fresh session.
LEMMA LoadFacts ==
    ASSUME NEW x, Proper(x)
    PROVE  LET s == LoadSession(x)
           IN  /\ s \in Sessions /\ Dated(x, s) /\ s.kind # "None"
               /\ x.session # NoSession => s = x.session
               /\ x.session = NoSession => s = DuplexRestartSession
  <1>1. x.session \in Sessions /\ x.nextId \in Nat \ {0} /\ x.route.epoch \in Nat
        /\ Dated(x, x.session)
    BY Parts DEF Proper, Counted
  <1>. QED  BY <1>1, FreshSessions DEF LoadSession, Dated, Proper

-----------------------------------------------------------------------------
(* The operation bodies, one lemma per step *)

\* The fields of the state are the variables.
LEMMA NowParts ==
    /\ Now.coord = coord /\ Now.gate = gate /\ Now.session = session /\ Now.nextId = nextId
    /\ Now.broker = broker /\ Now.host = host /\ Now.device = device /\ Now.route = route
    /\ Now.recovery = recovery /\ Now.removal = removal /\ Now.th = th /\ Now.budget = budget
  BY DEF Now

\* The next state is the one a handler returns.
LEMMA BecomeIs ==
    ASSUME NEW x \in State, Become(x)
    PROVE  Now' = x /\ profile' = profile
  BY DEF Become, Now, State

\* So the invariant carries over.
LEMMA BecomeKeeps ==
    ASSUME NEW x, Inv(profile, x), Become(x)
    PROVE  Inv(profile', Now')
  <1>1. x \in State  BY DEF Inv, Proper
  <1>. QED  BY <1>1, BecomeIs

\* The look for another request behind a start or an applied request.
LEMMA ConsumeNextStep ==
    ASSUME Inv(profile, Now), NEW c \in Callers, ConsumeNext(c)
    PROVE  Inv(profile', Now')
  <1>. DEFINE t == th[c]
              r == broker.pending
              y == ConsumePending(Now)
              u == [t EXCEPT !.pc = "apply", !.cur = r]
              x == Goto(y, c, u)
  <1>1. t.pc = "loop" /\ Now.th[c] = t /\ Now.broker.pending = r
    BY NowParts DEF ConsumeNext
  <1>2. InBody(t) /\ ~Working(t)  BY <1>1 DEF InBody, Working
  <1>3. /\ Proper(Now) /\ Now \in State /\ Fits(Now, t) /\ t \in Threads
        /\ Loaded(t) /\ Flow(profile, t)
    BY <1>1, <1>2, InBodyFacts
  <1>4. t.op # "stop"  BY <1>1, <1>3 DEF Flow
  <1>5. Become(IF r = NoRequest THEN At(Now, c, "release")
               ELSE IF Aborting(Now, t) THEN Finish(x, c, "aborted") ELSE x)
    BY DEF ConsumeNext
  <1>. HIDE DEF t
  <1>6. CASE r = NoRequest
    <2>. DEFINE m == Move(t, "release")
    <2>1. "release" \in Pcs  BY DEF Pcs
    <2>2. /\ Fits(Now, m) /\ m.pc = "release" /\ m.op = t.op /\ m.s = t.s /\ m.cur = t.cur
          /\ m.after = t.after
      BY <1>3, <2>1, MoveFacts
    <2>3. At(Now, c, "release") = Goto(Now, c, m)  BY <1>1, <1>3, AtIsGoto
    <2>. HIDE DEF m
    <2>4. InBody(m) /\ Loaded(m) /\ Flow(profile, m) /\ ~Working(m) /\ ~Off(profile, m)
      BY <1>3, <1>4, <2>2 DEF InBody, Loaded, Flow, Working, Off
    <2>5. Inv(profile, Goto(Now, c, m))  BY <1>1, <1>2, <2>2, <2>4, Moving
    <2>. QED  BY <1>5, <1>6, <2>3, <2>5, BecomeKeeps
  <1>7. CASE r # NoRequest
    <2>1. Proper(y) /\ Aside(Now, y) /\ y.th = Now.th  BY <1>3, ConsumePendingFacts
    <2>2. Inv(profile, y)  BY <2>1, AsideInv
    <2>3. r \in Requests /\ r.tok < Now.broker.next
      BY <1>1, <1>3, Parts DEF Proper, Counted
    <2>4. /\ u \in Threads /\ u.pc = "apply" /\ u.op = t.op /\ u.s = t.s /\ u.cur = r
          /\ u.id = t.id /\ u.route = t.route /\ u.after = t.after
      BY <1>3, <2>3 DEF Threads, Pcs
    <2>. HIDE DEF u, y
    <2>5. r.clk \in Rates  BY <1>7, <2>3, RequestParts
    <2>6. Fits(y, u)
      BY <1>3, <2>1, <2>3, <2>4 DEF Fits, Dated, Aside
    <2>7. InBody(u) /\ Loaded(u) /\ Flow(profile, u) /\ ~Working(u) /\ ~Off(profile, u)
      BY <1>3, <1>4, <2>4, <2>5 DEF InBody, Loaded, Flow, Working, Off
    <2>8. y.th[c] = t  BY <1>1, <2>1
    <2>9. Inv(profile, x)  BY <1>2, <2>2, <2>4, <2>6, <2>7, <2>8, Moving
    <2>10. x.th[c] = u  BY <2>1, <2>6, GotoFacts
    <2>. HIDE DEF x
    <2>11. "aborted" \in Statuses  BY DEF Statuses
    <2>12. Inv(profile, Finish(x, c, "aborted"))
      BY <1>4, <2>4, <2>7, <2>9, <2>10, <2>11, FinishNow
    <2>. QED  BY <1>5, <1>7, <2>9, <2>12, BecomeKeeps
  <1>. QED  BY <1>6, <1>7

\* The clock a start runs at is a rate.
LEMMA StartClockFacts ==
    ASSUME NEW s \in Sessions
    PROVE  StartClock(s) \in Rates
  BY DEF StartClock, Sessions, Clocks, Rates, Default

\* The body of a start.
LEMMA StartBody ==
    ASSUME NEW p, NEW x, Inv(p, x), NEW c \in Callers, x.th[c].pc = "body", x.th[c].op = "start"
    PROVE  Inv(p, RunStartStreaming(x, c))
  <1>. DEFINE t == x.th[c]
              s == LoadSession(x)
              clk == StartClock(s)
              u == [t EXCEPT !.pc = "begin", !.s = s, !.clk = clk, !.kind = StartKind(s, clk)]
  <1>1. InBody(t) /\ ~Working(t)  BY DEF InBody, Working
  <1>2. Proper(x) /\ Fits(x, t) /\ t \in Threads /\ Flow(p, t)  BY <1>1, InBodyFacts
  <1>3. s \in Sessions /\ Dated(x, s) /\ s.kind # "None"  BY <1>2, LoadFacts
  <1>4. RunStartStreaming(x, c) = IF x.coord.teardown THEN Finish(x, c, "aborted")
                                  ELSE IF ~HasRecord(x) THEN Finish(x, c, "notready")
                                  ELSE Goto(x, c, u)
    BY DEF RunStartStreaming
  <1>. HIDE DEF s
  <1>5. clk \in Rates  BY <1>3, StartClockFacts
  <1>6. StartKind(s, clk) \in Kinds  BY DEF StartKind, Kinds
  <1>. HIDE DEF clk
  <1>7. /\ u \in Threads /\ u.pc = "begin" /\ u.op = t.op /\ u.s = s /\ u.cur = t.cur
        /\ u.id = t.id /\ u.route = t.route /\ u.after = t.after /\ u.clk = clk
    BY <1>2, <1>3, <1>5, <1>6 DEF Threads, Pcs, Clocks
  <1>. HIDE DEF u
  <1>8. Fits(x, u)  BY <1>2, <1>3, <1>7 DEF Fits, Dated
  <1>9. InBody(u) /\ Loaded(u) /\ Flow(p, u) /\ ~Off(p, u)
    BY <1>2, <1>3, <1>5, <1>7 DEF InBody, Loaded, Flow, Off
  <1>10. Inv(p, Goto(x, c, u))  BY <1>1, <1>7, <1>8, <1>9, Moving
  <1>11. "aborted" \in Statuses /\ "notready" \in Statuses  BY DEF Statuses
  <1>12. Inv(p, Finish(x, c, "aborted")) /\ Inv(p, Finish(x, c, "notready"))
    BY <1>1, <1>11, FinishNow
  <1>. QED  BY <1>4, <1>10, <1>12

\* The body of a stop: it returns success at once when the session is idle, and then
\* nothing is on.
LEMMA StopBody ==
    ASSUME NEW p, NEW x, Inv(p, x), NEW c \in Callers, x.th[c].pc = "body", x.th[c].op = "stop"
    PROVE  Inv(p, RunStopStreaming(x, c))
  <1>. DEFINE t == x.th[c]
              s == LoadSession(x)
              u == [t EXCEPT !.pc = "stop", !.s = s, !.after = "done"]
              r == [s EXCEPT !.phase = "Idle", !.flags = {}, !.failure = "none"]
  <1>1. InBody(t) /\ ~Working(t)  BY DEF InBody, Working
  <1>2. /\ Proper(x) /\ Fits(x, t) /\ t \in Threads /\ Flow(p, t) /\ Within(x, x, c)
        /\ Sole(x) /\ ~x.coord.teardown => Rested(x)
    BY <1>1, InBodyFacts
  <1>3. s \in Sessions /\ Dated(x, s) /\ s.kind # "None"
        /\ (x.session # NoSession => s = x.session)
        /\ (x.session = NoSession => s = DuplexRestartSession)
    BY <1>2, LoadFacts
  <1>4. RunStopStreaming(x, c) =
           IF x.coord.teardown THEN Finish(x, c, "aborted")
           ELSE IF x.session # NoSession /\ ~HasAnyRestartState(s) /\ s.phase = "Idle"
                   /\ s.kind = "Idle"
           THEN Finish(x, c, "ok")
           ELSE IF HasRecord(x) THEN Goto(x, c, u)
           ELSE Finish(StoreSession(x, r), c, "nodevice")
    BY DEF RunStopStreaming
  <1>. HIDE DEF s
  <1>5. "aborted" \in Statuses /\ "ok" \in Statuses /\ "nodevice" \in Statuses  BY DEF Statuses
  <1>6. Inv(p, Finish(x, c, "aborted"))  BY <1>1, <1>5, FinishNow
  <1>7. ASSUME ~x.coord.teardown, x.session # NoSession, s.kind = "Idle"
        PROVE  Inv(p, Finish(x, c, "ok"))
    <2>1. Sole(x) /\ Clean(x) => x.host = HostOff  BY <1>2, <1>3, <1>7 DEF Rested
    <2>. QED  BY <1>1, <1>5, <2>1, FinishNow
  <1>8. Inv(p, Goto(x, c, u))
    <2>1. /\ u \in Threads /\ u.pc = "stop" /\ u.op = t.op /\ u.s = s /\ u.cur = t.cur
          /\ u.id = t.id /\ u.route = t.route /\ u.after = "done"
      BY <1>2, <1>3 DEF Threads, Pcs
    <2>. HIDE DEF u
    <2>2. Fits(x, u)  BY <1>2, <1>3, <2>1 DEF Fits, Dated
    <2>3. InBody(u) /\ Loaded(u) /\ Flow(p, u) /\ ~Off(p, u)
      BY <1>2, <1>3, <2>1 DEF InBody, Loaded, Flow, Off
    <2>. QED  BY <1>1, <2>1, <2>2, <2>3, Moving
  <1>9. CASE ~x.coord.teardown
    <2>1. /\ r \in Sessions /\ r.kind = s.kind /\ r.flags = {} /\ r.id = s.id /\ r.route = s.route
      BY <1>3 DEF Sessions, Phases
    <2>. HIDE DEF r
    <2>2. Dated(x, r) /\ r.kind # "None"  BY <1>3, <2>1 DEF Dated
    <2>3. Sole(x) => r.kind \in {"Idle", "Running", "Failed"}
      BY <1>2, <1>3, <1>9, <2>1, FreshSessions DEF Rested
    <2>4. Sole(x) /\ Clean(x) /\ r.kind = "Idle" => x.host = HostOff
      BY <1>2, <1>3, <1>9, <2>1, FreshSessions DEF Rested
    <2>. DEFINE w == StoreSession(x, r)
    <2>5. Proper(w) /\ w.session = r /\ Rewritten(x, w)  BY <1>2, <2>1, <2>2, StoreFacts
    <2>. HIDE DEF w
    <2>6. Within(x, w, c) /\ (Clean(w) <=> Clean(x)) /\ w.th[c] = t /\ w.host = x.host
      BY <2>5 DEF Within, Rewritten, Clean
    <2>7. Truthful(w)  BY <2>1, <2>5 DEF Truthful
    <2>8. Sole(x) => Rested(w)  BY <2>3, <2>4, <2>5, <2>6 DEF Rested
    <2>9. w.th[c].op = "stop" => w.th[c].cur = NoRequest  BY <1>2, <2>6 DEF Flow
    <2>10. Inv(p, Finish(w, c, "nodevice"))
      BY <1>1, <1>5, <2>5, <2>6, <2>7, <2>8, <2>9, Finishing
    <2>11. Inv(p, Finish(StoreSession(x, r), c, "nodevice"))  BY <2>10 DEF w
    <2>. QED  BY <1>4, <1>7, <1>8, <1>9, <2>11
  <1>. QED  BY <1>4, <1>6, <1>9

\* Storing what was loaded keeps the invariant: a fresh session is as idle as none.
LEMMA Restore ==
    ASSUME NEW p, NEW x, Inv(p, x), NEW c \in Callers, InBody(x.th[c]), ~Working(x.th[c])
    PROVE  LET z == StoreSession(x, LoadSession(x))
           IN  Inv(p, z) /\ z.th = x.th /\ Rewritten(x, z)
  <1>. DEFINE s == LoadSession(x)
              z == StoreSession(x, s)
  <1>1. /\ Proper(x) /\ Loaded(x.th[c]) /\ Flow(p, x.th[c])
        /\ Sound(x) => Staged(p, x, x.th[c])
        /\ Clean(x) /\ Off(p, x.th[c]) => x.host = HostOff
        /\ Sole(x) /\ Sound(x) => Truthful(x)
        /\ Sole(x) /\ ~x.coord.teardown => Rested(x)
    BY InBodyFacts
  <1>2. s \in Sessions /\ Dated(x, s) /\ s.kind # "None"
        /\ (x.session # NoSession => s = x.session)
        /\ (x.session = NoSession => s = DuplexRestartSession)
    BY <1>1, LoadFacts
  <1>3. StoreSession(x, LoadSession(x)) = z  OBVIOUS
  <1>. HIDE DEF s
  <1>4. Proper(z) /\ z.session = s /\ Rewritten(x, z)  BY <1>1, <1>2, StoreFacts
  <1>. HIDE DEF z
  <1>5. /\ z.coord = x.coord /\ z.gate = x.gate /\ z.host = x.host /\ z.device = x.device
        /\ z.route = x.route /\ z.removal = x.removal /\ z.th = x.th
    BY <1>4 DEF Rewritten
  <1>6. Within(x, z, c) /\ (Sound(z) <=> Sound(x)) /\ (Clean(z) <=> Clean(x))
    BY <1>5 DEF Within, Sound, Sole, Clean
  <1>7. Sole(x) /\ Sound(z) => Truthful(z)
    BY <1>1, <1>2, <1>4, <1>5, <1>6, FreshSessions DEF Truthful, Truth
  <1>8. Sole(x) /\ ~z.coord.teardown => Rested(z)
    BY <1>1, <1>2, <1>4, <1>5, <1>6, FreshSessions DEF Rested
  <1>9. Sole(x) /\ Sound(z) => Staged(p, z, z.th[c])
    BY <1>1, <1>5, <1>6 DEF Staged, Achieved
  <1>10. Sole(x) /\ Clean(z) /\ Off(p, z.th[c]) => z.host = HostOff
    BY <1>1, <1>5, <1>6
  <1>11. Inv(p, z)
    BY <1>1, <1>4, <1>5, <1>6, <1>7, <1>8, <1>9, <1>10, BodyStep
  <1>. QED  BY <1>3, <1>4, <1>5, <1>11

\* The body of a recovery.
LEMMA RecoveryBody ==
    ASSUME NEW p, NEW x, Inv(p, x), NEW c \in Callers, x.th[c].pc = "body", x.th[c].op # "stop"
    PROVE  Inv(p, RunRecoveryStreaming(x, c))
  <1>. DEFINE t == x.th[c]
              y == FailPending(x)
              s == LoadSession(y)
              clk == IF s.desired # 0 THEN s.desired
                     ELSE IF s.applied # 0 THEN s.applied ELSE Default
              v == [t EXCEPT !.s = s, !.kind = "Recovering", !.after = "restart", !.clk = clk]
              z == StoreSession(y, s)
              f == IF HasRecord(y) THEN s ELSE [s EXCEPT !.failure = "terminal"]
              pc == IF HasAnyRestartState(s) \/ s.phase = "Running" THEN "stop" ELSE "begin"
              u == [v EXCEPT !.pc = pc]
  <1>1. InBody(t) /\ ~Working(t)  BY DEF InBody, Working
  <1>2. Proper(x) /\ t \in Threads /\ Flow(p, t) /\ Fits(x, t)  BY <1>1, InBodyFacts
  <1>3. Proper(y) /\ Aside(x, y) /\ y.th = x.th  BY <1>2, FailPendingFacts
  <1>4. Inv(p, y)  BY <1>3, AsideInv
  <1>5. RunRecoveryStreaming(x, c) =
          IF IsStopRequested(x) THEN Finish(x, c, "aborted")
          ELSE IF x.coord.teardown THEN Finish(y, c, "aborted")
          ELSE IF RecoveryPolicy(y, s) = "suppress" THEN Finish(z, c, "aborted")
          ELSE IF RecoveryPolicy(y, s) = "ignore" THEN Finish(z, c, "unsupported")
          ELSE IF RecoveryPolicy(y, s) = "fail"
          THEN Finish(StoreSession(y, EnterFailed(f)), c, "error")
          ELSE Goto(z, c, u)
    BY DEF RunRecoveryStreaming
  <1>6. s \in Sessions /\ Dated(y, s) /\ s.kind # "None"  BY <1>3, LoadFacts
  <1>. HIDE DEF y
  <1>7. Inv(p, z) /\ z.th = y.th /\ Rewritten(y, z)  BY <1>1, <1>3, <1>4, Restore
  <1>. HIDE DEF z, s
  <1>8. z.th[c] = t /\ y.th[c] = t  BY <1>3, <1>7
  <1>9. "aborted" \in Statuses /\ "unsupported" \in Statuses /\ "error" \in Statuses
    BY DEF Statuses
  <1>10. Inv(p, Finish(x, c, "aborted")) /\ Inv(p, Finish(y, c, "aborted"))
         /\ Inv(p, Finish(z, c, "aborted")) /\ Inv(p, Finish(z, c, "unsupported"))
    BY <1>1, <1>4, <1>7, <1>8, <1>9, FinishNow
  <1>11. Inv(p, Finish(StoreSession(y, EnterFailed(f)), c, "error"))
    <2>1. f \in Sessions /\ f.id = s.id /\ f.route = s.route  BY <1>6 DEF Sessions
    <2>. HIDE DEF f
    <2>. DEFINE e == EnterFailed(f)
    <2>2. e \in Sessions /\ e.id = s.id /\ e.route = s.route /\ e.kind = "Failed" /\ e.flags = {}
      BY <2>1, EnterFailedFacts DEF Sessions, Kinds, Phases
    <2>. HIDE DEF e
    <2>3. Dated(y, e)  BY <1>6, <2>2 DEF Dated
    <2>4. Within(y, y, c)  BY DEF Within
    <2>5. Inv(p, Finish(StoreSession(y, e), c, "error"))
      BY <1>1, <1>3, <1>4, <1>8, <1>9, <2>2, <2>3, <2>4, StoreAndFinish
    <2>. QED  BY <2>5 DEF e
  <1>12. Inv(p, Goto(z, c, u))
    <2>1. clk \in Rates  BY <1>6 DEF Sessions, Clocks, Rates, Default
    <2>2. pc \in {"stop", "begin"}  OBVIOUS
    <2>. HIDE DEF clk, pc
    <2>3. /\ v \in Threads /\ v.op = t.op /\ v.s = s /\ v.cur = t.cur
          /\ v.id = t.id /\ v.route = t.route /\ v.after = "restart" /\ v.clk = clk
      BY <1>2, <1>6, <2>1 DEF Threads, Kinds, Clocks
    <2>. HIDE DEF v
    <2>4. /\ u \in Threads /\ u.pc = pc /\ u.op = t.op /\ u.s = s /\ u.cur = t.cur
          /\ u.id = t.id /\ u.route = t.route /\ u.after = "restart" /\ u.clk = clk
      BY <2>2, <2>3 DEF Threads, Pcs
    <2>. HIDE DEF u
    <2>5. z.nextId = y.nextId /\ z.route = y.route /\ z.broker = y.broker /\ y.nextId = x.nextId
          /\ y.route = x.route /\ y.broker.next = x.broker.next
      BY <1>3, <1>7 DEF Rewritten, Aside
    <2>6. Fits(z, u)  BY <1>2, <1>6, <2>4, <2>5 DEF Fits, Dated
    <2>7. InBody(u) /\ Loaded(u) /\ Flow(p, u) /\ ~Off(p, u) /\ u.pc \notin {"do", "check"}
      BY <1>2, <1>6, <2>1, <2>2, <2>4 DEF InBody, Loaded, Flow, Off
    <2>. QED  BY <1>1, <1>7, <1>8, <2>6, <2>7, Moving
  <1>. QED  BY <1>5, <1>10, <1>11, <1>12

\* An operation body begins.
LEMMA BodyBegins ==
    ASSUME Inv(profile, Now), NEW c \in Callers, Body(c)
    PROVE  Inv(profile', Now')
  <1>1. Now.th[c].pc = "body"  BY NowParts DEF Body
  <1>2. CASE th[c].op = "start"
    <2>1. Become(RunStartStreaming(Now, c))  BY <1>2 DEF Body
    <2>. QED  BY <1>1, <1>2, <2>1, NowParts, StartBody, BecomeKeeps
  <1>3. CASE th[c].op = "stop"
    <2>1. Become(RunStopStreaming(Now, c))  BY <1>3 DEF Body
    <2>. QED  BY <1>1, <1>3, <2>1, NowParts, StopBody, BecomeKeeps
  <1>4. CASE th[c].op \notin {"start", "stop"}
    <2>1. Become(RunRecoveryStreaming(Now, c))  BY <1>4 DEF Body
    <2>. QED  BY <1>1, <1>4, <2>1, NowParts, RecoveryBody, BecomeKeeps
  <1>. QED  BY <1>2, <1>3, <1>4

\* A clock request is looked at: with any footprint the stream is stopped first, and
\* an idle clock change finds the host off.
LEMMA ApplyClockRequestStep ==
    ASSUME Inv(profile, Now), NEW c \in Callers, ApplyClockRequest(c)
    PROVE  Inv(profile', Now')
  <1>. DEFINE t == th[c]
              s == LoadSession(Now)
              v == [t EXCEPT !.s = s, !.clk = t.cur.clk, !.after = "restart"]
              pc == IF HasAnyRestartState(s) \/ s.phase = "Running"
                       \/ s.kind \in {"Running", "Recovering", "Failed"}
                    THEN "stop" ELSE "idleBegin"
              u == [v EXCEPT !.pc = pc]
  <1>1. t.pc \in {"top", "apply"} /\ Now.th[c] = t  BY NowParts DEF ApplyClockRequest
  <1>2. Become(IF IsStopRequested(Now) \/ coord.teardown THEN Finish(Now, c, "aborted")
               ELSE IF ~HasRecord(Now) THEN Finish(Now, c, "notready") ELSE Goto(Now, c, u))
    BY DEF ApplyClockRequest
  <1>3. InBody(t) /\ ~Working(t)  BY <1>1 DEF InBody, Working
  <1>4. /\ Proper(Now) /\ Fits(Now, t) /\ t \in Threads /\ Flow(profile, t)
        /\ Sole(Now) /\ ~Now.coord.teardown => Rested(Now)
    BY <1>1, <1>3, InBodyFacts
  <1>5. t.op # "stop" /\ t.cur.clk \in Rates  BY <1>1, <1>4 DEF Flow
  <1>6. s \in Sessions /\ Dated(Now, s) /\ s.kind # "None"
        /\ (Now.session # NoSession => s = Now.session)
        /\ (Now.session = NoSession => s = DuplexRestartSession)
    BY <1>4, LoadFacts
  <1>. HIDE DEF t, s
  <1>7. "aborted" \in Statuses /\ "notready" \in Statuses  BY DEF Statuses
  <1>8. Inv(profile, Finish(Now, c, "aborted")) /\ Inv(profile, Finish(Now, c, "notready"))
    BY <1>1, <1>3, <1>5, <1>7, FinishNow
  <1>9. Inv(profile, Goto(Now, c, u))
    <2>1. pc \in {"stop", "idleBegin"}
          /\ (pc = "idleBegin" => s.kind \notin {"Running", "Recovering", "Failed"})
      OBVIOUS
    <2>. HIDE DEF pc
    <2>2. /\ v \in Threads /\ v.op = t.op /\ v.s = s /\ v.cur = t.cur
          /\ v.id = t.id /\ v.route = t.route /\ v.after = "restart" /\ v.clk = t.cur.clk
      BY <1>4, <1>5, <1>6 DEF Threads, Clocks
    <2>. HIDE DEF v
    <2>3. /\ u \in Threads /\ u.pc = pc /\ u.op = t.op /\ u.s = s /\ u.cur = t.cur
          /\ u.id = t.id /\ u.route = t.route /\ u.after = "restart" /\ u.clk = t.cur.clk
      BY <2>1, <2>2 DEF Threads, Pcs
    <2>. HIDE DEF u
    <2>4. Fits(Now, u)  BY <1>4, <1>6, <2>3 DEF Fits, Dated
    <2>5. InBody(u) /\ Loaded(u) /\ Flow(profile, u) /\ u.pc \notin {"do", "check"}
      BY <1>4, <1>5, <1>6, <2>1, <2>3 DEF InBody, Loaded, Flow
    <2>6. Sole(Now) /\ Clean(Now) /\ Off(profile, u) => Now.host = HostOff
      <3>1. Off(profile, u) => pc = "idleBegin"  BY <2>1, <2>3 DEF Off
      <3>2. SUFFICES ASSUME Sole(Now), Clean(Now), pc = "idleBegin" PROVE Now.host = HostOff
        BY <3>1
      <3>3. Rested(Now)  BY <1>4, <3>2 DEF Clean
      <3>4. Now.session.kind \in {"None", "Idle"}
        BY <1>6, <2>1, <3>2, <3>3, FreshSessions DEF Rested
      <3>. QED  BY <3>2, <3>3, <3>4 DEF Rested
    <2>. QED  BY <1>1, <1>3, <2>4, <2>5, <2>6, Moving
  <1>. QED  BY <1>2, <1>8, <1>9, BecomeKeeps

\* Allocating a restart id moves nothing but the counter.
LEMMA AllocateRestartIdFacts ==
    ASSUME NEW x, Proper(x)
    PROVE  LET y == AllocateRestartId(x)
           IN  /\ Proper(y) /\ y.nextId = x.nextId + 1
               /\ y.coord = x.coord /\ y.gate = x.gate /\ y.session = x.session
               /\ y.broker = x.broker /\ y.host = x.host /\ y.device = x.device
               /\ y.route = x.route /\ y.removal = x.removal /\ y.th = x.th
  <1>1. x \in State /\ Counted(x) /\ x.nextId \in Nat \ {0} /\ x.session \in Sessions
        /\ \A d \in Callers : x.th[d] \in Threads
    BY Parts DEF Proper
  <1>. DEFINE n == x.nextId + 1
              y == [x EXCEPT !.nextId = n]
  <1>2. AllocateRestartId(x) = y  BY DEF AllocateRestartId
  <1>3. n \in Nat \ {0} /\ \A i \in Nat : i < x.nextId => i < n  BY <1>1
  <1>4. x.nextId + 1 = n  OBVIOUS
  <1>. HIDE DEF n
  <1>5. y \in State  BY <1>1, <1>3 DEF State
  <1>6. /\ y.nextId = n /\ y.coord = x.coord /\ y.gate = x.gate /\ y.session = x.session
        /\ y.broker = x.broker /\ y.host = x.host /\ y.device = x.device
        /\ y.route = x.route /\ y.removal = x.removal /\ y.th = x.th
    BY <1>1 DEF State
  <1>. HIDE DEF y
  <1>7. Dated(x, x.session) /\ x.session.id \in Nat  BY <1>1 DEF Counted, Sessions
  <1>8. ASSUME NEW d \in Callers
        PROVE  /\ Dated(x, x.th[d]) /\ Dated(x, x.th[d].s)
               /\ x.th[d].id \in Nat /\ x.th[d].s.id \in Nat
    BY <1>1 DEF Counted, Threads, Sessions
  <1>9. Dated(y, y.session)  BY <1>3, <1>6, <1>7 DEF Dated
  <1>10. ASSUME NEW d \in Callers  PROVE Dated(y, y.th[d]) /\ Dated(y, y.th[d].s)
    BY <1>3, <1>6, <1>8 DEF Dated
  <1>11. Counted(y)  BY <1>1, <1>6, <1>9, <1>10 DEF Counted
  <1>12. y.session.kind = "None" => y.session = NoSession  BY <1>6 DEF Proper
  <1>13. Proper(y)  BY <1>5, <1>11, <1>12 DEF Proper
  <1>. QED  BY <1>2, <1>4, <1>6, <1>13

\* The rate last picked, a history.
Picked(x, clk) == [x EXCEPT !.broker.picked = clk]

\* Recording a pick is beside the stream.
LEMMA PickedFacts ==
    ASSUME NEW x, Proper(x), NEW clk \in Clocks
    PROVE  LET y == Picked(x, clk)
           IN  Proper(y) /\ Aside(x, y) /\ y.th = x.th /\ y.session = x.session /\ y.gate = x.gate
  <1>. DEFINE y == [x EXCEPT !.broker.picked = clk]
  <1>1. Picked(x, clk) = y  BY DEF Picked
  <1>2. x \in State /\ Counted(x)  BY DEF Proper
  <1>3. x.broker \in [pending : Requests, done : SUBSET [tok : Nat, st : Statuses],
                      next : Nat \ {0}, picked : Clocks]
    BY <1>2, Parts
  <1>5. y.broker = [x.broker EXCEPT !.picked = clk]  BY <1>2 DEF State
  <1>6. y.broker \in [pending : Requests, done : SUBSET [tok : Nat, st : Statuses],
                      next : Nat \ {0}, picked : Clocks]
    BY <1>3, <1>5
  <1>7. y \in State  BY <1>2, <1>5, <1>6 DEF State
  <1>8. y.broker.next = x.broker.next /\ y.broker.pending = x.broker.pending
        /\ y.broker.done = x.broker.done
    BY <1>3, <1>5
  <1>9. /\ y.coord = x.coord /\ y.nextId = x.nextId /\ y.host = x.host /\ y.device = x.device
        /\ y.route = x.route /\ y.removal = x.removal
        /\ y.gate = x.gate /\ y.session = x.session /\ y.th = x.th
    BY <1>2 DEF State
  <1>. HIDE DEF y
  <1>10. Counted(y)  BY <1>2, <1>8, <1>9 DEF Counted, Dated
  <1>. QED  BY <1>1, <1>7, <1>8, <1>9, <1>10 DEF Proper, Aside

\* The idle clock change records its attempt.
LEMMA IdleBeginStep ==
    ASSUME Inv(profile, Now), NEW c \in Callers, IdleBegin(c)
    PROVE  Inv(profile', Now')
  <1>. DEFINE t == th[c]
              s == [EnterIdle(t.s) EXCEPT !.id = nextId, !.route = route.epoch,
                                          !.kind = "ApplyingIdleClock", !.phase = "Busy"]
              u == [t EXCEPT !.pc = "idleDo", !.s = s, !.id = nextId, !.route = route.epoch]
              a == AllocateRestartId(Now)
              g == Goto(a, c, u)
              y == StoreSession(g, s)
  <1>1. t.pc = "idleBegin" /\ Now.th[c] = t /\ Now.nextId = nextId /\ Now.route = route
        /\ Now.coord = coord
    BY NowParts DEF IdleBegin
  <1>2. InBody(t) /\ ~Working(t) /\ Off(profile, t)  BY <1>1 DEF InBody, Working, Off
  <1>3. /\ Proper(Now) /\ Now \in State /\ Fits(Now, t) /\ t \in Threads /\ Flow(profile, t)
        /\ Clean(Now) => Now.host = HostOff
    BY <1>1, <1>2, InBodyFacts
  <1>4. t.op # "stop" /\ t.clk \in Rates  BY <1>1, <1>3 DEF Flow
  <1>5. Become(IF coord.teardown \/ ~route.live
               THEN Finish(Now, c, IF coord.teardown THEN "aborted" ELSE "notready") ELSE y)
    BY DEF IdleBegin
  <1>6. CASE coord.teardown \/ ~route.live
    <2>1. PICK st \in Statuses : st = IF coord.teardown THEN "aborted" ELSE "notready"
      BY DEF Statuses
    <2>2. Inv(profile, Finish(Now, c, st))  BY <1>1, <1>2, <1>4, FinishNow
    <2>. QED  BY <1>5, <1>6, <2>1, <2>2, BecomeKeeps
  <1>7. CASE ~(coord.teardown \/ ~route.live)
    <2>1. nextId \in Nat \ {0} /\ route.epoch \in Nat /\ t.s \in Sessions
      BY <1>1, <1>3, Parts, ThreadParts
    <2>2. /\ Proper(a) /\ a.nextId = nextId + 1
          /\ a.coord = Now.coord /\ a.gate = Now.gate /\ a.session = Now.session
          /\ a.broker = Now.broker /\ a.host = Now.host /\ a.device = Now.device
          /\ a.route = Now.route /\ a.removal = Now.removal /\ a.th = Now.th
      BY <1>1, <1>3, AllocateRestartIdFacts
    <2>3. /\ s \in Sessions /\ s.id = nextId /\ s.route = route.epoch
          /\ s.kind = "ApplyingIdleClock"
      BY <2>1, EnterIdleFacts DEF Sessions, Kinds, Phases
    <2>4. /\ u \in Threads /\ u.pc = "idleDo" /\ u.op = t.op /\ u.s = s /\ u.cur = t.cur
          /\ u.id = nextId /\ u.route = route.epoch /\ u.after = t.after /\ u.clk = t.clk
      BY <1>3, <2>1, <2>3 DEF Threads, Pcs
    <2>5. Become(y)  BY <1>5, <1>7
    <2>. HIDE DEF a, s, u
    <2>6. Dated(a, s) /\ Fits(a, u)
      BY <1>1, <1>3, <2>1, <2>2, <2>3, <2>4 DEF Dated, Fits
    <2>7. /\ Proper(g) /\ Aside(a, g) /\ g.session = a.session /\ g.broker = a.broker
          /\ g.gate = a.gate /\ g.th[c] = u /\ \A d \in Callers \ {c} : g.th[d] = a.th[d]
      BY <2>2, <2>6, GotoFacts
    <2>. HIDE DEF g
    <2>8. Dated(g, s)  BY <2>6, <2>7 DEF Dated, Aside
    <2>9. Proper(y) /\ y.session = s /\ Rewritten(g, y)  BY <2>3, <2>7, <2>8, StoreFacts
    <2>. HIDE DEF y
    <2>10. /\ y.coord = Now.coord /\ y.gate = Now.gate /\ y.host = Now.host
           /\ y.removal = Now.removal /\ y.th[c] = u
           /\ \A d \in Callers \ {c} : y.th[d] = Now.th[d]
      BY <2>2, <2>7, <2>9 DEF Rewritten, Aside
    <2>11. Within(Now, y, c)  BY <2>10 DEF Within
    <2>12. InBody(u) /\ Working(u) /\ Loaded(u) /\ Flow(profile, u)
      BY <1>3, <1>4, <2>3, <2>4 DEF InBody, Working, Loaded, Flow
    <2>13. Staged(profile, y, u)  BY <2>4 DEF Staged
    <2>14. Clean(y) => y.host = HostOff  BY <1>3, <2>10 DEF Clean
    <2>15. Inv(profile, y)
      BY <1>1, <1>2, <2>9, <2>10, <2>11, <2>12, <2>13, <2>14, BodyStep
    <2>. QED  BY <2>5, <2>15, BecomeKeeps
  <1>. QED  BY <1>6, <1>7

\* A body that fails: the session is stored as failed, without progress.
LEMMA FailedFinish ==
    ASSUME NEW p, NEW x, Inv(p, x), NEW c \in Callers, InBody(x.th[c]),
           NEW w, Proper(w), Within(x, w, c), w.th[c].op = "stop" => w.th[c].cur = NoRequest,
           NEW s \in Sessions, Dated(w, s), NEW rs, NEW st \in Statuses,
           w.th[c].op = "stop" => st # "ok"
    PROVE  Inv(p, Finish(StoreSession(w, EnterFailed(RecordFailure(s, rs))), c, st))
  <1>. DEFINE r == RecordFailure(s, rs)
              e == EnterFailed(r)
  <1>1. r \in Sessions /\ r.id = s.id /\ r.route = s.route  BY RecordFailureFacts
  <1>. HIDE DEF r
  <1>2. e \in Sessions /\ e.id = r.id /\ e.route = r.route /\ e.kind = "Failed" /\ e.flags = {}
    BY <1>1, EnterFailedFacts DEF Sessions, Kinds, Phases
  <1>. HIDE DEF e
  <1>3. Dated(w, e)  BY <1>1, <1>2 DEF Dated
  <1>4. Inv(p, Finish(StoreSession(w, e), c, st))  BY <1>2, <1>3, StoreAndFinish
  <1>. QED  BY <1>4 DEF e, r

\* The device is told the rate, or fails to take it.
LEMMA IdleApplyStep ==
    ASSUME Inv(profile, Now), NEW c \in Callers, IdleApply(c)
    PROVE  Inv(profile', Now')
  <1>. DEFINE t == th[c]
  <1>1. t.pc = "idleDo" /\ Now.th[c] = t /\ Now.route = route /\ Now.budget = budget
    BY NowParts DEF IdleApply
  <1>2. InBody(t) /\ Working(t) /\ Off(profile, t)  BY <1>1 DEF InBody, Working, Off
  <1>3. /\ Proper(Now) /\ Now \in State /\ Fits(Now, t) /\ t \in Threads /\ Flow(profile, t)
        /\ Loaded(t) /\ (Clean(Now) => Now.host = HostOff)
    BY <1>1, <1>2, InBodyFacts
  <1>4. t.op # "stop" /\ t.clk \in Rates  BY <1>1, <1>3 DEF Flow
  <1>5. CASE route.live /\ Become([At(Now, c, "idleCheck") EXCEPT !.device = t.clk])
    <2>. DEFINE m == Move(t, "idleCheck")
                g == Goto(Now, c, m)
                y == [g EXCEPT !.device = t.clk]
    <2>1. "idleCheck" \in Pcs  BY DEF Pcs
    <2>2. /\ Fits(Now, m) /\ m.pc = "idleCheck" /\ m.op = t.op /\ m.s = t.s /\ m.cur = t.cur
          /\ m.after = t.after /\ m.clk = t.clk
      BY <1>3, <2>1, MoveFacts
    <2>3. At(Now, c, "idleCheck") = g  BY <1>1, <1>3, AtIsGoto
    <2>4. Become(y)  BY <1>5, <2>3
    <2>. HIDE DEF m, t
    <2>5. /\ Proper(g) /\ Aside(Now, g) /\ g.gate = Now.gate /\ g.th[c] = m
          /\ \A d \in Callers \ {c} : g.th[d] = Now.th[d]
      BY <1>3, <2>2, GotoFacts
    <2>. HIDE DEF g
    <2>6. g \in State /\ Counted(g)  BY <2>5 DEF Proper
    <2>7. y \in State  BY <1>4, <2>6 DEF State
    <2>8. /\ y.coord = g.coord /\ y.gate = g.gate /\ y.session = g.session /\ y.nextId = g.nextId
          /\ y.broker = g.broker /\ y.host = g.host /\ y.route = g.route
          /\ y.removal = g.removal /\ y.th = g.th
      BY <2>6 DEF State
    <2>. HIDE DEF y
    <2>9. Proper(y)
      <3>1. Counted(y)  BY <2>6, <2>8 DEF Counted, Dated
      <3>. QED  BY <2>5, <2>7, <2>8, <3>1 DEF Proper
    <2>10. Within(Now, y, c)  BY <2>5, <2>8 DEF Within, Aside
    <2>11. InBody(m) /\ Working(m) /\ Loaded(m) /\ Flow(profile, m)
      BY <1>3, <1>4, <2>2 DEF InBody, Working, Loaded, Flow
    <2>12. Staged(profile, y, m)  BY <2>2 DEF Staged
    <2>13. Clean(y) => y.host = HostOff  BY <1>3, <2>5, <2>8 DEF Clean, Aside
    <2>14. y.th[c] = m  BY <2>5, <2>8
    <2>15. Inv(profile, y)
      BY <1>1, <1>2, <2>9, <2>10, <2>11, <2>12, <2>13, <2>14, BodyStep
    <2>. QED  BY <2>4, <2>15, BecomeKeeps
  <1>6. CASE /\ budget > 0 \/ ~route.live
             /\ LET x == IF route.live THEN Spend(Now) ELSE Now
                IN  Become(Finish(StoreSession(x, EnterFailed(RecordFailure(t.s, "timeout"))),
                                  c, "timeout"))
    <2>. DEFINE x == IF route.live THEN Spend(Now) ELSE Now
    <2>1. Proper(x) /\ Aside(Now, x) /\ x.th = Now.th
      <3>1. CASE route.live
        <4>1. Now.budget > 0  BY <1>1, <1>6, <3>1
        <4>2. Proper(Spend(Now)) /\ Aside(Now, Spend(Now)) /\ Rewritten(Now, Spend(Now))
          BY <1>3, <4>1, SpendFacts
        <4>. QED  BY <3>1, <4>2 DEF Rewritten
      <3>2. CASE ~route.live  BY <1>3, <3>2 DEF Aside
      <3>. QED  BY <3>1, <3>2
    <2>2. Become(Finish(StoreSession(x, EnterFailed(RecordFailure(t.s, "timeout"))),
                        c, "timeout"))
      BY <1>6
    <2>. HIDE DEF x
    <2>3. Within(Now, x, c)  BY <2>1 DEF Within, Aside
    <2>4. t.s \in Sessions /\ Dated(Now, t.s) /\ "timeout" \in Statuses
      BY <1>3, ThreadParts DEF Fits, Statuses
    <2>5. Dated(x, t.s)  BY <2>1, <2>4 DEF Dated, Aside
    <2>6. x.th[c].op = "stop" => x.th[c].cur = NoRequest  BY <1>1, <1>4, <2>1
    <2>. HIDE DEF t
    <2>7. Inv(profile, Finish(StoreSession(x, EnterFailed(RecordFailure(t.s, "timeout"))),
                              c, "timeout"))
      BY <1>1, <1>2, <2>1, <2>3, <2>4, <2>5, <2>6, FailedFinish
    <2>. QED  BY <2>2, <2>7, BecomeKeeps
  <1>. QED  BY <1>5, <1>6 DEF IdleApply

\* The rate that was set is stored, if nothing intervened.
LEMMA IdleCheckStep ==
    ASSUME Inv(profile, Now), NEW c \in Callers, IdleCheck(c)
    PROVE  Inv(profile', Now')
  <1>. DEFINE t == th[c]
              s == [EnterIdle(t.s) EXCEPT !.failure = "none"]
              r == [s EXCEPT !.applied = t.clk]
  <1>1. t.pc = "idleCheck" /\ Now.th[c] = t  BY NowParts DEF IdleCheck
  <1>2. InBody(t) /\ Off(profile, t)  BY <1>1 DEF InBody, Off
  <1>3. /\ Proper(Now) /\ Fits(Now, t) /\ t \in Threads /\ Flow(profile, t) /\ Within(Now, Now, c)
        /\ (Clean(Now) => Now.host = HostOff)
    BY <1>1, <1>2, InBodyFacts
  <1>4. t.op # "stop" /\ t.clk \in Rates  BY <1>1, <1>3 DEF Flow
  <1>5. Become(IF IsRestartEpochCurrent(Now, t.id, t.route)
               THEN [Finish(StoreSession(Now, r), c, "ok") EXCEPT !.broker.picked = t.clk]
               ELSE Finish(StoreSession(Now, s), c, "aborted"))
    BY DEF IdleCheck
  <1>6. t.s \in Sessions /\ Dated(Now, t.s)  BY <1>3, ThreadParts DEF Fits
  <1>7. s \in Sessions /\ s.kind = "Idle" /\ s.flags = {} /\ s.id = t.s.id /\ s.route = t.s.route
    BY <1>6, EnterIdleFacts DEF Sessions, Kinds, Phases
  <1>. HIDE DEF s
  <1>8. r \in Sessions /\ r.kind = "Idle" /\ r.flags = {} /\ r.id = t.s.id /\ r.route = t.s.route
    BY <1>4, <1>7 DEF Sessions, Clocks
  <1>. HIDE DEF r, t
  <1>9. "ok" \in Statuses /\ "aborted" \in Statuses /\ t.clk \in Clocks
    BY <1>4 DEF Statuses, Clocks
  <1>10. Dated(Now, s) /\ Dated(Now, r)  BY <1>6, <1>7, <1>8 DEF Dated
  <1>11. Inv(profile, Finish(StoreSession(Now, s), c, "aborted"))
    BY <1>1, <1>2, <1>3, <1>4, <1>7, <1>9, <1>10, StoreAndFinish
  <1>. DEFINE f == Finish(StoreSession(Now, r), c, "ok")
  <1>12. Inv(profile, f)
    BY <1>1, <1>2, <1>3, <1>4, <1>8, <1>9, <1>10, StoreAndFinish
  <1>. HIDE DEF f
  <1>13. Proper(f)  BY <1>12 DEF Inv
  <1>. DEFINE y == Picked(f, t.clk)
  <1>14. Proper(y) /\ Aside(f, y) /\ y.th = f.th  BY <1>9, <1>13, PickedFacts
  <1>15. Inv(profile, y)  BY <1>12, <1>14, AsideInv
  <1>16. y = [Finish(StoreSession(Now, r), c, "ok") EXCEPT !.broker.picked = t.clk]
    BY DEF Picked, f
  <1>. HIDE DEF y
  <1>. QED  BY <1>5, <1>11, <1>15, <1>16, BecomeKeeps

\* A start takes the route.
LEMMA BeginStep ==
    ASSUME Inv(profile, Now), NEW c \in Callers, Begin(c)
    PROVE  Inv(profile', Now')
  <1>. DEFINE t == th[c]
              u == [t EXCEPT !.pc = "allocate", !.route = route.epoch]
  <1>1. t.pc = "begin" /\ Now.th[c] = t /\ Now.route = route  BY NowParts DEF Begin
  <1>2. InBody(t) /\ ~Working(t)  BY <1>1 DEF InBody, Working
  <1>3. Proper(Now) /\ Now \in State /\ Fits(Now, t) /\ t \in Threads /\ Flow(profile, t)
        /\ Loaded(t)
    BY <1>1, <1>2, InBodyFacts
  <1>4. t.op # "stop" /\ t.clk \in Rates  BY <1>1, <1>3 DEF Flow
  <1>5. Become(IF coord.teardown THEN Finish(Now, c, "aborted")
               ELSE IF ~route.live THEN Finish(Now, c, "notready") ELSE Goto(Now, c, u))
    BY DEF Begin
  <1>6. route.epoch \in Nat  BY <1>1, <1>3, Parts
  <1>7. /\ u \in Threads /\ u.pc = "allocate" /\ u.op = t.op /\ u.s = t.s /\ u.cur = t.cur
        /\ u.id = t.id /\ u.route = route.epoch /\ u.after = t.after /\ u.clk = t.clk
    BY <1>3, <1>6 DEF Threads, Pcs
  <1>. HIDE DEF u, t
  <1>8. Fits(Now, u)  BY <1>1, <1>3, <1>6, <1>7 DEF Fits, Dated
  <1>9. InBody(u) /\ Loaded(u) /\ Flow(profile, u) /\ ~Off(profile, u)
    BY <1>3, <1>4, <1>7 DEF InBody, Loaded, Flow, Off
  <1>10. Inv(profile, Goto(Now, c, u))  BY <1>1, <1>2, <1>7, <1>8, <1>9, Moving
  <1>11. "aborted" \in Statuses /\ "notready" \in Statuses  BY DEF Statuses
  <1>12. Inv(profile, Finish(Now, c, "aborted")) /\ Inv(profile, Finish(Now, c, "notready"))
    BY <1>1, <1>2, <1>4, <1>11, FinishNow
  <1>. QED  BY <1>5, <1>10, <1>12, BecomeKeeps

\* The stamp of a start on a session.
LEMMA StampFacts ==
    ASSUME NEW s \in Sessions, NEW t \in Threads
    PROVE  /\ Stamp(s, t) \in Sessions /\ Stamp(s, t).kind = s.kind /\ Stamp(s, t).id = t.id
           /\ Stamp(s, t).route = t.route /\ Stamp(s, t).flags = s.flags
           /\ Stamp(s, t).applied = s.applied
  BY DEF Stamp, Sessions, Threads

\* A start that is given up leaves a failed session.
LEMMA FinalizeFacts ==
    ASSUME NEW p, NEW x, Inv(p, x), NEW c \in Callers, InBody(x.th[c]),
           NEW w, Proper(w), Within(x, w, c), w.th[c].op # "stop", NEW st \in Statuses
    PROVE  Inv(p, FinalizeFailure(w, c, st))
  <1>. DEFINE t == w.th[c]
              s == Stamp(t.s, t)
  <1>1. Fits(w, t) /\ t \in Threads /\ t.s \in Sessions  BY ThreadFits, ThreadParts DEF Fits
  <1>. HIDE DEF t
  <1>2. s \in Sessions /\ s.id = t.id /\ s.route = t.route  BY <1>1, StampFacts
  <1>3. Dated(w, s)  BY <1>1, <1>2 DEF Fits, Dated
  <1>. HIDE DEF s
  <1>4. Inv(p, Finish(StoreSession(w, EnterFailed(RecordFailure(s, st))), c, st))
    BY <1>2, <1>3, FailedFinish
  <1>. QED  BY <1>4 DEF FinalizeFailure, s, t

\* A start takes a restart id and resets the session.
LEMMA AllocateStep ==
    ASSUME Inv(profile, Now), NEW c \in Callers, Allocate(c)
    PROVE  Inv(profile', Now')
  <1>. DEFINE t == th[c]
              v == [t EXCEPT !.id = nextId, !.pc = "do", !.k = 1]
              a == AllocateRestartId(Now)
              b == Picked(a, 0)
              x == Goto(b, c, v)
              s == [EnterIdle(Stamp(v.s, v)) EXCEPT !.kind = v.kind, !.phase = "Busy"]
              u == [v EXCEPT !.s = s]
              g == Goto(x, c, u)
              y == StoreSession(g, s)
  <1>1. t.pc = "allocate" /\ Now.th[c] = t /\ Now.nextId = nextId /\ Now.route = route
    BY NowParts DEF Allocate
  <1>2. InBody(t) /\ ~Working(t)  BY <1>1 DEF InBody, Working
  <1>3. Proper(Now) /\ Now \in State /\ Fits(Now, t) /\ t \in Threads /\ Flow(profile, t)
        /\ Loaded(t)
    BY <1>1, <1>2, InBodyFacts
  <1>4. t.op # "stop" /\ t.clk \in Rates  BY <1>1, <1>3 DEF Flow
  <1>5. Become(IF route.nub THEN y ELSE FinalizeFailure(x, c, "notready"))
    BY DEF Allocate, Picked
  <1>6. nextId \in Nat \ {0}  BY <1>1, <1>3, Parts
  <1>7. /\ v \in Threads /\ v.pc = "do" /\ v.op = t.op /\ v.s = t.s /\ v.cur = t.cur
        /\ v.id = nextId /\ v.route = t.route /\ v.after = t.after /\ v.clk = t.clk
        /\ v.k = 1 /\ v.kind = t.kind /\ v.kind \in Kinds /\ v.s \in Sessions
    BY <1>3, <1>6 DEF Threads, Pcs
  <1>8. /\ Proper(a) /\ a.nextId = nextId + 1
        /\ a.coord = Now.coord /\ a.gate = Now.gate /\ a.session = Now.session
        /\ a.broker = Now.broker /\ a.host = Now.host /\ a.device = Now.device
        /\ a.route = Now.route /\ a.removal = Now.removal /\ a.th = Now.th
    BY <1>1, <1>3, AllocateRestartIdFacts
  <1>. HIDE DEF v, a
  <1>9. 0 \in Clocks  BY DEF Clocks
  <1>10. Proper(b) /\ Aside(a, b) /\ b.th = a.th /\ b.gate = a.gate
    BY <1>8, <1>9, PickedFacts
  <1>. HIDE DEF b, t
  <1>11. b.nextId = nextId + 1 /\ b.route = Now.route /\ b.broker.next = Now.broker.next
    BY <1>8, <1>10 DEF Aside
  <1>12. Fits(b, v)
    <2>1. v.id < b.nextId /\ v.s.id < b.nextId
      <3>1. v.s.id \in Nat /\ v.s.id < nextId  BY <1>1, <1>3, <1>7 DEF Fits, Dated, Sessions
      <3>. QED  BY <1>6, <1>7, <1>11, <3>1
    <2>2. v.route <= b.route.epoch /\ v.s.route <= b.route.epoch /\ v.cur.tok < b.broker.next
      BY <1>3, <1>7, <1>11 DEF Fits, Dated
    <2>. QED  BY <1>7, <2>1, <2>2 DEF Fits, Dated
  <1>13. /\ Proper(x) /\ Aside(b, x) /\ x.gate = b.gate /\ x.broker = b.broker
         /\ x.th[c] = v /\ \A d \in Callers \ {c} : x.th[d] = b.th[d]
    BY <1>10, <1>12, GotoFacts
  <1>. HIDE DEF x
  <1>14. Within(Now, x, c)  BY <1>8, <1>10, <1>13 DEF Within, Aside
  <1>15. Inv(profile, FinalizeFailure(x, c, "notready"))
    <2>1. "notready" \in Statuses /\ x.th[c].op # "stop"  BY <1>4, <1>7, <1>13 DEF Statuses
    <2>. QED  BY <1>1, <1>2, <1>13, <1>14, <2>1, FinalizeFacts
  <1>16. Inv(profile, y)
    <2>. DEFINE e == Stamp(v.s, v)
    <2>1. e \in Sessions /\ e.id = v.id /\ e.route = v.route  BY <1>7, StampFacts
    <2>. HIDE DEF e
    <2>2. s \in Sessions /\ s.id = v.id /\ s.route = v.route /\ s.kind = v.kind
      BY <1>7, <2>1, EnterIdleFacts DEF Sessions, Phases, e
    <2>. HIDE DEF s
    <2>3. /\ u \in Threads /\ u.pc = "do" /\ u.op = t.op /\ u.s = s /\ u.cur = t.cur
          /\ u.id = v.id /\ u.route = v.route /\ u.after = t.after /\ u.clk = t.clk /\ u.k = 1
      BY <1>7, <2>2 DEF Threads
    <2>. HIDE DEF u
    <2>4. x.nextId = b.nextId /\ x.route = b.route /\ x.broker = b.broker  BY <1>13 DEF Aside
    <2>5. Fits(x, u) /\ Dated(x, s)
      BY <1>7, <1>12, <2>2, <2>3, <2>4 DEF Fits, Dated
    <2>6. /\ Proper(g) /\ Aside(x, g) /\ g.gate = x.gate
          /\ g.th[c] = u /\ \A d \in Callers \ {c} : g.th[d] = x.th[d]
      BY <1>13, <2>5, GotoFacts
    <2>. HIDE DEF g
    <2>7. Dated(g, s) /\ s.kind # "None"  BY <1>7, <2>2, <2>5, <2>6 DEF Dated, Aside, Kinds
    <2>8. Proper(y) /\ y.session = s /\ Rewritten(g, y)  BY <2>2, <2>6, <2>7, StoreFacts
    <2>. HIDE DEF y
    <2>9. y.th[c] = u  BY <2>6, <2>8 DEF Rewritten
    <2>10. Within(Now, y, c)  BY <1>14, <2>6, <2>8 DEF Within, Rewritten, Aside
    <2>11. 1 \in 1 .. Len(Stages(profile))  BY StageShape
    <2>12. InBody(u) /\ Working(u) /\ Loaded(u) /\ ~Off(profile, u)
      BY <2>2, <2>3, <2>7 DEF InBody, Working, Loaded, Off
    <2>13. Flow(profile, u)  BY <1>4, <2>3, <2>11 DEF Flow
    <2>14. Staged(profile, y, u)  BY <2>2, <2>3 DEF Staged
    <2>. QED  BY <1>1, <1>2, <2>8, <2>9, <2>10, <2>12, <2>13, <2>14, BodyStep
  <1>. QED  BY <1>5, <1>15, <1>16, BecomeKeeps

\* The rollback of a start that failed or lost its epoch.
LEMMA RollbackStep ==
    ASSUME Inv(profile, Now), NEW c \in Callers, Rollback(c)
    PROVE  Inv(profile', Now')
  <1>. DEFINE t == th[c]
              m == Move(t, "stop")
  <1>1. t.pc = "rollback" /\ Now.th[c] = t /\ Now.coord = coord  BY NowParts DEF Rollback
  <1>2. InBody(t) /\ Working(t)  BY <1>1 DEF InBody, Working
  <1>3. Proper(Now) /\ Now \in State /\ Fits(Now, t) /\ t \in Threads /\ Flow(profile, t)
        /\ Loaded(t)
    BY <1>1, <1>2, InBodyFacts
  <1>4. t.op # "stop" /\ t.after \in {"fail", "invalid"}  BY <1>1, <1>3 DEF Flow
  <1>5. Become(IF t.st = "aborted" /\ coord.teardown THEN Finish(Now, c, "aborted")
               ELSE At(Now, c, "stop"))
    BY DEF Rollback
  <1>6. "stop" \in Pcs /\ "aborted" \in Statuses  BY DEF Pcs, Statuses
  <1>7. /\ Fits(Now, m) /\ m.pc = "stop" /\ m.op = t.op /\ m.s = t.s /\ m.cur = t.cur
        /\ m.after = t.after
    BY <1>3, <1>6, MoveFacts
  <1>8. At(Now, c, "stop") = Goto(Now, c, m)  BY <1>1, <1>3, AtIsGoto
  <1>. HIDE DEF m, t
  <1>10. InBody(m) /\ Working(m) /\ Loaded(m) /\ Flow(profile, m) /\ ~Off(profile, m)
    BY <1>3, <1>4, <1>7 DEF InBody, Working, Loaded, Flow, Off
  <1>11. Inv(profile, Goto(Now, c, m))  BY <1>1, <1>2, <1>7, <1>10, Moving
  <1>12. coord.teardown => Inv(profile, Finish(Now, c, "aborted"))
    BY <1>1, <1>2, <1>4, <1>6, FinishNow
  <1>. QED  BY <1>5, <1>8, <1>11, <1>12, BecomeKeeps

-----------------------------------------------------------------------------
(* The stages of a start *)

(* Everything but the host and the device is the same.                     *)
Driven(x, y) ==
    /\ y.coord = x.coord /\ y.gate = x.gate /\ y.session = x.session /\ y.nextId = x.nextId
    /\ y.broker = x.broker /\ y.route = x.route /\ y.removal = x.removal /\ y.th = x.th
    /\ y.budget = x.budget

\* A state with another host.
OnHost(x, h) == [x EXCEPT !.host = h]

\* Replacing the host changes nothing else.
LEMMA OnHostFacts ==
    ASSUME NEW x, Proper(x), NEW h \in Hosts
    PROVE  LET y == OnHost(x, h)
           IN  Proper(y) /\ Driven(x, y) /\ y.host = h /\ y.device = x.device
  <1>. DEFINE y == [x EXCEPT !.host = h]
  <1>1. OnHost(x, h) = y  BY DEF OnHost
  <1>2. x \in State /\ Counted(x)  BY DEF Proper
  <1>3. y \in State  BY <1>2 DEF State
  <1>4. Driven(x, y) /\ y.host = h /\ y.device = x.device  BY <1>2 DEF State, Driven
  <1>. HIDE DEF y
  <1>5. Counted(y)  BY <1>2, <1>4 DEF Counted, Dated, Driven
  <1>. QED  BY <1>1, <1>3, <1>4, <1>5 DEF Proper, Driven

\* A stage that succeeds achieves what it is for, and undoes no earlier stage, but for
\* the claim, which is the first.
LEMMA StageEffectFacts ==
    ASSUME NEW x, Proper(x), NEW g, NEW t \in Threads, t.clk \in Rates
    PROVE  LET y == StageEffect(x, g, t.clk)
           IN  /\ Proper(y) /\ Driven(x, y) /\ Achieved(y, t, g)
               /\ g # "claim" => \A h : Achieved(x, t, h) => Achieved(y, t, h)
  <1>. DEFINE y == StageEffect(x, g, t.clk)
  <1>1. x \in State /\ x.host \in Hosts /\ x.route.epoch \in Nat /\ Counted(x)
    BY Parts DEF Proper
  <1>2. CASE g = "claim"
    <2>. DEFINE h == [x.host EXCEPT !.claimed = TRUE, !.reserved = {}]
    <2>1. y = OnHost(x, h)  BY <1>1, <1>2 DEF StageEffect, OnHost, State
    <2>2. h \in Hosts /\ h.claimed  BY <1>1 DEF Hosts
    <2>. HIDE DEF h
    <2>3. Proper(y) /\ Driven(x, y) /\ y.host = h  BY <2>1, <2>2, OnHostFacts
    <2>. QED  BY <1>2, <2>2, <2>3 DEF Achieved
  <1>3. CASE g \in {"playback", "capture"}
    <2>. DEFINE h == [x.host EXCEPT !.reserved = @ \cup {g}, !.gen = x.route.epoch]
    <2>1. y = OnHost(x, h)  BY <1>1, <1>3 DEF StageEffect, OnHost, State
    <2>2. /\ h \in Hosts /\ h.claimed = x.host.claimed /\ h.reserved = x.host.reserved \cup {g}
          /\ h.gen = x.route.epoch /\ h.rx = x.host.rx /\ h.tx = x.host.tx
      BY <1>1, <1>3 DEF Hosts
    <2>. HIDE DEF h
    <2>3. Proper(y) /\ Driven(x, y) /\ y.host = h /\ y.device = x.device
      BY <2>1, <2>2, OnHostFacts
    <2>. QED  BY <1>3, <2>2, <2>3 DEF Achieved, Driven
  <1>4. CASE g = "prepareRx"
    <2>. DEFINE h == [x.host EXCEPT !.rx = IF x.host.rx = "off" THEN "ready" ELSE x.host.rx]
    <2>1. y = OnHost(x, h)  BY <1>1, <1>4 DEF StageEffect, OnHost, State
    <2>2. /\ h \in Hosts /\ h.claimed = x.host.claimed /\ h.reserved = x.host.reserved
          /\ h.gen = x.host.gen /\ (x.host.rx = "on" => h.rx = "on") /\ h.tx = x.host.tx
      BY <1>1 DEF Hosts
    <2>. HIDE DEF h
    <2>3. Proper(y) /\ Driven(x, y) /\ y.host = h /\ y.device = x.device
      BY <2>1, <2>2, OnHostFacts
    <2>. QED  BY <1>4, <2>2, <2>3 DEF Achieved, Driven
  <1>9. CASE g = "prepareTx"
    <2>. DEFINE h == [x.host EXCEPT !.tx = IF x.host.tx = "off" THEN "ready" ELSE x.host.tx]
    <2>1. y = OnHost(x, h)  BY <1>1, <1>9 DEF StageEffect, OnHost, State
    <2>2. /\ h \in Hosts /\ h.claimed = x.host.claimed /\ h.reserved = x.host.reserved
          /\ h.gen = x.host.gen /\ (x.host.tx = "on" => h.tx = "on") /\ h.rx = x.host.rx
      BY <1>1 DEF Hosts
    <2>. HIDE DEF h
    <2>3. Proper(y) /\ Driven(x, y) /\ y.host = h /\ y.device = x.device
      BY <2>1, <2>2, OnHostFacts
    <2>. QED  BY <1>9, <2>2, <2>3 DEF Achieved, Driven
  <1>5. CASE g = "startRx"
    <2>. DEFINE h == [x.host EXCEPT !.rx = "on"]
    <2>1. y = OnHost(x, h)  BY <1>1, <1>5 DEF StageEffect, OnHost, State
    <2>2. /\ h \in Hosts /\ h.claimed = x.host.claimed /\ h.reserved = x.host.reserved
          /\ h.gen = x.host.gen /\ h.rx = "on" /\ h.tx = x.host.tx
      BY <1>1 DEF Hosts
    <2>. HIDE DEF h
    <2>3. Proper(y) /\ Driven(x, y) /\ y.host = h /\ y.device = x.device
      BY <2>1, <2>2, OnHostFacts
    <2>. QED  BY <1>5, <2>2, <2>3 DEF Achieved, Driven
  <1>6. CASE g = "startTx"
    <2>. DEFINE h == [x.host EXCEPT !.tx = "on"]
    <2>1. y = OnHost(x, h)  BY <1>1, <1>6 DEF StageEffect, OnHost, State
    <2>2. /\ h \in Hosts /\ h.claimed = x.host.claimed /\ h.reserved = x.host.reserved
          /\ h.gen = x.host.gen /\ h.rx = x.host.rx /\ h.tx = "on"
      BY <1>1 DEF Hosts
    <2>. HIDE DEF h
    <2>3. Proper(y) /\ Driven(x, y) /\ y.host = h /\ y.device = x.device
      BY <2>1, <2>2, OnHostFacts
    <2>. QED  BY <1>6, <2>2, <2>3 DEF Achieved, Driven
  <1>7. CASE g = "prepare"
    <2>1. y = [x EXCEPT !.device = t.clk]  BY <1>7 DEF StageEffect
    <2>2. y \in State  BY <1>1, <2>1 DEF State
    <2>3. Driven(x, y) /\ y.host = x.host /\ y.device = t.clk  BY <1>1, <2>1 DEF State, Driven
    <2>0. StageEffect(x, g, t.clk) = y  OBVIOUS
    <2>. HIDE DEF y
    <2>4. Counted(y)  BY <1>1, <2>3 DEF Counted, Dated, Driven
    <2>5. Proper(y)  BY <2>2, <2>3, <2>4 DEF Proper, Driven
    <2>6. Achieved(y, t, g) /\ \A h : Achieved(x, t, h) => Achieved(y, t, h)
      BY <1>7, <2>3 DEF Achieved, Driven
    <2>. QED  BY <2>0, <2>3, <2>5, <2>6
  <1>8. CASE g \notin {"claim", "playback", "capture", "prepareRx", "prepareTx", "startRx",
                       "startTx", "prepare"}
    <2>1. y = x  BY <1>8 DEF StageEffect
    <2>2. Achieved(x, t, g)  BY <1>8 DEF Achieved
    <2>. QED  BY <2>1, <2>2 DEF Driven
  <1>. QED  BY <1>2, <1>3, <1>4, <1>5, <1>6, <1>7, <1>8, <1>9

\* A stage that fails lets go of reservations at most.
LEMMA StageFailedFacts ==
    ASSUME NEW x, Proper(x), NEW g
    PROVE  Proper(StageFailed(x, g)) /\ Driven(x, StageFailed(x, g))
  <1>1. x \in State /\ x.host \in Hosts  BY Parts DEF Proper
  <1>. DEFINE h == [x.host EXCEPT !.reserved = {}]
  <1>2. StageFailed(x, g) \in {x, OnHost(x, h)}  BY <1>1 DEF StageFailed, OnHost, State
  <1>3. h \in Hosts  BY <1>1 DEF Hosts
  <1>. HIDE DEF h
  <1>4. Proper(OnHost(x, h)) /\ Driven(x, OnHost(x, h))  BY <1>3, OnHostFacts
  <1>. QED  BY <1>2, <1>4 DEF Driven

\* One stage of a start: done, failed, or given up at a teardown.
LEMMA DoStageStep ==
    ASSUME Inv(profile, Now), NEW c \in Callers, DoStage(c)
    PROVE  Inv(profile', Now')
  <1>. DEFINE t == th[c]
              g == Stages(profile)[t.k]
  <1>1. t.pc = "do" /\ Now.th[c] = t /\ Now.coord = coord /\ Now.budget = budget
    BY NowParts DEF DoStage
  <1>2. InBody(t) /\ Working(t)  BY <1>1 DEF InBody, Working
  <1>3. /\ Proper(Now) /\ Now \in State /\ Fits(Now, t) /\ t \in Threads /\ Flow(profile, t)
        /\ Loaded(t) /\ (Sound(Now) => Staged(profile, Now, t))
    BY <1>1, <1>2, InBodyFacts
  <1>4. t.op # "stop" /\ t.clk \in Rates /\ t.k \in 1 .. Len(Stages(profile))
        /\ Len(Stages(profile)) \in {11, 12}
    BY <1>1, <1>3, StageShape DEF Flow
  <1>5. CASE coord.teardown /\ Become(Finish(Now, c, "aborted"))
    <2>1. "aborted" \in Statuses  BY DEF Statuses
    <2>2. Inv(profile, Finish(Now, c, "aborted"))
      BY <1>1, <1>2, <1>4, <1>5, <2>1, FinishNow
    <2>. QED  BY <1>5, <2>2, BecomeKeeps
  <1>6. CASE Become(At(StageEffect(Now, g, t.clk), c, "check"))
    <2>. DEFINE e == StageEffect(Now, g, t.clk)
                m == Move(t, "check")
                y == Goto(e, c, m)
    <2>1. /\ Proper(e) /\ Driven(Now, e) /\ Achieved(e, t, g)
          /\ g # "claim" => \A h : Achieved(Now, t, h) => Achieved(e, t, h)
      BY <1>3, <1>4, StageEffectFacts
    <2>2. Become(At(e, c, "check"))  BY <1>6
    <2>. HIDE DEF e
    <2>3. e \in State /\ e.th[c] = t /\ Fits(e, t)
      BY <1>1, <1>3, <2>1 DEF Proper, Driven, Fits, Dated
    <2>4. "check" \in Pcs  BY DEF Pcs
    <2>5. At(e, c, "check") = y  BY <2>3, AtIsGoto
    <2>6. /\ Fits(e, m) /\ m.pc = "check" /\ m.op = t.op /\ m.s = t.s /\ m.cur = t.cur
          /\ m.after = t.after /\ m.clk = t.clk /\ m.k = t.k /\ m.route = t.route
      BY <2>3, <2>4, MoveFacts
    <2>. HIDE DEF m
    <2>7. /\ Proper(y) /\ Aside(e, y) /\ y.gate = e.gate /\ y.th[c] = m
          /\ \A d \in Callers \ {c} : y.th[d] = e.th[d]
      BY <2>1, <2>6, GotoFacts
    <2>. HIDE DEF y
    <2>8. Within(Now, y, c)  BY <2>1, <2>7 DEF Within, Driven, Aside
    <2>9. InBody(m) /\ Working(m) /\ Loaded(m) /\ Flow(profile, m) /\ ~Off(profile, m)
      BY <1>3, <1>4, <1>1, <2>6 DEF InBody, Working, Loaded, Flow, Off
    <2>10. Sound(y) => Staged(profile, y, m)
      <3>1. SUFFICES ASSUME Sound(y)
                     PROVE  /\ m.s.route = m.route
                            /\ \A j \in 1 .. m.k : Achieved(y, m, Stages(profile)[j])
        BY <2>6 DEF Staged
      <3>2. Sound(Now)  BY <2>1, <2>7, <3>1 DEF Sound, Sole, Driven, Aside
      <3>3. t.s.route = t.route /\ \A j \in 1 .. (t.k - 1) : Achieved(Now, t, Stages(profile)[j])
        BY <1>1, <1>3, <3>2 DEF Staged
      <3>4. y.host = e.host /\ y.device = e.device /\ y.route = e.route  BY <2>7 DEF Aside
      <3>5. \A h : Achieved(e, t, h) => Achieved(y, m, h)  BY <2>6, <3>4 DEF Achieved
      <3>6. ASSUME NEW j \in 1 .. t.k  PROVE Achieved(e, t, Stages(profile)[j])
        <4>1. CASE j = t.k  BY <2>1, <4>1
        <4>2. CASE j # t.k
          <5>1. j \in 1 .. (t.k - 1) /\ t.k \in 2 .. Len(Stages(profile))  BY <1>4, <3>6, <4>2
          <5>2. g # "claim"  BY <5>1, StageShape
          <5>. QED  BY <2>1, <3>3, <5>1, <5>2
        <4>. QED  BY <4>1, <4>2
      <3>. QED  BY <2>6, <3>3, <3>5, <3>6
    <2>11. Inv(profile, y)  BY <1>1, <1>2, <2>7, <2>8, <2>9, <2>10, BodyStep
    <2>. QED  BY <2>2, <2>5, <2>11, BecomeKeeps
  <1>7. ASSUME NEW st \in {"timeout", "error"},
               ~StageCanSucceed(Now, g) \/ budget > 0,
               LET x == StageFailed(IF StageCanSucceed(Now, g) THEN Spend(Now) ELSE Now, g)
               IN  Become(Goto(x, c, [t EXCEPT !.pc = "rollback", !.after = "fail", !.st = st]))
        PROVE  Inv(profile', Now')
    <2>. DEFINE b == IF StageCanSucceed(Now, g) THEN Spend(Now) ELSE Now
                x == StageFailed(b, g)
                u == [t EXCEPT !.pc = "rollback", !.after = "fail", !.st = st]
                y == Goto(x, c, u)
    <2>1. Proper(b) /\ Aside(Now, b) /\ Rewritten(Now, b)
      <3>1. CASE StageCanSucceed(Now, g)
        BY <1>1, <1>3, <1>7, <3>1, SpendFacts
      <3>2. CASE ~StageCanSucceed(Now, g)  BY <1>3, <3>2 DEF Aside, Rewritten
      <3>. QED  BY <3>1, <3>2
    <2>2. Become(y)  BY <1>7
    <2>. HIDE DEF b
    <2>3. Proper(x) /\ Driven(b, x)  BY <2>1, StageFailedFacts
    <2>. HIDE DEF x, t
    <2>0. st \in Statuses  BY DEF Statuses
    <2>4. /\ u \in Threads /\ u.pc = "rollback" /\ u.op = t.op /\ u.s = t.s /\ u.cur = t.cur
          /\ u.id = t.id /\ u.route = t.route /\ u.after = "fail" /\ u.clk = t.clk
      BY <1>3, <2>0 DEF Threads, Pcs
    <2>. HIDE DEF u
    <2>5. Fits(x, u)  BY <1>3, <2>1, <2>3, <2>4 DEF Fits, Dated, Rewritten, Driven
    <2>6. /\ Proper(y) /\ Aside(x, y) /\ y.gate = x.gate /\ y.th[c] = u
          /\ \A d \in Callers \ {c} : y.th[d] = x.th[d]
      BY <2>3, <2>5, GotoFacts
    <2>. HIDE DEF y
    <2>7. Within(Now, y, c)  BY <2>1, <2>3, <2>6 DEF Within, Rewritten, Driven, Aside
    <2>8. InBody(u) /\ Working(u) /\ Loaded(u) /\ Flow(profile, u) /\ ~Off(profile, u)
      BY <1>3, <1>4, <2>4 DEF InBody, Working, Loaded, Flow, Off
    <2>9. Staged(profile, y, u)  BY <2>4 DEF Staged
    <2>10. Inv(profile, y)  BY <1>1, <1>2, <2>6, <2>7, <2>8, <2>9, BodyStep
    <2>. QED  BY <2>2, <2>10, BecomeKeeps
  <1>. QED  BY <1>5, <1>6, <1>7 DEF DoStage, Stage

\* The session a stage leaves.
LEMMA StageSessionFacts ==
    ASSUME NEW s \in Sessions, NEW g, NEW clk \in Rates
    PROVE  LET r == StageSession(s, g, clk)
           IN  /\ r \in Sessions /\ r.id = s.id /\ r.route = s.route
               /\ g # "confirm" => r.kind = s.kind
               /\ g = "confirm" => r.kind = "Running" /\ r.applied = clk
  <1>. DEFINE f == s.flags \cup StageFlag(g)
              a == IF g \in {"prepare", "confirm"} THEN clk ELSE s.applied
              v == [s EXCEPT !.flags = f, !.applied = a]
  <1>1. f \in SUBSET Flags
    BY DEF StageFlag, Sessions, Flags, HostFlags, DeviceFlags
  <1>2. a \in Clocks  BY DEF Sessions, Clocks
  <1>3. StageSession(s, g, clk) =
          IF g = "confirm"
          THEN [v EXCEPT !.kind = "Running", !.phase = "Running", !.failure = "none"]
          ELSE v
    BY DEF StageSession
  <1>4. g = "confirm" => a = clk  OBVIOUS
  <1>. HIDE DEF f, a
  <1>5. v \in Sessions /\ v.id = s.id /\ v.route = s.route /\ v.kind = s.kind /\ v.applied = a
    BY <1>1, <1>2 DEF Sessions
  <1>. HIDE DEF v
  <1>. QED  BY <1>3, <1>4, <1>5 DEF Sessions, Kinds, Phases

\* The check behind a stage: the last one makes the session run, and by then every
\* stage has left its mark on the host.
LEMMA CheckStageStep ==
    ASSUME Inv(profile, Now), NEW c \in Callers, CheckStage(c)
    PROVE  Inv(profile', Now')
  <1>. DEFINE n == Len(Stages(profile))
              t == th[c]
              g == Stages(profile)[t.k]
              s == StageSession(t.s, g, t.clk)
              a == [t EXCEPT !.s = s]
              w == Goto(Now, c, a)
              x == StoreSession(w, s)
              r == [t EXCEPT !.pc = "rollback", !.after = "invalid", !.st = "aborted"]
              u == [t EXCEPT !.pc = "do", !.s = s, !.k = @ + 1]
  <1>1. t.pc = "check" /\ Now.th[c] = t  BY NowParts DEF CheckStage
  <1>2. InBody(t) /\ Working(t)  BY <1>1 DEF InBody, Working
  <1>3. /\ Proper(Now) /\ Now \in State /\ Fits(Now, t) /\ t \in Threads /\ Flow(profile, t)
        /\ Loaded(t) /\ (Sound(Now) => Staged(profile, Now, t))
    BY <1>1, <1>2, InBodyFacts
  <1>4. t.op # "stop" /\ t.clk \in Rates /\ t.k \in 1 .. n /\ t.s \in Sessions
        /\ n \in {11, 12}
    BY <1>1, <1>3, StageShape, ThreadParts DEF Flow
  <1>5. Become(IF g # "claim" /\ ~IsRestartEpochCurrent(Now, t.id, t.route) THEN Goto(Now, c, r)
               ELSE IF t.k = n THEN Finish(x, c, "ok") ELSE Goto(x, c, u))
    BY DEF CheckStage, Stage
  <1>6. /\ s \in Sessions /\ s.id = t.s.id /\ s.route = t.s.route
        /\ g # "confirm" => s.kind = t.s.kind
        /\ g = "confirm" => s.kind = "Running" /\ s.applied = t.clk
    BY <1>4, StageSessionFacts
  <1>7. Inv(profile, Goto(Now, c, r))
    <2>0. t \in Threads /\ "rollback" \in Pcs /\ "aborted" \in Statuses
      BY <1>3 DEF Pcs, Statuses
    <2>. HIDE DEF t, g, s
    <2>1. /\ r \in Threads /\ r.pc = "rollback" /\ r.op = t.op /\ r.s = t.s /\ r.cur = t.cur
          /\ r.id = t.id /\ r.route = t.route /\ r.after = "invalid" /\ r.clk = t.clk
      BY <2>0 DEF Threads
    <2>. HIDE DEF r
    <2>2. Fits(Now, r)  BY <1>3, <2>1 DEF Fits, Dated
    <2>3. InBody(r) /\ Working(r) /\ Loaded(r) /\ Flow(profile, r) /\ ~Off(profile, r)
      BY <1>3, <1>4, <2>1 DEF InBody, Working, Loaded, Flow, Off
    <2>. QED  BY <1>1, <1>2, <2>1, <2>2, <2>3, Moving
  <1>. HIDE DEF s
  <1>8. /\ a \in Threads /\ a.pc = "check" /\ a.op = t.op /\ a.s = s /\ a.cur = t.cur
        /\ a.id = t.id /\ a.route = t.route
    BY <1>1, <1>3, <1>6 DEF Threads
  <1>9. s.kind # "None"  BY <1>3, <1>6 DEF Loaded
  <1>. HIDE DEF a
  <1>10. Fits(Now, a) /\ Dated(Now, s)  BY <1>3, <1>6, <1>8 DEF Fits, Dated
  <1>11. /\ Proper(w) /\ Aside(Now, w) /\ w.gate = Now.gate /\ w.th[c] = a
         /\ w.broker = Now.broker
         /\ \A d \in Callers \ {c} : w.th[d] = Now.th[d]
    BY <1>3, <1>10, GotoFacts
  <1>. HIDE DEF w, g, n
  <1>12. /\ w.host = Now.host /\ w.device = Now.device /\ w.route = Now.route
         /\ w.coord = Now.coord /\ w.removal = Now.removal /\ w.nextId = Now.nextId
    BY <1>11 DEF Aside
  <1>13. Within(Now, w, c) /\ Dated(w, s) /\ (Sound(w) <=> Sound(Now))
    BY <1>10, <1>11, <1>12 DEF Within, Dated, Sound, Sole
  <1>14. CASE t.k = n
    <2>1. g = "confirm"  BY <1>14, StageShape DEF g, n
    <2>2. ASSUME Sound(w)
          PROVE  /\ w.host.rx = "on" /\ w.host.tx = "on"
                 /\ w.host.claimed /\ w.host.reserved = {"playback", "capture"}
                 /\ s.applied = w.device
                 /\ s.route = w.route.epoch => w.host.gen = w.route.epoch
      <3>1. t.s.route = t.route /\ \A j \in 1 .. n : Achieved(Now, t, Stages(profile)[j])
        BY <1>1, <1>3, <1>13, <1>14, <2>2 DEF Staged
      <3>2. PICK j1 \in 5 .. (n - 1) : Stages(profile)[j1] = "startRx"  BY StageShape DEF n
      <3>3. PICK j2 \in 5 .. (n - 1) : Stages(profile)[j2] = "startTx"  BY StageShape DEF n
      <3>4. j1 \in 1 .. n /\ j2 \in 1 .. n /\ 1 \in 1 .. n /\ 2 \in 1 .. n /\ 3 \in 1 .. n
            /\ 4 \in 1 .. n
        BY <1>4
      <3>5. /\ Achieved(Now, t, "claim") /\ Achieved(Now, t, "prepare")
            /\ Achieved(Now, t, "playback") /\ Achieved(Now, t, "capture")
            /\ Achieved(Now, t, "startRx") /\ Achieved(Now, t, "startTx")
        BY <3>1, <3>2, <3>3, <3>4, StageShape
      <3>6. Now.host.reserved \in SUBSET {"playback", "capture"}  BY <1>3, Parts DEF Hosts
      <3>. QED  BY <1>6, <1>12, <2>1, <3>1, <3>5, <3>6 DEF Achieved
    <2>3. "ok" \in Statuses  BY DEF Statuses
    <2>4. s.kind = "Running"  BY <1>6, <2>1
    <2>. HIDE DEF t
    <2>5. Inv(profile, Finish(StoreSession(w, s), c, "ok"))
      BY <1>1, <1>2, <1>4, <1>6, <1>8, <1>11, <1>13, <2>2, <2>3, <2>4, StoreAndFinish
    <2>. QED  BY <1>4, <1>5, <1>7, <1>14, <2>5, BecomeKeeps
  <1>15. CASE t.k # n
    <2>. DEFINE y == Goto(x, c, u)
    <2>1. Proper(x) /\ Rewritten(w, x)  BY <1>6, <1>9, <1>11, <1>13, StoreFacts
    <2>. DEFINE k == t.k + 1
    <2>2. k \in 2 .. n /\ k \in Nat /\ k - 1 = t.k  BY <1>4, <1>15
    <2>3. u = [t EXCEPT !.pc = "do", !.s = s, !.k = k]  BY <1>3 DEF Threads
    <2>. HIDE DEF k
    <2>4. /\ u \in Threads /\ u.pc = "do" /\ u.op = t.op /\ u.s = s /\ u.cur = t.cur
          /\ u.id = t.id /\ u.route = t.route /\ u.after = t.after /\ u.clk = t.clk /\ u.k = k
      BY <1>3, <1>6, <2>2, <2>3 DEF Threads, Pcs
    <2>5. Become(Goto(Now, c, r)) \/ Become(y)  BY <1>4, <1>5, <1>15
    <2>. HIDE DEF u, x, t
    <2>6. Fits(x, u)
      BY <1>3, <1>10, <1>11, <1>12, <2>1, <2>4 DEF Fits, Dated, Rewritten
    <2>7. /\ Proper(y) /\ Aside(x, y) /\ y.gate = x.gate /\ y.th[c] = u
          /\ \A d \in Callers \ {c} : y.th[d] = x.th[d]
      BY <2>1, <2>6, GotoFacts
    <2>. HIDE DEF y
    <2>8. /\ y.host = Now.host /\ y.device = Now.device /\ y.route = Now.route
          /\ y.coord = Now.coord /\ y.removal = Now.removal /\ y.gate = Now.gate
          /\ \A d \in Callers \ {c} : y.th[d] = Now.th[d]
      BY <1>11, <1>12, <2>1, <2>7 DEF Rewritten, Aside
    <2>9. Within(Now, y, c) /\ (Sound(y) <=> Sound(Now))
      BY <2>8 DEF Within, Sound, Sole
    <2>10. InBody(u) /\ Working(u) /\ Loaded(u) /\ ~Off(profile, u)
      BY <1>9, <2>4 DEF InBody, Working, Loaded, Off
    <2>11. Flow(profile, u)  BY <1>4, <2>2, <2>4 DEF Flow, n
    <2>12. Sound(y) => Staged(profile, y, u)
      <3>1. SUFFICES ASSUME Sound(y)
                     PROVE  /\ u.s.route = u.route
                            /\ \A j \in 1 .. (u.k - 1) : Achieved(y, u, Stages(profile)[j])
        BY <2>4 DEF Staged
      <3>2. t.s.route = t.route /\ \A j \in 1 .. t.k : Achieved(Now, t, Stages(profile)[j])
        BY <1>1, <1>3, <2>9, <3>1 DEF Staged
      <3>3. \A h : Achieved(Now, t, h) => Achieved(y, u, h)  BY <2>4, <2>8 DEF Achieved
      <3>. QED  BY <1>6, <2>2, <2>4, <3>2, <3>3
    <2>13. Inv(profile, y)
      BY <1>1, <1>2, <2>7, <2>9, <2>10, <2>11, <2>12, BodyStep
    <2>. QED  BY <1>7, <2>5, <2>13, BecomeKeeps
  <1>. QED  BY <1>14, <1>15

-----------------------------------------------------------------------------
(* The stop *)

\* What follows a stop: a failure or an idle session is stored, the body ends, or a
\* restart begins.
LEMMA AfterStopFacts ==
    ASSUME NEW p, NEW x, Inv(p, x), NEW c \in Callers, InBody(x.th[c]),
           NEW w, Proper(w), Within(x, w, c), w.th[c].pc \in {"stop", "halt"},
           Flow(p, w.th[c]),
           NEW s \in Sessions, Dated(w, s), s.kind # "None", NEW st \in Statuses,
           Sole(x) /\ Clean(w) /\ st = "ok" => w.host = HostOff,
           w.th[c].after \notin {"fail", "invalid"} =>
               /\ Sole(x) /\ Sound(w) => Truthful(w)
               /\ Sole(x) /\ ~w.coord.teardown => Rested(w)
    PROVE  Inv(p, AfterStop(w, c, s, st))
  <1>. DEFINE t == w.th[c]
              a == [t EXCEPT !.s = s]
              y == Goto(w, c, a)
              n == [EnterIdle(Stamp(s, t)) EXCEPT !.failure = "none"]
              b == [t EXCEPT !.s = s, !.pc = "begin", !.after = "none", !.k = 0]
              z == Goto(y, c, b)
  <1>1. Fits(w, t) /\ t \in Threads /\ t.st \in Statuses
    BY ThreadFits, ThreadParts DEF Fits
  <1>2. AfterStop(w, c, s, st) =
          IF t.after = "fail" THEN FinalizeFailure(y, c, t.st)
          ELSE IF t.after = "invalid"
          THEN IF st # "ok" THEN FinalizeFailure(y, c, st)
               ELSE Finish(StoreSession(y, n), c, "aborted")
          ELSE IF t.after # "restart" \/ st # "ok" THEN Finish(y, c, st)
          ELSE IF w.coord.teardown \/ (t.op = "recover" /\ IsStopRequested(w))
          THEN Finish(y, c, "aborted")
          ELSE z
    BY DEF AfterStop
  <1>3. /\ t.op = "stop" => t.cur = NoRequest /\ t.after \in {"none", "done"}
        /\ t.after = "restart" => t.clk \in Rates
    BY DEF Flow
  <1>4. t.after \notin {"fail", "invalid"} => /\ Sole(x) /\ Sound(w) => Truthful(w)
                                              /\ Sole(x) /\ ~w.coord.teardown => Rested(w)
    OBVIOUS
  <1>. HIDE DEF t
  <1>5. /\ a \in Threads /\ a.op = t.op /\ a.s = s /\ a.cur = t.cur
        /\ a.id = t.id /\ a.route = t.route
    BY <1>1 DEF Threads
  <1>. HIDE DEF a
  <1>6. Fits(w, a)  BY <1>1, <1>5 DEF Fits, Dated
  <1>7. /\ Proper(y) /\ Aside(w, y) /\ y.session = w.session /\ y.gate = w.gate /\ y.th[c] = a
        /\ y.broker = w.broker /\ \A d \in Callers \ {c} : y.th[d] = w.th[d]
    BY <1>6, GotoFacts
  <1>. HIDE DEF y
  <1>8. /\ y.host = w.host /\ y.device = w.device /\ y.route = w.route
        /\ y.coord = w.coord /\ y.removal = w.removal /\ y.nextId = w.nextId
    BY <1>7 DEF Aside
  <1>9. /\ Within(x, y, c) /\ Dated(y, s) /\ (Sound(y) <=> Sound(w)) /\ (Clean(y) <=> Clean(w))
        /\ (Truthful(w) => Truthful(y)) /\ (Rested(w) => Rested(y))
    BY <1>7, <1>8 DEF Within, Dated, Sound, Sole, Clean, Truthful, Truth, Rested
  <1>10. "ok" \in Statuses /\ "aborted" \in Statuses  BY DEF Statuses
  <1>11. CASE t.after = "fail"
    <2>1. Inv(p, FinalizeFailure(y, c, t.st))
      BY <1>1, <1>3, <1>5, <1>7, <1>9, <1>11, FinalizeFacts
    <2>. QED  BY <1>2, <1>11, <2>1
  <1>12. CASE t.after = "invalid"
    <2>1. t.op # "stop"  BY <1>3, <1>12
    <2>2. Inv(p, FinalizeFailure(y, c, st))
      BY <1>5, <1>7, <1>9, <2>1, FinalizeFacts
    <2>3. ASSUME st = "ok"  PROVE Inv(p, Finish(StoreSession(y, n), c, "aborted"))
      <3>. DEFINE e == Stamp(s, t)
      <3>1. e \in Sessions /\ e.id = t.id /\ e.route = t.route  BY <1>1, StampFacts
      <3>2. n = [EnterIdle(e) EXCEPT !.failure = "none"]  OBVIOUS
      <3>. HIDE DEF e, n
      <3>3. /\ n \in Sessions /\ n.kind = "Idle" /\ n.flags = {} /\ n.id = t.id
            /\ n.route = t.route
        BY <3>1, <3>2, EnterIdleFacts DEF Sessions, Kinds, Phases
      <3>4. Dated(y, n)  BY <1>1, <1>8, <3>3 DEF Fits, Dated
      <3>5. Sole(x) /\ Clean(y) => y.host = HostOff  BY <1>8, <1>9, <2>3
      <3>6. y.th[c].op # "stop"  BY <1>5, <1>7, <2>1
      <3>. QED  BY <1>7, <1>9, <1>10, <3>3, <3>4, <3>5, <3>6, StoreAndFinish
    <2>. QED  BY <1>2, <1>12, <2>2, <2>3
  <1>13. CASE t.after \notin {"fail", "invalid"}
    <2>1. Sole(x) /\ Sound(y) => Truthful(y)  BY <1>4, <1>9, <1>13
    <2>2. Sole(x) /\ ~y.coord.teardown => Rested(y)  BY <1>4, <1>8, <1>9, <1>13
    <2>3. y.th[c].op = "stop" => y.th[c].cur = NoRequest  BY <1>3, <1>5, <1>7
    <2>4. Sole(x) /\ Clean(y) /\ st = "ok" => y.host = HostOff  BY <1>8, <1>9
    <2>5. Inv(p, Finish(y, c, st))
      BY <1>7, <1>9, <2>1, <2>2, <2>3, <2>4, Finishing
    <2>6. Inv(p, Finish(y, c, "aborted"))
      BY <1>7, <1>9, <1>10, <2>1, <2>2, <2>3, Finishing
    <2>7. ASSUME t.after = "restart"  PROVE Inv(p, z)
      <3>1. t.op # "stop" /\ t.clk \in Rates  BY <1>3, <2>7
      <3>2. /\ b \in Threads /\ b.pc = "begin" /\ b.op = t.op /\ b.s = s /\ b.cur = t.cur
            /\ b.id = t.id /\ b.route = t.route /\ b.after = "none" /\ b.clk = t.clk
        BY <1>1 DEF Threads, Pcs
      <3>. HIDE DEF b
      <3>3. Fits(y, b)  BY <1>1, <1>7, <1>8, <1>9, <3>2 DEF Fits, Dated
      <3>4. /\ Proper(z) /\ Aside(y, z) /\ z.session = y.session /\ z.gate = y.gate
            /\ z.th[c] = b /\ \A d \in Callers \ {c} : z.th[d] = y.th[d]
        BY <1>7, <3>3, GotoFacts
      <3>. HIDE DEF z
      <3>5. /\ z.host = y.host /\ z.device = y.device /\ z.route = y.route
            /\ z.coord = y.coord /\ z.removal = y.removal
        BY <3>4 DEF Aside
      <3>6. /\ Within(x, z, c) /\ (Sound(z) <=> Sound(y))
            /\ (Truthful(y) => Truthful(z)) /\ (Rested(y) => Rested(z))
        BY <1>9, <3>4, <3>5 DEF Within, Sound, Sole, Clean, Truthful, Truth, Rested
      <3>7. InBody(b) /\ Loaded(b) /\ Flow(p, b) /\ ~Off(p, b) /\ Staged(p, z, b)
        BY <3>1, <3>2 DEF InBody, Loaded, Flow, Off, Staged
      <3>. QED  BY <2>1, <2>2, <3>4, <3>5, <3>6, <3>7, BodyStep
    <2>. QED  BY <1>2, <1>13, <2>5, <2>6, <2>7
  <1>. QED  BY <1>11, <1>12, <1>13

\* A stop begins: the session is stored as stopping.
LEMMA StopBeginStep ==
    ASSUME Inv(profile, Now), NEW c \in Callers, StopBegin(c)
    PROVE  Inv(profile', Now')
  <1>. DEFINE t == th[c]
              s == [t.s EXCEPT !.phase = "Stopping", !.kind = "Stopping"]
              e == [t.s EXCEPT !.phase = "Stopping"]
              u == [t EXCEPT !.pc = "halt", !.k = 1, !.s = s,
                             !.st = IF t.after = "fail" THEN @ ELSE "ok"]
              g == Goto(Now, c, u)
              y == StoreSession(g, s)
  <1>1. t.pc = "stop" /\ Now.th[c] = t /\ Now.coord = coord  BY NowParts DEF StopBegin
  <1>2. InBody(t)  BY <1>1 DEF InBody
  <1>3. /\ Proper(Now) /\ Now \in State /\ Fits(Now, t) /\ t \in Threads /\ Flow(profile, t)
        /\ Loaded(t) /\ Within(Now, Now, c)
        /\ Sole(Now) /\ Sound(Now) /\ ~Working(t) => Truthful(Now)
        /\ Sole(Now) /\ ~Now.coord.teardown /\ ~Working(t) => Rested(Now)
    BY <1>1, <1>2, InBodyFacts
  <1>4. \/ coord.teardown /\ Become(AfterStop(Now, c, t.s, "aborted"))
        \/ Become(AfterStop(Now, c, e, "error"))
        \/ Become(y)
    BY DEF StopBegin
  <1>5. t.s \in Sessions /\ t.s.kind # "None" /\ Dated(Now, t.s) /\ t.st \in Statuses
    BY <1>3, ThreadParts DEF Fits, Loaded
  <1>6. "aborted" \in Statuses /\ "error" \in Statuses /\ "ok" \in Statuses  BY DEF Statuses
  <1>7. t.after \notin {"fail", "invalid"} => ~Working(t)  BY <1>1 DEF Working
  <1>8. ASSUME coord.teardown  PROVE Inv(profile, AfterStop(Now, c, t.s, "aborted"))
    <2>1. ~Sound(Now) /\ Now.coord.teardown  BY <1>1, <1>8 DEF Sound
    <2>. HIDE DEF t
    <2>. QED  BY <1>1, <1>2, <1>3, <1>5, <1>6, <2>1, AfterStopFacts
  <1>9. Inv(profile, AfterStop(Now, c, e, "error"))
    <2>1. e \in Sessions /\ e.kind = t.s.kind /\ e.id = t.s.id /\ e.route = t.s.route
      BY <1>5 DEF Sessions, Phases
    <2>. HIDE DEF e, t
    <2>2. Dated(Now, e)  BY <1>5, <2>1 DEF Dated
    <2>3. t.after \notin {"fail", "invalid"} =>
               /\ Sole(Now) /\ Sound(Now) => Truthful(Now)
               /\ Sole(Now) /\ ~Now.coord.teardown => Rested(Now)
      BY <1>3, <1>7
    <2>. QED  BY <1>1, <1>2, <1>3, <1>5, <1>6, <2>1, <2>2, <2>3, AfterStopFacts
  <1>10. Inv(profile, y)
    <2>1. s \in Sessions /\ s.kind = "Stopping" /\ s.id = t.s.id /\ s.route = t.s.route
      BY <1>5 DEF Sessions, Phases, Kinds
    <2>. DEFINE q == IF t.after = "fail" THEN t.st ELSE "ok"
    <2>2. q \in Statuses  BY <1>5, <1>6
    <2>3. u = [t EXCEPT !.pc = "halt", !.k = 1, !.s = s, !.st = q]  BY <1>3 DEF Threads
    <2>. HIDE DEF s, q, t
    <2>4. /\ u \in Threads /\ u.pc = "halt" /\ u.op = t.op /\ u.s = s /\ u.cur = t.cur
          /\ u.id = t.id /\ u.route = t.route /\ u.after = t.after /\ u.clk = t.clk /\ u.k = 1
      BY <1>3, <2>1, <2>2, <2>3 DEF Threads, Pcs
    <2>. HIDE DEF u
    <2>5. Fits(Now, u) /\ Dated(Now, s)  BY <1>3, <1>5, <2>1, <2>4 DEF Fits, Dated
    <2>6. /\ Proper(g) /\ Aside(Now, g) /\ g.gate = Now.gate
          /\ g.th[c] = u /\ \A d \in Callers \ {c} : g.th[d] = Now.th[d]
      BY <1>3, <2>5, GotoFacts
    <2>. HIDE DEF g
    <2>7. Dated(g, s) /\ s.kind # "None"  BY <2>1, <2>5, <2>6 DEF Dated, Aside
    <2>8. Proper(y) /\ y.session = s /\ Rewritten(g, y)  BY <2>1, <2>6, <2>7, StoreFacts
    <2>. HIDE DEF y
    <2>9. y.th[c] = u  BY <2>6, <2>8 DEF Rewritten
    <2>10. Within(Now, y, c)  BY <2>6, <2>8 DEF Within, Rewritten, Aside
    <2>11. 1 \in 1 .. Len(StopSteps(profile))
      <3>1. Len(StopSteps(profile)) \in {2, 5}  BY StopShape
      <3>. QED  BY <3>1
    <2>12. InBody(u) /\ Working(u) /\ Loaded(u) /\ ~Off(profile, u) /\ Staged(profile, y, u)
      BY <2>1, <2>4, <2>7 DEF InBody, Working, Loaded, Off, Staged
    <2>13. Flow(profile, u)  BY <1>1, <1>3, <2>4, <2>11 DEF Flow
    <2>. QED  BY <1>1, <1>2, <2>8, <2>9, <2>10, <2>12, <2>13, BodyStep
  <1>. QED  BY <1>4, <1>8, <1>9, <1>10, BecomeKeeps

\* The terminal state of a stop: failed, or idle with nothing on.
LEMMA StopEndFacts ==
    ASSUME NEW p, NEW x, Inv(p, x), NEW c \in Callers, InBody(x.th[c]),
           NEW w, Proper(w), Within(x, w, c), w.th[c].pc = "halt", Flow(p, w.th[c]),
           NEW refused \in BOOLEAN, Sole(x) /\ Clean(w) /\ ~refused => w.host = HostOff
    PROVE  Inv(p, StopEnd(w, c, refused))
  <1>. DEFINE r == w.th[c].s
              f == RecordFailure(r, "timeout")
              i == [EnterIdle(r) EXCEPT !.failure = "none"]
              s == IF refused THEN EnterFailed(f) ELSE i
              st == IF refused THEN "timeout" ELSE "ok"
              y == StoreSession(w, s)
  <1>1. StopEnd(w, c, refused) = AfterStop(y, c, s, st)  BY DEF StopEnd
  <1>2. r \in Sessions /\ Dated(w, r)  BY ThreadFits, ThreadParts DEF Fits
  <1>. HIDE DEF r
  <1>3. f \in Sessions /\ f.id = r.id /\ f.route = r.route  BY <1>2, RecordFailureFacts
  <1>. HIDE DEF f
  <1>4. /\ EnterFailed(f) \in Sessions /\ EnterFailed(f).kind = "Failed"
        /\ EnterFailed(f).flags = {} /\ EnterFailed(f).id = r.id /\ EnterFailed(f).route = r.route
    BY <1>3, EnterFailedFacts DEF Sessions, Kinds, Phases
  <1>5. i \in Sessions /\ i.kind = "Idle" /\ i.flags = {} /\ i.id = r.id /\ i.route = r.route
    BY <1>2, EnterIdleFacts DEF Sessions, Kinds, Phases
  <1>. HIDE DEF i
  <1>6. /\ s \in Sessions /\ s.flags = {} /\ s.id = r.id /\ s.route = r.route
        /\ s.kind \in {"Failed", "Idle"} /\ (s.kind = "Idle" => ~refused)
    BY <1>4, <1>5
  <1>7. st \in Statuses /\ (st = "ok" => ~refused)  BY DEF Statuses
  <1>. HIDE DEF s, st
  <1>8. Dated(w, s)  BY <1>2, <1>6 DEF Dated
  <1>9. Proper(y) /\ y.session = s /\ Rewritten(w, y)  BY <1>6, <1>8, StoreFacts
  <1>. HIDE DEF y
  <1>10. /\ y.coord = w.coord /\ y.gate = w.gate /\ y.host = w.host /\ y.nextId = w.nextId
         /\ y.route = w.route /\ y.removal = w.removal /\ y.th = w.th
    BY <1>9 DEF Rewritten
  <1>11. Within(x, y, c) /\ Dated(y, s) /\ (Clean(y) <=> Clean(w))
    BY <1>8, <1>10 DEF Within, Dated, Clean
  <1>12. Truthful(y)  BY <1>6, <1>9 DEF Truthful
  <1>13. Sole(x) => Rested(y)  BY <1>6, <1>9, <1>10, <1>11 DEF Rested
  <1>14. Sole(x) /\ Clean(y) /\ st = "ok" => y.host = HostOff  BY <1>7, <1>10, <1>11
  <1>15. Inv(p, AfterStop(y, c, s, st))
    BY <1>6, <1>7, <1>9, <1>10, <1>11, <1>12, <1>13, <1>14, AfterStopFacts
  <1>. QED  BY <1>1, <1>15

(* Only the host is different, or it is off and no longer left behind.     *)
Halted(x, y) ==
    /\ y.coord = x.coord /\ y.gate = x.gate /\ y.session = x.session /\ y.nextId = x.nextId
    /\ y.broker = x.broker /\ y.device = x.device /\ y.route = x.route /\ y.th = x.th
    /\ y.recovery = x.recovery /\ y.budget = x.budget /\ y.removal.pc = x.removal.pc
    /\ y.removal.wasActive = x.removal.wasActive
    /\ \/ y.removal.left = x.removal.left
       \/ y.removal.left = x.removal.left \ {"host"} /\ y.host = HostOff

\* A state with another host halts nothing else.
LEMMA OnHostHalts ==
    ASSUME NEW x, Proper(x), NEW h \in Hosts
    PROVE  Proper(OnHost(x, h)) /\ Halted(x, OnHost(x, h)) /\ OnHost(x, h).host = h
  <1>. DEFINE y == OnHost(x, h)
  <1>1. Proper(y) /\ Driven(x, y) /\ y.host = h /\ y.device = x.device  BY OnHostFacts
  <1>2. y.recovery = x.recovery  BY DEF Proper, State, OnHost
  <1>. QED  BY <1>1, <1>2 DEF Halted, Driven

\* StopAll releases everything, or leaves all but a context.
LEMMA StopAllFacts ==
    ASSUME NEW x, Proper(x), NEW stuck
    PROVE  LET y == StopAll(x, stuck)
           IN  /\ Proper(y) /\ Halted(x, y)
               /\ stuck = {} => y.host = HostOff
               /\ stuck # {} => y.removal = x.removal
  <1>1. /\ x \in State /\ Counted(x) /\ x.host \in Hosts
        /\ x.removal \in [pc : {"idle", "cancel", "host", "clear", "drain", "down"},
                          wasActive : BOOLEAN, left : SUBSET {"operation", "host"}]
    BY Parts DEF Proper
  <1>2. CASE stuck = {}
    <2>. DEFINE l == x.removal.left \ {"host"}
                r == [x.removal EXCEPT !.left = l]
                y == [x EXCEPT !.host = HostOff, !.removal = r]
    <2>1. StopAll(x, stuck) = y  BY <1>1, <1>2 DEF StopAll, State
    <2>2. l \in SUBSET {"operation", "host"}  BY <1>1
    <2>. HIDE DEF l
    <2>3. /\ r \in [pc : {"idle", "cancel", "host", "clear", "drain", "down"},
                    wasActive : BOOLEAN, left : SUBSET {"operation", "host"}]
          /\ r.pc = x.removal.pc /\ r.wasActive = x.removal.wasActive /\ r.left = l
      BY <1>1, <2>2
    <2>. HIDE DEF r
    <2>4. HostOff \in Hosts  BY DEF HostOff, Hosts
    <2>5. y \in State  BY <1>1, <2>3, <2>4 DEF State
    <2>6. /\ y.coord = x.coord /\ y.gate = x.gate /\ y.session = x.session /\ y.nextId = x.nextId
          /\ y.broker = x.broker /\ y.device = x.device /\ y.route = x.route /\ y.th = x.th
          /\ y.recovery = x.recovery /\ y.budget = x.budget /\ y.removal = r /\ y.host = HostOff
      BY <1>1 DEF State
    <2>. HIDE DEF y
    <2>7. Counted(y)  BY <1>1, <2>6 DEF Counted, Dated
    <2>8. Proper(y)  BY <2>5, <2>6, <2>7 DEF Proper
    <2>9. Halted(x, y)  BY <2>3, <2>6 DEF Halted, l
    <2>. QED  BY <1>2, <2>1, <2>6, <2>8, <2>9
  <1>3. CASE stuck # {}
    <2>. DEFINE u == IF x.host.rx = "on" /\ "rx" \notin stuck THEN "ready" ELSE x.host.rx
                v == IF x.host.tx = "on" /\ "tx" \notin stuck THEN "ready" ELSE x.host.tx
                h == [x.host EXCEPT !.rx = u, !.tx = v]
    <2>1. StopAll(x, stuck) = OnHost(x, h)  BY <1>1, <1>3 DEF StopAll, OnHost, State, Hosts
    <2>2. u \in {"off", "ready", "on"} /\ v \in {"off", "ready", "on"}  BY <1>1 DEF Hosts
    <2>3. h \in Hosts  BY <1>1, <2>2 DEF Hosts
    <2>4. OnHost(x, h).removal = x.removal  BY <1>1 DEF OnHost, State
    <2>. HIDE DEF h
    <2>. QED  BY <1>3, <2>1, <2>3, <2>4, OnHostHalts
  <1>. QED  BY <1>2, <1>3

\* One step of a stop.
LEMMA HaltOneFacts ==
    ASSUME NEW x, Proper(x), NEW step, NEW stuck
    PROVE  LET y == HaltOne(x, step, stuck)
           IN  /\ Proper(y) /\ Halted(x, y)
               /\ step = "all" /\ stuck = {} => y.host = HostOff
               /\ step = "device" => y = x
  <1>1. x \in State /\ x.host \in Hosts  BY Parts DEF Proper
  <1>2. CASE step = "all"
    <2>1. HaltOne(x, step, stuck) = StopAll(x, stuck)  BY <1>2 DEF HaltOne
    <2>. QED  BY <1>2, <2>1, StopAllFacts
  <1>3. CASE step = "stopTx"
    <2>. DEFINE v == IF stuck = {} /\ x.host.tx = "on" THEN "ready" ELSE x.host.tx
                h == [x.host EXCEPT !.tx = v]
    <2>1. HaltOne(x, step, stuck) = OnHost(x, h)  BY <1>1, <1>3 DEF HaltOne, OnHost, State, Hosts
    <2>2. h \in Hosts  BY <1>1 DEF Hosts
    <2>. HIDE DEF h
    <2>. QED  BY <1>3, <2>1, <2>2, OnHostHalts
  <1>4. CASE step = "stopRx"
    <2>. DEFINE v == IF stuck = {} /\ x.host.rx = "on" THEN "ready" ELSE x.host.rx
                h == [x.host EXCEPT !.rx = v]
    <2>1. HaltOne(x, step, stuck) = OnHost(x, h)  BY <1>1, <1>4 DEF HaltOne, OnHost, State, Hosts
    <2>2. h \in Hosts  BY <1>1 DEF Hosts
    <2>. HIDE DEF h
    <2>. QED  BY <1>4, <2>1, <2>2, OnHostHalts
  <1>5. CASE step \notin {"all", "stopTx", "stopRx"}
    <2>1. HaltOne(x, step, stuck) = x  BY <1>5 DEF HaltOne
    <2>. QED  BY <1>5, <2>1 DEF Halted
  <1>. QED  BY <1>2, <1>3, <1>4, <1>5

\* One step of a stop: the host's stop is what releases it, whether it comes first
\* (DICE, CMP) or last (AV/C), and a refusal is remembered to the end.
LEMMA HaltStepStep ==
    ASSUME Inv(profile, Now), NEW c \in Callers, HaltStep(c)
    PROVE  Inv(profile', Now')
  <1>. DEFINE t == th[c]
              step == StopSteps(profile)[t.k]
  <1>1. t.pc = "halt" /\ Now.th[c] = t /\ Now.coord = coord /\ Now.budget = budget
    BY NowParts DEF HaltStep
  <1>2. InBody(t) /\ Working(t)  BY <1>1 DEF InBody, Working
  <1>3. /\ Proper(Now) /\ Now \in State /\ Fits(Now, t) /\ t \in Threads /\ Flow(profile, t)
        /\ Loaded(t) /\ Within(Now, Now, c)
        /\ Clean(Now) /\ Off(profile, t) => Now.host = HostOff
    BY <1>1, <1>2, InBodyFacts
  <1>4. PICK ok \in BOOLEAN, stuck \in {{}} \cup Stuck(Now) :
          LET onHost == step \in {"all", "stopTx", "stopRx"}
              can == IF onHost THEN TRUE ELSE route.live
              refused == t.refused \/ (~ok /\ (onHost \/ step = "device"))
              h == HaltOne(Now, step, stuck)
              x == IF ok \/ ~can THEN h ELSE Spend(h)
          IN  /\ ok => can
              /\ stuck # {} <=> ~ok /\ onHost
              /\ ~ok => IF onHost THEN MayRefuse(Now) ELSE ~can \/ budget > 0
              /\ Become(IF ~ok /\ step = "device" /\ coord.teardown
                        THEN AfterStop(x, c, t.s, "aborted")
                        ELSE IF t.k = Len(StopSteps(profile))
                        THEN StopEnd(Goto(x, c, [t EXCEPT !.refused = FALSE]), c, refused)
                        ELSE Goto(x, c, [t EXCEPT !.k = @ + 1, !.refused = refused]))
    BY DEF HaltStep
  <1>. DEFINE onHost == step \in {"all", "stopTx", "stopRx"}
              can == IF onHost THEN TRUE ELSE route.live
              h == HaltOne(Now, step, stuck)
              x == IF ok \/ ~can THEN h ELSE Spend(h)
  <1>5. PICK refused \in BOOLEAN : refused = (t.refused \/ (~ok /\ (onHost \/ step = "device")))
    OBVIOUS
  <1>. DEFINE v == [t EXCEPT !.refused = FALSE]
              u == [t EXCEPT !.k = @ + 1, !.refused = refused]
              g == Goto(x, c, v)
  <1>6. \/ coord.teardown /\ Become(AfterStop(x, c, t.s, "aborted"))
        \/ t.k = Len(StopSteps(profile)) /\ Become(StopEnd(g, c, refused))
        \/ t.k # Len(StopSteps(profile)) /\ Become(Goto(x, c, u))
    BY <1>4, <1>5
  <1>7. ok \/ ~can \/ budget > 0  BY <1>4 DEF MayRefuse, Now
  <1>8. /\ Proper(h) /\ Halted(Now, h) /\ (step = "all" /\ ok => h.host = HostOff)
        /\ (step = "device" => h = Now)
    <2>1. ok => stuck = {}  BY <1>4
    <2>. QED  BY <1>3, <2>1, HaltOneFacts
  <1>9. ~refused => ~t.refused /\ (step \in {"all", "device"} => ok)  BY <1>5
  <1>. HIDE DEF h, can, onHost
  <1>10. /\ Proper(x) /\ x.th = Now.th /\ x.coord = Now.coord /\ x.gate = Now.gate
         /\ x.nextId = Now.nextId /\ x.broker = Now.broker /\ x.route = Now.route
         /\ x.removal = h.removal /\ x.host = h.host
    <2>1. CASE ok \/ ~can
      <3>1. x = h  BY <2>1
      <3>. QED  BY <1>8, <3>1 DEF Halted
    <2>2. CASE ~(ok \/ ~can)
      <3>1. x = Spend(h) /\ h.budget > 0  BY <1>1, <1>7, <1>8, <2>2 DEF Halted
      <3>2. Proper(x) /\ Rewritten(h, x)  BY <1>8, <3>1, SpendFacts
      <3>. QED  BY <1>8, <3>2 DEF Halted, Rewritten
    <2>. QED  BY <2>1, <2>2
  <1>. HIDE DEF x
  <1>11. /\ x.removal.pc = Now.removal.pc
         /\ \/ x.removal.left = Now.removal.left
            \/ x.removal.left = Now.removal.left \ {"host"} /\ x.host = HostOff
    BY <1>8, <1>10 DEF Halted
  <1>12. Within(Now, x, c)  BY <1>10, <1>11 DEF Within
  <1>13. Fits(x, t) /\ t.s \in Sessions /\ Dated(x, t.s) /\ t.s.kind # "None"
    BY <1>3, <1>10, ThreadParts DEF Fits, Dated, Loaded
  <1>14. step = "device" /\ Clean(x) /\ ~refused /\ profile # "avc" /\ t.k > 1 =>
            x.host = HostOff
    <2>1. step = "device" => x.host = Now.host /\ (Clean(x) => Clean(Now))
      BY <1>8, <1>10 DEF Clean
    <2>. QED  BY <1>1, <1>3, <1>9, <2>1 DEF Off
  <1>15. step = "all" /\ ~refused => x.host = HostOff  BY <1>8, <1>9, <1>10
  <1>16. ASSUME coord.teardown  PROVE Inv(profile, AfterStop(x, c, t.s, "aborted"))
    <2>1. ~Sound(x) /\ x.coord.teardown  BY <1>1, <1>10, <1>16 DEF Sound
    <2>2. x.th[c] = t /\ "aborted" \in Statuses  BY <1>1, <1>10 DEF Statuses
    <2>. HIDE DEF t
    <2>. QED  BY <1>1, <1>2, <1>3, <1>10, <1>12, <1>13, <2>1, <2>2, AfterStopFacts
  <1>17. ASSUME t.k = Len(StopSteps(profile))  PROVE Inv(profile, StopEnd(g, c, refused))
    <2>1. /\ v \in Threads /\ v.pc = "halt" /\ v.op = t.op /\ v.s = t.s /\ v.cur = t.cur
          /\ v.id = t.id /\ v.route = t.route /\ v.after = t.after /\ v.clk = t.clk /\ v.k = t.k
      BY <1>1, <1>3 DEF Threads
    <2>2. (profile # "avc" => t.k = 2 /\ step = "device") /\ (profile = "avc" => step = "all")
      BY <1>17, StopShape
    <2>. HIDE DEF v, t, step
    <2>3. Fits(x, v)  BY <1>13, <2>1 DEF Fits, Dated
    <2>4. /\ Proper(g) /\ Aside(x, g) /\ g.gate = x.gate
          /\ g.th[c] = v /\ \A d \in Callers \ {c} : g.th[d] = x.th[d]
      BY <1>10, <2>3, GotoFacts
    <2>. HIDE DEF g
    <2>5. g.coord = x.coord /\ g.host = x.host /\ g.removal = x.removal  BY <2>4 DEF Aside
    <2>6. Within(Now, g, c) /\ (Clean(g) <=> Clean(x))  BY <1>12, <2>4, <2>5 DEF Within, Clean
    <2>7. Flow(profile, v)  BY <1>3, <1>1, <2>1 DEF Flow
    <2>8. Clean(g) /\ ~refused => g.host = HostOff  BY <1>14, <1>15, <2>2, <2>5, <2>6
    <2>. QED  BY <1>1, <1>2, <2>1, <2>4, <2>6, <2>7, <2>8, StopEndFacts
  <1>18. ASSUME t.k # Len(StopSteps(profile))  PROVE Inv(profile, Goto(x, c, u))
    <2>. DEFINE k == t.k + 1
                y == Goto(x, c, u)
    <2>1. t.k \in 1 .. Len(StopSteps(profile)) /\ Len(StopSteps(profile)) \in {2, 5}
      BY <1>1, <1>3, StopShape DEF Flow
    <2>2. k \in 1 .. Len(StopSteps(profile)) /\ k \in Nat  BY <1>18, <2>1
    <2>3. profile # "avc" => step = "all"
      <3>1. profile # "avc" => Len(StopSteps(profile)) = 2 /\ StopSteps(profile)[1] = "all"
        BY StopShape
      <3>2. Len(StopSteps(profile)) = 2 => t.k = 1  BY <1>18, <2>1
      <3>. QED  BY <3>1, <3>2
    <2>4. u = [t EXCEPT !.k = k, !.refused = refused]  BY <1>3 DEF Threads
    <2>. HIDE DEF k, t, step
    <2>5. /\ u \in Threads /\ u.pc = "halt" /\ u.op = t.op /\ u.s = t.s /\ u.cur = t.cur
          /\ u.id = t.id /\ u.route = t.route /\ u.after = t.after /\ u.clk = t.clk /\ u.k = k
          /\ u.refused = refused
      BY <1>1, <1>3, <2>2, <2>4 DEF Threads
    <2>. HIDE DEF u
    <2>6. Fits(x, u)  BY <1>13, <2>5 DEF Fits, Dated
    <2>7. /\ Proper(y) /\ Aside(x, y) /\ y.gate = x.gate
          /\ y.th[c] = u /\ \A d \in Callers \ {c} : y.th[d] = x.th[d]
      BY <1>10, <2>6, GotoFacts
    <2>8. Goto(x, c, u) = y  OBVIOUS
    <2>. HIDE DEF y
    <2>9. y.coord = x.coord /\ y.host = x.host /\ y.removal = x.removal  BY <2>7 DEF Aside
    <2>10. Within(Now, y, c)  BY <1>12, <2>7, <2>9 DEF Within
    <2>11. InBody(u) /\ Working(u) /\ Loaded(u) /\ Staged(profile, y, u)
      BY <1>13, <2>5 DEF InBody, Working, Loaded, Staged
    <2>12. Flow(profile, u)  BY <1>1, <1>3, <2>2, <2>5 DEF Flow
    <2>13. Off(profile, u) => y.host = HostOff  BY <1>15, <2>3, <2>5, <2>9 DEF Off
    <2>. QED  BY <1>1, <1>2, <2>7, <2>8, <2>10, <2>11, <2>12, <2>13, BodyStep
  <1>. QED  BY <1>6, <1>16, <1>17, <1>18, BecomeKeeps

-----------------------------------------------------------------------------
(* Steps outside the operation bodies *)

(* What such a step leaves alone: the host, the device, what the stored    *)
(* session says of them, what a removal left behind; the bus generation    *)
(* only grows, a teardown is never taken back.                             *)
Around(x, y) ==
    /\ y.host = x.host /\ y.device = x.device
    /\ y.session.kind = x.session.kind /\ y.session.flags = x.session.flags
    /\ y.session.route = x.session.route /\ y.session.applied = x.session.applied
    /\ x.route.epoch <= y.route.epoch
    /\ y.removal.left = x.removal.left
    /\ (x.coord.teardown => y.coord.teardown)
    /\ (x.removal.pc = "clear" => y.removal.pc = "clear")
    /\ Torn(y)

(* A thread that claims nothing about the host.                            *)
Parked(p, t) ==
    Loaded(t) /\ Flow(p, t) /\ ~Working(t) /\ ~Off(p, t) /\ t.pc \notin {"do", "check"}

(* The gate: kept, taken while free, or given back by the thread inside.   *)
Gated(x, y, c) ==
    \/ y.gate.active = x.gate.active /\ (InBody(y.th[c]) => InBody(x.th[c]))
    \/ ~x.gate.active /\ y.gate.active
    \/ InBody(x.th[c]) /\ ~InBody(y.th[c])

\* A step outside the bodies preserves the invariant: a bus reset makes every claim
\* about the current generation vacuous, for nobody has the new one yet.
LEMMA Outside ==
    ASSUME NEW p, NEW x, Inv(p, x), NEW y, Proper(y), NEW c \in Callers,
           \A d \in Callers \ {c} : y.th[d] = x.th[d],
           y.th[c] = x.th[c] \/ (~Working(x.th[c]) /\ Parked(p, y.th[c])),
           Around(x, y), Gated(x, y, c)
    PROVE  Inv(p, y)
  <1>1. /\ Proper(x) /\ Alone(x) /\ Stored(x) /\ Counted(x)
        /\ \A d \in Callers : Loaded(x.th[d]) /\ Flow(p, x.th[d]) /\ Claim(p, x, x.th[d])
    BY DEF Inv, Proper
  <1>2. x.route.epoch \in Nat /\ y.route.epoch \in Nat /\ x.session \in Sessions
        /\ \A d \in Callers : x.th[d].route \in Nat /\ x.th[d].route <= x.route.epoch
    BY <1>1, Parts, ThreadParts DEF Proper, Counted, Dated
  <1>3. x.session.route \in Nat /\ x.session.route <= x.route.epoch
    BY <1>1, <1>2 DEF Counted, Dated, Sessions
  <1>4. (Sole(y) <=> Sole(x)) /\ (Sound(y) => Sound(x)) /\ (Clean(y) => Clean(x))
    BY DEF Around, Sole, Sound, Clean
  <1>5. \A d \in Callers : Loaded(y.th[d]) /\ Flow(p, y.th[d])  BY <1>1 DEF Parked
  <1>6. Alone(y)
    <2>1. SUFFICES ASSUME Sole(y), NEW d \in Callers, InBody(y.th[d])
                   PROVE  y.gate.active /\ \A e \in Callers \ {d} : ~InBody(y.th[e])
      BY DEF Alone
    <2>2. \A e \in Callers : InBody(x.th[e]) =>
             x.gate.active /\ \A f \in Callers \ {e} : ~InBody(x.th[f])
      BY <1>1, <1>4, <2>1 DEF Alone
    <2>3. CASE y.gate.active = x.gate.active /\ (InBody(y.th[c]) => InBody(x.th[c]))
      <3>1. \A e \in Callers : InBody(y.th[e]) => InBody(x.th[e])  BY <2>3
      <3>. QED  BY <2>1, <2>2, <2>3, <3>1
    <2>4. CASE ~x.gate.active /\ y.gate.active
      <3>1. \A e \in Callers : ~InBody(x.th[e])  BY <2>2, <2>4
      <3>2. \A e \in Callers \ {c} : ~InBody(y.th[e])  BY <3>1
      <3>. QED  BY <2>1, <2>4, <3>2
    <2>5. CASE InBody(x.th[c]) /\ ~InBody(y.th[c])
      <3>1. \A e \in Callers : ~InBody(y.th[e])  BY <2>2, <2>5
      <3>. QED  BY <2>1, <3>1
    <2>. QED  BY <2>3, <2>4, <2>5 DEF Gated
  <1>7. ASSUME NEW d \in Callers  PROVE Claim(p, y, y.th[d])
    <2>1. CASE y.th[d] = x.th[d]
      <3>. DEFINE t == x.th[d]
      <3>1. t.route \in Nat /\ t.route <= x.route.epoch /\ Claim(p, x, t)  BY <1>1, <1>2
      <3>. HIDE DEF t
      <3>2. \A g : Achieved(x, t, g) => Achieved(y, t, g)
        <4>1. x.route.epoch # y.route.epoch => t.route # y.route.epoch
          BY <1>2, <3>1 DEF Around
        <4>. QED  BY <4>1 DEF Achieved, Around
      <3>3. Staged(p, x, t) => Staged(p, y, t)  BY <3>2 DEF Staged
      <3>. QED  BY <1>4, <2>1, <3>1, <3>3 DEF Claim, Around, t
    <2>2. CASE Parked(p, y.th[d])
      BY <2>2 DEF Parked, Claim, Staged
    <2>. QED  BY <2>1, <2>2
  <1>8. Stored(y)
    <2>1. Still(y) => Still(x)  BY DEF Still
    <2>2. Truthful(x) => Truthful(y)
      <3>1. x.route.epoch # y.route.epoch => x.session.route # y.route.epoch
        BY <1>2, <1>3 DEF Around
      <3>. QED  BY <3>1 DEF Truthful, Truth, Around
    <2>3. Rested(x) => Rested(y)  BY <1>4 DEF Rested, Around
    <2>. QED  BY <1>1, <1>4, <2>1, <2>2, <2>3 DEF Stored, Around
  <1>. QED  BY <1>5, <1>6, <1>7, <1>8 DEF Inv, Around

\* A state with other coordinator, gate, route, recovery and removal records.
Outer(x, k, g, r, q, v) ==
    [x EXCEPT !.coord = k, !.gate = g, !.route = r, !.recovery = q, !.removal = v]

\* Replacing them changes nothing else.
LEMMA OuterFacts ==
    ASSUME NEW x, Proper(x),
           NEW k \in [active : BOOLEAN, lost : BOOLEAN, teardown : BOOLEAN],
           NEW g \in [active : BOOLEAN, stop : BOOLEAN, lost : BOOLEAN],
           NEW r \in [live : BOOLEAN, epoch : Nat, nub : BOOLEAN], x.route.epoch <= r.epoch,
           NEW q \in [busy : BOOLEAN, queue : Seq(Nat)],
           NEW v \in [pc : {"idle", "cancel", "host", "clear", "drain", "down"},
                      wasActive : BOOLEAN, left : SUBSET {"operation", "host"}]
    PROVE  LET y == Outer(x, k, g, r, q, v)
           IN  /\ Proper(y)
               /\ y.coord = k /\ y.gate = g /\ y.route = r /\ y.recovery = q /\ y.removal = v
               /\ y.session = x.session /\ y.nextId = x.nextId /\ y.broker = x.broker
               /\ y.host = x.host /\ y.device = x.device /\ y.th = x.th /\ y.budget = x.budget
  <1>. DEFINE y == [x EXCEPT !.coord = k, !.gate = g, !.route = r, !.recovery = q,
                             !.removal = v]
  <1>1. Outer(x, k, g, r, q, v) = y  BY DEF Outer
  <1>2. x \in State /\ Counted(x) /\ x.route.epoch \in Nat /\ x.session \in Sessions
    BY Parts DEF Proper
  <1>3. y \in State  BY <1>2 DEF State
  <1>4. /\ y.coord = k /\ y.gate = g /\ y.route = r /\ y.recovery = q /\ y.removal = v
        /\ y.session = x.session /\ y.nextId = x.nextId /\ y.broker = x.broker
        /\ y.host = x.host /\ y.device = x.device /\ y.th = x.th /\ y.budget = x.budget
    BY <1>2 DEF State
  <1>. HIDE DEF y
  <1>5. r.epoch \in Nat /\ x.session.route \in Nat
        /\ \A d \in Callers : x.th[d].route \in Nat /\ x.th[d].s.route \in Nat
    BY <1>2, Parts, ThreadParts DEF Sessions
  <1>6. Counted(y)  BY <1>2, <1>4, <1>5 DEF Counted, Dated
  <1>. QED  BY <1>1, <1>3, <1>4, <1>6 DEF Proper

\* A thread that has just been called, or is idle again.
Called(pc, op) == [Idling EXCEPT !.pc = pc, !.op = op]

\* It is parked.
LEMMA CalledFacts ==
    ASSUME NEW p, NEW x, Proper(x), NEW pc \in {"idle", "entry"},
           NEW op \in {"none", "start", "stop", "recover"}, op = "stop" => pc = "entry"
    PROVE  LET u == Called(pc, op)
           IN  Fits(x, u) /\ Parked(p, u) /\ ~InBody(u)
  <1>. DEFINE u == Called(pc, op)
  <1>1. x.nextId \in Nat \ {0} /\ x.broker.next \in Nat \ {0} /\ x.route.epoch \in Nat
    BY Parts DEF Proper
  <1>2. /\ u \in Threads /\ u.pc = pc /\ u.op = op /\ u.cur = NoRequest
        /\ u.after = "none" /\ u.s = DuplexRestartSession /\ u.id = 0 /\ u.route = 0
    BY IdlingFacts DEF Called, Threads, Pcs
  <1>3. NoRequest.tok = 0  BY DEF NoRequest
  <1>4. Called(pc, op) = u  OBVIOUS
  <1>. HIDE DEF u
  <1>5. Fits(x, u)  BY <1>1, <1>2, <1>3, FreshSessions DEF Fits, Dated
  <1>6. Parked(p, u) /\ ~InBody(u)
    BY <1>2, FreshSessions DEF Parked, Loaded, Flow, Working, Off, InBody
  <1>. QED  BY <1>4, <1>5, <1>6

\* A thread that waits, enters its body, awaits its request or leaves.
Parking(t, pc, st) == [t EXCEPT !.pc = pc, !.st = st]

\* It is parked.
LEMMA ParkingFacts ==
    ASSUME NEW p, NEW x, NEW t, Fits(x, t), Loaded(t), Flow(p, t),
           NEW pc \in {"wait", "exit", "await", "body"}, NEW st \in Statuses,
           t.op = "stop" => pc # "await"
    PROVE  LET u == Parking(t, pc, st)
           IN  Fits(x, u) /\ Parked(p, u) /\ (InBody(u) <=> pc = "body")
  <1>. DEFINE u == Parking(t, pc, st)
  <1>1. /\ u \in Threads /\ u.pc = pc /\ u.op = t.op /\ u.s = t.s /\ u.cur = t.cur
        /\ u.after = t.after /\ u.id = t.id /\ u.route = t.route
    BY DEF Fits, Parking, Threads, Pcs
  <1>2. Parking(t, pc, st) = u  OBVIOUS
  <1>. HIDE DEF u
  <1>3. Fits(x, u)  BY <1>1 DEF Fits, Dated
  <1>4. Parked(p, u) /\ (InBody(u) <=> pc = "body")
    BY <1>1 DEF Parked, Loaded, Flow, Working, Off, InBody
  <1>. QED  BY <1>2, <1>3, <1>4

\* The types of the variables, from the invariant.
LEMMA NowTypes ==
    ASSUME Inv(profile, Now)
    PROVE  /\ Proper(Now) /\ Now \in State /\ Torn(Now)
           /\ coord \in [active : BOOLEAN, lost : BOOLEAN, teardown : BOOLEAN]
           /\ gate \in [active : BOOLEAN, stop : BOOLEAN, lost : BOOLEAN]
           /\ route \in [live : BOOLEAN, epoch : Nat, nub : BOOLEAN]
           /\ recovery \in [busy : BOOLEAN, queue : Seq(Nat)]
           /\ removal \in [pc : {"idle", "cancel", "host", "clear", "drain", "down"},
                           wasActive : BOOLEAN, left : SUBSET {"operation", "host"}]
           /\ budget \in Nat /\ route.epoch <= route.epoch
           /\ \A c \in Callers : Fits(Now, th[c]) /\ Loaded(th[c]) /\ Flow(profile, th[c])
  <1>1. Proper(Now) /\ Now \in State /\ Torn(Now)  BY DEF Inv, Proper
  <1>2. route \in [live : BOOLEAN, epoch : Nat, nub : BOOLEAN]  BY <1>1, Parts, NowParts
  <1>3. route.epoch <= route.epoch  BY <1>2
  <1>4. \A c \in Callers : Fits(Now, th[c])  BY <1>1, ThreadFits, NowParts
  <1>5. \A c \in Callers : Loaded(th[c]) /\ Flow(profile, th[c])  BY NowParts DEF Inv
  <1>. QED  BY <1>1, <1>2, <1>3, <1>4, <1>5, Parts, NowParts

\* A thread that changes outside its body, and nothing else.
LEMMA ThreadOutside ==
    ASSUME NEW p, NEW x, Inv(p, x), NEW y, Proper(y), NEW c \in Callers, NEW u,
           Fits(y, u), Parked(p, u), ~Working(x.th[c]), y.th = x.th, Around(x, y),
           \/ y.gate.active = x.gate.active /\ (InBody(u) => InBody(x.th[c]))
           \/ ~x.gate.active /\ y.gate.active
           \/ InBody(x.th[c]) /\ ~InBody(u)
    PROVE  Inv(p, Goto(y, c, u))
  <1>. DEFINE z == Goto(y, c, u)
  <1>1. /\ Proper(z) /\ Aside(y, z) /\ z.session = y.session /\ z.gate = y.gate
        /\ z.th[c] = u /\ \A d \in Callers \ {c} : z.th[d] = y.th[d]
    BY GotoFacts
  <1>2. Goto(y, c, u) = z  OBVIOUS
  <1>. HIDE DEF z
  <1>3. /\ z.host = y.host /\ z.device = y.device /\ z.route = y.route
        /\ z.coord = y.coord /\ z.removal = y.removal
    BY <1>1 DEF Aside
  <1>4. Around(x, z)  BY <1>1, <1>3 DEF Around, Torn
  <1>5. Gated(x, z, c)  BY <1>1 DEF Gated
  <1>. QED  BY <1>1, <1>2, <1>4, <1>5, Outside

\* A step that changes no thread.
LEMMA RecordsOutside ==
    ASSUME NEW p, NEW x, Inv(p, x), NEW y, Proper(y), y.th = x.th, Around(x, y),
           y.gate.active = x.gate.active
    PROVE  Inv(p, y)
  <1>1. "io" \in Callers  BY DEF Callers
  <1>2. Gated(x, y, "io")  BY DEF Gated
  <1>. QED  BY <1>1, <1>2, Outside

\* CoreAudio starts the stream.
LEMMA StartIOStep ==
    ASSUME Inv(profile, Now), StartIO
    PROVE  Inv(profile', Now')
  <1>. DEFINE b == Spend(Now)
              k == [coord EXCEPT !.active = TRUE]
              w == Outer(b, k, gate, route, recovery, removal)
              u == Called("entry", "start")
  <1>1. /\ th["io"].pc = "idle" /\ Now.budget > 0
        /\ Become(Goto([b EXCEPT !.coord.active = TRUE], "io", u))
    BY NowParts DEF StartIO, Called
  <1>2. /\ Proper(Now) /\ Torn(Now)
        /\ coord \in [active : BOOLEAN, lost : BOOLEAN, teardown : BOOLEAN]
    BY NowTypes
  <1>3. Proper(b) /\ Rewritten(Now, b) /\ b.session = Now.session /\ b.recovery = Now.recovery
    BY <1>1, <1>2, SpendFacts
  <1>. HIDE DEF b
  <1>4. /\ b \in State /\ b.coord = coord /\ b.gate = gate /\ b.route = route
        /\ b.recovery = recovery /\ b.removal = removal /\ b.th = th /\ b.host = host
        /\ b.device = device /\ b.session = session
    BY <1>3, NowParts DEF Proper, Rewritten
  <1>5. k \in [active : BOOLEAN, lost : BOOLEAN, teardown : BOOLEAN] /\ k.teardown = coord.teardown
    BY <1>2
  <1>6. [b EXCEPT !.coord.active = TRUE] = w  BY <1>4 DEF Outer, State
  <1>. HIDE DEF k
  <1>7. /\ Proper(w) /\ w.coord = k /\ w.gate = gate /\ w.route = route /\ w.removal = removal
        /\ w.session = session /\ w.host = host /\ w.device = device /\ w.th = th
    BY <1>3, <1>4, <1>5, OuterFacts, NowTypes
  <1>. HIDE DEF w
  <1>8. Fits(w, u) /\ Parked(profile, u) /\ ~InBody(u)  BY <1>7, CalledFacts
  <1>. HIDE DEF u
  <1>9. Around(Now, w) /\ w.th = Now.th /\ w.gate = Now.gate
    BY <1>2, <1>5, <1>7, NowParts, NowTypes DEF Around, Torn
  <1>10. "io" \in Callers /\ ~Working(Now.th["io"])  BY <1>1, NowParts DEF Callers, Working
  <1>11. Inv(profile, Goto(w, "io", u))  BY <1>7, <1>8, <1>9, <1>10, ThreadOutside
  <1>. QED  BY <1>1, <1>6, <1>11, BecomeKeeps

\* CoreAudio stops the stream.
LEMMA StopIOStep ==
    ASSUME Inv(profile, Now), StopIO
    PROVE  Inv(profile', Now')
  <1>. DEFINE b == Spend(Now)
              u == Called("entry", "stop")
  <1>1. th["io"].pc = "idle" /\ Now.budget > 0 /\ Become(Goto(b, "io", u))
    BY NowParts DEF StopIO, Called
  <1>2. Proper(Now) /\ Torn(Now)  BY NowTypes
  <1>3. Proper(b) /\ Rewritten(Now, b) /\ b.session = Now.session  BY <1>1, <1>2, SpendFacts
  <1>. HIDE DEF b
  <1>4. Fits(b, u) /\ Parked(profile, u) /\ ~InBody(u)  BY <1>3, CalledFacts
  <1>. HIDE DEF u
  <1>5. Around(Now, b) /\ b.th = Now.th /\ b.gate = Now.gate
    BY <1>2, <1>3, NowParts, NowTypes DEF Around, Torn, Rewritten
  <1>6. "io" \in Callers /\ ~Working(Now.th["io"])  BY <1>1, NowParts DEF Callers, Working
  <1>7. Inv(profile, Goto(b, "io", u))  BY <1>3, <1>4, <1>5, <1>6, ThreadOutside
  <1>. QED  BY <1>1, <1>7, BecomeKeeps

\* A state whose gate is different.
OnGate(x, g) == Outer(x, x.coord, g, x.route, x.recovery, x.removal)

\* It is outside the bodies.
LEMMA OnGateFacts ==
    ASSUME NEW x, Proper(x), Torn(x), NEW g \in [active : BOOLEAN, stop : BOOLEAN, lost : BOOLEAN]
    PROVE  LET y == OnGate(x, g)
           IN  /\ Proper(y) /\ Around(x, y) /\ y.gate = g /\ y.th = x.th /\ y.nextId = x.nextId
               /\ y.broker = x.broker /\ y.route = x.route
  <1>. DEFINE y == OnGate(x, g)
  <1>1. /\ x.coord \in [active : BOOLEAN, lost : BOOLEAN, teardown : BOOLEAN]
        /\ x.route \in [live : BOOLEAN, epoch : Nat, nub : BOOLEAN]
        /\ x.recovery \in [busy : BOOLEAN, queue : Seq(Nat)]
        /\ x.removal \in [pc : {"idle", "cancel", "host", "clear", "drain", "down"},
                          wasActive : BOOLEAN, left : SUBSET {"operation", "host"}]
    BY Parts DEF Proper
  <1>2. x.route.epoch <= x.route.epoch  BY <1>1
  <1>3. /\ Proper(y) /\ y.coord = x.coord /\ y.gate = g /\ y.route = x.route
        /\ y.removal = x.removal /\ y.session = x.session /\ y.host = x.host
        /\ y.device = x.device /\ y.th = x.th /\ y.nextId = x.nextId /\ y.broker = x.broker
    BY <1>1, <1>2, OuterFacts DEF OnGate
  <1>4. OnGate(x, g) = y  OBVIOUS
  <1>. HIDE DEF y
  <1>. QED  BY <1>2, <1>3, <1>4 DEF Around, Torn

\* Steps around the stream compose.
LEMMA AroundTrans ==
    ASSUME NEW x, Proper(x), NEW y, Proper(y), NEW z, Proper(z), Around(x, y), Around(y, z)
    PROVE  Around(x, z)
  <1>1. x.route.epoch \in Nat /\ y.route.epoch \in Nat /\ z.route.epoch \in Nat
    BY Parts DEF Proper
  <1>. QED  BY <1>1 DEF Around

\* A step beside the stream is around it.
LEMMA AsideAround ==
    ASSUME NEW x, Proper(x), Torn(x), NEW y, Aside(x, y)
    PROVE  Around(x, y)
  <1>1. x.route.epoch \in Nat  BY Parts DEF Proper
  <1>. QED  BY <1>1 DEF Aside, Around, Torn

\* A move is a parking with the status kept.
LEMMA MoveIsParking ==
    ASSUME NEW t \in Threads, NEW pc
    PROVE  Move(t, pc) = Parking(t, pc, t.st)
  BY DEF Move, Parking, Threads

\* A thread enters: it is sent away, or it waits, a stop having latched the gate.
LEMMA EnterStep ==
    ASSUME Inv(profile, Now), NEW c \in Callers, Enter(c)
    PROVE  Inv(profile', Now')
  <1>. DEFINE t == th[c]
              e == Parking(t, "exit", "aborted")
              m == Parking(t, "wait", t.st)
              g == [gate EXCEPT !.stop = TRUE]
              w == OnGate(Now, g)
  <1>1. /\ t.pc = "entry" /\ Now.th[c] = t /\ Now.gate = gate
        /\ \/ Become(Goto(Now, c, [t EXCEPT !.pc = "exit", !.st = "aborted"]))
           \/ Become(FailPending([At(Now, c, "wait") EXCEPT !.gate.stop = TRUE]))
           \/ Become(At(Now, c, "wait"))
    BY NowParts DEF Enter
  <1>2. /\ Proper(Now) /\ Now \in State /\ Torn(Now) /\ Fits(Now, t) /\ Loaded(t)
        /\ Flow(profile, t) /\ gate \in [active : BOOLEAN, stop : BOOLEAN, lost : BOOLEAN]
    BY NowTypes
  <1>3. t \in Threads /\ t.st \in Statuses /\ "aborted" \in Statuses
    BY <1>2, ThreadParts DEF Fits, Statuses
  <1>4. ~Working(t) /\ ~InBody(t)  BY <1>1 DEF Working, InBody
  <1>5. At(Now, c, "wait") = Goto(Now, c, m)
    <2>1. Move(t, "wait") = m  BY <1>3, MoveIsParking
    <2>. QED  BY <1>1, <1>2, <2>1, AtIsGoto
  <1>6. [Goto(Now, c, m) EXCEPT !.gate.stop = TRUE] = Goto(w, c, m)
    BY <1>1, <1>2 DEF Goto, OnGate, Outer, State
  <1>7. Goto(Now, c, [t EXCEPT !.pc = "exit", !.st = "aborted"]) = Goto(Now, c, e)
    BY DEF Parking
  <1>8. g \in [active : BOOLEAN, stop : BOOLEAN, lost : BOOLEAN] /\ g.active = gate.active
    BY <1>2
  <1>. HIDE DEF g, t
  <1>9. Fits(Now, e) /\ Parked(profile, e) /\ ~InBody(e)  BY <1>2, <1>3, ParkingFacts
  <1>10. Fits(Now, m) /\ Parked(profile, m) /\ ~InBody(m)  BY <1>2, <1>3, ParkingFacts
  <1>11. /\ Proper(w) /\ Around(Now, w) /\ w.gate = g /\ w.th = Now.th
         /\ w.nextId = Now.nextId /\ w.broker = Now.broker /\ w.route = Now.route
    BY <1>2, <1>8, OnGateFacts
  <1>. HIDE DEF e, m, w
  <1>12. Around(Now, Now) /\ Fits(w, m)
    <2>1. Aside(Now, Now)  BY DEF Aside
    <2>. QED  BY <1>2, <1>10, <1>11, <2>1, AsideAround DEF Fits, Dated
  <1>13. Inv(profile, Goto(Now, c, e)) /\ Inv(profile, Goto(Now, c, m))
    BY <1>1, <1>2, <1>4, <1>9, <1>10, <1>12, ThreadOutside
  <1>. DEFINE y == Goto(w, c, m)
  <1>14. Inv(profile, y)
    BY <1>1, <1>4, <1>8, <1>10, <1>11, <1>12, ThreadOutside
  <1>15. Goto(w, c, m) = y  OBVIOUS
  <1>. HIDE DEF y
  <1>16. Proper(y)  BY <1>14 DEF Inv
  <1>17. Inv(profile, FailPending(y))  BY <1>14, <1>16, FailPendingFacts, AsideInv
  <1>18. \/ Become(Goto(Now, c, e)) \/ Become(Goto(Now, c, m)) \/ Become(FailPending(y))
    BY <1>1, <1>5, <1>6, <1>7, <1>15
  <1>. QED  BY <1>13, <1>17, <1>18, BecomeKeeps

\* A thread takes the gate.
LEMMA TryAcquireGuidStep ==
    ASSUME Inv(profile, Now), NEW c \in Callers, TryAcquireGuid(c)
    PROVE  Inv(profile', Now')
  <1>. DEFINE t == th[c]
              m == Parking(t, "body", t.st)
              g == [gate EXCEPT !.active = TRUE]
              w == OnGate(Now, g)
  <1>1. /\ t.pc = "wait" /\ Now.th[c] = t /\ Now.gate = gate /\ ~Now.gate.active
        /\ Become([At(Now, c, "body") EXCEPT !.gate.active = TRUE])
    BY NowParts DEF TryAcquireGuid
  <1>2. /\ Proper(Now) /\ Now \in State /\ Torn(Now) /\ Fits(Now, t) /\ Loaded(t)
        /\ Flow(profile, t) /\ gate \in [active : BOOLEAN, stop : BOOLEAN, lost : BOOLEAN]
    BY NowTypes
  <1>3. t \in Threads /\ t.st \in Statuses  BY <1>2, ThreadParts DEF Fits
  <1>4. ~Working(t)  BY <1>1 DEF Working
  <1>5. At(Now, c, "body") = Goto(Now, c, m)
    <2>1. Move(t, "body") = m  BY <1>3, MoveIsParking
    <2>. QED  BY <1>1, <1>2, <2>1, AtIsGoto
  <1>6. [Goto(Now, c, m) EXCEPT !.gate.active = TRUE] = Goto(w, c, m)
    BY <1>1, <1>2 DEF Goto, OnGate, Outer, State
  <1>8. g \in [active : BOOLEAN, stop : BOOLEAN, lost : BOOLEAN] /\ g.active
    BY <1>2
  <1>. HIDE DEF g, t
  <1>10. Fits(Now, m) /\ Parked(profile, m)  BY <1>2, <1>3, ParkingFacts
  <1>11. /\ Proper(w) /\ Around(Now, w) /\ w.gate = g /\ w.th = Now.th
         /\ w.nextId = Now.nextId /\ w.broker = Now.broker /\ w.route = Now.route
    BY <1>2, <1>8, OnGateFacts
  <1>. HIDE DEF m, w
  <1>12. Fits(w, m)  BY <1>10, <1>11 DEF Fits, Dated
  <1>13. Inv(profile, Goto(w, c, m))
    BY <1>1, <1>4, <1>8, <1>10, <1>11, <1>12, ThreadOutside
  <1>. QED  BY <1>1, <1>5, <1>6, <1>13, BecomeKeeps

\* A thread gives up waiting for the gate.
LEMMA GiveUpWaitingStep ==
    ASSUME Inv(profile, Now), NEW c \in Callers, GiveUpWaiting(c)
    PROVE  Inv(profile', Now')
  <1>. DEFINE t == th[c]
              e == Parking(t, "exit", "timeout")
              b == gate.stop /\ t.op # "stop"
              g == [gate EXCEPT !.stop = b]
              w == OnGate(Now, g)
              x == Goto([Now EXCEPT !.gate.stop = @ /\ t.op # "stop"], c,
                        [t EXCEPT !.pc = "exit", !.st = "timeout"])
              y == Goto(w, c, e)
  <1>1. /\ t.pc = "wait" /\ Now.th[c] = t /\ Now.gate = gate /\ (coord.teardown \/ Now.budget > 0)
        /\ Become(IF coord.teardown THEN x ELSE Spend(x))
    BY NowParts DEF GiveUpWaiting
  <1>2. /\ Proper(Now) /\ Now \in State /\ Torn(Now) /\ Fits(Now, t) /\ Loaded(t)
        /\ Flow(profile, t) /\ gate \in [active : BOOLEAN, stop : BOOLEAN, lost : BOOLEAN]
    BY NowTypes
  <1>3. t \in Threads /\ "timeout" \in Statuses  BY <1>2 DEF Fits, Statuses
  <1>4. ~Working(t) /\ ~InBody(t)  BY <1>1 DEF Working, InBody
  <1>5. x = y
    <2>1. [Now EXCEPT !.gate.stop = @ /\ t.op # "stop"] = w
      BY <1>1, <1>2 DEF OnGate, Outer, State
    <2>. QED  BY <2>1 DEF Parking
  <1>6. g \in [active : BOOLEAN, stop : BOOLEAN, lost : BOOLEAN] /\ g.active = gate.active
    BY <1>2
  <1>. HIDE DEF x, g, t
  <1>7. Fits(Now, e) /\ Parked(profile, e) /\ ~InBody(e)  BY <1>2, <1>3, ParkingFacts
  <1>8. /\ Proper(w) /\ Around(Now, w) /\ w.gate = g /\ w.th = Now.th
        /\ w.nextId = Now.nextId /\ w.broker = Now.broker /\ w.route = Now.route
    BY <1>2, <1>6, OnGateFacts
  <1>9. w.budget = Now.budget  BY <1>2 DEF OnGate, Outer, State
  <1>. HIDE DEF e, w
  <1>10. Fits(w, e)  BY <1>7, <1>8 DEF Fits, Dated
  <1>11. Inv(profile, y)
    BY <1>1, <1>4, <1>6, <1>7, <1>8, <1>10, ThreadOutside
  <1>12. y.budget = Now.budget
    BY <1>8, <1>9 DEF Goto, Proper, State
  <1>. HIDE DEF y
  <1>13. ASSUME ~coord.teardown  PROVE Inv(profile, Spend(y))
    <2>1. Proper(y) /\ y.budget > 0  BY <1>1, <1>11, <1>12, <1>13 DEF Inv
    <2>. QED  BY <1>11, <2>1, SpendFacts, AsideInv DEF Rewritten
  <1>. QED  BY <1>1, <1>5, <1>11, <1>13, BecomeKeeps

\* The next token.
Bump(x) == [x EXCEPT !.broker.next = @ + 1]

\* Handing out a token changes nothing else.
LEMMA BumpFacts ==
    ASSUME NEW x, Proper(x), Torn(x)
    PROVE  LET y == Bump(x)
           IN  /\ Proper(y) /\ Around(x, y) /\ y.th = x.th /\ y.gate = x.gate
               /\ y.broker.next = x.broker.next + 1 /\ y.nextId = x.nextId /\ y.route = x.route
               /\ y.broker.pending = x.broker.pending
  <1>1. /\ x \in State /\ Counted(x) /\ x.route.epoch \in Nat
        /\ x.broker \in [pending : Requests, done : SUBSET [tok : Nat, st : Statuses],
                         next : Nat \ {0}, picked : Clocks]
    BY Parts DEF Proper
  <1>. DEFINE n == x.broker.next + 1
              y == [x EXCEPT !.broker.next = n]
  <1>2. Bump(x) = y  BY DEF Bump
  <1>3. n \in Nat \ {0} /\ x.broker.next \in Nat /\ \A i \in Nat : i < x.broker.next => i < n
    BY <1>1
  <1>4. n = x.broker.next + 1  OBVIOUS
  <1>. HIDE DEF n
  <1>5. y.broker = [x.broker EXCEPT !.next = n]  BY <1>1 DEF State
  <1>6. /\ y.broker \in [pending : Requests, done : SUBSET [tok : Nat, st : Statuses],
                         next : Nat \ {0}, picked : Clocks]
        /\ y.broker.next = n /\ y.broker.pending = x.broker.pending
        /\ y.broker.done = x.broker.done
    BY <1>1, <1>3, <1>5
  <1>7. y \in State  BY <1>1, <1>6 DEF State
  <1>8. /\ y.coord = x.coord /\ y.gate = x.gate /\ y.session = x.session /\ y.nextId = x.nextId
        /\ y.device = x.device /\ y.route = x.route /\ y.th = x.th /\ y.host = x.host
        /\ y.recovery = x.recovery /\ y.budget = x.budget /\ y.removal = x.removal
    BY <1>1 DEF State
  <1>. HIDE DEF y
  <1>9. Counted(y)
    <2>1. y.broker.pending.tok < y.broker.next
      BY <1>1, <1>3, <1>6, RequestParts DEF Counted
    <2>2. ASSUME NEW d \in y.broker.done  PROVE d.tok < y.broker.next
      BY <1>1, <1>3, <1>6 DEF Counted
    <2>3. ASSUME NEW c \in Callers  PROVE y.th[c].cur.tok < y.broker.next
      <3>1. x.th[c].cur.tok \in Nat  BY <1>1, Parts, ThreadParts, RequestParts
      <3>. QED  BY <1>1, <1>3, <1>6, <1>8, <3>1 DEF Counted
    <2>. QED  BY <1>1, <1>8, <2>1, <2>2, <2>3 DEF Counted, Dated
  <1>10. Proper(y)  BY <1>7, <1>8, <1>9 DEF Proper
  <1>11. Around(x, y)  BY <1>1, <1>8 DEF Around, Torn
  <1>. QED  BY <1>2, <1>4, <1>6, <1>8, <1>10, <1>11

\* Queueing a request is beside the stream.
LEMMA QueuePendingFacts ==
    ASSUME NEW x, Proper(x), NEW r \in Requests, r.tok < x.broker.next, r.clk \in Rates
    PROVE  LET y == QueuePending(x, r)
           IN  Proper(y) /\ Aside(x, y) /\ y.th = x.th
  <1>. DEFINE a == IF x.broker.pending = NoRequest THEN x
                   ELSE Complete(x, x.broker.pending.tok, "aborted")
              b == Pend(a, r)
              y == MarkPending(b, r.clk)
  <1>1. QueuePending(x, r) = y  BY DEF QueuePending, Pend
  <1>2. Proper(a) /\ Aside(x, a) /\ a.th = x.th
    <2>1. x.broker.pending \in Requests  BY Parts DEF Proper
    <2>2. x.broker.pending.tok \in Nat /\ x.broker.pending.tok < x.broker.next
          /\ "aborted" \in Statuses
      BY <2>1, RequestParts DEF Proper, Counted, Statuses
    <2>3. Proper(Complete(x, x.broker.pending.tok, "aborted"))
          /\ Aside(x, Complete(x, x.broker.pending.tok, "aborted"))
          /\ Complete(x, x.broker.pending.tok, "aborted").th = x.th
      BY <2>2, CompleteFacts
    <2>4. Aside(x, x)  BY DEF Aside
    <2>. QED  BY <2>3, <2>4
  <1>. HIDE DEF a
  <1>3. a.broker.next = x.broker.next  BY <1>2 DEF Aside
  <1>4. Proper(b) /\ Aside(a, b) /\ b.th = a.th  BY <1>2, <1>3, PendFacts
  <1>. HIDE DEF b
  <1>5. r.clk \in Clocks  BY DEF Clocks
  <1>6. Proper(y) /\ Aside(b, y) /\ y.th = b.th  BY <1>4, <1>5, MarkPendingFacts
  <1>. HIDE DEF y
  <1>. QED  BY <1>1, <1>2, <1>4, <1>6, AsideTrans

\* A rate change: it waits behind the operation that runs, or takes the gate.
LEMMA RequestClockConfigStep ==
    ASSUME Inv(profile, Now), NEW clk \in Rates, RequestClockConfig(clk)
    PROVE  Inv(profile', Now')
  <1>. DEFINE n == broker.next
              r == [tok |-> n, clk |-> clk]
              b == Spend(Now)
              x == Bump(b)
              t == [Idling EXCEPT !.op = "clock", !.tok = n]
              u == [t EXCEPT !.pc = "await"]
              v == [t EXCEPT !.pc = "top", !.cur = r]
              g == [gate EXCEPT !.active = TRUE]
              w == OnGate(x, g)
  <1>1. /\ th["clock"].pc = "idle" /\ Now.budget > 0 /\ Now.broker = broker /\ Now.gate = gate
        /\ r.tok = n
        /\ Become(IF gate.active THEN QueuePending(Goto(x, "clock", u), r)
                  ELSE [Goto(x, "clock", v) EXCEPT !.gate.active = TRUE])
    BY NowParts DEF RequestClockConfig, Bump
  <1>2. /\ Proper(Now) /\ Now \in State /\ Torn(Now)
        /\ gate \in [active : BOOLEAN, stop : BOOLEAN, lost : BOOLEAN]
        /\ n \in Nat \ {0}
    BY <1>1, NowTypes, Parts
  <1>3. Proper(b) /\ Aside(Now, b) /\ Rewritten(Now, b) /\ b.session = Now.session
    BY <1>1, <1>2, SpendFacts
  <1>. HIDE DEF b
  <1>4. Torn(b) /\ b.gate = gate /\ b.broker.next = n /\ b.th = Now.th
    BY <1>1, <1>2, <1>3 DEF Torn, Rewritten
  <1>5. /\ Proper(x) /\ Around(b, x) /\ x.th = Now.th /\ x.gate = gate
        /\ x.broker.next = n + 1
    BY <1>3, <1>4, BumpFacts
  <1>. HIDE DEF x
  <1>6. Around(Now, x) /\ Torn(x)
    <2>1. Around(Now, b)  BY <1>2, <1>3, AsideAround
    <2>. QED  BY <1>2, <1>3, <1>5, <2>1, AroundTrans DEF Around
  <1>7. /\ r \in Requests /\ r.tok = n /\ r.clk \in Rates /\ r.tok < x.broker.next
    <2>1. r \in Requests /\ r.tok = n /\ r.clk \in Rates  BY <1>2 DEF Requests
    <2>. QED  BY <1>2, <1>5, <2>1
  <1>8. g \in [active : BOOLEAN, stop : BOOLEAN, lost : BOOLEAN] /\ g.active  BY <1>2
  <1>9. [Goto(x, "clock", v) EXCEPT !.gate.active = TRUE] = Goto(w, "clock", v)
    <2>1. x \in State  BY <1>5 DEF Proper
    <2>. HIDE DEF v
    <2>. QED  BY <1>5, <2>1 DEF Goto, OnGate, Outer, State
  <1>. HIDE DEF r, n, g
  <1>10. /\ u \in Threads /\ u.pc = "await" /\ u.op = "clock" /\ u.cur = NoRequest
         /\ u.after = "none" /\ u.s = DuplexRestartSession /\ u.id = 0 /\ u.route = 0
    BY <1>2, IdlingFacts DEF Threads, Pcs
  <1>11. /\ v \in Threads /\ v.pc = "top" /\ v.op = "clock" /\ v.cur = r
         /\ v.after = "none" /\ v.s = DuplexRestartSession /\ v.id = 0 /\ v.route = 0
    BY <1>2, <1>7, IdlingFacts DEF Threads, Pcs
  <1>. HIDE DEF t, u, v
  <1>12. x.nextId \in Nat \ {0} /\ x.broker.next \in Nat \ {0} /\ x.route.epoch \in Nat
    BY <1>5, Parts DEF Proper
  <1>13. Fits(x, u) /\ Parked(profile, u) /\ ~InBody(u)
    <2>1. NoRequest.tok = 0  BY DEF NoRequest
    <2>2. Fits(x, u)  BY <1>10, <1>12, <2>1, FreshSessions DEF Fits, Dated
    <2>3. Parked(profile, u) /\ ~InBody(u)
      BY <1>10, FreshSessions DEF Parked, Loaded, Flow, Working, Off, InBody
    <2>. QED  BY <2>2, <2>3
  <1>14. Fits(x, v) /\ Parked(profile, v)
    <2>1. Fits(x, v)  BY <1>7, <1>11, <1>12, FreshSessions DEF Fits, Dated
    <2>2. Parked(profile, v)
      BY <1>7, <1>11, FreshSessions DEF Parked, Loaded, Flow, Working, Off
    <2>. QED  BY <2>1, <2>2
  <1>15. "clock" \in Callers /\ ~Working(Now.th["clock"])
    BY <1>1, NowParts DEF Callers, Working
  <1>16. CASE gate.active
    <2>. DEFINE y == Goto(x, "clock", u)
    <2>1. Inv(profile, y)  BY <1>1, <1>5, <1>6, <1>13, <1>15, ThreadOutside
    <2>2. Become(QueuePending(y, r))  BY <1>1, <1>16
    <2>3. y.broker = x.broker  BY <1>5, <1>13, <1>15, GotoFacts
    <2>. HIDE DEF y
    <2>4. Proper(y)  BY <2>1 DEF Inv
    <2>5. Inv(profile, QueuePending(y, r))
      BY <1>7, <2>1, <2>3, <2>4, QueuePendingFacts, AsideInv
    <2>. QED  BY <2>2, <2>5, BecomeKeeps
  <1>17. CASE ~gate.active
    <2>1. /\ Proper(w) /\ Around(x, w) /\ w.gate = g /\ w.th = x.th
          /\ w.nextId = x.nextId /\ w.broker = x.broker /\ w.route = x.route
      BY <1>5, <1>6, <1>8, OnGateFacts
    <2>. HIDE DEF w
    <2>2. Around(Now, w)  BY <1>2, <1>5, <1>6, <2>1, AroundTrans
    <2>3. Fits(w, v)  BY <1>14, <2>1 DEF Fits, Dated
    <2>4. Inv(profile, Goto(w, "clock", v))
      BY <1>1, <1>5, <1>8, <1>14, <1>15, <1>17, <2>1, <2>2, <2>3, ThreadOutside
    <2>. QED  BY <1>1, <1>9, <1>17, <2>4, BecomeKeeps
  <1>. QED  BY <1>16, <1>17

\* The records around the stream have their types.
LEMMA RecordTypes ==
    ASSUME NEW p, NEW x, Inv(p, x)
    PROVE  /\ x \in State /\ Proper(x) /\ Torn(x)
           /\ x.coord \in [active : BOOLEAN, lost : BOOLEAN, teardown : BOOLEAN]
           /\ x.gate \in [active : BOOLEAN, stop : BOOLEAN, lost : BOOLEAN]
           /\ x.route \in [live : BOOLEAN, epoch : Nat, nub : BOOLEAN]
           /\ x.route.epoch <= x.route.epoch
           /\ x.recovery \in [busy : BOOLEAN, queue : Seq(Nat)]
           /\ x.removal \in [pc : {"idle", "cancel", "host", "clear", "drain", "down"},
                             wasActive : BOOLEAN, left : SUBSET {"operation", "host"}]
  <1>1. x \in State /\ Proper(x) /\ Torn(x)  BY DEF Inv, Proper
  <1>2. x.route \in [live : BOOLEAN, epoch : Nat, nub : BOOLEAN]  BY <1>1, Parts
  <1>3. x.route.epoch <= x.route.epoch  BY <1>2
  <1>. QED  BY <1>1, <1>2, <1>3, Parts

\* Changing these records preserves the invariant, when the gate, what a removal left
\* and a teardown stay, and a session about to be cleared stays about to be cleared.
LEMMA OuterInv ==
    ASSUME NEW p, NEW x, Inv(p, x),
           NEW k \in [active : BOOLEAN, lost : BOOLEAN, teardown : BOOLEAN],
           NEW g \in [active : BOOLEAN, stop : BOOLEAN, lost : BOOLEAN],
           NEW r \in [live : BOOLEAN, epoch : Nat, nub : BOOLEAN], x.route.epoch <= r.epoch,
           NEW q \in [busy : BOOLEAN, queue : Seq(Nat)],
           NEW v \in [pc : {"idle", "cancel", "host", "clear", "drain", "down"},
                      wasActive : BOOLEAN, left : SUBSET {"operation", "host"}],
           g.active = x.gate.active, v.left = x.removal.left,
           x.coord.teardown => k.teardown, x.removal.pc = "clear" => v.pc = "clear",
           v.pc \in {"drain", "down"} => k.teardown
    PROVE  Inv(p, Outer(x, k, g, r, q, v))
  <1>. DEFINE y == Outer(x, k, g, r, q, v)
  <1>1. Proper(x)  BY RecordTypes
  <1>2. /\ Proper(y) /\ y.coord = k /\ y.gate = g /\ y.route = r /\ y.removal = v
        /\ y.session = x.session /\ y.host = x.host /\ y.device = x.device /\ y.th = x.th
    BY <1>1, OuterFacts
  <1>. HIDE DEF y
  <1>3. Around(x, y)  BY <1>2 DEF Around, Torn
  <1>4. Inv(p, y)  BY <1>2, <1>3, RecordsOutside
  <1>. QED  BY <1>4 DEF y

\* A thread that goes idle.
LEMMA IdleAgain ==
    ASSUME NEW p, NEW x, Inv(p, x), NEW c \in Callers, ~InBody(x.th[c])
    PROVE  Inv(p, Goto(x, c, Idling)) /\ Goto(x, c, Idling).budget = x.budget
           /\ Goto(x, c, Idling).broker = x.broker
  <1>1. Proper(x) /\ Torn(x) /\ x \in State  BY RecordTypes
  <1>2. "idle" \in {"idle", "entry"} /\ "none" \in {"none", "start", "stop", "recover"}  OBVIOUS
  <1>3. Called("idle", "none") = Idling  BY IdlingFacts DEF Called, Threads
  <1>4. Fits(x, Idling) /\ Parked(p, Idling) /\ ~InBody(Idling)
    BY <1>1, <1>2, <1>3, CalledFacts
  <1>5. Aside(x, x)  BY DEF Aside
  <1>6. Around(x, x)  BY <1>1, <1>5, AsideAround
  <1>7. ~Working(x.th[c])  BY OutsideFacts
  <1>8. Inv(p, Goto(x, c, Idling))  BY <1>1, <1>4, <1>6, <1>7, ThreadOutside
  <1>9. Goto(x, c, Idling).budget = x.budget  BY <1>1 DEF Goto, State
  <1>10. Goto(x, c, Idling).broker = x.broker  BY <1>1 DEF Goto, State
  <1>. QED  BY <1>8, <1>9, <1>10

\* A caller picks its answer up, or stops polling for it.
LEMMA AwaitClockStep ==
    ASSUME Inv(profile, Now), AwaitClock
    PROVE  Inv(profile', Now')
  <1>. DEFINE mine == {d \in broker.done : d.tok = th["clock"].tok}
              x == Goto(Now, "clock", Idling)
  <1>1. /\ th["clock"].pc = "await" /\ Now.budget = budget
        /\ \/ Become([x EXCEPT !.broker.done = @ \ mine])
           \/ Become(x)
           \/ budget > 0 /\ Become(Spend(x))
    BY NowParts DEF AwaitClock
  <1>2. "clock" \in Callers /\ ~InBody(Now.th["clock"])  BY <1>1, NowParts DEF Callers, InBody
  <1>3. Inv(profile, x) /\ x.budget = budget  BY <1>1, <1>2, IdleAgain
  <1>. HIDE DEF x, mine
  <1>4. Proper(x) /\ x \in State /\ Counted(x)  BY <1>3 DEF Inv, Proper
  <1>5. budget > 0 => Inv(profile, Spend(x))
    BY <1>3, <1>4, SpendFacts, AsideInv DEF Rewritten
  <1>6. Inv(profile, [x EXCEPT !.broker.done = @ \ mine])
    <2>. DEFINE f == x.broker.done \ mine
                y == [x EXCEPT !.broker.done = f]
    <2>1. x.broker \in [pending : Requests, done : SUBSET [tok : Nat, st : Statuses],
                        next : Nat \ {0}, picked : Clocks]
      BY <1>4, Parts
    <2>2. f \in SUBSET [tok : Nat, st : Statuses] /\ f \subseteq x.broker.done  BY <2>1
    <2>3. [x EXCEPT !.broker.done = @ \ mine] = y  OBVIOUS
    <2>. HIDE DEF f
    <2>4. y.broker = [x.broker EXCEPT !.done = f]  BY <1>4 DEF State
    <2>5. /\ y.broker \in [pending : Requests, done : SUBSET [tok : Nat, st : Statuses],
                           next : Nat \ {0}, picked : Clocks]
          /\ y.broker.next = x.broker.next /\ y.broker.pending = x.broker.pending
          /\ y.broker.done = f
      BY <2>1, <2>2, <2>4
    <2>6. y \in State  BY <1>4, <2>5 DEF State
    <2>7. /\ y.coord = x.coord /\ y.gate = x.gate /\ y.session = x.session /\ y.nextId = x.nextId
          /\ y.device = x.device /\ y.route = x.route /\ y.th = x.th /\ y.host = x.host
          /\ y.removal = x.removal
      BY <1>4 DEF State
    <2>. HIDE DEF y
    <2>8. Counted(y)  BY <1>4, <2>2, <2>5, <2>7 DEF Counted, Dated
    <2>9. Proper(y) /\ Aside(x, y)  BY <1>4, <2>5, <2>6, <2>7, <2>8 DEF Proper, Aside
    <2>. QED  BY <1>3, <2>3, <2>7, <2>9, AsideInv
  <1>. QED  BY <1>1, <1>3, <1>5, <1>6, BecomeKeeps

\* A thread gives the gate back.
LEMMA ReleaseGuidStep ==
    ASSUME Inv(profile, Now), NEW c \in Callers, ReleaseGuid(c)
    PROVE  Inv(profile', Now')
  <1>. DEFINE t == th[c]
              pc == IF t.op = "clock" THEN "await" ELSE "exit"
              m == Parking(t, pc, t.st)
              g == [gate EXCEPT !.active = FALSE]
              w == OnGate(Now, g)
  <1>1. /\ t.pc = "release" /\ Now.th[c] = t /\ Now.gate = gate
        /\ Become([At(Now, c, pc) EXCEPT !.gate.active = FALSE])
    BY NowParts DEF ReleaseGuid
  <1>2. /\ Proper(Now) /\ Now \in State /\ Torn(Now) /\ Fits(Now, t) /\ Loaded(t)
        /\ Flow(profile, t) /\ gate \in [active : BOOLEAN, stop : BOOLEAN, lost : BOOLEAN]
    BY NowTypes
  <1>3. t \in Threads /\ t.st \in Statuses  BY <1>2, ThreadParts DEF Fits
  <1>4. ~Working(t) /\ InBody(t)  BY <1>1 DEF Working, InBody
  <1>5. pc \in {"wait", "exit", "await", "body"} /\ pc # "body" /\ (t.op = "stop" => pc # "await")
    OBVIOUS
  <1>. HIDE DEF pc
  <1>6. At(Now, c, pc) = Goto(Now, c, m)
    <2>1. Move(t, pc) = m  BY <1>3, MoveIsParking
    <2>. QED  BY <1>1, <1>2, <2>1, AtIsGoto
  <1>7. [Goto(Now, c, m) EXCEPT !.gate.active = FALSE] = Goto(w, c, m)
    BY <1>1, <1>2 DEF Goto, OnGate, Outer, State
  <1>8. g \in [active : BOOLEAN, stop : BOOLEAN, lost : BOOLEAN]  BY <1>2
  <1>. HIDE DEF g, t
  <1>10. Fits(Now, m) /\ Parked(profile, m) /\ ~InBody(m)  BY <1>2, <1>3, <1>5, ParkingFacts
  <1>11. /\ Proper(w) /\ Around(Now, w) /\ w.gate = g /\ w.th = Now.th
         /\ w.nextId = Now.nextId /\ w.broker = Now.broker /\ w.route = Now.route
    BY <1>2, <1>8, OnGateFacts
  <1>. HIDE DEF m, w
  <1>12. Fits(w, m)  BY <1>10, <1>11 DEF Fits, Dated
  <1>13. Inv(profile, Goto(w, c, m))
    BY <1>1, <1>4, <1>10, <1>11, <1>12, ThreadOutside
  <1>. QED  BY <1>1, <1>6, <1>7, <1>13, BecomeKeeps

\* The caller acts on the status.
LEMMA ExitStep ==
    ASSUME Inv(profile, Now), NEW c \in Callers, Exit(c)
    PROVE  Inv(profile', Now')
  <1>. DEFINE x == Goto(Now, c, Idling)
  <1>1. /\ th[c].pc = "exit"
        /\ \/ Become([x EXCEPT !.coord.active = FALSE])
           \/ Become([x EXCEPT !.recovery.busy = FALSE])
           \/ Become(x)
    BY DEF Exit
  <1>2. ~InBody(Now.th[c])  BY <1>1, NowParts DEF InBody
  <1>3. Inv(profile, x)  BY <1>2, IdleAgain
  <1>. HIDE DEF x
  <1>. DEFINE k == [x.coord EXCEPT !.active = FALSE]
              q == [x.recovery EXCEPT !.busy = FALSE]
  <1>4. /\ x \in State /\ Torn(x)
        /\ x.coord \in [active : BOOLEAN, lost : BOOLEAN, teardown : BOOLEAN]
        /\ x.gate \in [active : BOOLEAN, stop : BOOLEAN, lost : BOOLEAN]
        /\ x.route \in [live : BOOLEAN, epoch : Nat, nub : BOOLEAN]
        /\ x.route.epoch <= x.route.epoch
        /\ x.recovery \in [busy : BOOLEAN, queue : Seq(Nat)]
        /\ x.removal \in [pc : {"idle", "cancel", "host", "clear", "drain", "down"},
                          wasActive : BOOLEAN, left : SUBSET {"operation", "host"}]
    BY <1>3, RecordTypes
  <1>5. k \in [active : BOOLEAN, lost : BOOLEAN, teardown : BOOLEAN]
        /\ k.teardown = x.coord.teardown
        /\ q \in [busy : BOOLEAN, queue : Seq(Nat)]
    BY <1>4
  <1>6. /\ [x EXCEPT !.coord.active = FALSE] =
              Outer(x, k, x.gate, x.route, x.recovery, x.removal)
        /\ [x EXCEPT !.recovery.busy = FALSE] =
              Outer(x, x.coord, x.gate, x.route, q, x.removal)
    BY <1>4 DEF Outer, State
  <1>. HIDE DEF k, q
  <1>7. Inv(profile, Outer(x, k, x.gate, x.route, x.recovery, x.removal))
    BY <1>3, <1>4, <1>5, OuterInv DEF Torn
  <1>8. Inv(profile, Outer(x, x.coord, x.gate, x.route, q, x.removal))
    BY <1>3, <1>4, <1>5, OuterInv DEF Torn
  <1>. QED  BY <1>1, <1>3, <1>6, <1>7, <1>8, BecomeKeeps

\* A recovery is queued, or not.
LEMMA QueueRecoveryInv ==
    ASSUME NEW p, NEW x, Inv(p, x), NEW fault \in Nat
    PROVE  Inv(p, QueueRecovery(x, fault))
  <1>. DEFINE l == Append(x.recovery.queue, fault)
              q == [x.recovery EXCEPT !.busy = TRUE, !.queue = l]
              y == Outer(x, x.coord, x.gate, x.route, q, x.removal)
  <1>1. /\ x \in State /\ Torn(x)
        /\ x.coord \in [active : BOOLEAN, lost : BOOLEAN, teardown : BOOLEAN]
        /\ x.gate \in [active : BOOLEAN, stop : BOOLEAN, lost : BOOLEAN]
        /\ x.route \in [live : BOOLEAN, epoch : Nat, nub : BOOLEAN]
        /\ x.route.epoch <= x.route.epoch
        /\ x.recovery \in [busy : BOOLEAN, queue : Seq(Nat)]
        /\ x.removal \in [pc : {"idle", "cancel", "host", "clear", "drain", "down"},
                          wasActive : BOOLEAN, left : SUBSET {"operation", "host"}]
    BY RecordTypes
  <1>2. [x EXCEPT !.recovery.busy = TRUE, !.recovery.queue = Append(@, fault)] = y
    BY <1>1 DEF Outer, State
  <1>3. l \in Seq(Nat)  BY <1>1
  <1>. HIDE DEF l
  <1>4. q \in [busy : BOOLEAN, queue : Seq(Nat)]  BY <1>1, <1>3
  <1>. HIDE DEF q
  <1>5. Inv(p, y)  BY <1>1, <1>4, OuterInv DEF Torn
  <1>. HIDE DEF y
  <1>6. QueueRecovery(x, fault) \in {x, y}  BY <1>2 DEF QueueRecovery
  <1>. QED  BY <1>5, <1>6

\* A runtime fault is reported: lost timing or an inconsistent cycle.
LEMMA RuntimeFaultStep ==
    ASSUME Inv(profile, Now), TimingLoss \/ CycleInconsistent
    PROVE  Inv(profile', Now')
  <1>1. Now.budget > 0 /\ Become(QueueRecovery(Spend(Now), session.id))
    BY NowParts DEF TimingLoss, CycleInconsistent
  <1>2. Proper(Now) /\ session.id \in Nat
    <2>1. Proper(Now) /\ session \in Sessions  BY NowTypes, Parts, NowParts
    <2>. QED  BY <2>1 DEF Sessions
  <1>3. Inv(profile, Spend(Now))  BY <1>1, <1>2, SpendFacts, AsideInv DEF Rewritten
  <1>4. Inv(profile, QueueRecovery(Spend(Now), session.id))  BY <1>2, <1>3, QueueRecoveryInv
  <1>. QED  BY <1>1, <1>4, BecomeKeeps

\* A recovery block runs: dropped, or a call of the coordinator.
LEMMA RunRecoveryBlockStep ==
    ASSUME Inv(profile, Now), RunRecoveryBlock
    PROVE  Inv(profile', Now')
  <1>. DEFINE l == Tail(recovery.queue)
              q == [recovery EXCEPT !.queue = l]
              d == [recovery EXCEPT !.queue = l, !.busy = FALSE]
              x == Outer(Now, coord, gate, route, q, removal)
              y == Outer(Now, coord, gate, route, d, removal)
              u == Called("entry", "recover")
  <1>1. /\ th["recovery"].pc = "idle" /\ recovery.queue # <<>>
        /\ \/ Become([[Now EXCEPT !.recovery.queue = Tail(@)] EXCEPT !.recovery.busy = FALSE])
           \/ Become(Goto([Now EXCEPT !.recovery.queue = Tail(@)], "recovery", u))
    BY DEF RunRecoveryBlock, Called
  <1>2. /\ Proper(Now) /\ Now \in State /\ Torn(Now)
        /\ coord \in [active : BOOLEAN, lost : BOOLEAN, teardown : BOOLEAN]
        /\ gate \in [active : BOOLEAN, stop : BOOLEAN, lost : BOOLEAN]
        /\ route \in [live : BOOLEAN, epoch : Nat, nub : BOOLEAN]
        /\ route.epoch <= route.epoch
        /\ recovery \in [busy : BOOLEAN, queue : Seq(Nat)]
        /\ removal \in [pc : {"idle", "cancel", "host", "clear", "drain", "down"},
                        wasActive : BOOLEAN, left : SUBSET {"operation", "host"}]
    BY NowTypes
  <1>3. l \in Seq(Nat)  BY <1>1, <1>2
  <1>4. [Now EXCEPT !.recovery.queue = Tail(@)] = x
        /\ [[Now EXCEPT !.recovery.queue = Tail(@)] EXCEPT !.recovery.busy = FALSE] = y
    BY <1>2, NowParts DEF Outer, State
  <1>. HIDE DEF l
  <1>5. q \in [busy : BOOLEAN, queue : Seq(Nat)] /\ d \in [busy : BOOLEAN, queue : Seq(Nat)]
    BY <1>2, <1>3
  <1>. HIDE DEF q, d
  <1>6. Inv(profile, x) /\ Inv(profile, y)
    BY <1>2, <1>5, NowParts, OuterInv DEF Torn
  <1>7. x.th = Now.th  BY <1>2 DEF Outer, State
  <1>. HIDE DEF x, y
  <1>8. Proper(x) /\ Torn(x)  BY <1>6 DEF Inv
  <1>9. Fits(x, u) /\ Parked(profile, u) /\ ~InBody(u)  BY <1>8, CalledFacts
  <1>. HIDE DEF u
  <1>10. "recovery" \in Callers /\ ~Working(x.th["recovery"])
    BY <1>1, <1>7, NowParts DEF Callers, Working
  <1>11. Aside(x, x)  BY DEF Aside
  <1>12. Around(x, x)  BY <1>8, <1>11, AsideAround
  <1>13. Inv(profile, Goto(x, "recovery", u))
    BY <1>6, <1>8, <1>9, <1>10, <1>12, ThreadOutside
  <1>. QED  BY <1>1, <1>4, <1>6, <1>13, BecomeKeeps

\* A bus reset: the route is gone, its generation counted up.
LEMMA BusResetStep ==
    ASSUME Inv(profile, Now), BusReset
    PROVE  Inv(profile', Now')
  <1>. DEFINE x == Spend(Now)
              n == route.epoch + 1
              r == [route EXCEPT !.live = FALSE, !.epoch = n]
              y == Outer(x, x.coord, x.gate, r, x.recovery, x.removal)
  <1>1. Now.budget > 0 /\ Become([x EXCEPT !.route.live = FALSE, !.route.epoch = @ + 1])
    BY NowParts DEF BusReset
  <1>2. Proper(Now)  BY NowTypes
  <1>3. Inv(profile, x) /\ x.route = route
    BY <1>1, <1>2, SpendFacts, AsideInv, NowParts DEF Rewritten
  <1>. HIDE DEF x
  <1>4. /\ x \in State /\ Torn(x)
        /\ x.coord \in [active : BOOLEAN, lost : BOOLEAN, teardown : BOOLEAN]
        /\ x.gate \in [active : BOOLEAN, stop : BOOLEAN, lost : BOOLEAN]
        /\ route \in [live : BOOLEAN, epoch : Nat, nub : BOOLEAN]
        /\ x.recovery \in [busy : BOOLEAN, queue : Seq(Nat)]
        /\ x.removal \in [pc : {"idle", "cancel", "host", "clear", "drain", "down"},
                          wasActive : BOOLEAN, left : SUBSET {"operation", "host"}]
    BY <1>3, RecordTypes
  <1>5. n \in Nat /\ route.epoch <= n  BY <1>4
  <1>6. [x EXCEPT !.route.live = FALSE, !.route.epoch = @ + 1] = y
    BY <1>3, <1>4 DEF Outer, State
  <1>. HIDE DEF n
  <1>7. r \in [live : BOOLEAN, epoch : Nat, nub : BOOLEAN] /\ r.epoch = n  BY <1>4, <1>5
  <1>. HIDE DEF r
  <1>8. Inv(profile, y)  BY <1>3, <1>4, <1>5, <1>7, OuterInv DEF Torn
  <1>. QED  BY <1>1, <1>6, <1>8, BecomeKeeps

\* The scan found the device again.
LEMMA DeviceResumedStep ==
    ASSUME Inv(profile, Now), DeviceResumed
    PROVE  Inv(profile', Now')
  <1>. DEFINE k == [coord EXCEPT !.lost = FALSE]
              g == [gate EXCEPT !.lost = FALSE]
              r == [route EXCEPT !.live = TRUE]
              x == [Now EXCEPT !.route.live = TRUE, !.gate.lost = FALSE, !.coord.lost = FALSE]
              y == Outer(Now, k, g, r, recovery, removal)
  <1>1. Become(x) \/ Become(QueueRecovery(x, 0))  BY DEF DeviceResumed
  <1>2. /\ Proper(Now) /\ Now \in State /\ Torn(Now)
        /\ coord \in [active : BOOLEAN, lost : BOOLEAN, teardown : BOOLEAN]
        /\ gate \in [active : BOOLEAN, stop : BOOLEAN, lost : BOOLEAN]
        /\ route \in [live : BOOLEAN, epoch : Nat, nub : BOOLEAN]
        /\ route.epoch <= route.epoch
        /\ recovery \in [busy : BOOLEAN, queue : Seq(Nat)]
        /\ removal \in [pc : {"idle", "cancel", "host", "clear", "drain", "down"},
                        wasActive : BOOLEAN, left : SUBSET {"operation", "host"}]
    BY NowTypes
  <1>3. x = y  BY <1>2, NowParts DEF Outer, State
  <1>4. /\ k \in [active : BOOLEAN, lost : BOOLEAN, teardown : BOOLEAN]
        /\ k.teardown = coord.teardown
    BY <1>2
  <1>5. /\ g \in [active : BOOLEAN, stop : BOOLEAN, lost : BOOLEAN] /\ g.active = gate.active
    BY <1>2
  <1>6. r \in [live : BOOLEAN, epoch : Nat, nub : BOOLEAN] /\ r.epoch = route.epoch
    BY <1>2
  <1>. HIDE DEF x, k, g, r
  <1>7. Inv(profile, y)  BY <1>2, <1>4, <1>5, <1>6, NowParts, OuterInv DEF Torn
  <1>. HIDE DEF y
  <1>8. Inv(profile, QueueRecovery(y, 0))  BY <1>7, QueueRecoveryInv
  <1>. QED  BY <1>1, <1>3, <1>7, <1>8, BecomeKeeps

\* The device is back after a removal.
LEMMA DeviceAddedStep ==
    ASSUME Inv(profile, Now), DeviceAdded
    PROVE  Inv(profile', Now')
  <1>. DEFINE x == Spend(Now)
              k == [coord EXCEPT !.lost = FALSE]
              g == [gate EXCEPT !.lost = FALSE]
              r == [route EXCEPT !.live = TRUE, !.nub = TRUE]
              y == Outer(x, k, g, r, recovery, removal)
  <1>1. Now.budget > 0 /\ Become([x EXCEPT !.route.live = TRUE, !.route.nub = TRUE,
                                           !.gate.lost = FALSE, !.coord.lost = FALSE])
    BY NowParts DEF DeviceAdded
  <1>2. /\ Proper(Now) /\ Now \in State /\ Torn(Now)
        /\ coord \in [active : BOOLEAN, lost : BOOLEAN, teardown : BOOLEAN]
        /\ gate \in [active : BOOLEAN, stop : BOOLEAN, lost : BOOLEAN]
        /\ route \in [live : BOOLEAN, epoch : Nat, nub : BOOLEAN]
        /\ route.epoch <= route.epoch
        /\ recovery \in [busy : BOOLEAN, queue : Seq(Nat)]
        /\ removal \in [pc : {"idle", "cancel", "host", "clear", "drain", "down"},
                        wasActive : BOOLEAN, left : SUBSET {"operation", "host"}]
    BY NowTypes
  <1>3. /\ Inv(profile, x) /\ x.route = route /\ x.coord = coord /\ x.gate = gate
        /\ x.removal = removal /\ x.recovery = recovery
    BY <1>1, <1>2, SpendFacts, AsideInv, NowParts DEF Rewritten
  <1>. HIDE DEF x
  <1>4. x \in State  BY <1>3, RecordTypes
  <1>5. [x EXCEPT !.route.live = TRUE, !.route.nub = TRUE, !.gate.lost = FALSE,
                  !.coord.lost = FALSE] = y
    BY <1>3, <1>4 DEF Outer, State
  <1>6. /\ k \in [active : BOOLEAN, lost : BOOLEAN, teardown : BOOLEAN]
        /\ k.teardown = coord.teardown
    BY <1>2
  <1>7. /\ g \in [active : BOOLEAN, stop : BOOLEAN, lost : BOOLEAN] /\ g.active = gate.active
    BY <1>2
  <1>8. r \in [live : BOOLEAN, epoch : Nat, nub : BOOLEAN] /\ r.epoch = route.epoch
    BY <1>2
  <1>. HIDE DEF k, g, r
  <1>9. Inv(profile, y)  BY <1>2, <1>3, <1>6, <1>7, <1>8, NowParts, OuterInv DEF Torn
  <1>. QED  BY <1>1, <1>5, <1>9, BecomeKeeps

\* The device disappears: the stream is forgotten, the removal begins.
LEMMA DeviceLostStep ==
    ASSUME Inv(profile, Now), DeviceLost
    PROVE  Inv(profile', Now')
  <1>. DEFINE x == IF route.live THEN Spend(Now) ELSE Now
              k == [x.coord EXCEPT !.lost = TRUE, !.active = FALSE]
              v == [x.removal EXCEPT !.pc = "cancel", !.wasActive = coord.active]
              y == Outer(x, k, x.gate, x.route, x.recovery, v)
  <1>1. /\ removal.pc = "idle" /\ (route.live => Now.budget > 0)
        /\ Become([x EXCEPT !.coord.lost = TRUE, !.coord.active = FALSE,
                            !.removal.pc = "cancel", !.removal.wasActive = coord.active])
    BY NowParts DEF DeviceLost
  <1>2. Proper(Now) /\ coord \in [active : BOOLEAN, lost : BOOLEAN, teardown : BOOLEAN]
    BY NowTypes
  <1>3. Inv(profile, x) /\ x.removal = removal
    <2>1. CASE route.live
      <3>1. x = Spend(Now)  BY <2>1
      <3>. QED  BY <1>1, <1>2, <2>1, <3>1, SpendFacts, AsideInv, NowParts DEF Rewritten
    <2>2. CASE ~route.live
      <3>1. x = Now  BY <2>2
      <3>. QED  BY <3>1, NowParts
    <2>. QED  BY <2>1, <2>2
  <1>. HIDE DEF x
  <1>4. /\ x \in State /\ Torn(x)
        /\ x.coord \in [active : BOOLEAN, lost : BOOLEAN, teardown : BOOLEAN]
        /\ x.gate \in [active : BOOLEAN, stop : BOOLEAN, lost : BOOLEAN]
        /\ x.route \in [live : BOOLEAN, epoch : Nat, nub : BOOLEAN]
        /\ x.recovery \in [busy : BOOLEAN, queue : Seq(Nat)]
        /\ x.removal \in [pc : {"idle", "cancel", "host", "clear", "drain", "down"},
                          wasActive : BOOLEAN, left : SUBSET {"operation", "host"}]
    BY <1>3, RecordTypes
  <1>5. x.route.epoch <= x.route.epoch  BY <1>4
  <1>6. [x EXCEPT !.coord.lost = TRUE, !.coord.active = FALSE,
                  !.removal.pc = "cancel", !.removal.wasActive = coord.active] = y
    BY <1>4 DEF Outer, State
  <1>7. /\ k \in [active : BOOLEAN, lost : BOOLEAN, teardown : BOOLEAN]
        /\ k.teardown = x.coord.teardown
    BY <1>4
  <1>8. /\ v \in [pc : {"idle", "cancel", "host", "clear", "drain", "down"},
                  wasActive : BOOLEAN, left : SUBSET {"operation", "host"}]
        /\ v.pc = "cancel" /\ v.left = x.removal.left
    BY <1>2, <1>4
  <1>. HIDE DEF k, v
  <1>9. Inv(profile, y)  BY <1>1, <1>3, <1>4, <1>5, <1>7, <1>8, OuterInv
  <1>. QED  BY <1>1, <1>6, <1>9, BecomeKeeps

\* The removal cancels what runs and what is queued.
LEMMA CancelRemoteDeviceStep ==
    ASSUME Inv(profile, Now), CancelRemoteDevice
    PROVE  Inv(profile', Now')
  <1>. DEFINE g == [gate EXCEPT !.lost = TRUE]
              q == [recovery EXCEPT !.busy = FALSE]
              pc == IF removal.wasActive THEN "host" ELSE "clear"
              v == [removal EXCEPT !.pc = pc]
              y == Outer(Now, coord, g, route, q, v)
  <1>1. /\ removal.pc = "cancel"
        /\ Become(FailPending([Now EXCEPT !.gate.lost = TRUE, !.recovery.busy = FALSE,
                                          !.removal.pc = pc]))
    BY DEF CancelRemoteDevice
  <1>2. /\ Proper(Now) /\ Now \in State /\ Torn(Now)
        /\ coord \in [active : BOOLEAN, lost : BOOLEAN, teardown : BOOLEAN]
        /\ gate \in [active : BOOLEAN, stop : BOOLEAN, lost : BOOLEAN]
        /\ route \in [live : BOOLEAN, epoch : Nat, nub : BOOLEAN]
        /\ route.epoch <= route.epoch
        /\ recovery \in [busy : BOOLEAN, queue : Seq(Nat)]
        /\ removal \in [pc : {"idle", "cancel", "host", "clear", "drain", "down"},
                        wasActive : BOOLEAN, left : SUBSET {"operation", "host"}]
    BY NowTypes
  <1>3. pc \in {"host", "clear"}  OBVIOUS
  <1>. HIDE DEF pc
  <1>4. [Now EXCEPT !.gate.lost = TRUE, !.recovery.busy = FALSE, !.removal.pc = pc] = y
    BY <1>2, NowParts DEF Outer, State
  <1>5. g \in [active : BOOLEAN, stop : BOOLEAN, lost : BOOLEAN] /\ g.active = gate.active
    BY <1>2
  <1>6. q \in [busy : BOOLEAN, queue : Seq(Nat)]  BY <1>2
  <1>7. /\ v \in [pc : {"idle", "cancel", "host", "clear", "drain", "down"},
                  wasActive : BOOLEAN, left : SUBSET {"operation", "host"}]
        /\ v.pc = pc /\ v.left = removal.left
    BY <1>2, <1>3
  <1>. HIDE DEF g, q, v
  <1>8. Inv(profile, y)  BY <1>1, <1>2, <1>3, <1>5, <1>6, <1>7, NowParts, OuterInv
  <1>. HIDE DEF y
  <1>9. Proper(y)  BY <1>8 DEF Inv
  <1>10. Inv(profile, FailPending(y))  BY <1>8, <1>9, FailPendingFacts, AsideInv
  <1>. QED  BY <1>1, <1>4, <1>10, BecomeKeeps

\* The service begins to go down.
LEMMA BeginTeardownStep ==
    ASSUME Inv(profile, Now), BeginTeardown
    PROVE  Inv(profile', Now')
  <1>. DEFINE x == Spend(Now)
              k == [x.coord EXCEPT !.teardown = TRUE]
              v == [x.removal EXCEPT !.pc = "drain"]
              y == Outer(x, k, x.gate, x.route, x.recovery, v)
  <1>1. /\ removal.pc = "idle" /\ Now.budget > 0
        /\ Become([x EXCEPT !.coord.teardown = TRUE, !.removal.pc = "drain"])
    BY NowParts DEF BeginTeardown
  <1>2. Proper(Now)  BY NowTypes
  <1>3. Inv(profile, x) /\ x.removal = removal
    BY <1>1, <1>2, SpendFacts, AsideInv, NowParts DEF Rewritten
  <1>. HIDE DEF x
  <1>4. /\ x \in State /\ Torn(x)
        /\ x.coord \in [active : BOOLEAN, lost : BOOLEAN, teardown : BOOLEAN]
        /\ x.gate \in [active : BOOLEAN, stop : BOOLEAN, lost : BOOLEAN]
        /\ x.route \in [live : BOOLEAN, epoch : Nat, nub : BOOLEAN]
        /\ x.recovery \in [busy : BOOLEAN, queue : Seq(Nat)]
        /\ x.removal \in [pc : {"idle", "cancel", "host", "clear", "drain", "down"},
                          wasActive : BOOLEAN, left : SUBSET {"operation", "host"}]
    BY <1>3, RecordTypes
  <1>5. x.route.epoch <= x.route.epoch  BY <1>4
  <1>6. [x EXCEPT !.coord.teardown = TRUE, !.removal.pc = "drain"] = y
    BY <1>4 DEF Outer, State
  <1>7. k \in [active : BOOLEAN, lost : BOOLEAN, teardown : BOOLEAN] /\ k.teardown
    BY <1>4
  <1>8. /\ v \in [pc : {"idle", "cancel", "host", "clear", "drain", "down"},
                  wasActive : BOOLEAN, left : SUBSET {"operation", "host"}]
        /\ v.pc = "drain" /\ v.left = x.removal.left
    BY <1>4
  <1>. HIDE DEF k, v
  <1>9. Inv(profile, y)  BY <1>1, <1>3, <1>4, <1>5, <1>7, <1>8, OuterInv
  <1>. QED  BY <1>1, <1>6, <1>9, BecomeKeeps

\* A stop of the host from outside the bodies, by a removal that will clear the session
\* or by the teardown: it releases the host, or the host was on.
LEMMA HostStops ==
    ASSUME NEW p, NEW x, Inv(p, x), NEW y, Proper(y), y.th = x.th, y.session = x.session,
           y.gate.active = x.gate.active, ~Sound(y), x.coord.teardown => y.coord.teardown,
           Torn(y),
           \/ /\ y.host = HostOff
              /\ y.removal.left \in {x.removal.left, x.removal.left \ {"host"}}
           \/ y.removal.left = x.removal.left /\ x.host # HostOff
    PROVE  Inv(p, y)
  <1>1. /\ Alone(x) /\ Stored(x)
        /\ \A d \in Callers : Loaded(x.th[d]) /\ Flow(p, x.th[d]) /\ Claim(p, x, x.th[d])
    BY DEF Inv
  <1>2. Sole(y) <=> Sole(x)  BY DEF Sole
  <1>3. Clean(y) /\ y.host # HostOff => Clean(x) /\ x.host # HostOff  BY DEF Clean
  <1>4. Alone(y)  BY <1>1, <1>2 DEF Alone
  <1>5. ASSUME NEW d \in Callers  PROVE Claim(p, y, y.th[d])
    BY <1>1, <1>3 DEF Claim
  <1>6. Stored(y)
    <2>1. Still(y) <=> Still(x)  BY DEF Still
    <2>2. Rested(x) => Rested(y)  BY <1>3 DEF Rested
    <2>. QED  BY <1>1, <1>2, <2>1, <2>2 DEF Stored
  <1>. QED  BY <1>1, <1>4, <1>5, <1>6 DEF Inv

\* The state behind such a stop.
LEMMA HostGone ==
    ASSUME NEW p, NEW x, Inv(p, x), NEW s, Proper(s), Halted(x, s),
           s.host = HostOff \/ (s.removal = x.removal /\ x.host # HostOff),
           NEW k \in [active : BOOLEAN, lost : BOOLEAN, teardown : BOOLEAN],
           k.teardown = x.coord.teardown,
           NEW v \in [pc : {"idle", "cancel", "host", "clear", "drain", "down"},
                      wasActive : BOOLEAN, left : SUBSET {"operation", "host"}],
           v.left = s.removal.left, v.pc = "clear" \/ (v.pc = "down" /\ k.teardown)
    PROVE  Inv(p, Outer(s, k, s.gate, s.route, s.recovery, v))
  <1>. DEFINE y == Outer(s, k, s.gate, s.route, s.recovery, v)
  <1>1. /\ s.gate \in [active : BOOLEAN, stop : BOOLEAN, lost : BOOLEAN]
        /\ s.route \in [live : BOOLEAN, epoch : Nat, nub : BOOLEAN]
        /\ s.recovery \in [busy : BOOLEAN, queue : Seq(Nat)]
    BY Parts DEF Proper
  <1>2. s.route.epoch <= s.route.epoch  BY <1>1
  <1>3. /\ Proper(y) /\ y.coord = k /\ y.gate = s.gate /\ y.removal = v
        /\ y.session = s.session /\ y.host = s.host /\ y.th = s.th
    BY <1>1, <1>2, OuterFacts
  <1>. HIDE DEF y
  <1>4. y.th = x.th /\ y.session = x.session /\ y.gate = x.gate  BY <1>3 DEF Halted
  <1>5. ~Sound(y) /\ Torn(y)  BY <1>3 DEF Sound, Torn
  <1>6. \/ /\ y.host = HostOff
           /\ y.removal.left \in {x.removal.left, x.removal.left \ {"host"}}
        \/ y.removal.left = x.removal.left /\ x.host # HostOff
    BY <1>3 DEF Halted
  <1>7. Inv(p, y)  BY <1>3, <1>4, <1>5, <1>6, HostStops
  <1>. QED  BY <1>7 DEF y

\* A context that may refuse to stop is on.
LEMMA RefusalFacts ==
    ASSUME Inv(profile, Now), MayRefuse(Now)
    PROVE  /\ Inv(profile, Spend(Now)) /\ Spend(Now).host # HostOff
           /\ Spend(Now).coord = coord /\ Spend(Now).removal = removal
  <1>1. Now.budget > 0 /\ "on" \in {Now.host.rx, Now.host.tx}  BY DEF MayRefuse
  <1>2. Now.host # HostOff  BY <1>1 DEF HostOff
  <1>3. Proper(Now)  BY NowTypes
  <1>. QED  BY <1>1, <1>2, <1>3, SpendFacts, AsideInv, NowParts DEF Rewritten

\* The removal stops the host, or fails to and goes on.
LEMMA StopHostTransportStep ==
    ASSUME Inv(profile, Now), StopHostTransport
    PROVE  Inv(profile', Now')
  <1>1. ASSUME NEW x, Inv(profile, x), NEW s, Proper(s), Halted(x, s),
               s.host = HostOff \/ (s.removal = x.removal /\ x.host # HostOff)
        PROVE  Inv(profile, [s EXCEPT !.removal.pc = "clear"])
    <2>. DEFINE v == [s.removal EXCEPT !.pc = "clear"]
    <2>1. /\ s \in State
          /\ s.coord \in [active : BOOLEAN, lost : BOOLEAN, teardown : BOOLEAN]
          /\ s.removal \in [pc : {"idle", "cancel", "host", "clear", "drain", "down"},
                            wasActive : BOOLEAN, left : SUBSET {"operation", "host"}]
      BY <1>1, Parts DEF Proper
    <2>2. [s EXCEPT !.removal.pc = "clear"] = Outer(s, s.coord, s.gate, s.route, s.recovery, v)
      BY <2>1 DEF Outer, State
    <2>3. /\ v \in [pc : {"idle", "cancel", "host", "clear", "drain", "down"},
                    wasActive : BOOLEAN, left : SUBSET {"operation", "host"}]
          /\ v.left = s.removal.left /\ v.pc = "clear"
      BY <2>1
    <2>. HIDE DEF v
    <2>4. s.coord = x.coord  BY <1>1 DEF Halted
    <2>. QED  BY <1>1, <2>1, <2>2, <2>3, <2>4, HostGone
  <1>2. Proper(Now)  BY NowTypes
  <1>3. CASE Become([StopAll(Now, {}) EXCEPT !.removal.pc = "clear"])
    <2>. DEFINE s == StopAll(Now, {})
    <2>1. Proper(s) /\ Halted(Now, s) /\ s.host = HostOff  BY <1>2, StopAllFacts
    <2>2. Become([s EXCEPT !.removal.pc = "clear"])  BY <1>3
    <2>. HIDE DEF s
    <2>3. Inv(profile, [s EXCEPT !.removal.pc = "clear"])  BY <1>1, <2>1
    <2>. QED  BY <2>2, <2>3, BecomeKeeps
  <1>4. ASSUME MayRefuse(Now), NEW stuck \in Stuck(Now),
               Become([StopAll(Spend(Now), stuck) EXCEPT !.removal.pc = "clear"])
        PROVE  Inv(profile', Now')
    <2>. DEFINE x == Spend(Now)
                s == StopAll(x, stuck)
    <2>1. Inv(profile, x) /\ x.host # HostOff  BY <1>4, RefusalFacts
    <2>2. Proper(x)  BY <2>1 DEF Inv
    <2>3. Become([s EXCEPT !.removal.pc = "clear"])  BY <1>4
    <2>. HIDE DEF x
    <2>0. stuck # {}  BY DEF Stuck
    <2>4. Proper(s) /\ Halted(x, s) /\ s.removal = x.removal  BY <2>0, <2>2, StopAllFacts
    <2>. HIDE DEF s
    <2>5. Inv(profile, [s EXCEPT !.removal.pc = "clear"])  BY <1>1, <2>1, <2>4
    <2>. QED  BY <2>3, <2>5, BecomeKeeps
  <1>. QED  BY <1>3, <1>4 DEF StopHostTransport

\* The teardown stops the host, or fails to.
LEMMA TeardownHostStep ==
    ASSUME Inv(profile, Now), TeardownHost
    PROVE  Inv(profile', Now')
  <1>1. ASSUME NEW x, Inv(profile, x), x.coord.teardown, NEW s, Proper(s), Halted(x, s),
               s.host = HostOff \/ (s.removal = x.removal /\ x.host # HostOff)
        PROVE  Inv(profile, [s EXCEPT !.coord.active = FALSE, !.removal.pc = "down"])
    <2>. DEFINE k == [s.coord EXCEPT !.active = FALSE]
                v == [s.removal EXCEPT !.pc = "down"]
    <2>1. /\ s \in State
          /\ s.coord \in [active : BOOLEAN, lost : BOOLEAN, teardown : BOOLEAN]
          /\ s.removal \in [pc : {"idle", "cancel", "host", "clear", "drain", "down"},
                            wasActive : BOOLEAN, left : SUBSET {"operation", "host"}]
      BY <1>1, Parts DEF Proper
    <2>2. [s EXCEPT !.coord.active = FALSE, !.removal.pc = "down"] =
             Outer(s, k, s.gate, s.route, s.recovery, v)
      BY <2>1 DEF Outer, State
    <2>3. /\ v \in [pc : {"idle", "cancel", "host", "clear", "drain", "down"},
                    wasActive : BOOLEAN, left : SUBSET {"operation", "host"}]
          /\ v.left = s.removal.left /\ v.pc = "down"
      BY <2>1
    <2>4. k \in [active : BOOLEAN, lost : BOOLEAN, teardown : BOOLEAN]
          /\ k.teardown = s.coord.teardown
      BY <2>1
    <2>. HIDE DEF k, v
    <2>5. s.coord = x.coord  BY <1>1 DEF Halted
    <2>. QED  BY <1>1, <2>2, <2>3, <2>4, <2>5, HostGone
  <1>2. Proper(Now) /\ Now.coord.teardown
    BY NowTypes, NowParts DEF TeardownHost, Torn
  <1>3. CASE Become([StopAll(Now, {}) EXCEPT !.coord.active = FALSE, !.removal.pc = "down"])
    <2>. DEFINE s == StopAll(Now, {})
    <2>1. Proper(s) /\ Halted(Now, s) /\ s.host = HostOff  BY <1>2, StopAllFacts
    <2>2. Become([s EXCEPT !.coord.active = FALSE, !.removal.pc = "down"])  BY <1>3
    <2>. HIDE DEF s
    <2>3. Inv(profile, [s EXCEPT !.coord.active = FALSE, !.removal.pc = "down"])
      BY <1>1, <1>2, <2>1
    <2>. QED  BY <2>2, <2>3, BecomeKeeps
  <1>4. ASSUME MayRefuse(Now), NEW stuck \in Stuck(Now),
               Become([StopAll(Spend(Now), stuck) EXCEPT !.coord.active = FALSE,
                                                         !.removal.pc = "down"])
        PROVE  Inv(profile', Now')
    <2>. DEFINE x == Spend(Now)
                s == StopAll(x, stuck)
    <2>1. Inv(profile, x) /\ x.host # HostOff /\ x.coord.teardown
      BY <1>2, <1>4, RefusalFacts, NowParts
    <2>2. Proper(x)  BY <2>1 DEF Inv
    <2>3. Become([s EXCEPT !.coord.active = FALSE, !.removal.pc = "down"])  BY <1>4
    <2>. HIDE DEF x
    <2>0. stuck # {}  BY DEF Stuck
    <2>4. Proper(s) /\ Halted(x, s) /\ s.removal = x.removal  BY <2>0, <2>2, StopAllFacts
    <2>. HIDE DEF s
    <2>5. Inv(profile, [s EXCEPT !.coord.active = FALSE, !.removal.pc = "down"])
      BY <1>1, <2>1, <2>4
    <2>. QED  BY <2>3, <2>5, BecomeKeeps
  <1>. QED  BY <1>3, <1>4 DEF TeardownHost

\* The removal retires the session and frees the gate.  What it leaves behind is
\* recorded, and when it leaves nothing no thread is inside a body and the host is off.
LEMMA ClearSessionStep ==
    ASSUME Inv(profile, Now), ClearSession
    PROVE  Inv(profile', Now')
  <1>. DEFINE l == removal.left \cup LeftBehind
              v == [pc |-> "idle", wasActive |-> FALSE, left |-> l]
              r == [live |-> FALSE, epoch |-> route.epoch + 1, nub |-> FALSE]
              b == [broker EXCEPT !.pending = NoRequest, !.done = {}, !.picked = 0]
              g == [gate EXCEPT !.active = FALSE, !.stop = FALSE]
              y == [Now EXCEPT !.route = r, !.session = NoSession, !.broker = b, !.gate = g,
                               !.removal = v]
  <1>1. Become([Now EXCEPT !.route = r, !.session = NoSession,
                           !.broker.pending = NoRequest, !.broker.done = {}, !.broker.picked = 0,
                           !.gate.active = FALSE, !.gate.stop = FALSE, !.removal = v])
    BY DEF ClearSession
  <1>2. /\ Proper(Now) /\ Now \in State /\ Counted(Now)
        /\ coord \in [active : BOOLEAN, lost : BOOLEAN, teardown : BOOLEAN]
        /\ gate \in [active : BOOLEAN, stop : BOOLEAN, lost : BOOLEAN]
        /\ route \in [live : BOOLEAN, epoch : Nat, nub : BOOLEAN]
        /\ removal \in [pc : {"idle", "cancel", "host", "clear", "drain", "down"},
                        wasActive : BOOLEAN, left : SUBSET {"operation", "host"}]
    BY NowTypes DEF Proper
  <1>3. broker \in [pending : Requests, done : SUBSET [tok : Nat, st : Statuses],
                    next : Nat \ {0}, picked : Clocks]
    BY <1>2, Parts, NowParts
  <1>4. [Now EXCEPT !.route = r, !.session = NoSession,
                    !.broker.pending = NoRequest, !.broker.done = {}, !.broker.picked = 0,
                    !.gate.active = FALSE, !.gate.stop = FALSE, !.removal = v] = y
    <2>. HIDE DEF v, r
    <2>. QED  BY <1>2, NowParts DEF State
  <1>5. l \in SUBSET {"operation", "host"}
    <2>1. LeftBehind \subseteq {"operation", "host"}  BY DEF LeftBehind
    <2>. QED  BY <1>2, <2>1
  <1>6. /\ "operation" \notin l => \A c \in Callers : ~InBody(th[c])
        /\ l = {} => host = HostOff
    <2>1. (\E c \in Callers : InBody(th[c])) => "operation" \in LeftBehind  BY DEF LeftBehind
    <2>2. host # HostOff => "host" \in LeftBehind  BY DEF LeftBehind
    <2>. QED  BY <2>1, <2>2
  <1>. HIDE DEF l
  <1>7. /\ v \in [pc : {"idle", "cancel", "host", "clear", "drain", "down"},
                  wasActive : BOOLEAN, left : SUBSET {"operation", "host"}]
        /\ v.pc = "idle" /\ v.left = l
    BY <1>5
  <1>8. r \in [live : BOOLEAN, epoch : Nat, nub : BOOLEAN] /\ route.epoch <= r.epoch
    BY <1>2
  <1>9. /\ b \in [pending : Requests, done : SUBSET [tok : Nat, st : Statuses],
                  next : Nat \ {0}, picked : Clocks]
        /\ b.next = broker.next /\ b.pending = NoRequest /\ b.done = {}
    BY <1>3 DEF Requests, Clocks
  <1>10. g \in [active : BOOLEAN, stop : BOOLEAN, lost : BOOLEAN]  BY <1>2
  <1>. HIDE DEF v, r, b, g
  <1>11. y \in State  BY <1>2, <1>7, <1>8, <1>9, <1>10, FreshSessions DEF State
  <1>12. /\ y.coord = coord /\ y.gate = g /\ y.session = NoSession /\ y.nextId = nextId
         /\ y.broker = b /\ y.host = host /\ y.device = device /\ y.route = r /\ y.removal = v
         /\ y.th = th
    BY <1>2, NowParts DEF State
  <1>. HIDE DEF y
  <1>13. Counted(y)
    <2>1. nextId \in Nat \ {0} /\ route.epoch \in Nat /\ broker.next \in Nat \ {0}
      BY <1>2, <1>3, Parts, NowParts
    <2>2. Dated(y, y.session)  BY <1>8, <1>12, <2>1, FreshSessions DEF Dated
    <2>3. y.broker.pending.tok < y.broker.next  BY <1>9, <1>12, <2>1 DEF NoRequest
    <2>4. \A d \in y.broker.done : d.tok < y.broker.next  BY <1>9, <1>12
    <2>5. \A n \in Nat : n <= route.epoch => n <= r.epoch  BY <1>8, <2>1
    <2>6. \A c \in Callers : th[c].route \in Nat /\ th[c].s.route \in Nat
      BY <1>2, ThreadFits, ThreadParts, NowParts DEF Fits, Sessions
    <2>. QED  BY <1>2, <1>9, <1>12, <2>2, <2>3, <2>4, <2>5, <2>6, NowParts DEF Counted, Dated
  <1>14. Proper(y) /\ Torn(y)  BY <1>7, <1>11, <1>12, <1>13 DEF Proper, Torn
  <1>15. \A c \in Callers : Loaded(y.th[c]) /\ Flow(profile, y.th[c])
    BY <1>12, NowTypes
  <1>16. Sole(y) => \A c \in Callers : ~InBody(y.th[c])  BY <1>6, <1>7, <1>12 DEF Sole
  <1>17. Clean(y) => y.host = HostOff  BY <1>6, <1>7, <1>12 DEF Clean
  <1>18. Alone(y)  BY <1>16 DEF Alone
  <1>19. ASSUME NEW c \in Callers  PROVE Claim(profile, y, y.th[c])
    <2>1. Sound(y) => ~InBody(y.th[c])  BY <1>16 DEF Sound
    <2>2. Sound(y) => Staged(profile, y, y.th[c])  BY <2>1, OutsideFacts DEF Staged
    <2>. QED  BY <1>17, <2>2 DEF Claim
  <1>20. Stored(y)
    BY <1>12, <1>17, FreshSessions DEF Stored, Truthful, Rested
  <1>21. Inv(profile, y)  BY <1>14, <1>15, <1>18, <1>19, <1>20 DEF Inv
  <1>. QED  BY <1>1, <1>4, <1>21, BecomeKeeps

-----------------------------------------------------------------------------
(* The theorems *)

\* Nobody has called yet, nothing is on, no session is stored.
LEMMA InitInOrder == Init => InOrder
  <1>. SUFFICES ASSUME Init  PROVE Inv(profile, Now)  BY DEF InOrder
  <1>1. /\ Now.coord = [active |-> FALSE, lost |-> FALSE, teardown |-> FALSE]
        /\ Now.gate = [active |-> FALSE, stop |-> FALSE, lost |-> FALSE]
        /\ Now.session = NoSession /\ Now.nextId = 1
        /\ Now.broker = [pending |-> NoRequest, done |-> {}, next |-> 1, picked |-> 0]
        /\ Now.host = HostOff /\ Now.device = Default
        /\ Now.route = [live |-> TRUE, epoch |-> 1, nub |-> TRUE]
        /\ Now.recovery = [busy |-> FALSE, queue |-> <<>>]
        /\ Now.removal = [pc |-> "idle", wasActive |-> FALSE, left |-> {}]
        /\ Now.th = [c \in Callers |-> Idling] /\ Now.budget = MaxEvents
    BY NowParts DEF Init
  <1>2. Now.broker \in [pending : Requests, done : SUBSET [tok : Nat, st : Statuses],
                        next : Nat \ {0}, picked : Clocks]
    BY <1>1 DEF Requests, Clocks
  <1>3. Now.host \in Hosts /\ Now.device \in Rates  BY <1>1 DEF HostOff, Hosts, Default, Rates
  <1>4. Now.th \in [Callers -> Threads]  BY <1>1, IdlingFacts
  <1>5. Now.recovery \in [busy : BOOLEAN, queue : Seq(Nat)]  BY <1>1
  <1>6. Now.session \in Sessions  BY <1>1, FreshSessions
  <1>7. /\ Now.coord \in [active : BOOLEAN, lost : BOOLEAN, teardown : BOOLEAN]
        /\ Now.gate \in [active : BOOLEAN, stop : BOOLEAN, lost : BOOLEAN]
        /\ Now.route \in [live : BOOLEAN, epoch : Nat, nub : BOOLEAN]
        /\ Now.removal \in [pc : {"idle", "cancel", "host", "clear", "drain", "down"},
                            wasActive : BOOLEAN, left : SUBSET {"operation", "host"}]
        /\ Now.nextId \in Nat \ {0} /\ Now.budget \in Nat
    BY <1>1, BoundsAssumption
  <1>8. Now \in State
    <2>1. Now = [coord |-> Now.coord, gate |-> Now.gate, session |-> Now.session,
                 nextId |-> Now.nextId, broker |-> Now.broker, host |-> Now.host,
                 device |-> Now.device, route |-> Now.route, recovery |-> Now.recovery,
                 removal |-> Now.removal, th |-> Now.th, budget |-> Now.budget]
      BY NowParts DEF Now
    <2>. QED  BY <1>2, <1>3, <1>4, <1>5, <1>6, <1>7, <2>1 DEF State
  <1>9. NoRequest.tok = 0  BY DEF NoRequest
  <1>10. \A c \in Callers : Now.th[c] = Idling  BY <1>1
  <1>11. Counted(Now)  BY <1>1, <1>9, <1>10, IdlingFacts, FreshSessions DEF Counted, Dated
  <1>12. Proper(Now) /\ Torn(Now)  BY <1>1, <1>8, <1>11 DEF Proper, Torn
  <1>13. \A c \in Callers : ~InBody(Now.th[c])  BY <1>10, IdlingFacts
  <1>14. Alone(Now)  BY <1>13 DEF Alone
  <1>15. \A c \in Callers : Loaded(Now.th[c]) /\ Flow(profile, Now.th[c])  BY <1>10, IdlingFacts
  <1>16. \A c \in Callers : Claim(profile, Now, Now.th[c])
    BY <1>1, <1>13, OutsideFacts DEF Claim, Staged
  <1>17. Stored(Now)  BY <1>1, FreshSessions DEF Stored, Truthful, Rested
  <1>. QED  BY <1>12, <1>14, <1>15, <1>16, <1>17 DEF Inv

\* Every step preserves the invariant.
LEMMA NextInOrder == InOrder /\ [Next]_vars => InOrder'
  <1>. SUFFICES ASSUME Inv(profile, Now), [Next]_vars  PROVE Inv(profile', Now')
    BY DEF InOrder
  <1>1. CASE UNCHANGED vars
    <2>1. profile' = profile /\ Now' = Now  BY <1>1 DEF vars, Now
    <2>. QED  BY <2>1
  <1>2. ASSUME NEW c \in Callers, Step(c)  PROVE Inv(profile', Now')
    BY <1>2, EnterStep, TryAcquireGuidStep, BodyBegins, ConsumeNextStep, ApplyClockRequestStep,
       IdleBeginStep, IdleApplyStep, IdleCheckStep, BeginStep, AllocateStep, DoStageStep,
       CheckStageStep, RollbackStep, StopBeginStep, HaltStepStep, ReleaseGuidStep, ExitStep
       DEF Step
  <1>3. ASSUME NEW c \in Callers, GiveUpWaiting(c)  PROVE Inv(profile', Now')
    BY <1>3, GiveUpWaitingStep
  <1>4. ASSUME NEW clk \in Rates, RequestClockConfig(clk)  PROVE Inv(profile', Now')
    BY <1>4, RequestClockConfigStep
  <1>5. CASE Discovery
    BY <1>5, BusResetStep, DeviceResumedStep, DeviceAddedStep, DeviceLostStep,
       CancelRemoteDeviceStep, StopHostTransportStep, ClearSessionStep
       DEF Discovery
  <1>6. CASE StartIO \/ StopIO \/ AwaitClock \/ TimingLoss \/ CycleInconsistent
             \/ RunRecoveryBlock \/ BeginTeardown \/ TeardownHost
    BY <1>6, StartIOStep, StopIOStep, AwaitClockStep, RuntimeFaultStep, RunRecoveryBlockStep,
       BeginTeardownStep, TeardownHostStep
  <1>. QED  BY <1>1, <1>2, <1>3, <1>4, <1>5, <1>6 DEF Next

\* The inductive invariant holds throughout.
LEMMA AlwaysInOrder == Spec => []InOrder
  BY InitInOrder, NextInOrder, PTL DEF Spec

\* Every piece of state has its type, and no restart id or clock token is ahead of the
\* counter it came from (AllocateRestartId, ClockRequestBroker): whatever the budget of
\* events, for every stream profile.
THEOREM TypeCorrect == Spec => []TypeOK
  <1>1. InOrder => TypeOK
    <2>. SUFFICES ASSUME InOrder  PROVE TypeOK  OBVIOUS
    <2>1. Proper(Now) /\ Now \in State /\ Counted(Now)  BY DEF InOrder, Inv, Proper
    <2>2. /\ coord \in [active : BOOLEAN, lost : BOOLEAN, teardown : BOOLEAN]
          /\ gate \in [active : BOOLEAN, stop : BOOLEAN, lost : BOOLEAN]
          /\ session \in Sessions /\ nextId \in Nat \ {0} /\ host \in Hosts /\ device \in Rates
          /\ route \in [live : BOOLEAN, epoch : Nat, nub : BOOLEAN] /\ budget \in Nat
      BY <2>1, Parts, NowParts
    <2>3. /\ session.id < nextId /\ broker.pending.tok < broker.next
          /\ \A d \in broker.done : d.tok < broker.next
      BY <2>1, NowParts DEF Counted, Dated
    <2>4. /\ session.kind \in Kinds \cup {"None"} /\ session.phase \in Phases
          /\ session.flags \subseteq HostFlags \cup DeviceFlags
          /\ session.desired \in Rates \cup {0} /\ session.applied \in Rates \cup {0}
          /\ session.pending \in Rates \cup {0}
      BY <2>2 DEF Sessions, Flags, Clocks
    <2>5. route.epoch \in Nat  BY <2>2
    <2>. QED  BY <2>2, <2>3, <2>4, <2>5 DEF TypeOK, Hosts
  <1>. QED  BY <1>1, AlwaysInOrder, PTL

\* A session the store reports as streaming tells the truth about the host and the
\* device whenever no operation is inside its body, however many failed stages,
\* rollbacks, clock changes, recoveries and removals came before; only a removal that
\* freed the gate under a running operation is excepted.
THEOREM RunningIsTrueAlways == Spec => []RunningIsTrue
  <1>1. InOrder => RunningIsTrue
    <2>. SUFFICES ASSUME InOrder, Quiet, removal.pc = "idle", ~coord.teardown,
                         "operation" \notin removal.left, IsStreaming(Now)
                  PROVE  /\ host.rx = "on" /\ host.tx = "on"
                         /\ host.claimed /\ host.reserved = {"playback", "capture"}
                         /\ session.applied = device
                         /\ session.route = route.epoch => host.gen = route.epoch
      BY DEF RunningIsTrue
    <2>1. Stored(Now)  BY DEF InOrder, Inv
    <2>2. Still(Now)  BY OutsideFacts, NowParts DEF Quiet, Still
    <2>3. Sound(Now)  BY NowParts DEF Sound, Sole
    <2>4. "running" \in Now.session.flags  BY DEF IsStreaming
    <2>5. Truth(Now)  BY <2>1, <2>2, <2>3, <2>4 DEF Stored, Truthful
    <2>. QED  BY <2>5, NowParts DEF Truth
  <1>. QED  BY <1>1, AlwaysInOrder, PTL

\* A StopStreaming about to return success has nothing on: no context runs, nothing is
\* reserved, the transport has no owner.  Only a removal that left something behind,
\* until the whole host was stopped again, is excepted.
THEOREM StopReleasesAlways == Spec => []StopReleases
  <1>1. InOrder => StopReleases
    <2>. SUFFICES ASSUME InOrder, NEW c \in Callers, th[c].pc = "release", th[c].op = "stop",
                         th[c].st = "ok", ~coord.teardown, removal.left = {}
                  PROVE  host = HostOff
      BY DEF StopReleases
    <2>1. Claim(profile, Now, th[c])  BY NowParts DEF InOrder, Inv
    <2>2. Clean(Now)  BY NowParts DEF Clean
    <2>3. Off(profile, th[c])  BY DEF Off
    <2>. QED  BY <2>1, <2>2, <2>3, NowParts DEF Claim
  <1>. QED  BY <1>1, AlwaysInOrder, PTL

=============================================================================
