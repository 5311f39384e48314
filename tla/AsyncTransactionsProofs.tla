----------------------- MODULE AsyncTransactionsProofs -----------------------
(***************************************************************************)
(* Proofs about AsyncTransactions for every number of labels, transactions *)
(* and bus resets, every set of queues and every workload.                 *)
(***************************************************************************)
EXTENDS AsyncTransactions, TLAPS

-----------------------------------------------------------------------------
(* Type correctness *)

\* A thread that has registered a transaction or is cancelling one, and T0
\* while it finishes one, name an object.
FramesName ==
    /\ \A th \in Threads : sub[th].pc \in {"registered", "onWire", "cancelling"}
                               => sub[th].tx \in Tx
    /\ fin.pc \in {"free", "callback", "callbackFirst"} => fin.tx \in Tx

\* A transition, taken or refused, keeps the fields of a transaction in range.
LEMMA TransitionTyped ==
    ASSUME NEW x \in Transaction, NEW to \in State
    PROVE  TransitionTo(x, to) \in Transaction
  BY DEF TransitionTo, Transaction

\* So do two of them in a row.
LEMMA ThroughTyped ==
    ASSUME NEW x \in Transaction, NEW first \in State, NEW second \in State
    PROVE  Through(x, first, second) \in Transaction
  BY TransitionTyped DEF Through

\* OnTxPosted keeps a transaction in its type.
LEMMA MarkPostedTyped ==
    ASSUME NEW x \in Transaction
    PROVE  MarkPosted(x) \in Transaction
  <1> DEFINE posting == TransitionTo(x, "ATPosted")
             base == IF x.strategy = "AR" THEN Through(posting, "ATCompleted", "AwaitingAR")
                     ELSE posting
  <1>1. posting \in Transaction
    BY TransitionTyped DEF State
  <1>2. base \in Transaction
    BY <1>1, ThroughTyped DEF State
  <1>3. [base EXCEPT !.deadline = "running"] \in Transaction
    <2> HIDE DEF base
    <2>. QED BY <1>2 DEF Transaction, Deadline
  <1>. QED BY <1>3 DEF MarkPosted

\* An AT completion keeps a transaction in its type, whatever the event.
LEMMA ATUpdateTyped ==
    ASSUME NEW x \in Transaction, NEW ev
    PROVE  ATUpdate(x, ev) \in Transaction
  <1> DEFINE y == [x EXCEPT !.ack = AckOf(ev)]
  <1>1. AckOf(ev) \in Ack
    BY DEF AckOf, Ack
  <1>2. y \in Transaction
    BY <1>1 DEF Transaction
  <1> HIDE DEF y
  <1>3. /\ Through(y, "ATCompleted", "AwaitingAR") \in Transaction
        /\ TransitionTo(y, "ATCompleted") \in Transaction
    BY <1>2, ThroughTyped, TransitionTyped DEF State
  <1>4. /\ [y EXCEPT !.latch = TRUE] \in Transaction
        /\ [TransitionTo(y, "ATCompleted") EXCEPT !.deadline = "running"] \in Transaction
    BY <1>2, <1>3 DEF Transaction, Deadline
  <1>. QED BY <1>2, <1>3, <1>4 DEF ATUpdate, y

\* A longer deadline keeps a transaction in its type.
LEMMA ExtendTyped ==
    ASSUME NEW x \in Transaction
    PROVE  ExtendDeadline(x) \in Transaction
  <1> DEFINE n == x.retry + 1
  <1>1. n \in Nat
    BY DEF Transaction
  <1> HIDE DEF n
  <1>2. [x EXCEPT !.retry = n, !.deadline = "running"] \in Transaction
    BY <1>1 DEF Transaction, Deadline
  <1>. QED BY <1>2 DEF ExtendDeadline, n

\* Finishing a transaction, in any way, keeps it in its type.
LEMMA OutcomeTyped ==
    ASSUME NEW x \in Transaction, NEW how
    PROVE  Outcome(x, how) \in Transaction
  BY TransitionTyped, ThroughTyped DEF Outcome, State

\* What is kept of a destroyed object is in its type.
LEMMA DestroyedTyped ==
    ASSUME NEW x \in Transaction
    PROVE  Destroyed(x) \in Transaction
  BY AsyncAssumption DEF Destroyed, NoTransaction, Transaction, State, Ack, Deadline, Labels


\* The ring's entries while the workload of the behaviour is fixed.
Descriptor == [tx : Tx, status : load.events \cup {"none", "flushed"}]

\* A function on 1..n is a sequence.
LEMMA FunctionIsSeq ==
    ASSUME NEW S, NEW n \in Nat, NEW f \in [1..n -> S]
    PROVE  f \in Seq(S)
  OBVIOUS

\* Flushing the AT contexts keeps the descriptors in their type.
LEMMA FlushedTyped ==
    ASSUME WireTyped
    PROVE  Flushed(ring) \in Seq(Descriptor)
  <1>1. ring \in Seq(Descriptor)
    BY DEF WireTyped, Descriptor
  <1>2. /\ Len(ring) \in Nat /\ DOMAIN ring = 1..Len(ring)
        /\ \A i \in 1..Len(ring) : ring[i] \in Descriptor
    BY <1>1
  <1>3. \A i \in 1..Len(ring) : [ring[i] EXCEPT !.status = "flushed"] \in Descriptor
    BY <1>2 DEF Descriptor
  <1>4. Flushed(ring) \in [1..Len(ring) -> Descriptor]
    BY <1>2, <1>3 DEF Flushed
  <1>. QED BY <1>2, <1>4, FunctionIsSeq

\* The type invariant as it is inductive.
Typed == TypeOK /\ FramesName

USE DEF tables, bus, threads, wire, worker, Threads, NoTx

\* Where a thread is in Submit or Cancel.
Frame == [pc : {"idle", "prepared", "labelled", "registered", "onWire", "cancelling"},
          gen : Nat, strategy : {"AT", "AR", "PHY"}, label : Labels,
          tx : Tx \cup {NoTx}]

\* A thread at rest is at a typed point.
LEMMA RestingTyped == Resting \in Frame /\ Resting.pc = "idle"
  BY AsyncAssumption DEF Resting, Frame, Labels

\* A thread that moves to a typed point, naming an object where it must, keeps
\* the types.
LEMMA ThreadMoves ==
    ASSUME ThreadsTyped, FramesName, NEW th \in Threads, NEW f \in Frame,
           f.pc \in {"registered", "onWire", "cancelling"} => f.tx \in Tx,
           sub' = [sub EXCEPT ![th] = f], fin' = fin,
           handle' \in [Threads -> Labels \cup {NoLabel}]
    PROVE  ThreadsTyped' /\ FramesName'
  <1>1. sub \in [Threads -> Frame]
    BY DEF ThreadsTyped, Frame
  <1>2. sub' \in [Threads -> Frame]
    BY <1>1
  <1>. QED BY <1>1, <1>2 DEF ThreadsTyped, FramesName, Frame

\* The submit path, from any queue, keeps the types.
LEMMA SubmitTyped ==
    ASSUME Typed, NEW th \in load.by, Call(th) \/ SubmitStep(th)
    PROVE  Typed'
  <1>. USE AsyncAssumption DEF Typed, TypeOK
  <1>0. th \in Threads /\ load.strategies \subseteq {"AT", "AR", "PHY"}
    BY DEF BusTyped
  <1>1. ASSUME NEW s \in load.strategies, PrepareTransactionContext(th, s)
        PROVE  Typed'
    <2> DEFINE f == [Resting EXCEPT !.pc = "prepared", !.gen = gen, !.strategy = s]
    <2>1. f \in Frame /\ f.pc = "prepared"
      <3>1. gen \in Nat /\ s \in {"AT", "AR", "PHY"}
        BY <1>0, <1>1 DEF BusTyped
      <3>. QED BY <3>1, RestingTyped DEF Frame
    <2>2. sub' = [sub EXCEPT ![th] = f] /\ UNCHANGED <<handle, fin>>
      BY <1>1 DEF PrepareTransactionContext, Prepared
    <2> HIDE DEF f
    <2>3. ThreadsTyped' /\ FramesName'
      BY <1>0, <2>1, <2>2, ThreadMoves DEF ThreadsTyped
    <2>. QED BY <1>1, <2>3 DEF PrepareTransactionContext, TablesTyped, BusTyped, WireTyped, WorkerTyped
  <1>2. CASE CancelExtract(th)
    <2>1. ThreadsTyped' /\ FramesName'
      BY <1>0, <1>2 DEF CancelExtract, Resting, ThreadsTyped, TablesTyped, FramesName, Labels, NoLabel
    <2>2. TablesTyped'
      BY <1>0, <1>2 DEF CancelExtract, TablesTyped
    <2>. QED BY <1>2, <2>1, <2>2 DEF CancelExtract, BusTyped, WireTyped, WorkerTyped
  <1>3. CASE RegisterLabel(th)
    <2>1. ThreadsTyped' /\ FramesName'
      <3>1. ASSUME NEW l \in Labels, sub' = [sub EXCEPT ![th].pc = "labelled", ![th].label = l]
            PROVE  ThreadsTyped' /\ FramesName'
        BY <1>0, <1>3, <3>1 DEF RegisterLabel, ThreadsTyped, FramesName
      <3>2. CASE sub' = [sub EXCEPT ![th] = Resting]
        BY <1>0, <1>3, <3>2 DEF RegisterLabel, Resting, ThreadsTyped, FramesName, Labels
      <3>. QED BY <1>3, <3>1, <3>2 DEF RegisterLabel
    <2>2. TablesTyped'
      <3>1. SweptBitmap \subseteq Labels
        BY DEF SweptBitmap, TablesTyped
      <3>2. \A l \in Labels : (l + 1) % NLabels \in Labels
        BY DEF Labels
      <3>. QED BY <1>3, <3>1, <3>2 DEF RegisterLabel, Allocate, IsNextLabel, TablesTyped
    <2>. QED BY <1>3, <2>1, <2>2 DEF RegisterLabel, BusTyped, WireTyped, WorkerTyped
  <1>4. CASE RegisterBusy(th)
    <2>1. ThreadsTyped' /\ FramesName'
      BY <1>0, <1>4 DEF RegisterBusy, Resting, ThreadsTyped, FramesName, Labels
    <2>2. TablesTyped'
      BY <1>4 DEF RegisterBusy, Free, TablesTyped
    <2>. QED BY <1>4, <2>1, <2>2 DEF RegisterBusy, BusTyped, WireTyped, WorkerTyped
  <1>5. CASE RegisterTransaction(th)
    <2>. USE DEF RegisterTransaction, Install
    <2>1. nextTx \in Tx
      BY <1>5 DEF TablesTyped, Tx
    <2>2. ThreadsTyped' /\ FramesName'
      BY <1>0, <1>5, <2>1 DEF ThreadsTyped, FramesName
    <2>3. NewTransaction(th) \in Transaction
      BY <1>0 DEF NewTransaction, NoTransaction, Transaction, State, Ack, Deadline, ThreadsTyped
    <2>4. TablesTyped'
      <3>1. nextTx' \in 1..(MaxTx + 1)
        BY <1>5 DEF TablesTyped
      <3>. QED BY <1>5, <2>1, <2>3, <3>1 DEF TablesTyped
    <2>. QED BY <1>5, <2>2, <2>4 DEF BusTyped, WireTyped, WorkerTyped
  <1>6. CASE SubmitFails(th)
    <2>1. ThreadsTyped' /\ FramesName'
      BY <1>0, <1>6 DEF SubmitFails, Resting, ThreadsTyped, FramesName, Labels
    <2>. QED BY <1>6, <2>1 DEF SubmitFails, TablesTyped, BusTyped, WireTyped, WorkerTyped
  <1>7. CASE SubmitChain(th)
    <2>1. ThreadsTyped' /\ FramesName'
      <3>1. sub' = [sub EXCEPT ![th].pc = "onWire"] /\ UNCHANGED <<handle, fin>>
        BY <1>7 DEF SubmitChain
      <3> DEFINE f == [sub[th] EXCEPT !.pc = "onWire"]
      <3>2. sub[th] \in Frame /\ sub[th].tx \in Tx
        BY <1>0, <1>7 DEF SubmitChain, ThreadsTyped, Frame, FramesName
      <3>3. f \in Frame /\ f.tx \in Tx
        BY <3>2 DEF Frame
      <3>4. sub' = [sub EXCEPT ![th] = f]
        BY <3>1
      <3> HIDE DEF f
      <3>. QED BY <1>0, <3>1, <3>3, <3>4, ThreadMoves DEF ThreadsTyped
    <2>2. WireTyped'
      BY <1>0, <1>7 DEF SubmitChain, WireTyped, FramesName
    <2>. QED BY <1>7, <2>1, <2>2 DEF SubmitChain, TablesTyped, BusTyped, WorkerTyped
  <1>8. CASE OnTxPosted(th)
    <2>1. ThreadsTyped' /\ FramesName'
      BY <1>0, <1>8 DEF OnTxPosted, Resting, ThreadsTyped, FramesName, Labels
    <2>2. txn' \in [Tx -> Transaction]
      BY <1>0, <1>8, MarkPostedTyped DEF OnTxPosted, TablesTyped, ThreadsTyped
    <2>. QED BY <1>8, <2>1, <2>2 DEF OnTxPosted, TablesTyped, BusTyped, WireTyped, WorkerTyped
  <1>9. CASE CancelPost(th)
    <2>1. ThreadsTyped' /\ FramesName'
      BY <1>0, <1>9 DEF CancelPost, Resting, ThreadsTyped, FramesName, Labels
    <2>2. WorkerTyped'
      BY <1>0, <1>9 DEF CancelPost, WorkerTyped, FramesName
    <2>. QED BY <1>9, <2>1, <2>2 DEF CancelPost, Free, TablesTyped, BusTyped, WireTyped
  <1>. QED BY <1>1, <1>2, <1>3, <1>4, <1>5, <1>6, <1>7, <1>8, <1>9 DEF Call, SubmitStep

\* What T0 can be finishing, and what it can be running.
Hand == [pc : {"none", "extract", "free", "callback", "callbackFirst", "freeLast"},
         label : Labels, tx : Tx \cup {NoTx}, how : Ending, src : Tx \cup {NoTx}]

\* T0 with nothing in hand, and T0 about to extract from a label, are typed.
LEMMA HandTyped ==
    /\ NoFin \in Hand /\ NoFin.pc = "none"
    /\ \A l \in Labels, how \in Ending, src \in Tx \cup {NoTx} :
           Finishing(l, how, src) \in Hand /\ Finishing(l, how, src).pc = "extract"
  BY AsyncAssumption DEF NoFin, Hand, Finishing, Labels, Ending

\* T0 finishing a transaction keeps the types.
LEMMA FinishTyped ==
    ASSUME Typed, FinishStep
    PROVE  Typed'
  <1>. USE DEF Typed, TypeOK
  <1>0. fin \in Hand
    BY DEF WorkerTyped, Hand
  <1>1. CASE FinishExtract
    <2>1. TablesTyped'
      BY <1>1 DEF FinishExtract, Extract, TablesTyped
    <2>2. fin' \in Hand /\ (fin'.pc \in {"free", "callback", "callbackFirst"} => fin'.tx \in Tx)
      <3>1. CASE slot[fin.label] = NoTx
        BY <1>1, <3>1, HandTyped DEF FinishExtract
      <3>2. CASE slot[fin.label] # NoTx
        <4>1. slot[fin.label] \in Tx
          BY <1>0, <3>2 DEF TablesTyped, Hand
        <4>. QED BY <1>0, <1>1, <3>2, <4>1 DEF FinishExtract, Hand
      <3>. QED BY <3>1, <3>2
    <2>. QED BY <1>1, <2>1, <2>2 DEF FinishExtract, BusTyped, ThreadsTyped, WireTyped, WorkerTyped,
                                     FramesName, Hand
  <1>2. CASE FinishFree
    <2>1. txn' \in [Tx -> Transaction]
      BY <1>0, <1>2, OutcomeTyped DEF FinishFree, TablesTyped
    <2>2. fin' \in Hand /\ fin'.tx \in Tx
      BY <1>0, <1>2 DEF FinishFree, Hand, FramesName
    <2>. QED BY <1>2, <2>1, <2>2 DEF FinishFree, Free, TablesTyped, BusTyped, ThreadsTyped, WireTyped,
                                     WorkerTyped, FramesName, Hand
  <1>3. CASE FinishCallback
    <2>1. txn' \in [Tx -> Transaction] /\ calls' \in [Tx -> Nat]
      <3>1. txn' \in [Tx -> Transaction]
        BY <1>0, <1>3, DestroyedTyped DEF FinishCallback, TablesTyped
      <3>. QED BY <1>3, <3>1 DEF FinishCallback, WorkerTyped
    <2>2. fin' \in Hand /\ fin'.pc = "none"
      BY <1>3, HandTyped DEF FinishCallback
    <2>. QED BY <1>3, <2>1, <2>2 DEF FinishCallback, TablesTyped, BusTyped, ThreadsTyped, WireTyped,
                                     WorkerTyped, FramesName, Hand
  <1>4. CASE FinishCallbackFirst
    <2>1. txn' \in [Tx -> Transaction] /\ calls' \in [Tx -> Nat]
      <3>1. \A t \in Tx : Destroyed(Outcome(txn[t], fin.how)) \in Transaction
        BY OutcomeTyped, DestroyedTyped DEF TablesTyped
      <3>. QED BY <1>4, <3>1 DEF FinishCallbackFirst, TablesTyped, WorkerTyped
    <2>2. fin' \in Hand /\ fin'.pc = "freeLast"
      BY <1>0, <1>4 DEF FinishCallbackFirst, Hand
    <2>. QED BY <1>4, <2>1, <2>2 DEF FinishCallbackFirst, TablesTyped, BusTyped, ThreadsTyped, WireTyped,
                                     WorkerTyped, FramesName, Hand
  <1>5. CASE FinishFreeLast
    <2>1. fin' \in Hand /\ fin'.pc = "none"
      BY <1>5, HandTyped DEF FinishFreeLast
    <2>. QED BY <1>5, <2>1 DEF FinishFreeLast, Free, TablesTyped, BusTyped, ThreadsTyped, WireTyped,
                               WorkerTyped, FramesName, Hand
  <1>. QED BY <1>1, <1>2, <1>3, <1>4, <1>5 DEF FinishStep

\* The other steps of a job of T0 keep the types.
LEMMA JobTyped ==
    ASSUME Typed, JobStep
    PROVE  Typed'
  <1>. USE AsyncAssumption DEF Typed, TypeOK
  <1>0. fin \in Hand /\ slot \in [Labels -> Tx \cup {NoTx}] /\ txn \in [Tx -> Transaction]
    BY DEF WorkerTyped, TablesTyped, Hand
  <1>1. CASE DrainTxCompletion
    <2>1. Head(ring).tx \in Tx /\ ring' \in Seq(Descriptor)
      <3>1. ring \in Seq(Descriptor) /\ ring # << >> /\ ring' = Tail(ring)
        BY <1>1 DEF DrainTxCompletion, HeadDone, WireTyped, Descriptor
      <3>2. Head(ring) \in Descriptor /\ ring' \in Seq(Descriptor)
        BY <3>1
      <3>. QED BY <3>2 DEF Descriptor
    <2> DEFINE c == Head(ring).tx
               ev == Head(ring).status
               l == txn[c].label
               t == slot[l]
    <2>2. l \in Labels
      BY <1>0, <2>1 DEF Transaction
    <2>3. txn' \in [Tx -> Transaction]
      BY <1>0, <1>1, <2>2, ATUpdateTyped DEF DrainTxCompletion, OnATCompletion
    <2>4. fin' \in Hand /\ ((fin'.pc = fin.pc /\ fin'.tx = fin.tx) \/ fin'.pc = "extract")
      <3>1. ATPostAction(txn[t], ev) \subseteq Ending
        BY DEF ATPostAction, Ending
      <3>2. CASE UNCHANGED fin
        BY <1>0, <3>2
      <3>3. ASSUME NEW how \in ATPostAction(txn[t], ev), fin' = Finishing(l, how, c)
            PROVE  fin' \in Hand /\ fin'.pc = "extract"
        BY <2>1, <2>2, <3>1, <3>3, HandTyped
      <3>. QED BY <1>1, <3>2, <3>3 DEF DrainTxCompletion, OnATCompletion
    <2>. QED BY <1>1, <2>1, <2>3, <2>4 DEF DrainTxCompletion, TablesTyped, BusTyped, ThreadsTyped, WireTyped,
                                     WorkerTyped, FramesName, Hand, Descriptor
  <1>2. CASE TickDrains \/ JobDone \/ OnBusResetBegin \/ CancelByGeneration
    <2>1. job' \in [kind : {"idle", "rx", "drain", "tick", "posted", "begin", "cancelAll", "cancelGen"},
                    todo : SUBSET Labels]
      BY <1>2 DEF TickDrains, JobDone, OnBusResetBegin, CancelByGeneration, Idle, Occupied, WorkerTyped
    <2>. QED BY <1>2, <2>1 DEF TickDrains, JobDone, OnBusResetBegin, CancelByGeneration, TablesTyped, BusTyped,
                               ThreadsTyped, WireTyped, WorkerTyped, FramesName
  <1>3. ASSUME NEW l \in Labels, TickTimeout(l)
        PROVE  Typed'
    <2>1. job' \in [kind : {"idle", "rx", "drain", "tick", "posted", "begin", "cancelAll", "cancelGen"},
                    todo : SUBSET Labels]
      BY <1>3 DEF TickTimeout, WorkerTyped
    <2>2. txn' \in [Tx -> Transaction]
      BY <1>0, <1>3, ExtendTyped DEF TickTimeout, OnTimeout
    <2>3. fin' \in Hand /\ ((fin'.pc = fin.pc /\ fin'.tx = fin.tx) \/ fin'.pc = "extract")
      BY <1>0, <1>3, HandTyped DEF TickTimeout, OnTimeout, Ending
    <2>. QED BY <1>3, <2>1, <2>2, <2>3 DEF TickTimeout, TablesTyped, BusTyped, ThreadsTyped, WireTyped,
                                     WorkerTyped, FramesName, Hand
  <1>4. ASSUME NEW l \in Labels, CancelVictim(l)
        PROVE  Typed'
    <2>1. job' \in [kind : {"idle", "rx", "drain", "tick", "posted", "begin", "cancelAll", "cancelGen"},
                    todo : SUBSET Labels]
      BY <1>4 DEF CancelVictim, WorkerTyped
    <2>2. fin' \in Hand /\ fin'.pc = "extract"
      BY <1>0, <1>4, HandTyped DEF CancelVictim, Ending
    <2>. QED BY <1>4, <2>1, <2>2 DEF CancelVictim, TablesTyped, BusTyped, ThreadsTyped, WireTyped,
                                     WorkerTyped, FramesName, Hand
  <1>5. CASE ClearAndFlush
    <2>1. ring' \in Seq(Descriptor)
      BY <1>5, FlushedTyped DEF ClearAndFlush
    <2>2. WorkerTyped' /\ FramesName'
      BY <1>5 DEF ClearAndFlush, WorkerTyped, FramesName
    <2>3. TablesTyped'
      BY <1>5 DEF ClearAndFlush, ClearBitmap, TablesTyped, Labels
    <2>. QED BY <1>5, <2>1, <2>2, <2>3 DEF ClearAndFlush, BusTyped, ThreadsTyped, WireTyped, Descriptor
  <1>. QED BY <1>1, <1>2, <1>3, <1>4, <1>5, FinishTyped DEF JobStep

\* The blocks the dispatch queue starts on T0 keep the types.
LEMMA StartTyped ==
    ASSUME Typed, StartJob
    PROVE  Typed'
  <1>. USE AsyncAssumption DEF Typed, TypeOK
  <1>0. fin \in Hand /\ slot \in [Labels -> Tx \cup {NoTx}] /\ txn \in [Tx -> Transaction]
    BY DEF WorkerTyped, TablesTyped, Hand
  <1>1. ASSUME NEW r \in Tx, OnARResponse(r)
        PROVE  Typed'
    <2> DEFINE t == slot[txn[r].label]
    <2>1. txn[r].label \in Labels
      BY <1>0 DEF Transaction
    <2>2. \A x \in Transaction : [x EXCEPT !.latch = TRUE] \in Transaction
      BY DEF Transaction
    <2>3. txn' \in [Tx -> Transaction]
      BY <1>0, <1>1, <2>1, <2>2 DEF OnARResponse
    <2>4. fin' \in Hand /\ ((fin'.pc = fin.pc /\ fin'.tx = fin.tx) \/ fin'.pc = "extract")
      BY <1>0, <1>1, <2>1, HandTyped DEF OnARResponse, Ending
    <2>5. job' \in [kind : {"idle", "rx", "drain", "tick", "posted", "begin", "cancelAll", "cancelGen"},
                    todo : SUBSET Labels]
      BY <1>1 DEF OnARResponse, WorkerTyped
    <2>. QED BY <1>1, <2>3, <2>4, <2>5 DEF OnARResponse, TablesTyped, BusTyped, ThreadsTyped, WireTyped,
                                     WorkerTyped, FramesName, Hand
  <1>2. ASSUME NEW t \in Tx, RunPostedCancel(t)
        PROVE  Typed'
    <2>1. txn' \in [Tx -> Transaction]
      BY <1>0, <1>2, OutcomeTyped DEF RunPostedCancel
    <2>2. fin' \in Hand /\ ((fin'.pc = fin.pc /\ fin'.tx = fin.tx) \/ fin'.tx = t)
      <3>1. CASE fin' = fin
        BY <1>0, <3>1
      <3>2. CASE fin' = [NoFin EXCEPT !.pc = "callback", !.tx = t, !.how = "cancel"]
        BY <3>2, HandTyped DEF Hand, Ending
      <3>. QED BY <1>2, <3>1, <3>2 DEF RunPostedCancel
    <2>3. job' \in [kind : {"idle", "rx", "drain", "tick", "posted", "begin", "cancelAll", "cancelGen"},
                    todo : SUBSET Labels]
      BY <1>2 DEF RunPostedCancel, WorkerTyped
    <2>. QED BY <1>2, <2>1, <2>2, <2>3 DEF RunPostedCancel, TablesTyped, BusTyped, ThreadsTyped, WireTyped,
                                     WorkerTyped, FramesName, Hand
  <1>3. CASE OnTxInterrupt \/ OnTimeoutTick
    <2>1. job' \in [kind : {"idle", "rx", "drain", "tick", "posted", "begin", "cancelAll", "cancelGen"},
                    todo : SUBSET Labels]
      BY <1>3 DEF OnTxInterrupt, OnTimeoutTick, ExpiredLabels
    <2>. QED BY <1>3, <2>1 DEF OnTxInterrupt, OnTimeoutTick, TablesTyped, BusTyped, ThreadsTyped, WireTyped,
                               WorkerTyped, FramesName
  <1>4. ASSUME NEW decoded \in BOOLEAN, ConfirmBusGeneration(decoded)
        PROVE  Typed'
    BY <1>4 DEF ConfirmBusGeneration, TablesTyped, BusTyped, ThreadsTyped, WireTyped, WorkerTyped, FramesName
  <1>5. CASE OnBusResetComplete
    BY <1>5 DEF OnBusResetComplete, TablesTyped, BusTyped, ThreadsTyped, WireTyped, WorkerTyped, FramesName
  <1>6. CASE Teardown
    <2>1. \A t \in Tx : Destroyed(Outcome(txn[t], "cancel")) \in Transaction
      BY <1>0, OutcomeTyped, DestroyedTyped
    <2>2. txn' \in [Tx -> Transaction]
      BY <1>0, <1>6, <2>1 DEF Teardown
    <2>3. calls' \in [Tx -> Nat]
      BY <1>6 DEF Teardown, WorkerTyped
    <2>4. slot' \in [Labels -> Tx \cup {NoTx}] /\ BusTyped' /\ WireTyped'
      <3>1. slot' \in [Labels -> Tx \cup {NoTx}]
        BY <1>6 DEF Teardown
      <3>2. BusTyped'
        BY <1>6 DEF Teardown, BusTyped
      <3>3. WireTyped'
        BY <1>6 DEF Teardown, WireTyped
      <3>. QED BY <3>1, <3>2, <3>3
    <2>. QED BY <1>6, <2>2, <2>3, <2>4 DEF Teardown, TablesTyped, ThreadsTyped, WorkerTyped, FramesName
  <1>. QED BY <1>1, <1>2, <1>3, <1>4, <1>5, <1>6 DEF StartJob

\* The controller, the device and the clock keep the types.
LEMMA EnvironmentTyped ==
    ASSUME Typed, Environment
    PROVE  Typed'
  <1>. USE AsyncAssumption DEF Typed, TypeOK
  <1>0. slot \in [Labels -> Tx \cup {NoTx}] /\ txn \in [Tx -> Transaction] /\ ring \in Seq(Descriptor)
    BY DEF TablesTyped, WireTyped, Descriptor
  <1>1. ASSUME NEW ev \in load.events, HwComplete(ev)
        PROVE  Typed'
    <2>1. PICK i \in 1..Len(ring) :
              /\ ring' = [ring EXCEPT ![i].status = ev]
              /\ asked' = IF ev \in {"complete", "pending", "tardy", "other"}
                          THEN asked \cup {ring[i].tx} ELSE asked
              /\ UNCHANGED <<tables, bus, threads, rsp, worker>>
      BY <1>1 DEF HwComplete
    <2>2. ring[i] \in Descriptor /\ Len(ring) \in Nat /\ DOMAIN ring = 1..Len(ring)
      BY <1>0
    <2>3. [ring[i] EXCEPT !.status = ev] \in Descriptor /\ ring[i].tx \in Tx
      BY <2>2 DEF Descriptor
    <2>4. ring' \in [1..Len(ring) -> Descriptor]
      BY <1>0, <2>1, <2>2, <2>3
    <2>5. ring' \in Seq(Descriptor)
      BY <2>2, <2>4, FunctionIsSeq
    <2>6. WireTyped'
      BY <2>1, <2>3, <2>5 DEF WireTyped, Descriptor
    <2>. QED BY <2>1, <2>6 DEF TablesTyped, BusTyped, ThreadsTyped, WorkerTyped, FramesName
  <1>2. CASE HwBusReset
    <2>1. ring' \in Seq(Descriptor)
      BY <1>2, FlushedTyped DEF HwBusReset
    <2>. QED BY <1>2, <2>1 DEF HwBusReset, TablesTyped, BusTyped, ThreadsTyped, WireTyped, WorkerTyped, FramesName,
                               Descriptor
  <1>3. ASSUME NEW t \in Tx, Respond(t)
        PROVE  Typed'
    BY <1>3 DEF Respond, TablesTyped, BusTyped, ThreadsTyped, WireTyped, WorkerTyped, FramesName
  <1>4. ASSUME NEW l \in Labels, Expire(l)
        PROVE  Typed'
    <2>1. \A x \in Transaction : [x EXCEPT !.deadline = "expired"] \in Transaction
      BY DEF Transaction, Deadline
    <2>2. txn' \in [Tx -> Transaction]
      BY <1>0, <1>4, <2>1 DEF Expire
    <2>3. UNCHANGED <<bitmap, cursor, slot, nextTx, bus, threads, wire, worker>>
      BY <1>4 DEF Expire
    <2>4. TablesTyped'
      BY <2>2, <2>3 DEF TablesTyped
    <2>5. BusTyped' /\ ThreadsTyped'
      BY <2>3 DEF bus, threads, BusTyped, ThreadsTyped
    <2>6. WireTyped' /\ WorkerTyped'
      BY <2>3 DEF wire, worker, WireTyped, WorkerTyped
    <2>7. FramesName'
      BY <2>3 DEF threads, FramesName
    <2>. QED BY <2>4, <2>5, <2>6, <2>7
  <1>. QED BY <1>1, <1>2, <1>3, <1>4 DEF Environment

\* Every step keeps the types.
LEMMA TypedStep == Typed /\ [Next]_vars => Typed'
  <1>1. CASE UNCHANGED vars
    BY <1>1 DEF vars, Typed, TypeOK, TablesTyped, BusTyped, ThreadsTyped, WireTyped, WorkerTyped, FramesName
  <1>. QED BY <1>1, SubmitTyped, JobTyped, StartTyped, EnvironmentTyped DEF Next

\* The types hold at the start.
LEMMA TypedInit == Init => Typed
  <1>. SUFFICES ASSUME Init PROVE Typed
    OBVIOUS
  <1>. USE AsyncAssumption DEF Init
  <1>1. NoTransaction \in Transaction /\ 0 \in Labels
    BY DEF NoTransaction, Transaction, State, Ack, Deadline, Labels
  <1>2. TablesTyped /\ BusTyped
    <2>1. TablesTyped
      BY <1>1 DEF TablesTyped
    <2>2. resets \in 0..MaxResets /\ gen \in Nat
      OBVIOUS
    <2>3. gate \in BOOLEAN /\ accepting \in BOOLEAN
      BY Zenon
    <2>. QED BY <2>1, <2>2, <2>3, Zenon DEF BusTyped
  <1>3. ThreadsTyped
    BY RestingTyped DEF ThreadsTyped, Frame
  <1>4. WireTyped
    BY DEF WireTyped
  <1>5. WorkerTyped
    BY HandTyped DEF WorkerTyped, Hand, Idle
  <1>6. FramesName
    BY RestingTyped, HandTyped DEF FramesName
  <1>. QED BY <1>2, <1>3, <1>4, <1>5, <1>6 DEF Typed, TypeOK

\* next_label_ stays a label, the table holds only objects that were created,
\* the AT ring names only objects, and every thread is at a point of the code:
\* for any number of labels, queues, transactions and bus resets.
THEOREM TypeCorrect == Spec => []TypeOK
  <1>1. Typed => TypeOK
    BY DEF Typed
  <1>. QED BY <1>1, TypedInit, TypedStep, PTL DEF Spec

-----------------------------------------------------------------------------
(* Ownership *)

\* Somebody holds the object.
Held(t) == InTable(t) \/ InHand(t) \/ InCancel(t) \/ InPost(t)

\* Nobody holds an object that was not created.
HeldCreated == \A t \in Tx : Held(t) => t < nextTx

\* Held, and its end not yet decided.
Undecided(t) == InTable(t) \/ InCancel(t) \/ InPost(t) \/ (InHand(t) /\ fin.pc # "callback")

\* An object whose end is not decided is in no terminal state: the checks that
\* skip a finished transaction (in the bus reset path, in a posted cancellation
\* and in CancelAll) never skip one that is owed an answer.
HeldAlive == \A t \in Tx : Undecided(t) => txn[t].st \notin TerminalState

\* Where each object is, and how often its callback has run.
Ownership == Exclusive /\ AnsweredOnce /\ HeldCreated

\* Threads change nothing about the cancellations under way.
SameCancels ==
    \A th \in Threads :
        /\ sub'[th].pc = "cancelling" <=> sub[th].pc = "cancelling"
        /\ sub[th].pc = "cancelling" => sub'[th].tx = sub[th].tx

\* Ownership depends on the state only through who holds what.
LEMMA OwnershipFrame ==
    ASSUME Ownership, SameCancels,
           UNCHANGED <<slot, nextTx, posted, calls>>,
           \A t \in Tx : InHand(t)' <=> InHand(t)
    PROVE  Ownership'
  <1>1. \A t \in Tx : /\ InTable(t)' <=> InTable(t)
                      /\ InCancel(t)' <=> InCancel(t)
                      /\ InPost(t)' <=> InPost(t)
    BY DEF InTable, InCancel, InPost, SameCancels
  <1>2. Exclusive'
    BY <1>1 DEF Ownership, Exclusive, SameCancels
  <1>3. AnsweredOnce' /\ HeldCreated'
    BY <1>1 DEF Ownership, AnsweredOnce, HeldCreated, Held
  <1>. QED BY <1>2, <1>3 DEF Ownership

\* Submitting leaves the cancellations under way alone.
LEMMA SubmitSameCancels ==
    ASSUME ThreadsTyped, NEW th \in Threads,
           \/ \E s \in load.strategies : PrepareTransactionContext(th, s)
           \/ RegisterLabel(th) \/ RegisterBusy(th) \/ RegisterTransaction(th)
           \/ SubmitFails(th) \/ SubmitChain(th) \/ OnTxPosted(th)
    PROVE  SameCancels
  <1>0. sub \in [Threads -> Frame]
    BY DEF ThreadsTyped, Frame
  <1>1. ASSUME sub[th].pc # "cancelling", NEW f, sub' = [sub EXCEPT ![th] = f], f.pc # "cancelling"
        PROVE  SameCancels
    BY <1>0, <1>1 DEF SameCancels
  <1>2. ASSUME NEW s \in load.strategies, PrepareTransactionContext(th, s)
        PROVE  SameCancels
    BY <1>0, <1>2 DEF PrepareTransactionContext, CanCall, Prepared, Resting, SameCancels
  <1>3. CASE RegisterLabel(th)
    <2>1. ASSUME NEW l \in Labels, sub' = [sub EXCEPT ![th].pc = "labelled", ![th].label = l]
          PROVE  SameCancels
      BY <1>0, <1>3, <2>1 DEF RegisterLabel, SameCancels
    <2>2. CASE sub' = [sub EXCEPT ![th] = Resting]
      BY <1>0, <1>1, <1>3, <2>2, RestingTyped DEF RegisterLabel
    <2>. QED BY <1>3, <2>1, <2>2 DEF RegisterLabel
  <1>4. CASE RegisterTransaction(th)
    <2>1. sub' = [sub EXCEPT ![th].pc = "registered", ![th].tx = nextTx] /\ sub[th].pc = "labelled"
      BY <1>4 DEF RegisterTransaction, Install
    <2>. QED BY <1>0, <2>1 DEF SameCancels, Frame
  <1>5. CASE SubmitChain(th)
    BY <1>0, <1>5 DEF SubmitChain, SameCancels
  <1>6. CASE RegisterBusy(th) \/ SubmitFails(th) \/ OnTxPosted(th)
    BY <1>1, <1>6, RestingTyped DEF RegisterBusy, SubmitFails, OnTxPosted
  <1>. QED BY <1>2, <1>3, <1>4, <1>5, <1>6

\* The submit path and CancelTransactionHandle move an object only from
\* nowhere into the table, from the table to the canceller and from there to
\* the posted block.
LEMMA SubmitOwnership ==
    ASSUME Typed, Ownership, NEW th \in load.by, Call(th) \/ SubmitStep(th)
    PROVE  Ownership'
  <1>. USE AsyncAssumption DEF Typed, TypeOK
  <1>0. /\ th \in Threads /\ sub \in [Threads -> Frame]
        /\ slot \in [Labels -> Tx \cup {NoTx}] /\ NoTx \notin Tx
    BY DEF BusTyped, ThreadsTyped, Frame, TablesTyped, Tx
  <1>1. ASSUME NEW s \in load.strategies, PrepareTransactionContext(th, s)
        PROVE  Ownership'
    <2>1. SameCancels
      BY <1>0, <1>1, SubmitSameCancels
    <2>. QED BY <1>1, <2>1, OwnershipFrame DEF PrepareTransactionContext, InHand
  <1>2. CASE CancelExtract(th)
    <2> DEFINE l == handle[th]
               x == slot[l]
    <2>1. l \in Labels /\ x \in Tx
      BY <1>0, <1>2 DEF CancelExtract, ThreadsTyped
    <2>2. /\ slot' = [slot EXCEPT ![l] = NoTx]
          /\ sub'[th].pc = "cancelling" /\ sub'[th].tx = x
          /\ \A o \in Threads \ {th} : sub'[o] = sub[o]
          /\ sub[th].pc = "idle"
          /\ UNCHANGED <<nextTx, posted, calls, fin>>
      BY <1>0, <1>2 DEF CancelExtract, CanCall, Resting
    <2> HIDE DEF l, x
    <2>3. x = slot[l] /\ InTable(x)
      BY <2>1 DEF x, InTable
    <2>4. \A t \in Tx : /\ InTable(t)' <=> InTable(t) /\ t # x
                        /\ InCancel(t)' <=> InCancel(t) \/ t = x
                        /\ InHand(t)' <=> InHand(t)
                        /\ InPost(t)' <=> InPost(t)
      <3>1. \A t \in Tx : InTable(t)' <=> InTable(t) /\ t # x
        BY <1>0, <2>1, <2>2, <2>3 DEF InTable, Ownership, Exclusive
      <3>2. \A t \in Tx : InCancel(t)' <=> InCancel(t) \/ t = x
        BY <1>0, <2>2 DEF InCancel
      <3>. QED BY <2>2, <3>1, <3>2 DEF InHand, InPost
    <2>5. Exclusive'
      <3>1. \A i, j \in Labels : slot'[i] = slot'[j] /\ slot'[i] # NoTx => i = j
        BY <1>0, <2>1, <2>2 DEF Ownership, Exclusive
      <3>2. \A a, b \in Threads :
                sub'[a].pc = "cancelling" /\ sub'[b].pc = "cancelling" /\ sub'[a].tx = sub'[b].tx => a = b
        BY <1>0, <2>1, <2>2, <2>3 DEF Ownership, Exclusive, InCancel
      <3>. QED BY <2>1, <2>3, <2>4, <3>1, <3>2 DEF Ownership, Exclusive
    <2>6. AnsweredOnce' /\ HeldCreated'
      BY <2>1, <2>2, <2>3, <2>4 DEF Ownership, AnsweredOnce, HeldCreated, Held
    <2>. QED BY <2>5, <2>6 DEF Ownership
  <1>3. CASE RegisterLabel(th)
    <2>1. SameCancels
      BY <1>0, <1>3, SubmitSameCancels
    <2>. QED BY <1>3, <2>1, OwnershipFrame DEF RegisterLabel, InHand
  <1>4. CASE RegisterBusy(th)
    <2>1. SameCancels
      BY <1>0, <1>4, SubmitSameCancels
    <2>. QED BY <1>4, <2>1, OwnershipFrame DEF RegisterBusy, InHand
  <1>5. CASE RegisterTransaction(th)
    <2> DEFINE l == sub[th].label
    <2>1. l \in Labels /\ nextTx \in Tx /\ nextTx \in Nat
      <3>1. l \in Labels
        BY <1>0 DEF Frame
      <3>. QED BY <1>5, <3>1 DEF RegisterTransaction, Install, TablesTyped, Tx
    <2>2. /\ slot[l] = NoTx /\ slot' = [slot EXCEPT ![l] = nextTx] /\ nextTx' = nextTx + 1
          /\ UNCHANGED <<posted, calls, fin>>
      BY <1>5 DEF RegisterTransaction, Install
    <2>3. SameCancels
      BY <1>0, <1>5, SubmitSameCancels
    <2> HIDE DEF l
    <2>4. \A t \in Tx : /\ InTable(t)' <=> InTable(t) \/ t = nextTx
                        /\ InCancel(t)' <=> InCancel(t)
                        /\ InHand(t)' <=> InHand(t)
                        /\ InPost(t)' <=> InPost(t)
      <3>1. \A t \in Tx : InTable(t)' <=> InTable(t) \/ t = nextTx
        BY <1>0, <2>1, <2>2 DEF InTable
      <3>. QED BY <2>2, <2>3, <3>1 DEF InHand, InPost, InCancel, SameCancels
    <2>5. ~Held(nextTx)
      BY <2>1 DEF Ownership, HeldCreated
    <2>6. Exclusive'
      <3>1. \A i, j \in Labels : slot'[i] = slot'[j] /\ slot'[i] # NoTx => i = j
        BY <1>0, <2>1, <2>2, <2>5 DEF Ownership, Exclusive, Held, InTable
      <3>2. \A a, b \in Threads :
                sub'[a].pc = "cancelling" /\ sub'[b].pc = "cancelling" /\ sub'[a].tx = sub'[b].tx => a = b
        BY <2>3 DEF Ownership, Exclusive, SameCancels
      <3>. QED BY <2>1, <2>4, <2>5, <3>1, <3>2 DEF Ownership, Exclusive, Held
    <2>7. \A t \in Tx : t \in Nat /\ (t >= nextTx' \/ t = nextTx <=> t >= nextTx)
      BY <2>1, <2>2 DEF Tx
    <2>8. AnsweredOnce'
      BY <2>1, <2>2, <2>4, <2>7 DEF Ownership, AnsweredOnce
    <2>9. HeldCreated'
      BY <2>1, <2>2, <2>4, <2>7 DEF Ownership, HeldCreated, Held
    <2>. QED BY <2>6, <2>8, <2>9 DEF Ownership
  <1>6. CASE SubmitFails(th)
    <2>1. SameCancels
      BY <1>0, <1>6, SubmitSameCancels
    <2>. QED BY <1>6, <2>1, OwnershipFrame DEF SubmitFails, InHand
  <1>7. CASE SubmitChain(th)
    <2>1. SameCancels
      BY <1>0, <1>7, SubmitSameCancels
    <2>. QED BY <1>7, <2>1, OwnershipFrame DEF SubmitChain, InHand
  <1>8. CASE OnTxPosted(th)
    <2>1. SameCancels
      BY <1>0, <1>8, SubmitSameCancels
    <2>. QED BY <1>8, <2>1, OwnershipFrame DEF OnTxPosted, InHand
  <1>9. CASE CancelPost(th)
    <2> DEFINE x == sub[th].tx
    <2>1. x \in Tx /\ InCancel(x)
      BY <1>0, <1>9 DEF CancelPost, FramesName, InCancel
    <2>2. /\ sub[th].pc = "cancelling" /\ sub'[th].pc = "idle"
          /\ \A o \in Threads \ {th} : sub'[o] = sub[o]
          /\ posted' = posted \cup {x}
          /\ UNCHANGED <<slot, nextTx, calls, fin>>
      BY <1>0, <1>9 DEF CancelPost, Resting
    <2>3. \A t \in Tx : /\ InTable(t)' <=> InTable(t)
                        /\ InCancel(t)' <=> InCancel(t) /\ t # x
                        /\ InHand(t)' <=> InHand(t)
                        /\ InPost(t)' <=> InPost(t) \/ t = x
      <3>1. \A t \in Tx : InCancel(t)' <=> InCancel(t) /\ t # x
        BY <1>0, <2>1, <2>2 DEF InCancel, Ownership, Exclusive
      <3>. QED BY <2>2, <3>1 DEF InTable, InHand, InPost
    <2> HIDE DEF x
    <2>4. Exclusive'
      <3>1. \A i, j \in Labels : slot'[i] = slot'[j] /\ slot'[i] # NoTx => i = j
        BY <2>2 DEF Ownership, Exclusive
      <3>2. \A a, b \in Threads :
                sub'[a].pc = "cancelling" /\ sub'[b].pc = "cancelling" /\ sub'[a].tx = sub'[b].tx => a = b
        BY <2>2 DEF Ownership, Exclusive
      <3>. QED BY <2>1, <2>3, <3>1, <3>2 DEF Ownership, Exclusive
    <2>5. AnsweredOnce' /\ HeldCreated'
      BY <2>1, <2>2, <2>3 DEF Ownership, AnsweredOnce, HeldCreated, Held
    <2>. QED BY <2>4, <2>5 DEF Ownership
  <1>. QED BY <1>1, <1>2, <1>3, <1>4, <1>5, <1>6, <1>7, <1>8, <1>9 DEF Call, SubmitStep

\* T0 finishing a transaction takes it from the table into its hand, and lets it
\* go with the callback.
LEMMA FinishOwnership ==
    ASSUME Typed, Ownership, HeldAlive, FinishStep
    PROVE  Ownership'
  <1>. USE AsyncAssumption DEF Typed, TypeOK
  <1>0. /\ slot \in [Labels -> Tx \cup {NoTx}] /\ NoTx \notin Tx
        /\ fin \in Hand /\ calls \in [Tx -> Nat]
    BY DEF TablesTyped, Tx, WorkerTyped, Hand
  <1>1. CASE FinishExtract
    <2> DEFINE l == fin.label
               x == slot[l]
    <2>1. l \in Labels /\ fin.pc = "extract" /\ UNCHANGED <<nextTx, posted, calls, sub>>
      BY <1>0, <1>1 DEF FinishExtract, Hand
    <2>2. SameCancels
      BY <2>1 DEF SameCancels
    <2>3. CASE x = NoTx
      <3>1. slot' = slot /\ fin'.pc = "none"
        BY <1>0, <1>1, <2>3, HandTyped DEF FinishExtract, Extract
      <3>. QED BY <2>1, <2>2, <3>1, OwnershipFrame DEF InHand
    <2>4. CASE x # NoTx
      <3>1. /\ x \in Tx /\ slot' = [slot EXCEPT ![l] = NoTx] /\ x = slot[l]
            /\ fin'.pc \in {"free", "callbackFirst"} /\ fin'.tx = x
        BY <1>0, <1>1, <2>1, <2>4 DEF FinishExtract, Extract, Hand
      <3> HIDE DEF l, x
      <3>2. \A t \in Tx : /\ InTable(t)' <=> InTable(t) /\ t # x
                          /\ InHand(t)' <=> t = x
                          /\ ~InHand(t)
                          /\ InCancel(t)' <=> InCancel(t)
                          /\ InPost(t)' <=> InPost(t)
        <4>1. \A t \in Tx : InTable(t)' <=> InTable(t) /\ t # x
          BY <1>0, <2>1, <3>1 DEF InTable, Ownership, Exclusive
        <4>. QED BY <2>1, <2>2, <3>1, <4>1 DEF InHand, InPost, InCancel, SameCancels
      <3>3. InTable(x)
        BY <2>1, <3>1 DEF InTable
      <3>4. Exclusive'
        <4>1. \A i, j \in Labels : slot'[i] = slot'[j] /\ slot'[i] # NoTx => i = j
          BY <1>0, <2>1, <3>1 DEF Ownership, Exclusive
        <4>2. \A a, b \in Threads :
                  sub'[a].pc = "cancelling" /\ sub'[b].pc = "cancelling" /\ sub'[a].tx = sub'[b].tx => a = b
          BY <2>1 DEF Ownership, Exclusive
        <4>. QED BY <3>1, <3>2, <3>3, <4>1, <4>2 DEF Ownership, Exclusive
      <3>5. AnsweredOnce' /\ HeldCreated'
        BY <2>1, <3>1, <3>2, <3>3 DEF Ownership, AnsweredOnce, HeldCreated, Held
      <3>. QED BY <3>4, <3>5 DEF Ownership
    <2>. QED BY <2>3, <2>4
  <1>2. CASE FinishFree
    <2>1. \A t \in Tx : InHand(t)' <=> InHand(t)
      BY <1>0, <1>2 DEF FinishFree, InHand, Hand
    <2>. QED BY <1>2, <2>1, OwnershipFrame DEF FinishFree, SameCancels
  <1>3. CASE FinishCallback \/ FinishCallbackFirst
    <2> DEFINE x == fin.tx
    <2>1. /\ x \in Tx /\ InHand(x) /\ \A t \in Tx : InHand(t) => t = x
          /\ UNCHANGED <<slot, nextTx, posted, sub>>
      BY <1>3 DEF FinishCallback, FinishCallbackFirst, FramesName, InHand
    <2>2. calls' = [calls EXCEPT ![x] = calls[x] + 1]
      <3>1. CASE FinishCallback
        BY <3>1 DEF FinishCallback
      <3>2. CASE FinishCallbackFirst
        BY <2>1, <3>2 DEF FinishCallbackFirst, HeldAlive, Undecided
      <3>. QED BY <1>3, <3>1, <3>2
    <2>3. fin'.pc \in {"none", "freeLast"}
      BY <1>0, <1>3, HandTyped DEF FinishCallback, FinishCallbackFirst, Hand
    <2> HIDE DEF x
    <2>4. \A t \in Tx : /\ InTable(t)' <=> InTable(t)
                        /\ ~InHand(t)'
                        /\ InCancel(t)' <=> InCancel(t)
                        /\ InPost(t)' <=> InPost(t)
      BY <2>1, <2>3 DEF InTable, InHand, InPost, InCancel
    <2>5. Exclusive'
      <3>1. \A i, j \in Labels : slot'[i] = slot'[j] /\ slot'[i] # NoTx => i = j
        BY <2>1 DEF Ownership, Exclusive
      <3>2. \A a, b \in Threads :
                sub'[a].pc = "cancelling" /\ sub'[b].pc = "cancelling" /\ sub'[a].tx = sub'[b].tx => a = b
        BY <2>1 DEF Ownership, Exclusive
      <3>. QED BY <2>4, <3>1, <3>2 DEF Ownership, Exclusive
    <2>6. AnsweredOnce'
      <3>1. /\ x < nextTx /\ ~InTable(x) /\ ~InCancel(x) /\ ~InPost(x) /\ calls[x] = 0
            /\ ~(x >= nextTx)
        <4>1. x < nextTx /\ ~InTable(x) /\ ~InCancel(x) /\ ~InPost(x) /\ calls[x] = 0
          BY <2>1 DEF Ownership, Exclusive, AnsweredOnce, HeldCreated, Held
        <4>2. x \in Nat /\ nextTx \in Nat
          BY <2>1 DEF Tx, TablesTyped
        <4>. QED BY <4>1, <4>2
      <3>2. calls'[x] = 1 /\ \A t \in Tx \ {x} : calls'[t] = calls[t]
        BY <1>0, <2>1, <2>2, <3>1
      <3>. QED BY <2>1, <2>4, <3>1, <3>2 DEF Ownership, AnsweredOnce
    <2>7. HeldCreated'
      BY <2>1, <2>4 DEF Ownership, HeldCreated, Held
    <2>. QED BY <2>5, <2>6, <2>7 DEF Ownership
  <1>4. CASE FinishFreeLast
    <2>1. \A t \in Tx : InHand(t)' <=> InHand(t)
      BY <1>4, HandTyped DEF FinishFreeLast, InHand
    <2>. QED BY <1>4, <2>1, OwnershipFrame DEF FinishFreeLast, SameCancels
  <1>. QED BY <1>1, <1>2, <1>3, <1>4 DEF FinishStep

\* An AT completion leaves T0's hand alone or sends it to a label.
LEMMA ATDecides ==
    ASSUME NEW c, NEW ev, OnATCompletion(c, ev)
    PROVE  \/ fin' = fin
           \/ /\ slot[txn[c].label] # NoTx
              /\ \E how \in ATPostAction(txn[slot[txn[c].label]], ev) :
                     /\ fin' = Finishing(txn[c].label, how, c)
                     /\ fin'.pc = "extract"
  <1> DEFINE l == txn[c].label
             ends == IF slot[l] = NoTx THEN {} ELSE ATPostAction(txn[slot[l]], ev)
  <1>1. fin' = fin \/ \E how \in ends : fin' = Finishing(l, how, c)
    BY DEF OnATCompletion
  <1>2. ASSUME NEW how \in ends, fin' = Finishing(l, how, c)
        PROVE  /\ slot[l] # NoTx /\ how \in ATPostAction(txn[slot[l]], ev)
               /\ fin'.pc = "extract"
    <2>1. Finishing(l, how, c).pc = "extract"
      BY DEF Finishing
    <2>. QED BY <1>2, <2>1
  <1>. QED BY <1>1, <1>2

\* The steps of a job that only decide move no object.
LEMMA JobOwnership ==
    ASSUME Typed, Ownership, HeldAlive, JobStep
    PROVE  Ownership'
  <1>. USE DEF SameCancels
  <1>1. CASE DrainTxCompletion
    <2>1. fin.pc = "none" /\ (fin' = fin \/ fin'.pc = "extract")
      BY <1>1, ATDecides DEF DrainTxCompletion
    <2>. QED BY <1>1, <2>1, OwnershipFrame DEF DrainTxCompletion, InHand
  <1>2. CASE TickDrains \/ JobDone \/ OnBusResetBegin \/ CancelByGeneration
    BY <1>2, OwnershipFrame DEF TickDrains, JobDone, OnBusResetBegin, CancelByGeneration, InHand
  <1>3. ASSUME NEW l \in Labels, TickTimeout(l)
        PROVE  Ownership'
    <2>1. fin.pc = "none" /\ (fin' = fin \/ fin'.pc = "extract")
      BY <1>3 DEF TickTimeout, OnTimeout, Finishing
    <2>. QED BY <1>3, <2>1, OwnershipFrame DEF TickTimeout, InHand
  <1>4. ASSUME NEW l \in Labels, CancelVictim(l)
        PROVE  Ownership'
    <2>1. fin.pc = "none" /\ fin'.pc = "extract"
      BY <1>4 DEF CancelVictim, Finishing
    <2>. QED BY <1>4, <2>1, OwnershipFrame DEF CancelVictim, InHand
  <1>5. CASE ClearAndFlush
    BY <1>5, OwnershipFrame DEF ClearAndFlush, InHand
  <1>. QED BY <1>1, <1>2, <1>3, <1>4, <1>5, FinishOwnership DEF JobStep

\* A posted cancellation takes the object into T0's hand, teardown answers
\* everything in the table, and the other blocks move nothing.
LEMMA StartOwnership ==
    ASSUME Typed, Ownership, HeldAlive, StartJob
    PROVE  Ownership'
  <1>. USE AsyncAssumption DEF Typed, TypeOK
  <1>0. /\ slot \in [Labels -> Tx \cup {NoTx}] /\ NoTx \notin Tx
        /\ calls \in [Tx -> Nat] /\ nextTx \in Nat /\ Tx \subseteq Nat
    BY DEF TablesTyped, Tx, WorkerTyped
  <1>1. ASSUME NEW r \in Tx, OnARResponse(r)
        PROVE  Ownership'
    <2>1. fin.pc = "none" /\ (fin' = fin \/ fin'.pc = "extract")
      BY <1>1 DEF OnARResponse, T0Idle, Finishing
    <2>. QED BY <1>1, <2>1, OwnershipFrame DEF OnARResponse, InHand, SameCancels
  <1>2. ASSUME NEW x \in Tx, RunPostedCancel(x)
        PROVE  Ownership'
    <2>1. InPost(x) /\ posted' = posted \ {x} /\ UNCHANGED <<slot, nextTx, calls, sub>> /\ fin.pc = "none"
      BY <1>2 DEF RunPostedCancel, InPost, T0Idle
    <2>2. fin'.pc = "callback" /\ fin'.tx = x
      BY <1>2, <2>1 DEF RunPostedCancel, NoFin, HeldAlive, Undecided
    <2>3. \A t \in Tx : /\ InTable(t)' <=> InTable(t)
                        /\ InHand(t)' <=> t = x
                        /\ ~InHand(t)
                        /\ InCancel(t)' <=> InCancel(t)
                        /\ InPost(t)' <=> InPost(t) /\ t # x
      BY <2>1, <2>2 DEF InTable, InHand, InPost, InCancel
    <2>4. Exclusive'
      <3>1. \A i, j \in Labels : slot'[i] = slot'[j] /\ slot'[i] # NoTx => i = j
        BY <2>1 DEF Ownership, Exclusive
      <3>2. \A a, b \in Threads :
                sub'[a].pc = "cancelling" /\ sub'[b].pc = "cancelling" /\ sub'[a].tx = sub'[b].tx => a = b
        BY <2>1 DEF Ownership, Exclusive
      <3>. QED BY <2>1, <2>3, <3>1, <3>2 DEF Ownership, Exclusive
    <2>5. AnsweredOnce' /\ HeldCreated'
      BY <2>1, <2>3 DEF Ownership, AnsweredOnce, HeldCreated, Held
    <2>. QED BY <2>4, <2>5 DEF Ownership
  <1>3. CASE OnTxInterrupt \/ OnTimeoutTick \/ OnBusResetComplete
    BY <1>3, OwnershipFrame DEF OnTxInterrupt, OnTimeoutTick, OnBusResetComplete, InHand, SameCancels
  <1>4. ASSUME NEW decoded \in BOOLEAN, ConfirmBusGeneration(decoded)
        PROVE  Ownership'
    BY <1>4, OwnershipFrame DEF ConfirmBusGeneration, InHand, SameCancels
  <1>5. CASE Teardown
    <2>1. /\ slot' = [l \in Labels |-> NoTx] /\ UNCHANGED <<nextTx, sub, fin, posted>>
          /\ fin.pc = "none" /\ \A th \in Threads : sub[th].pc = "idle"
      BY <1>5 DEF Teardown, T0Idle
    <2>2. \A t \in Tx : /\ ~InTable(t)'
                        /\ ~InHand(t) /\ ~InHand(t)'
                        /\ ~InCancel(t) /\ ~InCancel(t)'
                        /\ InPost(t)' <=> InPost(t)
      BY <1>0, <2>1 DEF InTable, InHand, InPost, InCancel
    <2>3. \A t \in Tx : calls'[t] = IF InTable(t) THEN calls[t] + 1 ELSE calls[t]
      <3> DEFINE live == {t \in Tx : /\ \E l \in Labels : slot[l] = t
                                     /\ txn[t].st \notin {"Completed", "Failed", "Cancelled"}}
      <3>1. \A t \in Tx : t \in live <=> InTable(t)
        BY DEF HeldAlive, Undecided, TerminalState, InTable
      <3>2. calls' = [t \in Tx |-> IF t \in live THEN calls[t] + 1 ELSE calls[t]]
        BY <1>5 DEF Teardown
      <3> HIDE DEF live
      <3>. QED BY <3>1, <3>2
    <2>4. Exclusive'
      <3>1. \A i, j \in Labels : slot'[i] = slot'[j] /\ slot'[i] # NoTx => i = j
        BY <2>1
      <3>2. \A a, b \in Threads :
                sub'[a].pc = "cancelling" /\ sub'[b].pc = "cancelling" /\ sub'[a].tx = sub'[b].tx => a = b
        BY <2>1
      <3>. QED BY <2>2, <3>1, <3>2 DEF Exclusive
    <2>5. AnsweredOnce'
      <3>1. ASSUME NEW t \in Tx
            PROVE  calls'[t] = IF t >= nextTx \/ InPost(t) THEN 0 ELSE 1
        <4>1. CASE InTable(t)
          <5>1. calls[t] = 0 /\ t < nextTx /\ ~InPost(t)
            BY <4>1 DEF Ownership, AnsweredOnce, HeldCreated, Held, Exclusive
          <5>. QED BY <1>0, <2>3, <4>1, <5>1
        <4>2. CASE ~InTable(t)
          BY <2>2, <2>3, <4>2 DEF Ownership, AnsweredOnce
        <4>. QED BY <4>1, <4>2
      <3>. QED BY <2>1, <2>2, <3>1 DEF AnsweredOnce
    <2>6. HeldCreated'
      BY <2>1, <2>2 DEF Ownership, HeldCreated, Held
    <2>. QED BY <2>4, <2>5, <2>6 DEF Ownership
  <1>. QED BY <1>1, <1>2, <1>3, <1>4, <1>5 DEF StartJob

\* The environment moves nothing.
LEMMA EnvironmentOwnership ==
    ASSUME Ownership, Environment
    PROVE  Ownership'
  BY OwnershipFrame DEF Environment, HwComplete, HwBusReset, Respond, Expire, InHand, SameCancels

\* A transition leaves the state as it was or where it was meant to go.
LEMMA TransitionState ==
    ASSUME NEW x \in Transaction, NEW to \in State
    PROVE  TransitionTo(x, to).st \in {x.st, to}
  BY DEF TransitionTo, Transaction

\* Neither posting nor an AT completion by itself ends a transaction, and a new
\* deadline, an expired one and the response latch leave its state alone.
LEMMA UpdatesKeepAlive ==
    ASSUME NEW x \in Transaction, x.st \notin TerminalState
    PROVE  /\ MarkPosted(x).st \notin TerminalState
           /\ \A ev : ATUpdate(x, ev).st \notin TerminalState
           /\ ExtendDeadline(x).st = x.st
           /\ [x EXCEPT !.deadline = "expired"].st = x.st
           /\ [x EXCEPT !.latch = TRUE].st = x.st
  <1>1. ASSUME NEW y \in Transaction, NEW to \in State \ TerminalState, y.st \notin TerminalState
        PROVE  TransitionTo(y, to) \in Transaction /\ TransitionTo(y, to).st \notin TerminalState
    BY <1>1, TransitionState, TransitionTyped
  <1>2. {"ATPosted", "ATCompleted", "AwaitingAR"} \subseteq State \ TerminalState
    BY DEF State, TerminalState
  <1>3. ASSUME NEW y \in Transaction, y.st \notin TerminalState
        PROVE  Through(y, "ATCompleted", "AwaitingAR") \in Transaction
               /\ Through(y, "ATCompleted", "AwaitingAR").st \notin TerminalState
    <2>1. TransitionTo(y, "ATCompleted") \in Transaction /\ TransitionTo(y, "ATCompleted").st \notin TerminalState
      BY <1>1, <1>2, <1>3
    <2>. QED BY <1>1, <1>2, <2>1 DEF Through
  <1>4. MarkPosted(x).st \notin TerminalState
    <2> DEFINE posting == TransitionTo(x, "ATPosted")
               base == IF x.strategy = "AR" THEN Through(posting, "ATCompleted", "AwaitingAR")
                       ELSE posting
    <2>1. posting \in Transaction /\ posting.st \notin TerminalState
      BY <1>1, <1>2
    <2>2. base \in Transaction /\ base.st \notin TerminalState
      BY <1>3, <2>1
    <2> HIDE DEF base
    <2>3. [base EXCEPT !.deadline = "running"].st = base.st
      BY <2>2 DEF Transaction
    <2>. QED BY <2>2, <2>3 DEF MarkPosted, base
  <1>5. ASSUME NEW ev
        PROVE  ATUpdate(x, ev).st \notin TerminalState
    <2> DEFINE y == [x EXCEPT !.ack = AckOf(ev)]
    <2>1. y \in Transaction /\ y.st \notin TerminalState
      <3>1. AckOf(ev) \in Ack
        BY DEF AckOf, Ack
      <3>. QED BY <3>1 DEF Transaction
    <2> HIDE DEF y
    <2>2. /\ Through(y, "ATCompleted", "AwaitingAR").st \notin TerminalState
          /\ TransitionTo(y, "ATCompleted") \in Transaction
          /\ TransitionTo(y, "ATCompleted").st \notin TerminalState
      BY <1>1, <1>2, <1>3, <2>1
    <2>3. /\ [y EXCEPT !.latch = TRUE].st \notin TerminalState
          /\ [TransitionTo(y, "ATCompleted") EXCEPT !.deadline = "running"].st \notin TerminalState
      BY <2>1, <2>2 DEF Transaction
    <2>. QED BY <2>1, <2>2, <2>3 DEF ATUpdate, y
  <1>6. ExtendDeadline(x).st = x.st /\ [x EXCEPT !.deadline = "expired"].st = x.st
        /\ [x EXCEPT !.latch = TRUE].st = x.st
    BY DEF ExtendDeadline, Transaction
  <1>. QED BY <1>4, <1>5, <1>6

\* HeldAlive is kept by a step that moves nothing into the set of undecided
\* objects and ends none of them.
LEMMA AliveFrame ==
    ASSUME HeldAlive,
           \A t \in Tx : Undecided(t)' =>
               \/ Undecided(t) /\ txn'[t].st = txn[t].st
               \/ txn'[t].st \notin TerminalState
    PROVE  HeldAlive'
  BY DEF HeldAlive

\* The submit path keeps undecided objects alive.
LEMMA SubmitAlive ==
    ASSUME Typed, Ownership, HeldAlive, NEW th \in load.by, Call(th) \/ SubmitStep(th)
    PROVE  HeldAlive'
  <1>. USE AsyncAssumption DEF Typed, TypeOK
  <1>0. /\ th \in Threads /\ sub \in [Threads -> Frame]
        /\ slot \in [Labels -> Tx \cup {NoTx}] /\ NoTx \notin Tx
        /\ txn \in [Tx -> Transaction]
    BY DEF BusTyped, ThreadsTyped, Frame, TablesTyped, Tx
  <1>a. ASSUME UNCHANGED <<slot, txn, posted, fin>>, SameCancels
        PROVE  HeldAlive'
    BY <1>a, AliveFrame DEF Undecided, InTable, InCancel, InPost, InHand, SameCancels
  <1>1. ASSUME NEW s \in load.strategies, PrepareTransactionContext(th, s)
        PROVE  HeldAlive'
    <2>1. SameCancels
      BY <1>0, <1>1, SubmitSameCancels
    <2>. QED BY <1>1, <1>a, <2>1 DEF PrepareTransactionContext
  <1>2. CASE CancelExtract(th)
    <2>1. /\ slot' = [slot EXCEPT ![handle[th]] = NoTx] /\ handle[th] \in Labels
          /\ sub'[th].pc = "cancelling" /\ sub'[th].tx = slot[handle[th]]
          /\ \A o \in Threads \ {th} : sub'[o] = sub[o]
          /\ UNCHANGED <<txn, posted, fin>>
      BY <1>0, <1>2 DEF CancelExtract, CanCall, Resting, ThreadsTyped
    <2>2. \A t \in Tx : /\ InTable(t)' => InTable(t)
                        /\ InCancel(t)' => InCancel(t) \/ InTable(t)
                        /\ InPost(t)' => InPost(t)
      BY <1>0, <2>1 DEF InTable, InCancel, InPost
    <2>3. \A t \in Tx : InHand(t)' /\ fin'.pc # "callback" => InHand(t) /\ fin.pc # "callback"
      BY <2>1 DEF InHand
    <2>. QED BY <2>1, <2>2, <2>3, AliveFrame DEF Undecided
  <1>3. CASE RegisterLabel(th)
    <2>1. SameCancels
      BY <1>0, <1>3, SubmitSameCancels
    <2>. QED BY <1>3, <1>a, <2>1 DEF RegisterLabel
  <1>4. CASE RegisterBusy(th)
    <2>1. SameCancels
      BY <1>0, <1>4, SubmitSameCancels
    <2>. QED BY <1>4, <1>a, <2>1 DEF RegisterBusy
  <1>5. CASE RegisterTransaction(th)
    <2>1. /\ nextTx \in Tx /\ slot' = [slot EXCEPT ![sub[th].label] = nextTx]
          /\ txn' = [txn EXCEPT ![nextTx] = NewTransaction(th)]
          /\ UNCHANGED <<posted, fin>>
      BY <1>5 DEF RegisterTransaction, Install, TablesTyped, Tx
    <2>2. SameCancels
      BY <1>0, <1>5, SubmitSameCancels
    <2>3. txn'[nextTx].st \notin TerminalState /\ \A t \in Tx \ {nextTx} : txn'[t] = txn[t]
      BY <1>0, <2>1 DEF NewTransaction, NoTransaction, TerminalState
    <2>4. \A t \in Tx \ {nextTx} : /\ InTable(t)' => InTable(t)
                                   /\ InCancel(t)' => InCancel(t)
                                   /\ InPost(t)' => InPost(t)
      BY <1>0, <2>1, <2>2 DEF InTable, InCancel, InPost, SameCancels
    <2>5. \A t \in Tx : InHand(t)' /\ fin'.pc # "callback" => InHand(t) /\ fin.pc # "callback"
      BY <2>1 DEF InHand
    <2>. QED BY <2>3, <2>4, <2>5, AliveFrame DEF Undecided
  <1>6. CASE SubmitFails(th)
    <2>1. SameCancels
      BY <1>0, <1>6, SubmitSameCancels
    <2>. QED BY <1>6, <1>a, <2>1 DEF SubmitFails
  <1>7. CASE SubmitChain(th)
    <2>1. SameCancels
      BY <1>0, <1>7, SubmitSameCancels
    <2>. QED BY <1>7, <1>a, <2>1 DEF SubmitChain
  <1>8. CASE OnTxPosted(th)
    <2> DEFINE x == slot[sub[th].label]
    <2>1. SameCancels /\ UNCHANGED <<slot, posted, fin>>
      BY <1>0, <1>8, SubmitSameCancels DEF OnTxPosted
    <2>2. \A t \in Tx : Undecided(t)' <=> Undecided(t)
      BY <2>1 DEF Undecided, InTable, InCancel, InPost, InHand, SameCancels
    <2>3. sub[th].label \in Labels /\ x \in Tx \cup {NoTx}
      BY <1>0 DEF Frame
    <2>4. ASSUME x # NoTx
          PROVE  /\ txn' = [txn EXCEPT ![x] = MarkPosted(txn[x])]
                 /\ MarkPosted(txn[x]).st \notin TerminalState
      <3>1. Undecided(x)
        BY <2>3, <2>4 DEF Undecided, InTable
      <3>. QED BY <1>0, <1>8, <2>3, <2>4, <3>1, UpdatesKeepAlive DEF OnTxPosted, HeldAlive
    <2>5. x = NoTx => txn' = txn
      BY <1>8 DEF OnTxPosted
    <2> HIDE DEF x
    <2>. QED BY <1>0, <2>2, <2>3, <2>4, <2>5, AliveFrame
  <1>9. CASE CancelPost(th)
    <2>1. /\ sub[th].pc = "cancelling" /\ sub'[th].pc = "idle"
          /\ \A o \in Threads \ {th} : sub'[o] = sub[o]
          /\ posted' = posted \cup {sub[th].tx}
          /\ UNCHANGED <<slot, txn, fin>>
      BY <1>0, <1>9 DEF CancelPost, Resting
    <2>2. \A t \in Tx : /\ InTable(t)' => InTable(t)
                        /\ InCancel(t)' => InCancel(t)
                        /\ InPost(t)' => InPost(t) \/ InCancel(t)
      BY <1>0, <2>1 DEF InTable, InCancel, InPost
    <2>3. \A t \in Tx : InHand(t)' /\ fin'.pc # "callback" => InHand(t) /\ fin.pc # "callback"
      BY <2>1 DEF InHand
    <2>. QED BY <2>1, <2>2, <2>3, AliveFrame DEF Undecided
  <1>. QED BY <1>1, <1>2, <1>3, <1>4, <1>5, <1>6, <1>7, <1>8, <1>9 DEF Call, SubmitStep

\* T0 ends only the transaction in its hand.
LEMMA JobAlive ==
    ASSUME Typed, Ownership, HeldAlive, JobStep
    PROVE  HeldAlive'
  <1>. USE AsyncAssumption DEF Typed, TypeOK
  <1>0. /\ slot \in [Labels -> Tx \cup {NoTx}] /\ NoTx \notin Tx
        /\ txn \in [Tx -> Transaction] /\ fin \in Hand
    BY DEF TablesTyped, Tx, WorkerTyped, Hand
  <1>a. ASSUME UNCHANGED <<slot, sub, posted>>,
               \A t \in Tx : InHand(t)' => InHand(t) /\ (fin.pc = "callback" => fin'.pc = "callback")
        PROVE  \A t \in Tx : Undecided(t)' => Undecided(t)
    BY <1>a DEF Undecided, InTable, InCancel, InPost
  <1>b. ASSUME NEW x \in Tx, InTable(x), UNCHANGED <<slot, sub, posted>>,
               NEW y, txn' = [txn EXCEPT ![x] = y], y.st \notin TerminalState,
               \A t \in Tx : InHand(t)' => InHand(t) /\ (fin.pc = "callback" => fin'.pc = "callback")
        PROVE  HeldAlive'
    BY <1>0, <1>a, <1>b, AliveFrame
  <1>c. ASSUME UNCHANGED <<slot, sub, posted, txn>>,
               \A t \in Tx : InHand(t)' => InHand(t) /\ (fin.pc = "callback" => fin'.pc = "callback")
        PROVE  HeldAlive'
    BY <1>a, <1>c, AliveFrame
  <1>1. CASE FinishExtract
    <2>1. /\ slot' = [slot EXCEPT ![fin.label] = NoTx] /\ fin.label \in Labels
          /\ UNCHANGED <<txn, sub, posted>>
          /\ fin'.pc = "none" \/ fin'.tx = slot[fin.label]
      BY <1>0, <1>1, HandTyped DEF FinishExtract, Extract, Hand
    <2>2. \A t \in Tx : /\ InTable(t)' => InTable(t)
                        /\ InCancel(t)' => InCancel(t)
                        /\ InPost(t)' => InPost(t)
                        /\ InHand(t)' => InTable(t)
      BY <1>0, <2>1 DEF InTable, InCancel, InPost, InHand
    <2>. QED BY <2>1, <2>2, AliveFrame DEF Undecided
  <1>2. CASE FinishFree \/ FinishCallback \/ FinishCallbackFirst
    <2> DEFINE x == fin.tx
    <2>1. /\ x \in Tx /\ InHand(x) /\ UNCHANGED <<slot, posted, sub>>
          /\ \A t \in Tx : InHand(t) => t = x
          /\ \A t \in Tx \ {x} : txn'[t] = txn[t]
      BY <1>0, <1>2 DEF FinishFree, FinishCallback, FinishCallbackFirst, FramesName, InHand
    <2>2. fin'.pc \in {"none", "freeLast"} \/ (fin'.pc = "callback" /\ fin'.tx = x)
      BY <1>0, <1>2, HandTyped DEF FinishFree, FinishCallback, FinishCallbackFirst, Hand
    <2> HIDE DEF x
    <2>3. ~InTable(x) /\ ~InCancel(x) /\ ~InPost(x)
      BY <2>1 DEF Ownership, Exclusive
    <2>4. \A t \in Tx : Undecided(t)' => Undecided(t) /\ t # x
      BY <2>1, <2>2, <2>3 DEF Undecided, InTable, InCancel, InPost, InHand
    <2>. QED BY <2>1, <2>4, AliveFrame
  <1>3. CASE FinishFreeLast
    BY <1>3, <1>c, HandTyped DEF FinishFreeLast, InHand
  <1>4. CASE DrainTxCompletion
    <2> DEFINE c == Head(ring).tx
               ev == Head(ring).status
               x == slot[txn[c].label]
    <2>1. /\ OnATCompletion(c, ev) /\ UNCHANGED <<slot, sub, posted>> /\ fin.pc = "none"
          /\ c \in Tx
      <3>1. ring \in Seq(Descriptor) /\ ring # << >>
        BY <1>4 DEF DrainTxCompletion, HeadDone, WireTyped, Descriptor
      <3>2. Head(ring) \in Descriptor
        BY <3>1
      <3>. QED BY <1>4, <3>2 DEF DrainTxCompletion, Descriptor
    <2>2. \A t \in Tx : ~InHand(t) /\ ~InHand(t)'
      BY <2>1, ATDecides DEF InHand
    <2>3. txn[c].label \in Labels
      BY <1>0, <2>1 DEF Transaction
    <2>4. CASE x = NoTx
      <3>1. txn' = txn
        BY <2>1, <2>4 DEF OnATCompletion
      <3>. QED BY <1>c, <2>1, <2>2, <3>1
    <2>5. CASE x # NoTx
      <3>1. x \in Tx /\ InTable(x) /\ txn' = [txn EXCEPT ![x] = ATUpdate(txn[x], ev)]
        BY <1>0, <2>1, <2>3, <2>5 DEF OnATCompletion, InTable
      <3>2. ATUpdate(txn[x], ev).st \notin TerminalState
        BY <1>0, <3>1, UpdatesKeepAlive DEF HeldAlive, Undecided
      <3>. QED BY <1>b, <2>1, <2>2, <3>1, <3>2
    <2>. QED BY <2>4, <2>5
  <1>5. CASE TickDrains \/ JobDone \/ OnBusResetBegin \/ CancelByGeneration \/ ClearAndFlush
    BY <1>5, <1>c DEF TickDrains, JobDone, OnBusResetBegin, CancelByGeneration, ClearAndFlush, InHand
  <1>6. ASSUME NEW l \in Labels, TickTimeout(l)
        PROVE  HeldAlive'
    <2>1. UNCHANGED <<slot, sub, posted>> /\ \A t \in Tx : ~InHand(t) /\ ~InHand(t)'
      BY <1>6 DEF TickTimeout, OnTimeout, Finishing, InHand
    <2>2. CASE txn' = txn
      BY <1>c, <2>1, <2>2
    <2>3. CASE slot[l] # NoTx /\ txn' = [txn EXCEPT ![slot[l]] = ExtendDeadline(txn[slot[l]])]
      <3>1. slot[l] \in Tx /\ InTable(slot[l])
        BY <1>0, <2>3 DEF InTable
      <3>2. ExtendDeadline(txn[slot[l]]).st \notin TerminalState
        BY <1>0, <3>1, UpdatesKeepAlive DEF HeldAlive, Undecided
      <3>. QED BY <1>b, <2>1, <2>3, <3>1, <3>2
    <2>. QED BY <1>6, <2>2, <2>3 DEF TickTimeout, OnTimeout
  <1>7. ASSUME NEW l \in Labels, CancelVictim(l)
        PROVE  HeldAlive'
    BY <1>7, <1>c DEF CancelVictim, Finishing, InHand
  <1>. QED BY <1>1, <1>2, <1>3, <1>4, <1>5, <1>6, <1>7 DEF JobStep, FinishStep

\* A block that starts on T0 ends only what it takes.
LEMMA StartAlive ==
    ASSUME Typed, Ownership, HeldAlive, StartJob
    PROVE  HeldAlive'
  <1>. USE AsyncAssumption DEF Typed, TypeOK
  <1>0. /\ slot \in [Labels -> Tx \cup {NoTx}] /\ NoTx \notin Tx
        /\ txn \in [Tx -> Transaction]
    BY DEF TablesTyped, Tx
  <1>1. ASSUME NEW r \in Tx, OnARResponse(r)
        PROVE  HeldAlive'
    <2> DEFINE x == slot[txn[r].label]
    <2>1. UNCHANGED <<slot, sub, posted>> /\ \A t \in Tx : ~InHand(t) /\ ~InHand(t)'
      BY <1>1 DEF OnARResponse, T0Idle, Finishing, InHand
    <2>2. \A t \in Tx : Undecided(t)' <=> Undecided(t)
      BY <2>1 DEF Undecided, InTable, InCancel, InPost
    <2>3. txn' = txn \/ (x # NoTx /\ txn' = [txn EXCEPT ![x].latch = TRUE])
      BY <1>1 DEF OnARResponse
    <2> HIDE DEF x
    <2>4. \A t \in Tx : txn'[t].st = txn[t].st
      BY <1>0, <2>3 DEF Transaction
    <2>. QED BY <2>2, <2>4, AliveFrame
  <1>2. ASSUME NEW x \in Tx, RunPostedCancel(x)
        PROVE  HeldAlive'
    <2>1. /\ InPost(x) /\ posted' = posted \ {x} /\ UNCHANGED <<slot, sub>> /\ fin.pc = "none"
          /\ \A t \in Tx \ {x} : txn'[t] = txn[t]
      BY <1>0, <1>2 DEF RunPostedCancel, InPost, T0Idle
    <2>2. fin'.pc = "callback" /\ fin'.tx = x
      BY <1>2, <2>1 DEF RunPostedCancel, NoFin, HeldAlive, Undecided
    <2>3. ~InTable(x) /\ ~InCancel(x)
      BY <2>1 DEF Ownership, Exclusive
    <2>4. \A t \in Tx : Undecided(t)' => Undecided(t) /\ t # x
      BY <2>1, <2>2, <2>3 DEF Undecided, InTable, InCancel, InPost, InHand
    <2>. QED BY <2>1, <2>4, AliveFrame
  <1>3. CASE \/ OnTxInterrupt \/ OnTimeoutTick \/ OnBusResetComplete
             \/ \E decoded \in BOOLEAN : ConfirmBusGeneration(decoded)
    <2>1. UNCHANGED <<slot, sub, posted, fin, txn>>
      BY <1>3 DEF OnTxInterrupt, OnTimeoutTick, OnBusResetComplete, ConfirmBusGeneration
    <2>. QED BY <2>1, AliveFrame DEF Undecided, InTable, InCancel, InPost, InHand
  <1>4. CASE Teardown
    <2>1. /\ slot' = [l \in Labels |-> NoTx] /\ UNCHANGED <<sub, fin, posted>>
          /\ fin.pc = "none" /\ \A th \in Threads : sub[th].pc = "idle"
      BY <1>4 DEF Teardown, T0Idle
    <2>2. \A t \in Tx : Undecided(t)' => InPost(t)
      BY <1>0, <2>1 DEF Undecided, InTable, InHand, InPost, InCancel
    <2>3. \A t \in Tx : ~InTable(t) => txn'[t] = txn[t]
      BY <1>4 DEF Teardown, InTable
    <2>. QED BY <2>2, <2>3, AliveFrame DEF Undecided, Ownership, Exclusive
  <1>. QED BY <1>1, <1>2, <1>3, <1>4 DEF StartJob

\* The environment ends nothing.
LEMMA EnvironmentAlive ==
    ASSUME Typed, HeldAlive, Environment
    PROVE  HeldAlive'
  <1>1. UNCHANGED <<slot, sub, posted, fin>>
    BY DEF Environment, HwComplete, HwBusReset, Respond, Expire
  <1>2. \A t \in Tx : txn'[t].st = txn[t].st
    <2>1. CASE UNCHANGED txn
      BY <2>1
    <2>2. ASSUME NEW l \in Labels, Expire(l)
          PROVE  \A t \in Tx : txn'[t].st = txn[t].st
      BY <2>2 DEF Expire, Typed, TypeOK, TablesTyped, Transaction
    <2>. QED BY <2>1, <2>2 DEF Environment, HwComplete, HwBusReset, Respond
  <1>. QED BY <1>1, <1>2, AliveFrame DEF Undecided, InTable, InCancel, InPost, InHand

\* The inductive invariant behind Exclusive, AnsweredOnce and the refinement.
Owned == Typed /\ Ownership /\ HeldAlive

\* Every step keeps it.
LEMMA OwnedStep == Owned /\ [Next]_vars => Owned'
  <1>. SUFFICES ASSUME Owned, [Next]_vars PROVE Owned'
    OBVIOUS
  <1>. USE DEF Owned
  <1>1. Typed'
    BY TypedStep
  <1>2. Ownership'
    <2>1. CASE UNCHANGED vars
      BY <2>1, OwnershipFrame DEF vars, SameCancels, InHand
    <2>. QED BY <2>1, SubmitOwnership, JobOwnership, StartOwnership, EnvironmentOwnership DEF Next
  <1>3. HeldAlive'
    <2>1. CASE UNCHANGED vars
      BY <2>1, AliveFrame DEF vars, Undecided, InTable, InCancel, InPost, InHand
    <2>. QED BY <2>1, SubmitAlive, JobAlive, StartAlive, EnvironmentAlive DEF Next
  <1>. QED BY <1>1, <1>2, <1>3

\* At the start nobody holds anything.
LEMMA OwnedInit == Init => Owned
  <1>. SUFFICES ASSUME Init PROVE Owned
    OBVIOUS
  <1>. USE AsyncAssumption DEF Init
  <1>1. \A t \in Tx : ~InTable(t) /\ ~InHand(t) /\ ~InCancel(t) /\ ~InPost(t) /\ t >= nextTx /\ t # NoTx
    BY DEF InTable, InHand, InCancel, InPost, NoFin, Resting, Tx
  <1>2. Exclusive
    BY <1>1, RestingTyped DEF Exclusive
  <1>3. AnsweredOnce /\ HeldCreated /\ HeldAlive
    BY <1>1 DEF AnsweredOnce, HeldCreated, Held, HeldAlive, Undecided
  <1>. QED BY <1>2, <1>3, TypedInit DEF Owned, Ownership

\* Ownership is exclusive, however many queues submit and cancel while the AT and
\* AR paths, the watchdog and bus resets finish transactions.
THEOREM ExclusiveAlways == Spec => []Exclusive
  <1>1. Owned => Exclusive
    BY DEF Owned, Ownership
  <1>. QED BY <1>1, OwnedInit, OwnedStep, PTL DEF Spec

\* Whatever path ends it, a transaction's callback runs exactly once, and not
\* before the path has taken it out of the table.
THEOREM AnsweredOnceAlways == Spec => []AnsweredOnce
  <1>1. Owned => AnsweredOnce
    BY DEF Owned, Ownership
  <1>. QED BY <1>1, OwnedInit, OwnedStep, PTL DEF Spec

-----------------------------------------------------------------------------
(* AsyncTransactions implements RequestTracking *)

\* The abstract variable.
Phases == [t \in Tx |-> Phase(t)]

\* A step of the abstract specification, or a stuttering one.
TrackingStep == Tracking!Next \/ Phases' = Phases

\* A step that leaves the table, the counts and the deadlines of what is in the
\* table alone is a stuttering one.
LEMMA PhaseFrame ==
    ASSUME UNCHANGED <<calls, nextTx>>,
           \A t \in Tx : InTable(t)' <=> InTable(t),
           \A t \in Tx : InTable(t) => txn'[t].deadline = txn[t].deadline
    PROVE  TrackingStep
  BY DEF TrackingStep, Phases, Phase

\* What is in the table is open, or posted once its timeout runs.
LEMMA PhaseInTable ==
    ASSUME Owned, NEW x \in Tx, InTable(x)
    PROVE  Phase(x) = IF txn[x].deadline = "none" THEN "open" ELSE "posted"
  <1>1. calls[x] = 0 /\ x < nextTx
    BY DEF Owned, Ownership, AnsweredOnce, HeldCreated, Held
  <1>2. x \in Nat /\ nextTx \in Nat
    BY AsyncAssumption DEF Owned, Typed, TypeOK, TablesTyped, Tx
  <1>. QED BY <1>1, <1>2 DEF Phase

\* One request advances, from a phase after its registration.
LEMMA PhaseAdvances ==
    ASSUME NEW x \in Tx, \A t \in Tx \ {x} : Phase(t)' = Phase(t),
           Phase(x) # "none", <<Phase(x), Phase(x)'>> \in Tracking!Advance
    PROVE  TrackingStep
  <1>1. Phases' = [Phases EXCEPT ![x] = Phase(x)'] /\ Phases[x] = Phase(x)
    BY DEF Phases
  <1>2. Tracking!InOrder(x)
    BY <1>1 DEF Tracking!InOrder, Phases
  <1>3. Tracking!Step(x)
    <2>1. \E a \in Tracking!Advance : Phases[x] = a[1] /\ Phases' = [Phases EXCEPT ![x] = a[2]]
      BY <1>1 DEF Tracking!Advance
    <2>. QED BY <1>2, <2>1 DEF Tracking!Step, Phases
  <1>. QED BY <1>3 DEF TrackingStep, Tracking!Next

\* An update of one transaction in the table that does not clear its deadline
\* posts it, or does nothing that its owner can see.
LEMMA TableUpdate ==
    ASSUME Owned, NEW x \in Tx, InTable(x), UNCHANGED <<slot, calls, nextTx>>,
           \A t \in Tx \ {x} : txn'[t] = txn[t],
           txn'[x].deadline = txn[x].deadline \/ txn'[x].deadline # "none"
    PROVE  TrackingStep
  <1>1. \A t \in Tx : InTable(t)' <=> InTable(t)
    BY DEF InTable
  <1>2. CASE (txn'[x].deadline = "none") <=> (txn[x].deadline = "none")
    BY <1>1, <1>2 DEF TrackingStep, Phases, Phase
  <1>3. CASE ~((txn'[x].deadline = "none") <=> (txn[x].deadline = "none"))
    <2>1. Phase(x) = "open" /\ Phase(x)' = "posted"
      <3>1. txn[x].deadline = "none" /\ txn'[x].deadline # "none"
        BY <1>3
      <3>2. Phase(x) = "open"
        BY <3>1, PhaseInTable
      <3>. QED BY <1>1, <3>1, <3>2 DEF Phase
    <2>2. \A t \in Tx \ {x} : Phase(t)' = Phase(t)
      BY <1>1 DEF Phase
    <2>3. <<Phase(x), Phase(x)'>> \in Tracking!Advance
      BY <2>1 DEF Tracking!Advance
    <2>. QED BY <2>1, <2>2, <2>3, PhaseAdvances
  <1>. QED BY <1>2, <1>3

\* Whoever extracts a transaction from the table takes the request.
LEMMA TableExtract ==
    ASSUME Owned, NEW x \in Tx, InTable(x), UNCHANGED <<txn, calls, nextTx>>,
           \A t \in Tx : InTable(t)' <=> InTable(t) /\ t # x
    PROVE  TrackingStep
  <1>1. Phase(x) \in {"open", "posted"}
    BY PhaseInTable
  <1>2. Phase(x)' = "taken"
    <2>1. calls[x] = 0 /\ x < nextTx
      BY DEF Owned, Ownership, AnsweredOnce, HeldCreated, Held
    <2>2. x \in Nat /\ nextTx \in Nat
      BY AsyncAssumption DEF Owned, Typed, TypeOK, TablesTyped, Tx
    <2>. QED BY <2>1, <2>2 DEF Phase
  <1>3. \A t \in Tx \ {x} : Phase(t)' = Phase(t)
    BY DEF Phase
  <1>4. <<Phase(x), Phase(x)'>> \in Tracking!Advance
    BY <1>1, <1>2 DEF Tracking!Advance
  <1>. QED BY <1>1, <1>3, <1>4, PhaseAdvances

\* The callback of the transaction in T0's hand answers the request.
LEMMA HandAnswers ==
    ASSUME Owned, NEW x \in Tx, InHand(x), UNCHANGED <<slot, nextTx>>,
           calls' = [calls EXCEPT ![x] = calls[x] + 1],
           \A t \in Tx \ {x} : txn'[t] = txn[t]
    PROVE  TrackingStep
  <1>1. calls[x] = 0 /\ x < nextTx /\ ~InTable(x)
    BY DEF Owned, Ownership, AnsweredOnce, HeldCreated, Held, Exclusive
  <1>2. x \in Nat /\ nextTx \in Nat /\ calls \in [Tx -> Nat]
    BY AsyncAssumption DEF Owned, Typed, TypeOK, TablesTyped, WorkerTyped, Tx
  <1>3. \A t \in Tx : InTable(t)' <=> InTable(t)
    BY DEF InTable
  <1>4. Phase(x) = "taken" /\ Phase(x)' = "answered"
    BY <1>1, <1>2, <1>3 DEF Phase
  <1>5. \A t \in Tx \ {x} : Phase(t)' = Phase(t)
    BY <1>2, <1>3 DEF Phase
  <1>6. <<Phase(x), Phase(x)'>> \in Tracking!Advance
    BY <1>4 DEF Tracking!Advance
  <1>. QED BY <1>4, <1>5, <1>6, PhaseAdvances

\* What the updates of a transaction do to its deadline: none clears it.
LEMMA UpdatesKeepDeadline ==
    ASSUME NEW x \in Transaction
    PROVE  /\ MarkPosted(x).deadline = "running"
           /\ \A ev : ATUpdate(x, ev).deadline \in {x.deadline, "running"}
           /\ ExtendDeadline(x).deadline = "running"
           /\ [x EXCEPT !.deadline = "expired"].deadline = "expired"
           /\ [x EXCEPT !.latch = TRUE].deadline = x.deadline
  <1>1. ASSUME NEW y \in Transaction, NEW to \in State
        PROVE  TransitionTo(y, to).deadline = y.deadline
    BY DEF TransitionTo, Transaction
  <1>2. {"ATPosted", "ATCompleted", "AwaitingAR"} \subseteq State
    BY DEF State
  <1>3. ASSUME NEW y \in Transaction
        PROVE  Through(y, "ATCompleted", "AwaitingAR") \in Transaction
               /\ Through(y, "ATCompleted", "AwaitingAR").deadline = y.deadline
    BY <1>1, <1>2, TransitionTyped DEF Through
  <1>4. MarkPosted(x).deadline = "running"
    <2> DEFINE posting == TransitionTo(x, "ATPosted")
               base == IF x.strategy = "AR" THEN Through(posting, "ATCompleted", "AwaitingAR")
                       ELSE posting
    <2>1. posting \in Transaction
      BY <1>2, TransitionTyped
    <2>2. base \in Transaction
      BY <1>3, <2>1
    <2> HIDE DEF base
    <2>3. [base EXCEPT !.deadline = "running"].deadline = "running"
      BY <2>2 DEF Transaction
    <2>. QED BY <2>3 DEF MarkPosted, base
  <1>5. ASSUME NEW ev
        PROVE  ATUpdate(x, ev).deadline \in {x.deadline, "running"}
    <2> DEFINE y == [x EXCEPT !.ack = AckOf(ev)]
    <2>1. y \in Transaction /\ y.deadline = x.deadline
      <3>1. AckOf(ev) \in Ack
        BY DEF AckOf, Ack
      <3>. QED BY <3>1 DEF Transaction
    <2> HIDE DEF y
    <2>2. /\ Through(y, "ATCompleted", "AwaitingAR").deadline = x.deadline
          /\ TransitionTo(y, "ATCompleted") \in Transaction
      BY <1>2, <1>3, <2>1, TransitionTyped
    <2>3. /\ [y EXCEPT !.latch = TRUE].deadline = x.deadline
          /\ [TransitionTo(y, "ATCompleted") EXCEPT !.deadline = "running"].deadline = "running"
      BY <2>1, <2>2 DEF Transaction
    <2>. QED BY <2>1, <2>2, <2>3 DEF ATUpdate, y
  <1>6. /\ ExtendDeadline(x).deadline = "running"
        /\ [x EXCEPT !.deadline = "expired"].deadline = "expired"
        /\ [x EXCEPT !.latch = TRUE].deadline = x.deadline
    BY DEF ExtendDeadline, Transaction
  <1>. QED BY <1>4, <1>5, <1>6

\* Registering a transaction registers the next request.
LEMMA InstallTracks ==
    ASSUME Owned, NEW th \in Threads, RegisterTransaction(th)
    PROVE  TrackingStep
  <1>. USE AsyncAssumption DEF Owned, Typed, TypeOK
  <1>0. PICK x \in Tx : x = nextTx
    BY DEF RegisterTransaction, Install, TablesTyped, Tx
  <1>1. /\ slot \in [Labels -> Tx \cup {NoTx}] /\ txn \in [Tx -> Transaction]
        /\ x \in Nat /\ (\A t \in Tx : t \in Nat) /\ NoTx \notin Tx /\ sub[th].label \in Labels
    <2>1. x \in Nat /\ (\A t \in Tx : t \in Nat) /\ NoTx \notin Tx
      BY DEF Tx
    <2>. QED BY <2>1 DEF TablesTyped, ThreadsTyped
  <1>2. /\ slot[sub[th].label] = NoTx /\ slot' = [slot EXCEPT ![sub[th].label] = x]
        /\ txn' = [txn EXCEPT ![x] = NewTransaction(th)] /\ nextTx' = x + 1
        /\ UNCHANGED calls
    BY <1>0 DEF RegisterTransaction, Install
  <1>3. \A t \in Tx : InTable(t)' <=> InTable(t) \/ t = x
    BY <1>1, <1>2 DEF InTable
  <1>4. NewTransaction(th).deadline = "none"
    BY DEF NewTransaction, NoTransaction
  <1>5. \A t \in Tx : t # x => (t >= x + 1 <=> t >= x)
    BY <1>1
  <1>6. Phase(x) = "none" /\ Phase(x)' = "open"
    <2>1. calls[x] = 0 /\ x >= nextTx
      BY <1>0, <1>1 DEF Ownership, AnsweredOnce
    <2>2. ~(x >= nextTx') /\ txn'[x].deadline = "none" /\ calls'[x] = 0
      BY <1>1, <1>2, <1>4, <2>1
    <2>. QED BY <1>3, <2>1, <2>2 DEF Phase
  <1>7. \A t \in Tx \ {x} : Phase(t)' = Phase(t)
    BY <1>0, <1>1, <1>2, <1>3, <1>5 DEF Phase
  <1>8. \A t \in Tx : Phase(t) = "none" => x <= t
    BY <1>0, <1>1 DEF Phase
  <1>9. /\ Phases[x] = "none" /\ Phases' = [Phases EXCEPT ![x] = "open"]
        /\ \A t \in Tx : Phases[t] = "none" => x <= t
    BY <1>6, <1>7, <1>8 DEF Phases
  <1>10. Tracking!Step(x)
    <2>1. <<"none", "open">> \in Tracking!Advance
      BY DEF Tracking!Advance
    <2>2. Tracking!InOrder(x)
      BY <1>9 DEF Tracking!InOrder, Phases
    <2>3. \E a \in Tracking!Advance : Phases[x] = a[1] /\ Phases' = [Phases EXCEPT ![x] = a[2]]
      BY <1>9, <2>1
    <2>. QED BY <2>2, <2>3 DEF Tracking!Step, Phases
  <1>. QED BY <1>10 DEF TrackingStep, Tracking!Next

\* The submit path registers, posts or takes one request, or nothing its owner
\* can see.
LEMMA SubmitTracks ==
    ASSUME Owned, NEW th \in load.by, Call(th) \/ SubmitStep(th)
    PROVE  TrackingStep
  <1>. USE AsyncAssumption DEF Owned, Typed, TypeOK
  <1>0. /\ th \in Threads /\ sub \in [Threads -> Frame]
        /\ slot \in [Labels -> Tx \cup {NoTx}] /\ NoTx \notin Tx
        /\ txn \in [Tx -> Transaction]
    BY DEF BusTyped, ThreadsTyped, Frame, TablesTyped, Tx
  <1>1. CASE \/ \E s \in load.strategies : PrepareTransactionContext(th, s)
             \/ RegisterLabel(th) \/ RegisterBusy(th) \/ SubmitFails(th) \/ SubmitChain(th) \/ CancelPost(th)
    <2>1. UNCHANGED <<slot, txn, nextTx, calls>>
      BY <1>1 DEF PrepareTransactionContext, RegisterLabel, RegisterBusy, SubmitFails, SubmitChain, CancelPost
    <2>. QED BY <2>1, PhaseFrame DEF InTable
  <1>2. CASE CancelExtract(th)
    <2> DEFINE l == handle[th]
               x == slot[l]
    <2>1. /\ l \in Labels /\ x \in Tx /\ slot' = [slot EXCEPT ![l] = NoTx]
          /\ UNCHANGED <<txn, calls, nextTx>>
      BY <1>0, <1>2 DEF CancelExtract, ThreadsTyped
    <2>2. InTable(x)
      BY <2>1 DEF InTable
    <2>3. \A t \in Tx : InTable(t)' <=> InTable(t) /\ t # x
      BY <1>0, <2>1 DEF InTable, Ownership, Exclusive
    <2>. QED BY <2>1, <2>2, <2>3, TableExtract
  <1>3. CASE OnTxPosted(th)
    <2> DEFINE x == slot[sub[th].label]
    <2>1. UNCHANGED <<slot, calls, nextTx>> /\ sub[th].label \in Labels
      BY <1>0, <1>3 DEF OnTxPosted, Frame
    <2>2. CASE x = NoTx
      BY <1>3, <2>1, <2>2, PhaseFrame DEF OnTxPosted, InTable
    <2>3. CASE x # NoTx
      <3>1. x \in Tx /\ InTable(x) /\ txn' = [txn EXCEPT ![x] = MarkPosted(txn[x])]
        BY <1>0, <1>3, <2>1, <2>3 DEF OnTxPosted, InTable
      <3>2. MarkPosted(txn[x]).deadline # "none"
        BY <1>0, <3>1, UpdatesKeepDeadline
      <3> HIDE DEF x
      <3>. QED BY <1>0, <2>1, <3>1, <3>2, TableUpdate
    <2>. QED BY <2>2, <2>3
  <1>. QED BY <1>0, <1>1, <1>2, <1>3, InstallTracks DEF Call, SubmitStep

\* T0's jobs post, take or answer one request, or nothing its owner can see.
LEMMA JobTracks ==
    ASSUME Owned, JobStep
    PROVE  TrackingStep
  <1>. USE AsyncAssumption DEF Owned, Typed, TypeOK
  <1>0. /\ slot \in [Labels -> Tx \cup {NoTx}] /\ NoTx \notin Tx
        /\ txn \in [Tx -> Transaction] /\ fin \in Hand
    BY DEF TablesTyped, Tx, WorkerTyped, Hand
  <1>a. ASSUME UNCHANGED <<slot, txn, nextTx, calls>>
        PROVE  TrackingStep
    BY <1>a, PhaseFrame DEF InTable
  <1>1. CASE FinishExtract
    <2> DEFINE l == fin.label
               x == slot[l]
    <2>1. l \in Labels /\ slot' = [slot EXCEPT ![l] = NoTx] /\ UNCHANGED <<txn, nextTx, calls>>
      BY <1>0, <1>1 DEF FinishExtract, Extract, Hand
    <2>2. CASE x = NoTx
      <3>1. slot' = slot
        BY <1>0, <2>1, <2>2
      <3>. QED BY <1>a, <2>1, <3>1
    <2>3. CASE x # NoTx
      <3>1. x \in Tx /\ InTable(x)
        BY <1>0, <2>1, <2>3 DEF InTable
      <3>2. \A t \in Tx : InTable(t)' <=> InTable(t) /\ t # x
        BY <1>0, <2>1, <2>3 DEF InTable, Ownership, Exclusive
      <3>. QED BY <2>1, <3>1, <3>2, TableExtract
    <2>. QED BY <2>2, <2>3
  <1>2. CASE FinishFree
    <2>1. fin.tx \in Tx /\ InHand(fin.tx)
      BY <1>2 DEF FinishFree, FramesName, InHand
    <2>2. ~InTable(fin.tx)
      BY <2>1 DEF Ownership, Exclusive
    <2>3. /\ UNCHANGED <<slot, nextTx, calls>> /\ \A t \in Tx \ {fin.tx} : txn'[t] = txn[t]
      BY <1>0, <1>2 DEF FinishFree
    <2>. QED BY <2>2, <2>3, PhaseFrame DEF InTable
  <1>3. CASE FinishCallback \/ FinishCallbackFirst
    <2> DEFINE x == fin.tx
    <2>1. /\ x \in Tx /\ InHand(x) /\ UNCHANGED <<slot, nextTx>>
          /\ \A t \in Tx \ {x} : txn'[t] = txn[t]
      BY <1>0, <1>3 DEF FinishCallback, FinishCallbackFirst, FramesName, InHand
    <2>2. calls' = [calls EXCEPT ![x] = calls[x] + 1]
      <3>1. CASE FinishCallback
        BY <3>1 DEF FinishCallback
      <3>2. CASE FinishCallbackFirst
        BY <2>1, <3>2 DEF FinishCallbackFirst, HeldAlive, Undecided
      <3>. QED BY <1>3, <3>1, <3>2
    <2> HIDE DEF x
    <2>. QED BY <2>1, <2>2, HandAnswers
  <1>4. CASE DrainTxCompletion
    <2> DEFINE c == Head(ring).tx
               ev == Head(ring).status
               x == slot[txn[c].label]
    <2>1. OnATCompletion(c, ev) /\ UNCHANGED <<slot, nextTx, calls>> /\ c \in Tx
      <3>1. ring \in Seq(Descriptor) /\ ring # << >>
        BY <1>4 DEF DrainTxCompletion, HeadDone, WireTyped, Descriptor
      <3>2. Head(ring) \in Descriptor
        BY <3>1
      <3>. QED BY <1>4, <3>2 DEF DrainTxCompletion, Descriptor
    <2>2. txn[c].label \in Labels
      BY <1>0, <2>1 DEF Transaction
    <2>3. CASE x = NoTx
      <3>1. txn' = txn
        BY <2>1, <2>3 DEF OnATCompletion
      <3>. QED BY <1>a, <2>1, <3>1
    <2>4. CASE x # NoTx
      <3>1. x \in Tx /\ InTable(x) /\ txn' = [txn EXCEPT ![x] = ATUpdate(txn[x], ev)]
        BY <1>0, <2>1, <2>2, <2>4 DEF OnATCompletion, InTable
      <3>2. ATUpdate(txn[x], ev).deadline \in {txn[x].deadline, "running"}
        BY <1>0, <3>1, UpdatesKeepDeadline
      <3> HIDE DEF x, ev
      <3>. QED BY <1>0, <2>1, <3>1, <3>2, TableUpdate
    <2>. QED BY <2>3, <2>4
  <1>5. CASE TickDrains \/ JobDone \/ OnBusResetBegin \/ CancelByGeneration \/ ClearAndFlush \/ FinishFreeLast
    BY <1>5, <1>a DEF TickDrains, JobDone, OnBusResetBegin, CancelByGeneration, ClearAndFlush, FinishFreeLast
  <1>6. ASSUME NEW l \in Labels, TickTimeout(l)
        PROVE  TrackingStep
    <2>1. UNCHANGED <<slot, nextTx, calls>>
      BY <1>6 DEF TickTimeout
    <2>2. CASE txn' = txn
      BY <1>a, <2>1, <2>2
    <2>3. CASE slot[l] # NoTx /\ txn' = [txn EXCEPT ![slot[l]] = ExtendDeadline(txn[slot[l]])]
      <3>1. slot[l] \in Tx /\ InTable(slot[l])
        BY <1>0, <2>3 DEF InTable
      <3>2. ExtendDeadline(txn[slot[l]]).deadline # "none"
        BY <1>0, <3>1, UpdatesKeepDeadline
      <3>. QED BY <1>0, <2>1, <2>3, <3>1, <3>2, TableUpdate
    <2>. QED BY <1>6, <2>2, <2>3 DEF TickTimeout, OnTimeout
  <1>7. ASSUME NEW l \in Labels, CancelVictim(l)
        PROVE  TrackingStep
    BY <1>7, <1>a DEF CancelVictim
  <1>. QED BY <1>1, <1>2, <1>3, <1>4, <1>5, <1>6, <1>7 DEF JobStep, FinishStep

\* Teardown answers everything left, the other blocks do nothing a request's
\* owner can see when they start.
LEMMA StartTracks ==
    ASSUME Owned, StartJob
    PROVE  TrackingStep
  <1>. USE AsyncAssumption DEF Owned, Typed, TypeOK
  <1>0. /\ slot \in [Labels -> Tx \cup {NoTx}] /\ NoTx \notin Tx
        /\ txn \in [Tx -> Transaction] /\ calls \in [Tx -> Nat]
        /\ nextTx \in Nat /\ Tx \subseteq Nat
    BY DEF TablesTyped, Tx, WorkerTyped
  <1>1. ASSUME NEW r \in Tx, OnARResponse(r)
        PROVE  TrackingStep
    <2> DEFINE x == slot[txn[r].label]
    <2>1. UNCHANGED <<slot, calls, nextTx>>
      BY <1>1 DEF OnARResponse
    <2>2. txn' = txn \/ (x # NoTx /\ txn' = [txn EXCEPT ![x].latch = TRUE])
      BY <1>1 DEF OnARResponse
    <2> HIDE DEF x
    <2>3. \A t \in Tx : txn'[t].deadline = txn[t].deadline
      BY <1>0, <2>2 DEF Transaction
    <2>. QED BY <2>1, <2>3, PhaseFrame DEF InTable
  <1>2. ASSUME NEW x \in Tx, RunPostedCancel(x)
        PROVE  TrackingStep
    <2>1. InPost(x) /\ UNCHANGED <<slot, nextTx, calls>> /\ \A t \in Tx \ {x} : txn'[t] = txn[t]
      BY <1>0, <1>2 DEF RunPostedCancel, InPost
    <2>2. ~InTable(x)
      BY <2>1 DEF Ownership, Exclusive
    <2>. QED BY <2>1, <2>2, PhaseFrame DEF InTable
  <1>3. CASE \/ OnTxInterrupt \/ OnTimeoutTick \/ OnBusResetComplete
             \/ \E decoded \in BOOLEAN : ConfirmBusGeneration(decoded)
    <2>1. UNCHANGED <<slot, txn, nextTx, calls>>
      BY <1>3 DEF OnTxInterrupt, OnTimeoutTick, OnBusResetComplete, ConfirmBusGeneration
    <2>. QED BY <2>1, PhaseFrame DEF InTable
  <1>4. CASE Teardown
    <2>1. slot' = [l \in Labels |-> NoTx] /\ UNCHANGED nextTx
      BY <1>4 DEF Teardown
    <2>2. \A t \in Tx : ~InTable(t)'
      BY <1>0, <2>1 DEF InTable
    <2>3. \A t \in Tx : calls'[t] = IF InTable(t) THEN calls[t] + 1 ELSE calls[t]
      <3> DEFINE live == {t \in Tx : /\ \E l \in Labels : slot[l] = t
                                     /\ txn[t].st \notin {"Completed", "Failed", "Cancelled"}}
      <3>1. \A t \in Tx : t \in live <=> InTable(t)
        BY DEF HeldAlive, Undecided, TerminalState, InTable
      <3>2. calls' = [t \in Tx |-> IF t \in live THEN calls[t] + 1 ELSE calls[t]]
        BY <1>4 DEF Teardown
      <3> HIDE DEF live
      <3>. QED BY <3>1, <3>2
    <2>4. ASSUME NEW t \in Tx
          PROVE  Phase(t)' = IF Phase(t) \in {"open", "posted"} THEN "answered" ELSE Phase(t)
      <3>1. CASE InTable(t)
        <4>1. Phase(t) \in {"open", "posted"}
          BY <3>1, PhaseInTable
        <4>2. calls[t] = 0 /\ t < nextTx
          BY <3>1 DEF Ownership, AnsweredOnce, HeldCreated, Held
        <4>3. calls'[t] = 1
          BY <2>3, <3>1, <4>2
        <4>4. Phase(t)' = "answered"
          BY <1>0, <2>1, <4>2, <4>3 DEF Phase
        <4>. QED BY <4>1, <4>4
      <3>2. CASE ~InTable(t)
        BY <2>1, <2>2, <2>3, <3>2 DEF Phase
      <3>. QED BY <3>1, <3>2
    <2>5. Tracking!AnswerAll
      BY <2>4 DEF Tracking!AnswerAll
    <2>. QED BY <2>5 DEF TrackingStep, Tracking!Next
  <1>. QED BY <1>1, <1>2, <1>3, <1>4 DEF StartJob

\* The environment does nothing a request's owner can see.
LEMMA EnvironmentTracks ==
    ASSUME Owned, Environment
    PROVE  TrackingStep
  <1>1. UNCHANGED <<slot, nextTx, calls>>
    BY DEF Environment, HwComplete, HwBusReset, Respond, Expire
  <1>2. CASE UNCHANGED txn
    BY <1>1, <1>2, PhaseFrame DEF InTable
  <1>3. ASSUME NEW l \in Labels, Expire(l)
        PROVE  TrackingStep
    <2>1. slot[l] \in Tx /\ InTable(slot[l])
      BY <1>3 DEF Expire, Owned, Typed, TypeOK, TablesTyped, InTable
    <2>2. txn \in [Tx -> Transaction]
      BY DEF Owned, Typed, TypeOK, TablesTyped
    <2>3. txn' = [txn EXCEPT ![slot[l]] = [txn[slot[l]] EXCEPT !.deadline = "expired"]]
      BY <1>3 DEF Expire
    <2>4. txn'[slot[l]].deadline = "expired"
      BY <2>1, <2>2, <2>3, UpdatesKeepDeadline
    <2>. QED BY <1>1, <2>1, <2>2, <2>3, <2>4, TableUpdate
  <1>. QED BY <1>2, <1>3 DEF Environment, HwComplete, HwBusReset, Respond

\* The asynchronous subsystem implements RequestTracking: seen by the owner of a
\* request, every step of the table, the allocator, the AT and AR paths, the
\* watchdog, cancellation, bus reset and teardown registers, posts, takes or
\* answers one request in this order, answers all at teardown, or does nothing.
THEOREM ImplementsTracking == Spec => TracksRequests
  <1>1. Init => Tracking!Init
    <2>1. Init => \A t \in Tx : t >= nextTx
      BY AsyncAssumption DEF Init, Tx
    <2>. QED BY <2>1 DEF Tracking!Init, Phase
  <1>2. Owned /\ [Next]_vars => [Tracking!Next]_Phases
    <2>1. ASSUME Owned, UNCHANGED vars
          PROVE  TrackingStep
      BY <2>1, PhaseFrame DEF vars, InTable
    <2>2. ASSUME Owned, Next
          PROVE  TrackingStep
      BY <2>2, SubmitTracks, JobTracks, StartTracks, EnvironmentTracks DEF Next
    <2>. QED BY <2>1, <2>2 DEF TrackingStep
  <1>. QED BY <1>1, <1>2, OwnedInit, OwnedStep, PTL DEF Spec, TracksRequests, Tracking!Safety, Phases

-----------------------------------------------------------------------------
(* The Default queue, and the bus reset it drives *)

ResetJobs == {"begin", "cancelAll", "cancelGen"}

\* T0 has a transaction in hand only inside a job, and submits or cancels only
\* between jobs or from inside a callback.
T0Busy ==
    /\ job.kind \in {"idle", "begin"} => fin.pc = "none"
    /\ sub[T0].pc # "idle" => job.kind = "idle" \/ fin.pc \in {"callback", "callbackFirst"}

\* Only the cancelling part of a bus reset finishes with the callback first, and
\* it finishes nothing in another way.
ResetFinish ==
    /\ fin.pc # "none" => (fin.how = "reset" <=> job.kind \in {"cancelAll", "cancelGen"})
    /\ fin.pc \in {"callbackFirst", "freeLast"} => fin.how = "reset"
    /\ fin.pc \in {"free", "callback"} => fin.how # "reset"

\* The gate is closed from OnBusResetBegin to OnBusResetComplete.
GateFrame ==
    /\ job.kind \in {"cancelAll", "cancelGen"} => gate
    /\ gate => edge # "none"
    /\ edge = "handled" => gate \/ job.kind = "begin"
    /\ job.kind = "begin" => edge # "none"

\* The control of T0.
T0Frame == T0Busy /\ ResetFinish /\ GateFrame

\* T0's submissions leave its job alone.
LEMMA SubmitT0Frame ==
    ASSUME Typed, T0Frame, NEW th \in load.by, Call(th) \/ SubmitStep(th)
    PROVE  T0Frame'
  <1>. USE AsyncAssumption DEF Typed, TypeOK
  <1>0. th \in Threads /\ T0 \in Threads /\ sub \in [Threads -> Frame]
    BY DEF BusTyped, ThreadsTyped, Frame
  <1>1. UNCHANGED <<job, fin, gate, edge>>
    BY DEF Call, SubmitStep, PrepareTransactionContext, CancelExtract, RegisterLabel, RegisterBusy,
           RegisterTransaction, Install, SubmitFails, SubmitChain, OnTxPosted, CancelPost
  <1>2. \/ sub[th].pc # "idle"
        \/ CanCall(th)
    BY DEF Call, SubmitStep, PrepareTransactionContext, CancelExtract, RegisterLabel, RegisterBusy,
           RegisterTransaction, SubmitFails, SubmitChain, OnTxPosted, CancelPost
  <1>3. \A o \in Threads \ {th} : sub'[o] = sub[o]
    BY <1>0 DEF Call, SubmitStep, PrepareTransactionContext, Prepared, CancelExtract, RegisterLabel, RegisterBusy,
           RegisterTransaction, Install, SubmitFails, SubmitChain, OnTxPosted, CancelPost
  <1>4. T0Busy'
    BY <1>0, <1>1, <1>2, <1>3 DEF T0Frame, T0Busy, CanCall, T0Idle
  <1>. QED BY <1>1, <1>4 DEF T0Frame, ResetFinish, GateFrame

\* Nor do its jobs ever leave the frame.
LEMMA JobT0Frame ==
    ASSUME Typed, T0Frame, JobStep
    PROVE  T0Frame'
  <1>. USE DEF T0Frame, T0Runs
  <1>0. fin \in Hand /\ NoFin.pc = "none"
    BY HandTyped DEF Typed, TypeOK, WorkerTyped, Hand
  <1>a. sub[T0].pc = "idle" /\ UNCHANGED <<sub, edge>> /\ job.kind # "idle"
    BY DEF JobStep, FinishStep, FinishExtract, FinishFree, FinishCallback, FinishCallbackFirst, FinishFreeLast,
           DrainTxCompletion, TickDrains, JobDone, TickTimeout, CancelVictim, OnBusResetBegin,
           CancelByGeneration, ClearAndFlush
  <1>1. CASE FinishStep
    <2>1. UNCHANGED <<job, gate>>
      BY <1>1 DEF FinishStep, FinishExtract, FinishFree, FinishCallback, FinishCallbackFirst, FinishFreeLast
    <2>2. fin.pc # "none" /\ (fin'.pc = "none" \/ fin'.how = fin.how)
      BY <1>0, <1>1 DEF FinishStep, FinishExtract, FinishFree, FinishCallback, FinishCallbackFirst,
                        FinishFreeLast, Hand
    <2>3. /\ fin'.pc \in {"callbackFirst", "freeLast"} => fin'.how = "reset"
          /\ fin'.pc \in {"free", "callback"} => fin'.how # "reset"
      BY <1>0, <1>1 DEF FinishStep, FinishExtract, FinishFree, FinishCallback, FinishCallbackFirst,
                        FinishFreeLast, Hand, ResetFinish
    <2>4. T0Busy'
      BY <1>a, <2>1, <2>2 DEF T0Busy
    <2>5. ResetFinish'
      BY <2>1, <2>2, <2>3 DEF ResetFinish
    <2>. QED BY <1>a, <2>1, <2>4, <2>5 DEF GateFrame
  <1>2. CASE DrainTxCompletion
    <2>1. UNCHANGED <<job, gate>> /\ fin.pc = "none" /\ job.kind = "drain"
      BY <1>2 DEF DrainTxCompletion
    <2>2. fin' = fin \/ (fin'.pc = "extract" /\ fin'.how # "reset")
      <3>1. \A x, ev : "reset" \notin ATPostAction(x, ev)
        BY DEF ATPostAction
      <3>2. \A l, how, src : Finishing(l, how, src).how = how
        BY DEF Finishing
      <3>. QED BY <1>2, <3>1, <3>2, ATDecides DEF DrainTxCompletion
    <2>. QED BY <1>a, <2>1, <2>2 DEF T0Busy, ResetFinish, GateFrame
  <1>3. CASE TickDrains \/ JobDone \/ OnBusResetBegin \/ CancelByGeneration \/ ClearAndFlush
    <2>1. fin.pc = "none" /\ fin' = fin
      BY <1>3 DEF TickDrains, JobDone, OnBusResetBegin, CancelByGeneration, ClearAndFlush, T0Busy
    <2>2. /\ job'.kind \in {"idle", "drain", "cancelAll", "cancelGen"}
          /\ job'.kind \in {"cancelAll", "cancelGen"} => gate'
          /\ gate' = gate \/ (gate' /\ job.kind = "begin")
          /\ job.kind = "begin" => gate'
      BY <1>3 DEF TickDrains, JobDone, OnBusResetBegin, CancelByGeneration, ClearAndFlush, Idle, GateFrame,
                  Typed, TypeOK, WorkerTyped
    <2>. QED BY <1>a, <2>1, <2>2 DEF T0Busy, ResetFinish, GateFrame
  <1>4. ASSUME NEW l \in Labels, TickTimeout(l)
        PROVE  T0Frame'
    <2>1. UNCHANGED gate /\ fin.pc = "none" /\ job.kind = "tick" /\ job'.kind = "tick"
      BY <1>4 DEF TickTimeout, Typed, TypeOK, WorkerTyped
    <2>2. fin' = fin \/ (fin'.pc = "extract" /\ fin'.how # "reset")
      BY <1>4 DEF TickTimeout, OnTimeout, Finishing
    <2>. QED BY <1>a, <2>1, <2>2 DEF T0Busy, ResetFinish, GateFrame
  <1>5. ASSUME NEW l \in Labels, CancelVictim(l)
        PROVE  T0Frame'
    <2>1. UNCHANGED gate /\ job.kind \in {"cancelAll", "cancelGen"} /\ job'.kind = job.kind
      BY <1>5 DEF CancelVictim, Typed, TypeOK, WorkerTyped
    <2>2. fin'.pc = "extract" /\ fin'.how = "reset"
      BY <1>5 DEF CancelVictim, Finishing
    <2>. QED BY <1>a, <2>1, <2>2 DEF T0Busy, ResetFinish, GateFrame
  <1>. QED BY <1>1, <1>2, <1>3, <1>4, <1>5 DEF JobStep

\* Nor do the blocks that start on it.
LEMMA StartT0Frame ==
    ASSUME Typed, T0Frame, StartJob
    PROVE  T0Frame'
  <1>. USE DEF T0Frame, T0Idle
  <1>a. sub[T0].pc = "idle" /\ UNCHANGED sub /\ job.kind = "idle" /\ fin.pc = "none"
    BY DEF StartJob, OnARResponse, RunPostedCancel, OnTxInterrupt, OnTimeoutTick, ConfirmBusGeneration,
           OnBusResetComplete, Teardown
  <1>1. ASSUME NEW r \in Tx, OnARResponse(r)
        PROVE  T0Frame'
    <2>1. /\ UNCHANGED <<gate, edge>>
          /\ \/ job' = job /\ fin' = fin
             \/ job'.kind = "rx" /\ fin'.pc = "extract" /\ fin'.how = "response"
      BY <1>1 DEF OnARResponse, Finishing
    <2>. QED BY <1>a, <2>1 DEF T0Busy, ResetFinish, GateFrame
  <1>2. ASSUME NEW t \in Tx, RunPostedCancel(t)
        PROVE  T0Frame'
    <2>1. /\ UNCHANGED <<gate, edge>>
          /\ \/ job' = job /\ fin' = fin
             \/ job'.kind = "posted" /\ fin'.pc = "callback" /\ fin'.how = "cancel"
      <3>1. LET f == [NoFin EXCEPT !.pc = "callback", !.tx = t, !.how = "cancel"]
            IN  f.pc = "callback" /\ f.how = "cancel"
        BY DEF NoFin
      <3>2. [kind |-> "posted", todo |-> {}].kind = "posted"
        OBVIOUS
      <3>. QED BY <1>2, <3>1, <3>2 DEF RunPostedCancel
    <2>. QED BY <1>a, <2>1 DEF T0Busy, ResetFinish, GateFrame
  <1>3. CASE OnTxInterrupt \/ OnTimeoutTick
    BY <1>a, <1>3 DEF OnTxInterrupt, OnTimeoutTick, T0Busy, ResetFinish, GateFrame
  <1>4. ASSUME NEW decoded \in BOOLEAN, ConfirmBusGeneration(decoded)
        PROVE  T0Frame'
    BY <1>a, <1>4 DEF ConfirmBusGeneration, T0Busy, ResetFinish, GateFrame
  <1>5. CASE OnBusResetComplete \/ Teardown
    BY <1>a, <1>5 DEF OnBusResetComplete, Teardown, T0Busy, ResetFinish, GateFrame
  <1>. QED BY <1>1, <1>2, <1>3, <1>4, <1>5 DEF StartJob

\* Every step keeps the control of T0.
LEMMA T0FrameStep ==
    ASSUME Typed, T0Frame, [Next]_vars
    PROVE  T0Frame'
  <1>1. CASE Environment
    <2>1. UNCHANGED <<gate, job, fin, sub>> /\ edge' \in {edge, "raised"}
      BY <1>1 DEF Environment, HwComplete, HwBusReset, Respond, Expire
    <2>. QED BY <2>1 DEF T0Frame, T0Busy, ResetFinish, GateFrame
  <1>2. CASE UNCHANGED vars
    BY <1>2 DEF vars, T0Frame, T0Busy, ResetFinish, GateFrame
  <1>. QED BY <1>1, <1>2, SubmitT0Frame, JobT0Frame, StartT0Frame DEF Next

-----------------------------------------------------------------------------
(* Labels do not leak *)

\* Somebody stands behind the label, or is on the way to install or free it.
Accounted(l) ==
    \/ slot[l] # NoTx
    \/ fin.pc \in {"free", "callbackFirst", "freeLast"} /\ fin.label = l
    \/ \E th \in Threads : sub[th].pc \in {"labelled", "cancelling"} /\ sub[th].label = l

\* The first half of LabelsAgree.
LabelsAccounted == accepting => \A l \in bitmap : Accounted(l)

\* It is kept by a step that drops a label's account only with its bit.
LEMMA AccountedFrame ==
    ASSUME LabelsAccounted, accepting' => accepting,
           \A l \in bitmap' : l \in bitmap /\ Accounted(l) => Accounted(l)',
           \A l \in bitmap' : l \notin bitmap => Accounted(l)'
    PROVE  LabelsAccounted'
  BY DEF LabelsAccounted

\* The submit path frees or installs every label it drops.
LEMMA SubmitAccounted ==
    ASSUME Typed, LabelsAccounted, NEW th \in load.by, Call(th) \/ SubmitStep(th)
    PROVE  LabelsAccounted'
  <1>. USE AsyncAssumption DEF Typed, TypeOK
  <1>0. /\ th \in Threads /\ sub \in [Threads -> Frame] /\ bitmap \subseteq Labels
        /\ slot \in [Labels -> Tx \cup {NoTx}] /\ NoTx \notin Tx
    BY DEF BusTyped, ThreadsTyped, Frame, TablesTyped, Tx
  <1>1. UNCHANGED <<fin, accepting>>
    BY DEF Call, SubmitStep, PrepareTransactionContext, CancelExtract, RegisterLabel, RegisterBusy,
           RegisterTransaction, Install, SubmitFails, SubmitChain, OnTxPosted, CancelPost
  <1>2. \A o \in Threads \ {th} : sub'[o] = sub[o]
    BY <1>0 DEF Call, SubmitStep, PrepareTransactionContext, Prepared, CancelExtract, RegisterLabel, RegisterBusy,
           RegisterTransaction, Install, SubmitFails, SubmitChain, OnTxPosted, CancelPost
  <1>3. CASE /\ sub[th].pc \notin {"labelled", "cancelling"}
             /\ UNCHANGED slot /\ bitmap' \subseteq bitmap
    <2>1. \A l \in bitmap' : Accounted(l) => Accounted(l)'
      BY <1>1, <1>2, <1>3 DEF Accounted
    <2>. QED BY <1>1, <1>3, <2>1, AccountedFrame
  <1>4. CASE /\ sub[th].pc \in {"labelled", "cancelling"}
             /\ UNCHANGED slot /\ bitmap' = bitmap \ {sub[th].label}
    <2>1. \A l \in bitmap' : Accounted(l) => Accounted(l)'
      BY <1>1, <1>2, <1>4 DEF Accounted
    <2>. QED BY <1>1, <1>4, <2>1, AccountedFrame
  <1>5. CASE CancelExtract(th)
    <2>1. /\ handle[th] \in Labels /\ slot' = [slot EXCEPT ![handle[th]] = NoTx]
          /\ sub[th].pc = "idle" /\ sub'[th].pc = "cancelling" /\ sub'[th].label = handle[th]
          /\ bitmap' = bitmap
      BY <1>0, <1>5 DEF CancelExtract, CanCall, Resting, ThreadsTyped
    <2>2. \A l \in bitmap' : Accounted(l) => Accounted(l)'
      BY <1>0, <1>1, <1>2, <2>1 DEF Accounted
    <2>. QED BY <1>1, <2>1, <2>2, AccountedFrame
  <1>6. CASE RegisterLabel(th)
    <2>1. ASSUME NEW l \in Labels, Allocate(l, SweptBitmap, SweptCursor),
                 sub' = [sub EXCEPT ![th].pc = "labelled", ![th].label = l]
          PROVE  LabelsAccounted'
      <3>1. bitmap' \subseteq bitmap \cup {l} /\ slot' = slot /\ sub[th].pc = "prepared"
        BY <1>6, <2>1 DEF RegisterLabel, Allocate, SweptBitmap
      <3>2. sub'[th].pc = "labelled" /\ sub'[th].label = l
        BY <1>0, <2>1 DEF Frame
      <3>3. Accounted(l)'
        BY <1>0, <3>2 DEF Accounted
      <3>4. \A k \in bitmap' : Accounted(k) => Accounted(k)'
        BY <1>1, <1>2, <3>1 DEF Accounted
      <3>. QED BY <1>1, <3>1, <3>3, <3>4, AccountedFrame
    <2>2. CASE sub' = [sub EXCEPT ![th] = Resting] /\ UNCHANGED bitmap
      BY <1>3, <1>6, <2>2 DEF RegisterLabel
    <2>. QED BY <1>6, <2>1, <2>2 DEF RegisterLabel
  <1>7. CASE RegisterTransaction(th)
    <2>1. /\ slot' = [slot EXCEPT ![sub[th].label] = nextTx] /\ nextTx # NoTx
          /\ bitmap' = bitmap
      BY <1>7 DEF RegisterTransaction, Install, TablesTyped
    <2>2. \A l \in bitmap' : Accounted(l) => Accounted(l)'
      BY <1>0, <1>1, <1>2, <2>1 DEF Accounted
    <2>. QED BY <1>1, <2>1, <2>2, AccountedFrame
  <1>8. CASE RegisterBusy(th) \/ CancelPost(th)
    BY <1>4, <1>8 DEF RegisterBusy, CancelPost, Free
  <1>9. CASE \/ \E s \in load.strategies : PrepareTransactionContext(th, s)
             \/ SubmitFails(th) \/ SubmitChain(th) \/ OnTxPosted(th)
    BY <1>3, <1>9 DEF PrepareTransactionContext, CanCall, SubmitFails, SubmitChain, OnTxPosted
  <1>. QED BY <1>5, <1>6, <1>7, <1>8, <1>9 DEF Call, SubmitStep

\* T0 frees every label it extracts from.
LEMMA JobAccounted ==
    ASSUME Typed, LabelsAccounted, JobStep
    PROVE  LabelsAccounted'
  <1>. USE DEF Typed, TypeOK
  <1>0. fin \in Hand /\ slot \in [Labels -> Tx \cup {NoTx}] /\ bitmap \subseteq Labels /\ NoFin.pc = "none"
    BY HandTyped DEF WorkerTyped, Hand, TablesTyped
  <1>a. UNCHANGED <<sub, accepting>>
    BY DEF JobStep, FinishStep, FinishExtract, FinishFree, FinishCallback, FinishCallbackFirst, FinishFreeLast,
           DrainTxCompletion, TickDrains, JobDone, TickTimeout, CancelVictim, OnBusResetBegin,
           CancelByGeneration, ClearAndFlush
  <1>b. ASSUME UNCHANGED slot, bitmap' \subseteq bitmap, fin' = fin \/ fin.pc \in {"none", "callback"}
        PROVE  LabelsAccounted'
    <2>1. \A l \in bitmap' : Accounted(l) => Accounted(l)'
      BY <1>a, <1>b DEF Accounted
    <2>. QED BY <1>a, <1>b, <2>1, AccountedFrame
  <1>1. CASE FinishExtract
    <2>1. /\ slot' = [slot EXCEPT ![fin.label] = NoTx] /\ bitmap' = bitmap /\ fin.pc = "extract"
          /\ slot[fin.label] # NoTx => fin'.pc \in {"free", "callbackFirst"} /\ fin'.label = fin.label
      BY <1>0, <1>1 DEF FinishExtract, Extract, Hand
    <2>2. \A l \in bitmap' : Accounted(l) => Accounted(l)'
      BY <1>0, <1>a, <2>1 DEF Accounted
    <2>. QED BY <1>a, <2>1, <2>2, AccountedFrame
  <1>2. CASE FinishFree \/ FinishFreeLast
    <2>1. slot' = slot /\ bitmap' = bitmap \ {fin.label}
      BY <1>2 DEF FinishFree, FinishFreeLast, Free
    <2>2. \A l \in bitmap' : Accounted(l) => Accounted(l)'
      BY <1>a, <2>1 DEF Accounted
    <2>. QED BY <1>a, <2>1, <2>2, AccountedFrame
  <1>3. CASE FinishCallbackFirst
    <2>1. slot' = slot /\ bitmap' = bitmap /\ fin'.pc = "freeLast" /\ fin'.label = fin.label
      BY <1>0, <1>3 DEF FinishCallbackFirst, Hand
    <2>2. \A l \in bitmap' : Accounted(l) => Accounted(l)'
      BY <1>a, <2>1 DEF Accounted
    <2>. QED BY <1>a, <2>1, <2>2, AccountedFrame
  <1>4. CASE FinishCallback
    BY <1>b, <1>4 DEF FinishCallback
  <1>5. CASE \/ DrainTxCompletion \/ TickDrains \/ JobDone \/ OnBusResetBegin \/ CancelByGeneration
             \/ \E l \in Labels : TickTimeout(l) \/ CancelVictim(l)
    <2>1. UNCHANGED <<slot, bitmap>> /\ (fin' = fin \/ fin.pc = "none")
      BY <1>5 DEF DrainTxCompletion, TickDrains, JobDone, OnBusResetBegin, CancelByGeneration, TickTimeout, CancelVictim
    <2>. QED BY <1>b, <2>1
  <1>6. CASE ClearAndFlush
    BY <1>b, <1>6 DEF ClearAndFlush, ClearBitmap
  <1>. QED BY <1>1, <1>2, <1>3, <1>4, <1>5, <1>6 DEF JobStep, FinishStep

\* Every step keeps the labels accounted for.
LEMMA AccountedStep ==
    ASSUME Typed, LabelsAccounted, [Next]_vars
    PROVE  LabelsAccounted'
  <1>1. ASSUME UNCHANGED <<slot, bitmap, sub, accepting>>, fin' = fin \/ fin.pc = "none"
        PROVE  LabelsAccounted'
    <2>1. \A l \in bitmap' : Accounted(l) => Accounted(l)'
      BY <1>1 DEF Accounted
    <2>. QED BY <1>1, <2>1, AccountedFrame
  <1>2. CASE StartJob
    <2>1. CASE Teardown
      BY <2>1 DEF Teardown, LabelsAccounted
    <2>2. CASE ~Teardown
      BY <1>1, <1>2, <2>2 DEF StartJob, OnARResponse, RunPostedCancel, OnTxInterrupt, OnTimeoutTick,
                         ConfirmBusGeneration, OnBusResetComplete, T0Idle
    <2>. QED BY <2>1, <2>2
  <1>3. CASE Environment
    BY <1>1, <1>3 DEF Environment, HwComplete, HwBusReset, Respond, Expire
  <1>4. CASE UNCHANGED vars
    BY <1>1, <1>4 DEF vars
  <1>. QED BY <1>2, <1>3, <1>4, SubmitAccounted, JobAccounted DEF Next

-----------------------------------------------------------------------------
(* Generations *)

\* No update of a transaction changes the generation it was registered in.
LEMMA UpdatesKeepGen ==
    ASSUME NEW x \in Transaction
    PROVE  /\ MarkPosted(x).gen = x.gen
           /\ \A ev : ATUpdate(x, ev).gen = x.gen
           /\ ExtendDeadline(x).gen = x.gen
           /\ \A how : Outcome(x, how) \in Transaction /\ Outcome(x, how).gen = x.gen
           /\ Destroyed(x).gen = x.gen
           /\ [x EXCEPT !.deadline = "expired"].gen = x.gen
           /\ [x EXCEPT !.latch = TRUE].gen = x.gen
  <1>1. ASSUME NEW y \in Transaction, NEW to \in State
        PROVE  TransitionTo(y, to) \in Transaction /\ TransitionTo(y, to).gen = y.gen
    BY TransitionTyped DEF TransitionTo, Transaction
  <1>2. ASSUME NEW y \in Transaction, NEW first \in State, NEW second \in State
        PROVE  Through(y, first, second) \in Transaction /\ Through(y, first, second).gen = y.gen
    BY <1>1 DEF Through
  <1>3. MarkPosted(x).gen = x.gen
    <2> DEFINE posting == TransitionTo(x, "ATPosted")
               base == IF x.strategy = "AR" THEN Through(posting, "ATCompleted", "AwaitingAR")
                       ELSE posting
    <2>1. posting \in Transaction /\ posting.gen = x.gen
      BY <1>1 DEF State
    <2> HIDE DEF posting
    <2>2. base \in Transaction /\ base.gen = x.gen
      BY <1>2, <2>1 DEF State
    <2> HIDE DEF base
    <2>3. [base EXCEPT !.deadline = "running"].gen = base.gen
      BY <2>2 DEF Transaction
    <2>. QED BY <2>2, <2>3 DEF MarkPosted, base, posting
  <1>4. ASSUME NEW ev
        PROVE  ATUpdate(x, ev).gen = x.gen
    <2> DEFINE y == [x EXCEPT !.ack = AckOf(ev)]
    <2>1. y \in Transaction /\ y.gen = x.gen
      <3>1. AckOf(ev) \in Ack
        BY DEF AckOf, Ack
      <3>. QED BY <3>1 DEF Transaction
    <2> HIDE DEF y
    <2>2. /\ Through(y, "ATCompleted", "AwaitingAR").gen = x.gen
          /\ TransitionTo(y, "ATCompleted") \in Transaction
          /\ TransitionTo(y, "ATCompleted").gen = x.gen
      BY <1>1, <1>2, <2>1 DEF State
    <2>3. /\ [y EXCEPT !.latch = TRUE].gen = x.gen
          /\ [TransitionTo(y, "ATCompleted") EXCEPT !.deadline = "running"].gen = x.gen
      BY <2>1, <2>2 DEF Transaction
    <2>. QED BY <2>1, <2>2, <2>3 DEF ATUpdate, y
  <1>5. ASSUME NEW how
        PROVE  Outcome(x, how) \in Transaction /\ Outcome(x, how).gen = x.gen
    <2>1. Outcome(x, how) \in Transaction
      BY OutcomeTyped
    <2>2. {"ATCompleted", "ARReceived", "Completed", "Failed", "TimedOut", "Cancelled"} \subseteq State
      BY DEF State
    <2>. QED BY <1>1, <1>2, <2>1, <2>2 DEF Outcome
  <1>6. /\ ExtendDeadline(x).gen = x.gen /\ Destroyed(x).gen = x.gen
        /\ [x EXCEPT !.deadline = "expired"].gen = x.gen
        /\ [x EXCEPT !.latch = TRUE].gen = x.gen
    BY DEF ExtendDeadline, Destroyed, NoTransaction, Transaction
  <1>. QED BY <1>3, <1>4, <1>5, <1>6

\* Nothing changes the generation of an object that was created.
GensKept == \A t \in Tx : t < nextTx => txn'[t].gen = txn[t].gen

\* A Transaction keeps the generation it was made with, whatever step is taken.
LEMMA GensKeptStep ==
    ASSUME Typed, [Next]_vars
    PROVE  GensKept
  <1>. USE AsyncAssumption DEF Typed, TypeOK
  <1>0. slot \in [Labels -> Tx \cup {NoTx}] /\ txn \in [Tx -> Transaction]
    BY DEF TablesTyped
  <1>a. ASSUME NEW x, NEW y, txn' = [txn EXCEPT ![x] = y], x \in Tx => y.gen = txn[x].gen
        PROVE  GensKept
    BY <1>0, <1>a DEF GensKept
  <1>b. ASSUME txn' = txn
        PROVE  GensKept
    BY <1>b DEF GensKept
  <1>1. ASSUME NEW th \in load.by, Call(th) \/ SubmitStep(th)
        PROVE  GensKept
    <2>1. CASE RegisterTransaction(th)
      <3>1. txn' = [txn EXCEPT ![nextTx] = NewTransaction(th)] /\ nextTx \in Nat
        BY <2>1 DEF RegisterTransaction, Install, TablesTyped
      <3>. QED BY <1>0, <3>1 DEF GensKept
    <2>2. CASE OnTxPosted(th)
      BY <1>0, <1>a, <1>b, <2>2, UpdatesKeepGen DEF OnTxPosted
    <2>3. CASE ~RegisterTransaction(th) /\ ~OnTxPosted(th)
      BY <1>1, <1>b, <2>3 DEF Call, SubmitStep, PrepareTransactionContext, CancelExtract, RegisterLabel, RegisterBusy,
           SubmitFails, SubmitChain, CancelPost
    <2>. QED BY <2>1, <2>2, <2>3
  <1>2. CASE JobStep
    <2>1. CASE FinishFree \/ FinishCallback \/ FinishCallbackFirst
      <3>1. \A t \in Tx : Destroyed(Outcome(txn[t], fin.how)).gen = txn[t].gen
        BY <1>0, UpdatesKeepGen
      <3>2. \A t \in Tx : Outcome(txn[t], fin.how).gen = txn[t].gen /\ Destroyed(txn[t]).gen = txn[t].gen
        BY <1>0, UpdatesKeepGen
      <3>. QED BY <1>a, <1>b, <2>1, <3>1, <3>2 DEF FinishFree, FinishCallback, FinishCallbackFirst
    <2>2. CASE DrainTxCompletion
      <3> DEFINE x == slot[txn[Head(ring).tx].label]
      <3>1. txn' = txn \/ txn' = [txn EXCEPT ![x] = ATUpdate(txn[x], Head(ring).status)]
        BY <2>2 DEF DrainTxCompletion, OnATCompletion
      <3>2. x \in Tx => ATUpdate(txn[x], Head(ring).status).gen = txn[x].gen
        BY <1>0, UpdatesKeepGen
      <3>. QED BY <1>a, <1>b, <3>1, <3>2
    <2>3. ASSUME NEW l \in Labels, TickTimeout(l)
          PROVE  GensKept
      BY <1>0, <1>a, <1>b, <2>3, UpdatesKeepGen DEF TickTimeout, OnTimeout
    <2>4. CASE \/ FinishExtract \/ FinishFreeLast \/ TickDrains \/ JobDone \/ OnBusResetBegin
               \/ CancelByGeneration \/ ClearAndFlush \/ \E l \in Labels : CancelVictim(l)
      BY <1>b, <2>4 DEF FinishExtract, FinishFreeLast, TickDrains, JobDone, OnBusResetBegin, CancelByGeneration,
                   ClearAndFlush, CancelVictim
    <2>. QED BY <1>2, <2>1, <2>2, <2>3, <2>4 DEF JobStep, FinishStep
  <1>3. CASE StartJob
    <2>1. ASSUME NEW r \in Tx, OnARResponse(r)
          PROVE  GensKept
      <3> DEFINE x == slot[txn[r].label]
      <3>1. txn' = txn \/ txn' = [txn EXCEPT ![x] = [txn[x] EXCEPT !.latch = TRUE]]
        BY <2>1 DEF OnARResponse
      <3>2. x \in Tx => [txn[x] EXCEPT !.latch = TRUE].gen = txn[x].gen
        BY <1>0, UpdatesKeepGen
      <3>. QED BY <1>a, <1>b, <3>1, <3>2
    <2>2. ASSUME NEW t \in Tx, RunPostedCancel(t)
          PROVE  GensKept
      BY <1>0, <1>a, <1>b, <2>2, UpdatesKeepGen DEF RunPostedCancel
    <2>3. CASE Teardown
      <3>1. \A t \in Tx : Destroyed(Outcome(txn[t], "cancel")).gen = txn[t].gen
        BY <1>0, UpdatesKeepGen
      <3>. QED BY <2>3, <3>1 DEF Teardown, GensKept
    <2>4. CASE \/ OnTxInterrupt \/ OnTimeoutTick \/ OnBusResetComplete
               \/ \E decoded \in BOOLEAN : ConfirmBusGeneration(decoded)
      BY <1>b, <2>4 DEF OnTxInterrupt, OnTimeoutTick, OnBusResetComplete, ConfirmBusGeneration
    <2>. QED BY <1>3, <2>1, <2>2, <2>3, <2>4 DEF StartJob
  <1>4. CASE Environment
    <2>1. ASSUME NEW l \in Labels, Expire(l)
          PROVE  GensKept
      <3>1. txn' = [txn EXCEPT ![slot[l]] = [txn[slot[l]] EXCEPT !.deadline = "expired"]]
        BY <2>1 DEF Expire
      <3>. QED BY <1>0, <1>a, <3>1, UpdatesKeepGen
    <2>. QED BY <1>4, <1>b, <2>1 DEF Environment, HwComplete, HwBusReset, Respond
  <1>5. CASE UNCHANGED vars
    BY <1>b, <1>5 DEF vars
  <1>. QED BY <1>1, <1>2, <1>3, <1>4, <1>5 DEF Next

\* Every descriptor was in the ring before, and its status is not taken back.
RingOld ==
    \A i \in 1..Len(ring') :
        \E j \in 1..Len(ring) : /\ ring'[i].tx = ring[j].tx
                                /\ ring[j].status # "none" => ring'[i].status # "none"

\* Only the submit path adds a descriptor.
LEMMA RingStep ==
    ASSUME Typed, [Next]_vars
    PROVE  \/ RingOld
           \/ \E th \in load.by : SubmitChain(th)
  <1>. USE DEF Typed, TypeOK
  <1>0. ring \in Seq(Descriptor) /\ Len(ring) \in Nat /\ DOMAIN ring = 1..Len(ring)
    BY DEF WireTyped, Descriptor
  <1>a. \A i \in 1..Len(ring) : ring[i] \in Descriptor
    BY <1>0
  <1>1. CASE ring' = ring
    BY <1>1 DEF RingOld
  <1>2. CASE ring' = Flushed(ring)
    <2>1. Len(ring') = Len(ring) /\ \A i \in 1..Len(ring) : ring'[i] = Flushed(ring)[i]
      <3>1. Flushed(ring) \in [1..Len(ring) -> Descriptor]
        <4>1. \A i \in 1..Len(ring) : [ring[i] EXCEPT !.status = "flushed"] \in Descriptor
          BY <1>a DEF Descriptor
        <4>. QED BY <1>0, <1>a, <4>1 DEF Flushed
      <3>. QED BY <1>0, <1>2, <3>1
    <2>2. \A i \in 1..Len(ring) : Flushed(ring)[i].tx = ring[i].tx /\ Flushed(ring)[i].status # "none"
      BY <1>0, <1>a DEF Flushed, Descriptor
    <2>. QED BY <2>1, <2>2 DEF RingOld
  <1>3. CASE ring' = << >>
    <2>1. Len(ring') = 0
      BY <1>3
    <2>. QED BY <2>1 DEF RingOld
  <1>4. CASE DrainTxCompletion
    <2>1. ring' = Tail(ring) /\ ring # << >>
      BY <1>4 DEF DrainTxCompletion, HeadDone
    <2>2. Len(ring') = Len(ring) - 1 /\ \A i \in 1..Len(ring') : i + 1 \in 1..Len(ring) /\ ring'[i] = ring[i + 1]
      BY <1>0, <2>1
    <2>. QED BY <2>2 DEF RingOld
  <1>5. ASSUME NEW ev \in load.events, HwComplete(ev)
        PROVE  RingOld
    <2>1. PICK i \in 1..Len(ring) : ring[i].status = "none" /\ ring' = [ring EXCEPT ![i].status = ev]
      BY <1>5 DEF HwComplete
    <2>2. Len(ring') = Len(ring)
      BY <1>0, <2>1
    <2>3. \A j \in 1..Len(ring) : ring'[j].tx = ring[j].tx /\ (j # i => ring'[j] = ring[j])
      BY <1>0, <1>a, <2>1 DEF Descriptor
    <2>. QED BY <2>1, <2>2, <2>3 DEF RingOld
  <1>6. ASSUME NEW th \in load.by, Call(th) \/ SubmitStep(th)
        PROVE  ring' = ring \/ SubmitChain(th)
    BY <1>6 DEF Call, SubmitStep, PrepareTransactionContext, CancelExtract, RegisterLabel, RegisterBusy,
           RegisterTransaction, Install, SubmitFails, OnTxPosted, CancelPost
  <1>7. CASE JobStep
    BY <1>1, <1>2, <1>4, <1>7 DEF JobStep, FinishStep, FinishExtract, FinishFree, FinishCallback,
           FinishCallbackFirst, FinishFreeLast, TickDrains, JobDone, TickTimeout, CancelVictim,
           OnBusResetBegin, CancelByGeneration, ClearAndFlush
  <1>8. CASE StartJob
    BY <1>1, <1>3, <1>8 DEF StartJob, OnARResponse, RunPostedCancel, OnTxInterrupt, OnTimeoutTick,
           ConfirmBusGeneration, OnBusResetComplete, Teardown
  <1>9. CASE Environment
    BY <1>1, <1>2, <1>5, <1>9 DEF Environment, HwBusReset, Respond, Expire
  <1>10. CASE UNCHANGED vars
    BY <1>1, <1>10 DEF vars
  <1>. QED BY <1>1, <1>6, <1>7, <1>8, <1>9, <1>10 DEF Next

\* Descriptors, requests, responses, threads and T0 name objects that exist.
WireCreated ==
    /\ \A i \in 1..Len(ring) : ring[i].tx < nextTx
    /\ \A t \in asked \cup rsp : t < nextTx
    /\ \A th \in Threads : sub[th].pc \in {"registered", "onWire"} => sub[th].tx < nextTx
    /\ fin.src < nextTx

\* Every step keeps that: objects are named only once they are registered.
LEMMA WireCreatedStep ==
    ASSUME Owned, WireCreated, [Next]_vars
    PROVE  WireCreated'
  <1>. USE AsyncAssumption DEF Owned, Typed, TypeOK
  <1>0. /\ sub \in [Threads -> Frame] /\ fin \in Hand /\ nextTx \in Nat /\ nextTx # 0
        /\ slot \in [Labels -> Tx \cup {NoTx}] /\ \A t \in Tx : t \in Nat
        /\ load.by \subseteq Threads
    BY DEF ThreadsTyped, Frame, WorkerTyped, Hand, TablesTyped, BusTyped, Tx
  <1>r. /\ \A i \in 1..Len(ring) : ring[i].tx \in Tx
        /\ asked \subseteq Tx /\ rsp \subseteq Tx
    <2>1. ring \in Seq(Descriptor)
      BY DEF WireTyped, Descriptor
    <2>2. \A i \in 1..Len(ring) : ring[i] \in Descriptor
      BY <2>1
    <2>. QED BY <2>2 DEF WireTyped, Descriptor
  <1>a. nextTx' \in Nat /\ nextTx' >= nextTx /\ (nextTx' = nextTx \/ nextTx' = nextTx + 1)
    <2>1. ASSUME NEW th \in load.by, Call(th) \/ SubmitStep(th)
          PROVE  nextTx' = nextTx \/ nextTx' = nextTx + 1
      BY <2>1 DEF Call, SubmitStep, PrepareTransactionContext, CancelExtract, RegisterLabel, RegisterBusy,
             RegisterTransaction, Install, SubmitFails, SubmitChain, OnTxPosted, CancelPost
    <2>2. JobStep => nextTx' = nextTx
      BY DEF JobStep, FinishStep, FinishExtract, FinishFree, FinishCallback, FinishCallbackFirst,
             FinishFreeLast, DrainTxCompletion, TickDrains, JobDone, TickTimeout, CancelVictim,
             OnBusResetBegin, CancelByGeneration, ClearAndFlush
    <2>3. StartJob => nextTx' = nextTx
      BY DEF StartJob, OnARResponse, RunPostedCancel, OnTxInterrupt, OnTimeoutTick, ConfirmBusGeneration,
             OnBusResetComplete, Teardown
    <2>4. (Environment \/ UNCHANGED vars) => nextTx' = nextTx
      BY DEF Environment, HwComplete, HwBusReset, Respond, Expire, vars
    <2>. QED BY <1>0, <2>1, <2>2, <2>3, <2>4 DEF Next
  <1>1. \A i \in 1..Len(ring') : ring'[i].tx < nextTx'
    <2>1. CASE RingOld
      BY <1>0, <1>a, <1>r, <2>1 DEF RingOld, WireCreated
    <2>2. ASSUME NEW th \in load.by, SubmitChain(th)
          PROVE  \A i \in 1..Len(ring') : ring'[i].tx < nextTx'
      <3>1. /\ ring' = Append(ring, [tx |-> sub[th].tx, status |-> "none"])
            /\ sub[th].tx < nextTx /\ nextTx' = nextTx
        BY <1>0, <2>2 DEF SubmitChain, WireCreated
      <3>2. ring \in Seq(Descriptor)
        BY DEF WireTyped, Descriptor
      <3>3. /\ Len(ring') = Len(ring) + 1 /\ ring'[Len(ring) + 1] = [tx |-> sub[th].tx, status |-> "none"]
            /\ \A i \in 1..Len(ring) : ring'[i] = ring[i]
        BY <3>1, <3>2
      <3>4. ASSUME NEW i \in 1..Len(ring')
            PROVE  ring'[i].tx < nextTx'
        <4>1. CASE i = Len(ring) + 1
          BY <3>1, <3>3, <4>1
        <4>2. CASE i \in 1..Len(ring)
          BY <3>1, <3>3, <4>2 DEF WireCreated
        <4>. QED BY <3>2, <3>3, <4>1, <4>2
      <3>. QED BY <3>4
    <2>. QED BY <2>1, <2>2, RingStep
  <1>2. \A t \in asked' \cup rsp' : t < nextTx'
    <2>1. \A t \in asked' \cup rsp' : t \in asked \cup rsp \/ \E i \in 1..Len(ring) : t = ring[i].tx
      <3>1. ASSUME NEW th \in load.by, Call(th) \/ SubmitStep(th)
            PROVE  UNCHANGED <<asked, rsp>>
        BY <3>1 DEF Call, SubmitStep, PrepareTransactionContext, CancelExtract, RegisterLabel, RegisterBusy,
               RegisterTransaction, Install, SubmitFails, SubmitChain, OnTxPosted, CancelPost
      <3>2. CASE JobStep \/ StartJob \/ UNCHANGED vars
        <4>1. asked' \subseteq asked /\ rsp' \subseteq rsp
          BY <3>2 DEF JobStep, FinishStep, FinishExtract, FinishFree, FinishCallback, FinishCallbackFirst,
               FinishFreeLast, DrainTxCompletion, TickDrains, JobDone, TickTimeout, CancelVictim,
               OnBusResetBegin, CancelByGeneration, ClearAndFlush, StartJob, OnARResponse, RunPostedCancel,
               OnTxInterrupt, OnTimeoutTick, ConfirmBusGeneration, OnBusResetComplete, Teardown, vars
        <4>. QED BY <4>1
      <3>3. CASE Environment
        <4>1. CASE HwBusReset \/ \E l \in Labels : Expire(l)
          <5>1. asked' \subseteq asked /\ rsp' = rsp
            BY <4>1 DEF HwBusReset, Expire, wire
          <5>. QED BY <5>1
        <4>2. ASSUME NEW ev \in load.events, HwComplete(ev)
              PROVE  \A t \in asked' \cup rsp' : t \in asked \cup rsp \/ \E i \in 1..Len(ring) : t = ring[i].tx
          BY <4>2 DEF HwComplete
        <4>3. ASSUME NEW u \in Tx, Respond(u)
              PROVE  \A t \in asked' \cup rsp' : t \in asked \cup rsp
          BY <4>3 DEF Respond
        <4>. QED BY <3>3, <4>1, <4>2, <4>3 DEF Environment
      <3>. QED BY <3>1, <3>2, <3>3 DEF Next
    <2>. QED BY <1>0, <1>a, <1>r, <2>1 DEF WireCreated
  <1>3. \A th \in Threads : sub'[th].pc \in {"registered", "onWire"} => sub'[th].tx < nextTx'
    <2>1. ASSUME NEW th \in load.by, Call(th) \/ SubmitStep(th), NEW o \in Threads,
                 sub'[o].pc \in {"registered", "onWire"}
          PROVE  sub'[o].tx < nextTx'
      <3>0. th \in Threads /\ (sub[o].tx \in Nat) /\ Resting.pc = "idle"
        BY <1>0 DEF Frame, Resting
      <3>1. CASE o # th
        <4>1. sub'[o] = sub[o]
          BY <2>1, <3>0, <3>1, <1>0 DEF Call, SubmitStep, PrepareTransactionContext, Prepared, CancelExtract,
               RegisterLabel, RegisterBusy, RegisterTransaction, Install, SubmitFails, SubmitChain, OnTxPosted,
               CancelPost
        <4>. QED BY <1>a, <1>0, <2>1, <3>0, <4>1 DEF WireCreated
      <3>2. CASE o = th /\ RegisterTransaction(th)
        <4>1. nextTx' = nextTx + 1 /\ sub'[th].tx = nextTx
          BY <1>0, <3>0, <3>2 DEF RegisterTransaction, Install, Frame
        <4>. QED BY <1>0, <3>2, <4>1
      <3>3. CASE o = th /\ SubmitChain(th)
        <4>1. nextTx' = nextTx /\ sub'[th].tx = sub[th].tx /\ sub[th].pc = "registered"
          BY <1>0, <3>0, <3>3 DEF SubmitChain, Frame
        <4>. QED BY <3>3, <4>1 DEF WireCreated
      <3>4. CASE o = th /\ RegisterLabel(th)
        <4>1. sub'[th].pc = "labelled" \/ sub'[th] = Resting
          BY <1>0, <3>0, <3>4 DEF RegisterLabel, Frame
        <4>. QED BY <2>1, <3>0, <3>4, <4>1
      <3>5. CASE o = th /\ \E s \in load.strategies : PrepareTransactionContext(th, s)
        <4>1. sub'[th].pc = "prepared"
          BY <1>0, <3>0, <3>5 DEF PrepareTransactionContext, Prepared, Resting
        <4>. QED BY <2>1, <3>5, <4>1
      <3>6. CASE o = th /\ CancelExtract(th)
        <4>1. sub'[th].pc = "cancelling"
          BY <1>0, <3>0, <3>6 DEF CancelExtract, Resting
        <4>. QED BY <2>1, <3>6, <4>1
      <3>7. CASE o = th /\ (RegisterBusy(th) \/ SubmitFails(th) \/ OnTxPosted(th) \/ CancelPost(th))
        <4>1. sub'[th] = Resting
          BY <1>0, <3>0, <3>7 DEF RegisterBusy, SubmitFails, OnTxPosted, CancelPost
        <4>. QED BY <2>1, <3>0, <3>7, <4>1
      <3>. QED BY <2>1, <3>1, <3>2, <3>3, <3>4, <3>5, <3>6, <3>7 DEF Call, SubmitStep
    <2>2. ASSUME UNCHANGED sub
          PROVE  \A th \in Threads : sub'[th].pc \in {"registered", "onWire"} => sub'[th].tx < nextTx'
      BY <1>a, <1>0, <2>2 DEF WireCreated, Frame
    <2>3. CASE JobStep \/ StartJob \/ Environment \/ UNCHANGED vars
      BY <2>2, <2>3 DEF JobStep, FinishStep, FinishExtract, FinishFree, FinishCallback, FinishCallbackFirst,
             FinishFreeLast, DrainTxCompletion, TickDrains, JobDone, TickTimeout, CancelVictim,
             OnBusResetBegin, CancelByGeneration, ClearAndFlush, StartJob, OnARResponse, RunPostedCancel,
             OnTxInterrupt, OnTimeoutTick, ConfirmBusGeneration, OnBusResetComplete, Teardown,
             Environment, HwComplete, HwBusReset, Respond, Expire, vars
    <2>. QED BY <2>1, <2>3 DEF Next
  <1>4. fin'.src < nextTx'
    <2>1. \/ fin'.src \in {fin.src, NoTx} \/ fin'.src \in rsp
          \/ \E i \in 1..Len(ring) : fin'.src = ring[i].tx
          \/ \E l \in Labels : slot[l] # NoTx /\ fin'.src = slot[l]
      <3>0. NoFin.src = NoTx /\ \A l, how, src : Finishing(l, how, src).src = src
        BY DEF NoFin, Finishing
      <3>1. ASSUME NEW th \in load.by, Call(th) \/ SubmitStep(th)
            PROVE  fin' = fin
        BY <3>1 DEF Call, SubmitStep, PrepareTransactionContext, CancelExtract, RegisterLabel, RegisterBusy,
               RegisterTransaction, Install, SubmitFails, SubmitChain, OnTxPosted, CancelPost
      <3>2. CASE FinishStep
        <4>1. fin' = NoFin \/ fin'.src = fin.src
          BY <1>0, <3>2 DEF FinishStep, FinishExtract, FinishFree, FinishCallback, FinishCallbackFirst,
               FinishFreeLast, Hand
        <4>. QED BY <3>0, <4>1
      <3>3. CASE DrainTxCompletion
        <4>1. ring # << >> /\ ring \in Seq(Descriptor)
          BY <3>3 DEF DrainTxCompletion, HeadDone, WireTyped, Descriptor
        <4>2. 1 \in 1..Len(ring) /\ Head(ring) = ring[1]
          BY <4>1
        <4>. QED BY <3>0, <3>3, <4>2, ATDecides DEF DrainTxCompletion
      <3>4. ASSUME NEW l \in Labels, TickTimeout(l) \/ CancelVictim(l)
            PROVE  fin'.src \in {fin.src, NoTx} \/ (slot[l] # NoTx /\ fin'.src = slot[l])
        BY <3>0, <3>4 DEF TickTimeout, OnTimeout, CancelVictim
      <3>5. ASSUME NEW r \in Tx, OnARResponse(r)
            PROVE  fin'.src = fin.src \/ fin'.src \in rsp
        BY <3>0, <3>5 DEF OnARResponse
      <3>6. ASSUME NEW t \in Tx, RunPostedCancel(t)
            PROVE  fin'.src \in {fin.src, NoTx}
        <4>1. [NoFin EXCEPT !.pc = "callback", !.tx = t, !.how = "cancel"].src = NoTx
          BY DEF NoFin
        <4>. QED BY <3>6, <4>1 DEF RunPostedCancel
      <3>7. CASE \/ TickDrains \/ JobDone \/ OnBusResetBegin \/ CancelByGeneration \/ ClearAndFlush
                 \/ OnTxInterrupt \/ OnTimeoutTick \/ OnBusResetComplete \/ Teardown
                 \/ \E decoded \in BOOLEAN : ConfirmBusGeneration(decoded)
                 \/ Environment \/ UNCHANGED vars
        BY <3>7 DEF TickDrains, JobDone, OnBusResetBegin, CancelByGeneration, ClearAndFlush, OnTxInterrupt,
               OnTimeoutTick, ConfirmBusGeneration, OnBusResetComplete, Teardown, Environment, HwComplete,
               HwBusReset, Respond, Expire, vars
      <3>. QED BY <3>1, <3>2, <3>3, <3>4, <3>5, <3>6, <3>7 DEF Next, JobStep, StartJob
    <2>2. \A l \in Labels : slot[l] # NoTx => slot[l] < nextTx
      BY <1>0 DEF Ownership, HeldCreated, Held, InTable
    <2>3. fin.src < nextTx /\ fin.src \in Nat
      BY <1>0 DEF WireCreated, Hand
    <2>4. \A n \in Nat : n < nextTx => n < nextTx'
      BY <1>0, <1>a
    <2>. QED BY <1>0, <1>r, <2>1, <2>2, <2>3, <2>4 DEF WireCreated
  <1>. QED BY <1>1, <1>2, <1>3, <1>4 DEF WireCreated

-----------------------------------------------------------------------------
(* When only the Default queue submits *)

\* Only T0 is in the subsystem; it is not on the way to register anything while
\* the gate is closed, and what it is registering is of the current generation.
SerialThreads ==
    /\ \A th \in Queues : sub[th].pc = "idle"
    /\ gate => sub[T0].pc \in {"idle", "cancelling"}
    /\ sub[T0].pc \in {"prepared", "labelled"} => sub[T0].gen = gen
    /\ sub[T0].pc = "registered" => txn[sub[T0].tx].gen = gen

\* A label being installed, cancelled or freed has nothing behind it, and a label
\* with a transaction behind it is marked in use.
SerialLabels ==
    /\ sub[T0].pc = "labelled" => slot[sub[T0].label] = NoTx /\ sub[T0].label \in bitmap
    /\ sub[T0].pc = "cancelling" => slot[sub[T0].label] = NoTx
    /\ fin.pc \in {"free", "callbackFirst", "freeLast"} => slot[fin.label] = NoTx
    /\ \A l \in Labels : slot[l] # NoTx => l \in bitmap

\* The cancellation empties the table and the bitmap, and they stay empty until
\* the gate opens.
SerialReset ==
    /\ job.kind = "cancelAll" =>
           \A l \in Labels : slot[l] # NoTx => l \in job.todo \/ (fin.pc = "extract" /\ fin.label = l)
    /\ job.kind = "cancelGen" => \A l \in Labels : slot[l] = NoTx
    /\ gate /\ job.kind \notin ResetJobs => bitmap = {} /\ \A l \in Labels : slot[l] = NoTx

\* Outside the cancellation the table holds transactions of this generation.
SerialGen ==
    job.kind \notin ResetJobs => \A l \in Labels : slot[l] # NoTx => txn[slot[l]].gen = gen

\* What a submitting thread finds and leaves.
LEMMA SerialSubmit ==
    ASSUME Typed, Serial, NEW th \in load.by, Call(th) \/ SubmitStep(th)
    PROVE  /\ th = T0 /\ \A o \in Queues : sub'[o] = sub[o]
           /\ UNCHANGED <<gate, edge, gen, load, job, fin, rsp, asked>>
           /\ sub[T0].pc # "idle" \/ CanCall(T0)
           /\ Resting.pc = "idle"
  <1>. USE AsyncAssumption DEF Typed, TypeOK
  <1>0. sub \in [Threads -> Frame] /\ th = T0
    BY DEF ThreadsTyped, Frame, Serial
  <1>1. \A o \in Queues : sub'[o] = sub[o]
    BY <1>0 DEF Call, SubmitStep, PrepareTransactionContext, Prepared, CancelExtract, RegisterLabel, RegisterBusy,
           RegisterTransaction, Install, SubmitFails, SubmitChain, OnTxPosted, CancelPost
  <1>2. UNCHANGED <<gate, edge, gen, load, job, fin, rsp, asked>>
    BY DEF Call, SubmitStep, PrepareTransactionContext, CancelExtract, RegisterLabel, RegisterBusy,
           RegisterTransaction, Install, SubmitFails, SubmitChain, OnTxPosted, CancelPost
  <1>3. sub[T0].pc # "idle" \/ CanCall(T0)
    BY <1>0 DEF Call, SubmitStep, PrepareTransactionContext, CancelExtract, RegisterLabel, RegisterBusy,
           RegisterTransaction, SubmitFails, SubmitChain, OnTxPosted, CancelPost
  <1>. QED BY <1>0, <1>1, <1>2, <1>3 DEF Resting

\* The steps of T0 besides its submissions are taken when it submits nothing.
LEMMA WorkerRests ==
    ASSUME JobStep \/ StartJob
    PROVE  sub[T0].pc = "idle" /\ UNCHANGED <<sub, load>>
  <1>1. CASE JobStep
    BY <1>1 DEF JobStep, FinishStep, FinishExtract, FinishFree, FinishCallback, FinishCallbackFirst, FinishFreeLast,
           DrainTxCompletion, TickDrains, JobDone, TickTimeout, CancelVictim, OnBusResetBegin,
           CancelByGeneration, ClearAndFlush, T0Runs
  <1>2. CASE StartJob
    BY <1>2 DEF StartJob, OnARResponse, RunPostedCancel, OnTxInterrupt, OnTimeoutTick, ConfirmBusGeneration,
           OnBusResetComplete, Teardown, T0Idle
  <1>. QED BY <1>1, <1>2

\* T0 registers in the generation it read, and never behind a closed gate.
LEMMA SerialThreadsStep ==
    ASSUME Owned, WireCreated, Serial, SerialThreads, [Next]_vars
    PROVE  SerialThreads'
  <1>. USE AsyncAssumption DEF Owned, Typed, TypeOK
  <1>0. sub \in [Threads -> Frame] /\ T0 \in Threads /\ txn \in [Tx -> Transaction]
    BY DEF ThreadsTyped, Frame, TablesTyped
  <1>1. ASSUME NEW th \in load.by, Call(th) \/ SubmitStep(th)
        PROVE  SerialThreads'
    <2>0. /\ th = T0 /\ \A o \in Queues : sub'[o] = sub[o]
          /\ UNCHANGED <<gate, gen>> /\ Resting.pc = "idle"
      BY <1>1, SerialSubmit
    <2>1. CASE \E s \in load.strategies : PrepareTransactionContext(th, s)
      <3>1. sub'[T0].pc = "prepared" /\ sub'[T0].gen = gen /\ ~gate
        BY <1>0, <2>0, <2>1 DEF PrepareTransactionContext, Prepared, Resting
      <3>. QED BY <2>0, <3>1 DEF SerialThreads
    <2>2. CASE CancelExtract(th)
      <3>1. sub'[T0].pc = "cancelling"
        BY <1>0, <2>0, <2>2 DEF CancelExtract, Resting
      <3>. QED BY <2>0, <3>1 DEF SerialThreads
    <2>3. CASE RegisterLabel(th)
      <3>1. \/ sub'[T0] = Resting
            \/ sub'[T0].pc = "labelled" /\ sub'[T0].gen = sub[T0].gen /\ sub[T0].pc = "prepared"
        BY <1>0, <2>0, <2>3 DEF RegisterLabel, Frame
      <3>. QED BY <2>0, <3>1 DEF SerialThreads
    <2>4. CASE RegisterTransaction(th)
      <3>0. PICK x \in Tx : x = nextTx
        BY <2>4 DEF RegisterTransaction, Install, TablesTyped, Tx
      <3>1. sub'[T0].pc = "registered" /\ sub'[T0].tx = x /\ sub[T0].pc = "labelled"
        BY <1>0, <2>0, <2>4, <3>0 DEF RegisterTransaction, Install, Frame
      <3>2. txn'[x] = NewTransaction(T0)
        BY <1>0, <2>0, <2>4, <3>0 DEF RegisterTransaction, Install
      <3>3. NewTransaction(T0).gen = sub[T0].gen
        BY DEF NewTransaction, NoTransaction
      <3>. QED BY <2>0, <3>1, <3>2, <3>3 DEF SerialThreads
    <2>5. CASE SubmitChain(th)
      <3>1. sub'[T0].pc = "onWire" /\ sub[T0].pc = "registered"
        BY <1>0, <2>0, <2>5 DEF SubmitChain, Frame
      <3>. QED BY <2>0, <3>1 DEF SerialThreads
    <2>6. CASE RegisterBusy(th) \/ SubmitFails(th) \/ OnTxPosted(th) \/ CancelPost(th)
      <3>1. sub'[T0] = Resting
        BY <1>0, <2>0, <2>6 DEF RegisterBusy, SubmitFails, OnTxPosted, CancelPost
      <3>. QED BY <2>0, <3>1 DEF SerialThreads
    <2>. QED BY <1>1, <2>1, <2>2, <2>3, <2>4, <2>5, <2>6 DEF Call, SubmitStep
  <1>2. CASE JobStep \/ StartJob
    BY <1>2, WorkerRests DEF SerialThreads
  <1>3. CASE Environment \/ UNCHANGED vars
    <2>1. UNCHANGED <<sub, gate, gen>>
      BY <1>3 DEF Environment, HwComplete, HwBusReset, Respond, Expire, vars
    <2>2. sub[T0].pc = "registered" => txn'[sub[T0].tx].gen = txn[sub[T0].tx].gen
      BY <1>0, GensKeptStep DEF GensKept, WireCreated, FramesName
    <2>. QED BY <2>1, <2>2 DEF SerialThreads
  <1>. QED BY <1>1, <1>2, <1>3 DEF Next

\* While T0 is on its way through the submit path, what it is finishing, if
\* anything, is in its callback, and not in the callback of a reset.
LEMMA SubmitsOutsideReset ==
    ASSUME Typed, T0Frame, SerialThreads, sub[T0].pc \in {"prepared", "labelled", "registered", "onWire"}
    PROVE  ~gate /\ fin.pc \in {"none", "callback"} /\ job.kind \notin ResetJobs
  <1>1. ~gate
    BY DEF SerialThreads
  <1>2. job.kind \notin {"cancelAll", "cancelGen"}
    BY <1>1 DEF T0Frame, GateFrame
  <1>3. fin.pc # "callbackFirst"
    BY <1>2 DEF T0Frame, ResetFinish
  <1>. QED BY <1>1, <1>2, <1>3 DEF T0Frame, T0Busy, ResetJobs

\* Each label T0 works on has nothing behind it, and no occupied label is free.
LEMMA SerialLabelsStep ==
    ASSUME Typed, T0Frame, Serial, SerialThreads, SerialReset, SerialLabels, [Next]_vars
    PROVE  SerialLabels'
  <1>. USE AsyncAssumption DEF Typed, TypeOK
  <1>0. /\ sub \in [Threads -> Frame] /\ T0 \in Threads /\ fin \in Hand
        /\ slot \in [Labels -> Tx \cup {NoTx}] /\ bitmap \subseteq Labels /\ NoTx \notin Tx
    BY DEF ThreadsTyped, Frame, TablesTyped, WorkerTyped, Hand, Tx
  <1>1. ASSUME NEW th \in load.by, Call(th) \/ SubmitStep(th)
        PROVE  SerialLabels'
    <2>0. th = T0 /\ UNCHANGED fin /\ Resting.pc = "idle"
      BY <1>1, SerialSubmit
    <2>1. CASE /\ UNCHANGED <<slot, bitmap>>
               /\ sub'[T0].pc \notin {"labelled", "cancelling"}
      BY <2>0, <2>1 DEF SerialLabels
    <2>2. CASE CancelExtract(th)
      <3>1. /\ handle[T0] \in Labels /\ slot' = [slot EXCEPT ![handle[T0]] = NoTx] /\ bitmap' = bitmap
            /\ sub'[T0].pc = "cancelling" /\ sub'[T0].label = handle[T0]
        BY <1>0, <2>0, <2>2 DEF CancelExtract, Resting, ThreadsTyped
      <3>2. \A l \in Labels : slot'[l] = slot[l] \/ slot'[l] = NoTx
        BY <1>0, <3>1
      <3>3. slot'[handle[T0]] = NoTx
        BY <1>0, <3>1
      <3>4. fin.label \in Labels
        BY <1>0 DEF Hand
      <3>. QED BY <2>0, <3>1, <3>2, <3>3, <3>4 DEF SerialLabels
    <2>3. CASE RegisterLabel(th)
      <3>1. ASSUME NEW l \in Labels, Allocate(l, SweptBitmap, SweptCursor),
                   sub' = [sub EXCEPT ![th].pc = "labelled", ![th].label = l]
            PROVE  SerialLabels'
        <4>1. l \notin SweptBitmap /\ bitmap' = SweptBitmap \cup {l} /\ slot' = slot
          BY <2>3, <3>1 DEF RegisterLabel, Allocate, IsNextLabel
        <4>2. sub'[T0].pc = "labelled" /\ sub'[T0].label = l
          BY <1>0, <2>0, <3>1 DEF Frame
        <4>3. \A k \in Labels : slot[k] # NoTx => k \in SweptBitmap
          BY DEF SweptBitmap, Stale, SerialLabels
        <4>. QED BY <2>0, <4>1, <4>2, <4>3 DEF SerialLabels
      <3>2. CASE sub' = [sub EXCEPT ![th] = Resting] /\ UNCHANGED bitmap
        <4>1. sub'[T0] = Resting /\ slot' = slot
          BY <1>0, <2>0, <2>3, <3>2 DEF RegisterLabel
        <4>. QED BY <2>0, <2>1, <3>2, <4>1
      <3>. QED BY <2>3, <3>1, <3>2 DEF RegisterLabel
    <2>4. CASE RegisterTransaction(th)
      <3>1. /\ slot' = [slot EXCEPT ![sub[T0].label] = nextTx] /\ bitmap' = bitmap
            /\ sub[T0].pc = "labelled" /\ sub'[T0].pc = "registered"
        BY <1>0, <2>0, <2>4 DEF RegisterTransaction, Install, Frame
      <3>2. fin.pc \in {"none", "callback"}
        BY <3>1, SubmitsOutsideReset
      <3>3. \A l \in Labels : slot'[l] = slot[l] \/ l = sub[T0].label
        BY <1>0, <3>1
      <3>. QED BY <2>0, <3>1, <3>2, <3>3 DEF SerialLabels
    <2>5. CASE CancelPost(th)
      <3>1. bitmap' = bitmap \ {sub[T0].label} /\ slot' = slot /\ sub'[T0] = Resting /\ sub[T0].pc = "cancelling"
        BY <1>0, <2>0, <2>5 DEF CancelPost, Free
      <3>. QED BY <2>0, <3>1 DEF SerialLabels
    <2>6. CASE RegisterBusy(th)
      BY <2>0, <2>6 DEF RegisterBusy, SerialLabels
    <2>7. CASE \/ \E s \in load.strategies : PrepareTransactionContext(th, s)
               \/ SubmitFails(th) \/ OnTxPosted(th) \/ SubmitChain(th)
      <3>1. UNCHANGED <<slot, bitmap>>
        BY <2>7 DEF PrepareTransactionContext, SubmitFails, OnTxPosted, SubmitChain
      <3>2. sub'[T0].pc \in {"prepared", "idle", "onWire"}
        <4>1. CASE \E s \in load.strategies : PrepareTransactionContext(th, s)
          BY <1>0, <2>0, <4>1 DEF PrepareTransactionContext, Prepared, Resting
        <4>2. CASE SubmitFails(th) \/ OnTxPosted(th)
          BY <1>0, <2>0, <4>2 DEF SubmitFails, OnTxPosted
        <4>3. CASE SubmitChain(th)
          BY <1>0, <2>0, <4>3 DEF SubmitChain, Frame
        <4>. QED BY <2>7, <4>1, <4>2, <4>3
      <3>. QED BY <2>1, <3>1, <3>2
    <2>. QED BY <1>1, <2>2, <2>3, <2>4, <2>5, <2>6, <2>7 DEF Call, SubmitStep
  <1>2. ASSUME UNCHANGED <<sub, slot, bitmap>>, fin' = fin \/ fin'.pc \in {"none", "extract", "callback"}
        PROVE  SerialLabels'
    BY <1>2 DEF SerialLabels
  <1>3. CASE JobStep
    <2>0. sub[T0].pc = "idle" /\ UNCHANGED sub /\ NoFin.pc = "none"
      BY <1>3, WorkerRests DEF NoFin
    <2>1. CASE FinishExtract
      <3>1. /\ slot' = [slot EXCEPT ![fin.label] = NoTx] /\ bitmap' = bitmap
            /\ fin' = NoFin \/ fin'.label = fin.label
        BY <1>0, <2>1 DEF FinishExtract, Extract, Hand
      <3>2. \A l \in Labels : slot'[l] = slot[l] \/ slot'[l] = NoTx
        BY <1>0, <3>1
      <3>3. slot'[fin.label] = NoTx
        BY <1>0, <3>1 DEF Hand
      <3>. QED BY <2>0, <3>1, <3>2, <3>3 DEF SerialLabels
    <2>2. CASE FinishFree \/ FinishFreeLast
      <3>1. /\ bitmap' = bitmap \ {fin.label} /\ slot' = slot /\ fin'.pc \in {"none", "callback"}
            /\ fin.pc \in {"free", "freeLast"}
        BY <1>0, <2>0, <2>2 DEF FinishFree, FinishFreeLast, Free, Hand
      <3>. QED BY <2>0, <3>1 DEF SerialLabels
    <2>3. CASE FinishCallback
      BY <1>2, <2>0, <2>3 DEF FinishCallback
    <2>4. CASE FinishCallbackFirst
      <3>1. UNCHANGED <<slot, bitmap>> /\ fin'.label = fin.label /\ fin.pc = "callbackFirst"
        BY <1>0, <2>4 DEF FinishCallbackFirst, Hand
      <3>. QED BY <2>0, <3>1 DEF SerialLabels
    <2>5. CASE DrainTxCompletion
      <3>1. fin' = fin \/ fin'.pc = "extract"
        BY <2>5, ATDecides DEF DrainTxCompletion
      <3>. QED BY <1>2, <2>0, <2>5, <3>1 DEF DrainTxCompletion
    <2>6. ASSUME NEW l \in Labels, TickTimeout(l) \/ CancelVictim(l)
          PROVE  SerialLabels'
      <3>1. fin' = fin \/ fin'.pc = "extract"
        BY <2>6 DEF TickTimeout, OnTimeout, CancelVictim, Finishing
      <3>. QED BY <1>2, <2>0, <2>6, <3>1 DEF TickTimeout, CancelVictim
    <2>7. CASE ClearAndFlush
      <3>1. UNCHANGED <<slot, fin>> /\ \A l \in Labels : slot[l] = NoTx
        BY <2>7 DEF ClearAndFlush, SerialReset
      <3>. QED BY <2>0, <3>1 DEF SerialLabels
    <2>8. CASE TickDrains \/ JobDone \/ OnBusResetBegin \/ CancelByGeneration
      BY <1>2, <2>0, <2>8 DEF TickDrains, JobDone, OnBusResetBegin, CancelByGeneration
    <2>. QED BY <1>3, <2>1, <2>2, <2>3, <2>4, <2>5, <2>6, <2>7, <2>8 DEF JobStep, FinishStep
  <1>4. CASE StartJob
    <2>0. sub[T0].pc = "idle" /\ UNCHANGED sub
      BY <1>4, WorkerRests
    <2>1. CASE Teardown
      <3>1. \A l \in Labels : slot'[l] = NoTx
        BY <2>1 DEF Teardown
      <3>2. UNCHANGED fin /\ fin.label \in Labels
        BY <1>0, <2>1 DEF Teardown, Hand
      <3>. QED BY <2>0, <3>1, <3>2 DEF SerialLabels
    <2>2. ASSUME NEW t \in Tx, OnARResponse(t) \/ RunPostedCancel(t)
          PROVE  fin' = fin \/ fin'.pc \in {"extract", "callback"}
      <3>1. [NoFin EXCEPT !.pc = "callback", !.tx = t, !.how = "cancel"].pc = "callback"
        BY DEF NoFin
      <3>2. \A l, how, src : Finishing(l, how, src).pc = "extract"
        BY DEF Finishing
      <3>3. OnARResponse(t) => fin' = fin \/ fin'.pc = "extract"
        BY <3>2 DEF OnARResponse
      <3>4. RunPostedCancel(t) => fin' = fin \/ fin'.pc = "callback"
        BY <3>1 DEF RunPostedCancel
      <3>. QED BY <2>2, <3>3, <3>4
    <2>3. CASE ~Teardown
      BY <1>2, <1>4, <2>0, <2>2, <2>3 DEF StartJob, OnARResponse, RunPostedCancel, OnTxInterrupt, OnTimeoutTick,
                                ConfirmBusGeneration, OnBusResetComplete
    <2>. QED BY <2>1, <2>3
  <1>5. CASE Environment \/ UNCHANGED vars
    BY <1>2, <1>5 DEF Environment, HwComplete, HwBusReset, Respond, Expire, vars
  <1>. QED BY <1>1, <1>3, <1>4, <1>5 DEF Next

\* Nothing registers while the reset empties the table, so it ends up empty.
LEMMA SerialResetStep ==
    ASSUME Typed, T0Frame, Serial, SerialThreads, SerialReset, [Next]_vars
    PROVE  SerialReset'
  <1>. USE AsyncAssumption DEF Typed, TypeOK, ResetJobs
  <1>0. /\ fin \in Hand /\ T0 \in Threads /\ slot \in [Labels -> Tx \cup {NoTx}] /\ bitmap \subseteq Labels
        /\ job \in [kind : {"idle", "rx", "drain", "tick", "posted", "begin", "cancelAll", "cancelGen"},
                    todo : SUBSET Labels]
    BY DEF TablesTyped, WorkerTyped, Hand
  <1>a. ASSUME \A l \in Labels : slot'[l] = slot[l] \/ slot'[l] = NoTx, bitmap' \subseteq bitmap,
               UNCHANGED <<gate, job, fin>>
        PROVE  SerialReset'
    BY <1>a DEF SerialReset
  <1>1. ASSUME NEW th \in load.by, Call(th) \/ SubmitStep(th)
        PROVE  SerialReset'
    <2>0. th = T0 /\ UNCHANGED <<gate, job, fin>>
      BY <1>1, SerialSubmit
    <2>1. CASE sub[T0].pc \in {"prepared", "labelled"}
      <3>1. ~gate /\ job.kind \notin ResetJobs
        BY <2>1, SubmitsOutsideReset
      <3>. QED BY <2>0, <3>1 DEF SerialReset
    <2>2. CASE CancelExtract(th)
      <3>1. slot' = [slot EXCEPT ![handle[th]] = NoTx] /\ bitmap' = bitmap
        BY <2>2 DEF CancelExtract
      <3>2. \A l \in Labels : slot'[l] = slot[l] \/ slot'[l] = NoTx
        BY <1>0, <3>1
      <3>. QED BY <1>a, <2>0, <3>1, <3>2
    <2>3. CASE CancelPost(th)
      <3>1. slot' = slot /\ bitmap' \subseteq bitmap
        BY <2>3 DEF CancelPost, Free
      <3>. QED BY <1>a, <2>0, <3>1
    <2>4. CASE \/ \E s \in load.strategies : PrepareTransactionContext(th, s)
               \/ SubmitFails(th) \/ OnTxPosted(th) \/ SubmitChain(th)
      <3>1. slot' = slot /\ bitmap' = bitmap
        BY <2>4 DEF PrepareTransactionContext, SubmitFails, OnTxPosted, SubmitChain
      <3>. QED BY <1>a, <2>0, <3>1
    <2>. QED BY <1>1, <2>0, <2>1, <2>2, <2>3, <2>4
             DEF Call, SubmitStep, RegisterLabel, RegisterBusy, RegisterTransaction
  <1>2. CASE JobStep
    <2>0. NoFin.pc = "none"
      BY DEF NoFin
    <2>1. CASE FinishExtract
      <3>1. /\ slot' = [slot EXCEPT ![fin.label] = NoTx] /\ bitmap' = bitmap /\ UNCHANGED <<gate, job>>
        BY <2>1 DEF FinishExtract, Extract
      <3>2. \A l \in Labels : /\ slot'[l] = slot[l] \/ slot'[l] = NoTx
                              /\ l = fin.label => slot'[l] = NoTx
        BY <1>0, <3>1
      <3>. QED BY <3>1, <3>2 DEF SerialReset
    <2>2. CASE FinishFree \/ FinishFreeLast \/ FinishCallback \/ FinishCallbackFirst
      <3>1. /\ bitmap' \subseteq bitmap /\ slot' = slot /\ UNCHANGED <<gate, job>> /\ fin.pc # "extract"
        BY <2>2 DEF FinishFree, FinishFreeLast, FinishCallback, FinishCallbackFirst, Free
      <3>. QED BY <3>1 DEF SerialReset
    <2>3. CASE DrainTxCompletion \/ TickDrains \/ JobDone
      <3>1. UNCHANGED <<slot, bitmap, gate>> /\ job.kind \notin ResetJobs /\ job'.kind \notin ResetJobs
        BY <1>0, <2>3 DEF DrainTxCompletion, TickDrains, JobDone, Idle
      <3>. QED BY <3>1 DEF SerialReset
    <2>4. ASSUME NEW l \in Labels, TickTimeout(l)
          PROVE  SerialReset'
      <3>1. UNCHANGED <<slot, bitmap, gate>> /\ job.kind \notin ResetJobs /\ job'.kind \notin ResetJobs
        BY <1>0, <2>4 DEF TickTimeout
      <3>. QED BY <3>1 DEF SerialReset
    <2>5. ASSUME NEW l \in Labels, CancelVictim(l)
          PROVE  SerialReset'
      <3>1. /\ UNCHANGED <<slot, bitmap, gate>> /\ job'.kind = job.kind /\ job'.todo = job.todo \ {l}
            /\ job.kind \in ResetJobs /\ fin.pc = "none"
        BY <1>0, <2>5 DEF CancelVictim
      <3>2. fin'.pc = "extract" /\ fin'.label = l
        BY <2>5 DEF CancelVictim, Finishing
      <3>. QED BY <3>1, <3>2 DEF SerialReset
    <2>6. CASE OnBusResetBegin
      <3>1. /\ UNCHANGED <<slot, bitmap>> /\ job'.kind = "cancelAll"
            /\ job'.todo = {l \in Labels : slot[l] # NoTx}
        BY <2>6 DEF OnBusResetBegin, Occupied
      <3>. QED BY <3>1 DEF SerialReset
    <2>7. CASE CancelByGeneration
      <3>1. /\ UNCHANGED <<slot, bitmap>> /\ job'.kind = "cancelGen" /\ job.kind = "cancelAll"
            /\ job.todo = {} /\ fin.pc = "none"
        BY <2>7 DEF CancelByGeneration
      <3>. QED BY <3>1 DEF SerialReset
    <2>8. CASE ClearAndFlush
      <3>1. slot' = slot /\ bitmap' = {} /\ job'.kind = "drain" /\ job.kind = "cancelGen"
        BY <2>8 DEF ClearAndFlush, ClearBitmap
      <3>. QED BY <3>1 DEF SerialReset
    <2>. QED BY <1>2, <2>1, <2>2, <2>3, <2>4, <2>5, <2>6, <2>7, <2>8 DEF JobStep, FinishStep
  <1>3. CASE StartJob
    <2>0. job.kind = "idle"
      BY <1>3 DEF StartJob, OnARResponse, RunPostedCancel, OnTxInterrupt, OnTimeoutTick, ConfirmBusGeneration,
                  OnBusResetComplete, Teardown, T0Idle
    <2>1. ASSUME NEW decoded \in BOOLEAN, ConfirmBusGeneration(decoded)
          PROVE  SerialReset'
      BY <2>1 DEF ConfirmBusGeneration, SerialReset
    <2>2. CASE OnBusResetComplete \/ Teardown
      BY <2>0, <2>2 DEF OnBusResetComplete, Teardown, SerialReset
    <2>3. ASSUME NEW t \in Tx, OnARResponse(t) \/ RunPostedCancel(t)
          PROVE  SerialReset'
      <3>1. UNCHANGED <<slot, bitmap, gate>> /\ job'.kind \in {"idle", "rx", "posted"}
        BY <2>0, <2>3 DEF OnARResponse, RunPostedCancel
      <3>. QED BY <2>0, <3>1 DEF SerialReset
    <2>4. CASE OnTxInterrupt \/ OnTimeoutTick
      <3>1. UNCHANGED <<slot, bitmap, gate>> /\ job'.kind \in {"drain", "tick"}
        BY <2>4 DEF OnTxInterrupt, OnTimeoutTick
      <3>. QED BY <2>0, <3>1 DEF SerialReset
    <2>. QED BY <1>3, <2>1, <2>2, <2>3, <2>4 DEF StartJob
  <1>4. CASE Environment \/ UNCHANGED vars
    <2>1. UNCHANGED <<slot, bitmap, gate, job, fin>>
      BY <1>4 DEF Environment, HwComplete, HwBusReset, Respond, Expire, vars
    <2>. QED BY <1>a, <2>1
  <1>. QED BY <1>1, <1>2, <1>3, <1>4 DEF Next

\* The generation changes only with the cancellation that empties the table.
LEMMA SerialGenStep ==
    ASSUME Owned, T0Frame, Serial, SerialThreads, SerialReset, SerialGen, [Next]_vars
    PROVE  SerialGen'
  <1>. USE AsyncAssumption DEF Owned, Typed, TypeOK
  <1>0. /\ slot \in [Labels -> Tx \cup {NoTx}] /\ txn \in [Tx -> Transaction] /\ T0 \in Threads
        /\ NoTx \notin Tx
        /\ job \in [kind : {"idle", "rx", "drain", "tick", "posted", "begin", "cancelAll", "cancelGen"},
                    todo : SUBSET Labels]
    BY DEF TablesTyped, WorkerTyped, Tx
  <1>g. \A l \in Labels : slot[l] # NoTx => txn'[slot[l]].gen = txn[slot[l]].gen
    <2>1. \A l \in Labels : slot[l] # NoTx => slot[l] \in Tx /\ slot[l] < nextTx
      BY <1>0 DEF Ownership, HeldCreated, Held, InTable
    <2>. QED BY <2>1, GensKeptStep DEF GensKept
  <1>a. ASSUME \A l \in Labels : slot'[l] = slot[l] \/ slot'[l] = NoTx, UNCHANGED gen,
               job'.kind \notin ResetJobs => job.kind \notin ResetJobs
        PROVE  SerialGen'
    BY <1>a, <1>g DEF SerialGen
  <1>1. ASSUME NEW th \in load.by, Call(th) \/ SubmitStep(th)
        PROVE  SerialGen'
    <2>0. th = T0 /\ UNCHANGED <<gen, job>>
      BY <1>1, SerialSubmit
    <2>1. CASE RegisterTransaction(th)
      <3>0. PICK x \in Tx : x = nextTx
        BY <2>1 DEF RegisterTransaction, Install, TablesTyped, Tx
      <3>1. /\ slot' = [slot EXCEPT ![sub[T0].label] = x] /\ txn' = [txn EXCEPT ![x] = NewTransaction(T0)]
            /\ sub[T0].pc = "labelled"
        BY <2>0, <2>1, <3>0 DEF RegisterTransaction, Install
      <3>2. NewTransaction(T0).gen = gen
        BY <3>1 DEF NewTransaction, NoTransaction, SerialThreads
      <3>3. \A l \in Labels : slot'[l] = slot[l] \/ (slot'[l] = x /\ txn'[x].gen = gen)
        BY <1>0, <3>1, <3>2
      <3>. QED BY <1>g, <2>0, <3>3 DEF SerialGen
    <2>2. CASE CancelExtract(th)
      <3>1. slot' = [slot EXCEPT ![handle[th]] = NoTx]
        BY <2>2 DEF CancelExtract
      <3>. QED BY <1>0, <1>a, <2>0, <3>1
    <2>3. CASE ~RegisterTransaction(th) /\ ~CancelExtract(th)
      <3>1. slot' = slot
        BY <1>1, <2>3 DEF Call, SubmitStep, PrepareTransactionContext, RegisterLabel, RegisterBusy,
               SubmitFails, SubmitChain, OnTxPosted, CancelPost
      <3>. QED BY <1>a, <2>0, <3>1
    <2>. QED BY <2>1, <2>2, <2>3
  <1>2. CASE JobStep
    <2>1. CASE FinishStep
      <3>1. UNCHANGED <<gen, job>> /\ (slot' = slot \/ slot' = [slot EXCEPT ![fin.label] = NoTx])
        BY <2>1 DEF FinishStep, FinishExtract, FinishFree, FinishCallback, FinishCallbackFirst, FinishFreeLast,
                    Extract
      <3>. QED BY <1>0, <1>a, <3>1
    <2>2. CASE ClearAndFlush
      BY <2>2 DEF ClearAndFlush, SerialReset, SerialGen
    <2>3. CASE OnBusResetBegin \/ CancelByGeneration
      BY <2>3 DEF OnBusResetBegin, CancelByGeneration, SerialGen, ResetJobs
    <2>4. CASE DrainTxCompletion \/ TickDrains \/ JobDone
      <3>1. UNCHANGED <<gen, slot>> /\ job.kind \notin ResetJobs
        BY <2>4 DEF DrainTxCompletion, TickDrains, JobDone, ResetJobs
      <3>. QED BY <1>a, <3>1
    <2>5. ASSUME NEW l \in Labels, TickTimeout(l) \/ CancelVictim(l)
          PROVE  SerialGen'
      <3>1. UNCHANGED <<gen, slot>> /\ job'.kind = job.kind
        BY <1>0, <2>5 DEF TickTimeout, CancelVictim
      <3>. QED BY <1>a, <3>1
    <2>. QED BY <1>2, <2>1, <2>2, <2>3, <2>4, <2>5 DEF JobStep
  <1>3. CASE StartJob
    <2>0. job.kind = "idle" /\ "idle" \notin ResetJobs
      BY <1>3 DEF StartJob, OnARResponse, RunPostedCancel, OnTxInterrupt, OnTimeoutTick, ConfirmBusGeneration,
                  OnBusResetComplete, Teardown, T0Idle, ResetJobs
    <2>1. ASSUME NEW decoded \in BOOLEAN, ConfirmBusGeneration(decoded)
          PROVE  SerialGen'
      BY <2>1 DEF ConfirmBusGeneration, SerialGen, ResetJobs
    <2>2. CASE Teardown
      BY <2>2 DEF Teardown, SerialGen
    <2>3. CASE \/ \E t \in Tx : OnARResponse(t) \/ RunPostedCancel(t)
               \/ OnTxInterrupt \/ OnTimeoutTick \/ OnBusResetComplete
      <3>1. UNCHANGED <<slot, gen>>
        BY <2>3 DEF OnARResponse, RunPostedCancel, OnTxInterrupt, OnTimeoutTick, OnBusResetComplete
      <3>. QED BY <1>a, <2>0, <3>1
    <2>. QED BY <1>3, <2>1, <2>2, <2>3 DEF StartJob
  <1>4. CASE Environment \/ UNCHANGED vars
    <2>1. UNCHANGED <<slot, gen, job>>
      BY <1>4 DEF Environment, HwComplete, HwBusReset, Respond, Expire, vars
    <2>. QED BY <1>a, <2>1
  <1>. QED BY <1>1, <1>2, <1>3, <1>4 DEF Next

\* What the device was asked and what it answered is of this generation; so are
\* the descriptors, until a reset begins, and the reset leaves none behind.
WireCurrent ==
    /\ \A t \in asked \cup rsp : txn[t].gen = gen
    /\ edge # "none" => asked = {}
    /\ ~gate /\ job.kind # "begin" => \A i \in 1..Len(ring) : txn[ring[i].tx].gen = gen
    /\ gate /\ job.kind \notin ResetJobs \cup {"drain"} => ring = << >>
    /\ gate /\ job.kind = "drain" => \A i \in 1..Len(ring) : ring[i].status # "none"

\* What the requests at the device and the responses can become in one step.
LEMMA AskedStep ==
    ASSUME Owned, T0Frame, WireCreated, Serial, WireCurrent, [Next]_vars
    PROVE  /\ \A t \in asked' \cup rsp' : txn'[t].gen = gen'
           /\ edge' # "none" => asked' = {}
  <1>. USE DEF Owned, Typed, TypeOK
  <1>g. /\ \A t \in asked \cup rsp : txn'[t].gen = txn[t].gen
        /\ \A i \in 1..Len(ring) : txn'[ring[i].tx].gen = txn[ring[i].tx].gen
    <2>1. ring \in Seq(Descriptor) /\ asked \subseteq Tx /\ rsp \subseteq Tx
      BY DEF WireTyped, Descriptor
    <2>2. \A i \in 1..Len(ring) : ring[i].tx \in Tx
      <3>1. \A i \in 1..Len(ring) : ring[i] \in Descriptor
        BY <2>1
      <3>. QED BY <3>1 DEF Descriptor
    <2>. QED BY <2>1, <2>2, GensKeptStep DEF GensKept, WireCreated
  <1>a. ASSUME asked' \subseteq asked, rsp' \subseteq rsp, gen' = gen, edge' # "none" => edge # "none" \/ asked' = {}
        PROVE  /\ \A t \in asked' \cup rsp' : txn'[t].gen = gen'
               /\ edge' # "none" => asked' = {}
    BY <1>a, <1>g DEF WireCurrent
  <1>1. ASSUME NEW th \in load.by, Call(th) \/ SubmitStep(th)
        PROVE  UNCHANGED <<asked, rsp, gen, edge>>
    BY <1>1, SerialSubmit
  <1>2. JobStep => UNCHANGED <<asked, rsp, gen, edge>>
    BY DEF JobStep, FinishStep, FinishExtract, FinishFree, FinishCallback, FinishCallbackFirst,
           FinishFreeLast, DrainTxCompletion, TickDrains, JobDone, TickTimeout, CancelVictim,
           OnBusResetBegin, CancelByGeneration, ClearAndFlush
  <1>3. ASSUME NEW decoded \in BOOLEAN, ConfirmBusGeneration(decoded)
        PROVE  asked' = {} /\ rsp' = {}
    BY <1>3 DEF ConfirmBusGeneration, WireCurrent
  <1>4. CASE \/ \E t \in Tx : OnARResponse(t) \/ RunPostedCancel(t)
             \/ OnTxInterrupt \/ OnTimeoutTick \/ OnBusResetComplete \/ Teardown
    <2>1. asked' \subseteq asked /\ rsp' \subseteq rsp /\ gen' = gen /\ edge' \in {edge, "none"}
      BY <1>4 DEF OnARResponse, RunPostedCancel, OnTxInterrupt, OnTimeoutTick, OnBusResetComplete, Teardown
    <2>. QED BY <1>a, <2>1
  <1>5. ASSUME NEW ev \in load.events, HwComplete(ev)
        PROVE  /\ \A t \in asked' \cup rsp' : txn'[t].gen = gen'
               /\ edge' # "none" => asked' = {}
    <2>1. PICK i \in 1..Len(ring) :
              /\ ev = "flushed" <=> edge # "none"
              /\ asked' = IF ev \in {"complete", "pending", "tardy", "other"}
                          THEN asked \cup {ring[i].tx} ELSE asked
      BY <1>5 DEF HwComplete
    <2>2. UNCHANGED <<rsp, gen, edge>>
      BY <1>5 DEF HwComplete
    <2>3. CASE edge = "none"
      <3>1. ~gate /\ job.kind # "begin"
        BY <2>3 DEF T0Frame, GateFrame
      <3>. QED BY <1>g, <2>1, <2>2, <2>3, <3>1 DEF WireCurrent
    <2>4. CASE edge # "none"
      BY <1>a, <2>1, <2>2, <2>4
    <2>. QED BY <2>3, <2>4
  <1>6. ASSUME NEW t \in Tx, Respond(t)
        PROVE  /\ \A u \in asked' \cup rsp' : txn'[u].gen = gen'
               /\ edge' # "none" => asked' = {}
    <2>1. t \in asked /\ asked' = asked \ {t} /\ rsp' = rsp \cup {t} /\ UNCHANGED <<gen, edge>>
      BY <1>6 DEF Respond
    <2>. QED BY <1>g, <2>1 DEF WireCurrent
  <1>7. HwBusReset => asked' = {} /\ UNCHANGED <<rsp, gen>>
    BY DEF HwBusReset
  <1>8. (\E l \in Labels : Expire(l)) \/ UNCHANGED vars => UNCHANGED <<asked, rsp, gen, edge>>
    BY DEF Expire, vars
  <1>. QED BY <1>a, <1>1, <1>2, <1>3, <1>4, <1>5, <1>6, <1>7, <1>8 DEF Next, StartJob, Environment

\* The generation of the descriptors, over a step that keeps it current.
LEMMA RingGens ==
    ASSUME Owned, WireCreated, RingOld, [Next]_vars, gen' = gen,
           \A i \in 1..Len(ring) : txn[ring[i].tx].gen = gen
    PROVE  \A i \in 1..Len(ring') : txn'[ring'[i].tx].gen = gen'
  <1>. USE DEF Owned, Typed, TypeOK
  <1>0. ring \in Seq(Descriptor)
    BY DEF WireTyped, Descriptor
  <1>1. \A i \in 1..Len(ring) : ring[i] \in Descriptor
    BY <1>0
  <1>2. \A i \in 1..Len(ring) : txn'[ring[i].tx].gen = txn[ring[i].tx].gen
    BY <1>1, GensKeptStep DEF GensKept, WireCreated, Descriptor
  <1>. QED BY <1>2 DEF RingOld

\* An empty ring stays empty, and a ring that is done stays done, unless T0
\* submits.
LEMMA RingStays ==
    ASSUME Typed, RingOld, Typed'
    PROVE  /\ ring = << >> => ring' = << >>
           /\ (\A i \in 1..Len(ring) : ring[i].status # "none")
                  => \A i \in 1..Len(ring') : ring'[i].status # "none"
  <1>1. ring' \in Seq(Descriptor') /\ ring \in Seq(Descriptor)
    BY DEF Typed, TypeOK, WireTyped, Descriptor
  <1>2. CASE ring = << >>
    <2>1. Len(ring) = 0 /\ Len(ring') \in Nat
      BY <1>1, <1>2
    <2>2. Len(ring') = 0
      BY <2>1 DEF RingOld
    <2>3. ring' = << >>
      BY <1>1, <2>2
    <2>. QED BY <2>2, <2>3
  <1>3. CASE ring # << >>
    BY <1>3 DEF RingOld
  <1>. QED BY <1>2, <1>3

\* A reset lets no descriptor of the generation before it survive.
LEMMA WireCurrentStep ==
    ASSUME Owned, T0Frame, WireCreated, Serial, SerialThreads, WireCurrent, [Next]_vars
    PROVE  WireCurrent'
  <1>. USE AsyncAssumption DEF Owned
  <1>t. Typed'
    BY TypedStep
  <1>j. job \in [kind : {"idle", "rx", "drain", "tick", "posted", "begin", "cancelAll", "cancelGen"},
                 todo : SUBSET Labels]
    BY DEF Typed, TypeOK, WorkerTyped
  <1>r. ring \in Seq(Descriptor)
    BY DEF Typed, TypeOK, WireTyped, Descriptor
  <1> DEFINE A == ~gate /\ job.kind # "begin" => \A i \in 1..Len(ring) : txn[ring[i].tx].gen = gen
             B == gate /\ job.kind \notin ResetJobs \cup {"drain"} => ring = << >>
             C == gate /\ job.kind = "drain" => \A i \in 1..Len(ring) : ring[i].status # "none"
  <1>a. A /\ B /\ C
    BY DEF WireCurrent
  <1>b. ASSUME RingOld, UNCHANGED <<gate, gen>>,
               \/ job'.kind = job.kind
               \/ {job.kind, job'.kind} \cap (ResetJobs \cup {"drain"}) = {}
               \/ ~gate /\ job.kind # "begin"
        PROVE  A' /\ B' /\ C'
    <2>1. A'
      BY <1>a, <1>b, RingGens DEF ResetJobs
    <2>2. B' /\ C'
      BY <1>a, <1>b, <1>t, RingStays DEF ResetJobs
    <2>. QED BY <2>1, <2>2
  <1>c. SUFFICES A' /\ B' /\ C'
    BY AskedStep DEF WireCurrent
  <1>1. ASSUME NEW th \in load.by, Call(th) \/ SubmitStep(th)
        PROVE  A' /\ B' /\ C'
    <2>0. th = T0 /\ UNCHANGED <<gate, gen, job>>
      BY <1>1, SerialSubmit
    <2>1. CASE SubmitChain(th)
      <3>1. /\ ring' = Append(ring, [tx |-> sub[T0].tx, status |-> "none"]) /\ sub[T0].pc = "registered"
            /\ txn' = txn
        BY <2>0, <2>1 DEF SubmitChain
      <3>2. ~gate /\ txn[sub[T0].tx].gen = gen /\ job.kind # "begin"
        BY <3>1, SubmitsOutsideReset DEF SerialThreads, ResetJobs
      <3>3. /\ Len(ring') = Len(ring) + 1 /\ ring'[Len(ring) + 1] = [tx |-> sub[T0].tx, status |-> "none"]
            /\ \A i \in 1..Len(ring) : ring'[i] = ring[i]
        BY <1>r, <3>1
      <3>4. ASSUME NEW i \in 1..Len(ring')
            PROVE  txn'[ring'[i].tx].gen = gen'
        <4>1. CASE i = Len(ring) + 1
          BY <2>0, <3>1, <3>2, <3>3, <4>1
        <4>2. CASE i \in 1..Len(ring)
          BY <1>a, <2>0, <3>1, <3>2, <3>3, <4>2
        <4>. QED BY <1>r, <3>3, <4>1, <4>2
      <3>. QED BY <2>0, <3>2, <3>4
    <2>2. CASE RingOld
      BY <1>b, <2>0, <2>2
    <2>3. ring' = ring \/ SubmitChain(th)
      BY <1>1 DEF Call, SubmitStep, PrepareTransactionContext, CancelExtract, RegisterLabel, RegisterBusy,
           RegisterTransaction, Install, SubmitFails, OnTxPosted, CancelPost
    <2>. QED BY <2>1, <2>2, <2>3 DEF RingOld
  <1>2. ASSUME JobStep \/ StartJob \/ Environment \/ UNCHANGED vars
        PROVE  RingOld
    <2>1. ring' = ring => RingOld
      BY DEF RingOld
    <2>2. ASSUME NEW th \in load.by, SubmitChain(th)
          PROVE  FALSE
      <3>1. sub[th].pc = "registered" /\ sub'[th].pc = "onWire" /\ th \in Threads
        BY <2>2 DEF SubmitChain, Typed, TypeOK, ThreadsTyped, BusTyped
      <3>2. UNCHANGED sub
        BY <1>2, WorkerRests DEF Environment, HwComplete, HwBusReset, Respond, Expire, vars
      <3>. QED BY <3>1, <3>2
    <2>. QED BY <2>2, RingStep
  <1>3. CASE JobStep
    <2>0. RingOld
      BY <1>2, <1>3
    <2>1. CASE FinishStep \/ DrainTxCompletion \/ \E l \in Labels : TickTimeout(l) \/ CancelVictim(l)
      <3>1. UNCHANGED <<gate, gen>> /\ job'.kind = job.kind
        BY <1>j, <2>1 DEF FinishStep, FinishExtract, FinishFree, FinishCallback, FinishCallbackFirst, FinishFreeLast,
                    DrainTxCompletion, TickTimeout, CancelVictim
      <3>. QED BY <1>b, <2>0, <3>1
    <2>2. CASE TickDrains
      <3>1. UNCHANGED <<gate, gen, ring>> /\ job.kind = "tick" /\ job'.kind = "drain"
        BY <1>j, <2>2 DEF TickDrains
      <3>2. A'
        BY <1>a, <2>0, <3>1, RingGens
      <3>3. gate => Len(ring) = 0
        BY <1>a, <3>1 DEF ResetJobs
      <3>4. B' /\ C'
        BY <3>1, <3>3
      <3>. QED BY <3>2, <3>4
    <2>3. CASE JobDone
      <3>1. /\ UNCHANGED <<gate, gen, ring>> /\ job'.kind = "idle"
            /\ job.kind \in {"rx", "posted"} \/ (job.kind = "drain" /\ ~HeadDone)
        BY <2>3 DEF JobDone, Idle
      <3>2. A'
        BY <1>a, <2>0, <3>1, RingGens
      <3>3. gate => ring = << >>
        <4>1. CASE job.kind \in {"rx", "posted"}
          BY <1>a, <4>1 DEF ResetJobs
        <4>2. CASE gate /\ job.kind = "drain" /\ ring # << >>
          <5>1. 1 \in 1..Len(ring) /\ Head(ring) = ring[1]
            BY <1>r, <4>2
          <5>. QED BY <1>a, <3>1, <4>2, <5>1 DEF HeadDone
        <4>. QED BY <3>1, <4>1, <4>2
      <3>. QED BY <3>1, <3>2, <3>3
    <2>4. CASE OnBusResetBegin \/ CancelByGeneration
      <3>1. gate' /\ job'.kind \in {"cancelAll", "cancelGen"}
        BY <2>4 DEF OnBusResetBegin, CancelByGeneration, T0Frame, GateFrame
      <3>. QED BY <3>1 DEF ResetJobs
    <2>5. CASE ClearAndFlush
      <3>1. gate' /\ job'.kind = "drain" /\ ring' = Flushed(ring)
        BY <2>5 DEF ClearAndFlush, T0Frame, GateFrame
      <3>2. \A i \in 1..Len(ring') : ring'[i].status # "none"
        <4>1. \A i \in 1..Len(ring) : ring[i] \in Descriptor
          BY <1>r
        <4>2. Flushed(ring) \in [1..Len(ring) -> Descriptor]
          <5>1. \A i \in 1..Len(ring) : [ring[i] EXCEPT !.status = "flushed"] \in Descriptor
            BY <4>1 DEF Descriptor
          <5>. QED BY <1>r, <4>1, <5>1 DEF Flushed
        <4>3. Len(ring') = Len(ring)
          BY <1>r, <3>1, <4>2
        <4>4. \A i \in 1..Len(ring) : Flushed(ring)[i].status # "none"
          BY <1>r, <4>1 DEF Flushed, Descriptor
        <4>. QED BY <3>1, <4>3, <4>4
      <3>. QED BY <3>1, <3>2
    <2>. QED BY <1>3, <2>1, <2>2, <2>3, <2>4, <2>5 DEF JobStep
  <1>4. CASE StartJob
    <2>0. RingOld /\ job.kind = "idle"
      BY <1>2, <1>4 DEF StartJob, OnARResponse, RunPostedCancel, OnTxInterrupt, OnTimeoutTick, ConfirmBusGeneration,
                  OnBusResetComplete, Teardown, T0Idle
    <2>1. CASE \E t \in Tx : OnARResponse(t) \/ RunPostedCancel(t)
      <3>1. UNCHANGED <<gate, gen>> /\ job'.kind \in {"idle", "rx", "posted"}
        BY <2>0, <2>1 DEF OnARResponse, RunPostedCancel
      <3>. QED BY <1>b, <2>0, <3>1 DEF ResetJobs
    <2>2. CASE OnTxInterrupt \/ OnTimeoutTick
      <3>1. UNCHANGED <<gate, gen>> /\ ~gate
        BY <2>2 DEF OnTxInterrupt, OnTimeoutTick
      <3>. QED BY <1>b, <2>0, <3>1
    <2>3. CASE \E decoded \in BOOLEAN : ConfirmBusGeneration(decoded)
      <3>1. job'.kind = "begin"
        BY <2>3 DEF ConfirmBusGeneration
      <3>. QED BY <3>1 DEF ResetJobs
    <2>4. CASE OnBusResetComplete
      <3>1. ring' = ring /\ ~gate' /\ edge = "handled"
        BY <2>4 DEF OnBusResetComplete
      <3>2. ring = << >>
        BY <1>a, <2>0, <3>1 DEF T0Frame, GateFrame, ResetJobs
      <3>3. Len(ring') = 0
        BY <3>1, <3>2
      <3>. QED BY <3>1, <3>3
    <2>5. CASE Teardown
      <3>1. ring' = << >> /\ ~gate'
        BY <2>5 DEF Teardown
      <3>2. Len(ring') = 0
        BY <3>1
      <3>. QED BY <3>1, <3>2
    <2>. QED BY <1>4, <2>1, <2>2, <2>3, <2>4, <2>5 DEF StartJob
  <1>5. CASE Environment \/ UNCHANGED vars
    <2>1. UNCHANGED <<gate, gen, job>>
      BY <1>5 DEF Environment, HwComplete, HwBusReset, Respond, Expire, vars
    <2>. QED BY <1>2, <1>5, <1>b, <2>1
  <1>. QED BY <1>1, <1>3, <1>4, <1>5 DEF Next

\* T0 finishes, on behalf of a packet, a transaction of the packet's generation.
Matches ==
    fin.pc \in {"extract", "free", "callback"} /\ fin.how \notin {"reset", "cancel"} =>
        /\ fin.src \in Tx
        /\ fin.pc = "extract" /\ slot[fin.label] # NoTx => txn[slot[fin.label]].gen = txn[fin.src].gen
        /\ fin.pc \in {"free", "callback"} => txn[fin.tx].gen = txn[fin.src].gen

\* A packet is matched against the table of its own generation, and nothing
\* comes between the match and the extraction.
LEMMA MatchesStep ==
    ASSUME Owned, T0Frame, WireCreated, Serial, SerialReset, SerialGen, WireCurrent, Matches, [Next]_vars
    PROVE  Matches'
  <1>. USE AsyncAssumption DEF Owned
  <1>0. /\ slot \in [Labels -> Tx \cup {NoTx}] /\ txn \in [Tx -> Transaction] /\ NoTx \notin Tx
        /\ fin \in Hand /\ NoFin.pc = "none"
    BY DEF Typed, TypeOK, TablesTyped, WorkerTyped, Hand, NoFin, Tx
  <1>g. /\ \A l \in Labels : slot[l] # NoTx => txn'[slot[l]].gen = txn[slot[l]].gen
        /\ fin.src \in Tx => txn'[fin.src].gen = txn[fin.src].gen
        /\ fin.pc \in {"free", "callback"} => txn'[fin.tx].gen = txn[fin.tx].gen
    <2>1. \A l \in Labels : slot[l] # NoTx => slot[l] \in Tx /\ slot[l] < nextTx
      BY <1>0 DEF Ownership, HeldCreated, Held, InTable
    <2>2. fin.pc \in {"free", "callback"} => fin.tx \in Tx /\ fin.tx < nextTx
      BY DEF Ownership, HeldCreated, Held, InHand, Typed, FramesName
    <2>. QED BY <2>1, <2>2, GensKeptStep DEF GensKept, WireCreated
  <1>a. ASSUME fin' = fin, slot' = slot \/ fin.pc # "extract"
        PROVE  Matches'
    BY <1>0, <1>a, <1>g DEF Matches, Hand
  <1>1. ASSUME NEW th \in load.by, Call(th) \/ SubmitStep(th)
        PROVE  Matches'
    <2>1. UNCHANGED fin /\ (sub[T0].pc # "idle" \/ CanCall(T0))
      BY <1>1, SerialSubmit
    <2>2. fin.pc # "extract"
      BY <2>1 DEF CanCall, T0Idle, T0Frame, T0Busy
    <2>. QED BY <1>a, <2>1, <2>2
  <1>2. CASE JobStep
    <2>1. CASE FinishExtract
      <3>1. CASE slot[fin.label] = NoTx
        BY <1>0, <2>1, <3>1 DEF FinishExtract, Matches
      <3>2. CASE slot[fin.label] # NoTx
        <4>1. /\ fin'.pc \in {"callbackFirst", "free"} /\ fin'.tx = slot[fin.label]
              /\ fin'.how = fin.how /\ fin'.src = fin.src /\ fin.pc = "extract"
              /\ fin.label \in Labels /\ txn' = txn
          BY <1>0, <2>1, <3>2 DEF FinishExtract, Hand
        <4>. QED BY <3>2, <4>1 DEF Matches
      <3>. QED BY <3>1, <3>2
    <2>2. CASE FinishFree
      <3>1. /\ fin'.pc = "callback" /\ fin'.tx = fin.tx /\ fin'.how = fin.how /\ fin'.src = fin.src
            /\ fin.pc = "free"
        BY <1>0, <2>2 DEF FinishFree, Hand
      <3>. QED BY <1>g, <3>1 DEF Matches
    <2>3. CASE FinishCallback \/ FinishCallbackFirst \/ FinishFreeLast
      <3>1. fin'.pc \in {"none", "freeLast"}
        BY <1>0, <2>3 DEF FinishCallback, FinishCallbackFirst, FinishFreeLast, Hand
      <3>. QED BY <3>1 DEF Matches
    <2>4. CASE DrainTxCompletion
      <3> DEFINE c == Head(ring).tx
                 l == txn[c].label
      <3>1. ring \in Seq(Descriptor) /\ ring # << >>
        BY <2>4 DEF DrainTxCompletion, HeadDone, Typed, TypeOK, WireTyped, Descriptor
      <3>2. 1 \in 1..Len(ring) /\ Head(ring) = ring[1] /\ Head(ring) \in Descriptor
        BY <3>1
      <3>3. c \in Tx /\ l \in Labels /\ job.kind = "drain" /\ slot' = slot
        BY <1>0, <2>4, <3>2 DEF DrainTxCompletion, Descriptor, Transaction
      <3>4. \/ fin' = fin
            \/ slot[l] # NoTx /\ fin'.pc = "extract" /\ fin'.src = c /\ fin'.label = l
        <4>1. \A k, how, src : Finishing(k, how, src).label = k /\ Finishing(k, how, src).src = src
          BY DEF Finishing
        <4>. QED BY <2>4, <4>1, ATDecides DEF DrainTxCompletion
      <3>5. slot[l] # NoTx => ~gate /\ txn[slot[l]].gen = gen
        BY <3>3 DEF SerialReset, SerialGen, ResetJobs
      <3>6. ~gate => txn[c].gen = gen
        BY <3>2, <3>3 DEF WireCurrent
      <3>7. txn'[c].gen = txn[c].gen
        BY <3>2, <3>3, GensKeptStep DEF GensKept, WireCreated
      <3> HIDE DEF c, l
      <3>. QED BY <1>a, <1>g, <3>3, <3>4, <3>5, <3>6, <3>7 DEF Matches
    <2>5. ASSUME NEW l \in Labels, TickTimeout(l)
          PROVE  Matches'
      <3>1. \/ fin' = fin
            \/ /\ slot[l] # NoTx /\ txn' = txn
               /\ fin'.pc = "extract" /\ fin'.src = slot[l] /\ fin'.label = l
        BY <2>5 DEF TickTimeout, OnTimeout, Finishing
      <3>2. slot' = slot
        BY <2>5 DEF TickTimeout
      <3>. QED BY <1>0, <1>a, <3>1, <3>2 DEF Matches
    <2>6. ASSUME NEW l \in Labels, CancelVictim(l)
          PROVE  Matches'
      <3>1. fin'.how = "reset"
        BY <2>6 DEF CancelVictim, Finishing
      <3>. QED BY <3>1 DEF Matches
    <2>7. CASE TickDrains \/ JobDone \/ OnBusResetBegin \/ CancelByGeneration \/ ClearAndFlush
      <3>1. fin' = fin /\ slot' = slot
        BY <2>7 DEF TickDrains, JobDone, OnBusResetBegin, CancelByGeneration, ClearAndFlush
      <3>. QED BY <1>a, <3>1
    <2>. QED BY <1>2, <2>1, <2>2, <2>3, <2>4, <2>5, <2>6, <2>7 DEF JobStep, FinishStep
  <1>3. CASE StartJob
    <2>0. fin.pc = "none"
      BY <1>3 DEF StartJob, OnARResponse, RunPostedCancel, OnTxInterrupt, OnTimeoutTick, ConfirmBusGeneration,
                  OnBusResetComplete, Teardown, T0Idle
    <2>1. ASSUME NEW r \in Tx, OnARResponse(r)
          PROVE  Matches'
      <3> DEFINE l == txn[r].label
      <3>1. \/ fin' = fin
            \/ /\ slot[l] # NoTx /\ txn[slot[l]].gen = gen
               /\ fin' = Finishing(l, "response", r)
        BY <2>1 DEF OnARResponse
      <3>2. slot' = slot /\ r \in rsp /\ l \in Labels
        BY <1>0, <2>1 DEF OnARResponse, Transaction
      <3>3. txn[r].gen = gen /\ txn'[r].gen = txn[r].gen
        BY <3>2, GensKeptStep DEF GensKept, WireCreated, WireCurrent
      <3> HIDE DEF l
      <3>4. /\ Finishing(l, "response", r).pc = "extract" /\ Finishing(l, "response", r).src = r
            /\ Finishing(l, "response", r).label = l
        BY DEF Finishing
      <3>. QED BY <1>a, <1>g, <3>1, <3>2, <3>3, <3>4 DEF Matches
    <2>2. ASSUME NEW t \in Tx, RunPostedCancel(t)
          PROVE  Matches'
      <3>1. [NoFin EXCEPT !.pc = "callback", !.tx = t, !.how = "cancel"].how = "cancel"
        BY DEF NoFin
      <3>2. slot' = slot /\ (fin' = fin \/ fin'.how = "cancel")
        BY <2>2, <3>1 DEF RunPostedCancel
      <3>. QED BY <1>a, <3>2 DEF Matches
    <2>3. CASE \/ OnTxInterrupt \/ OnTimeoutTick \/ OnBusResetComplete \/ Teardown
               \/ \E decoded \in BOOLEAN : ConfirmBusGeneration(decoded)
      <3>1. fin' = fin
        BY <2>3 DEF OnTxInterrupt, OnTimeoutTick, OnBusResetComplete, Teardown, ConfirmBusGeneration
      <3>. QED BY <1>a, <2>0, <3>1
    <2>. QED BY <1>3, <2>1, <2>2, <2>3 DEF StartJob
  <1>4. CASE Environment \/ UNCHANGED vars
    <2>1. fin' = fin /\ slot' = slot
      BY <1>4 DEF Environment, HwComplete, HwBusReset, Respond, Expire, vars
    <2>. QED BY <1>a, <2>1
  <1>. QED BY <1>1, <1>2, <1>3, <1>4 DEF Next

\* The invariant of a system in which only T0 submits.
SerialInv == SerialThreads /\ SerialLabels /\ SerialReset /\ SerialGen /\ WireCurrent /\ Matches

\* The inductive invariant of the subsystem.
Tracked == /\ Owned /\ T0Frame /\ LabelsAccounted /\ WireCreated
           /\ Serial => SerialInv

\* Every step keeps it.
LEMMA TrackedStep == Tracked /\ [Next]_vars => Tracked'
  <1>. SUFFICES ASSUME Tracked, [Next]_vars PROVE Tracked'
    OBVIOUS
  <1>1. Owned' /\ T0Frame' /\ LabelsAccounted' /\ WireCreated'
    BY OwnedStep, T0FrameStep, AccountedStep, WireCreatedStep DEF Tracked, Owned
  <1>2. load' = load
    <2>1. ASSUME NEW th \in load.by, Call(th) \/ SubmitStep(th)
          PROVE  load' = load
      BY <2>1 DEF Call, SubmitStep, PrepareTransactionContext, CancelExtract, RegisterLabel, RegisterBusy,
             RegisterTransaction, Install, SubmitFails, SubmitChain, OnTxPosted, CancelPost
    <2>2. Environment \/ UNCHANGED vars => load' = load
      BY DEF Environment, HwComplete, HwBusReset, Respond, Expire, vars
    <2>. QED BY <2>1, <2>2, WorkerRests DEF Next
  <1>3. ASSUME Serial
        PROVE  SerialInv'
    BY <1>3, SerialThreadsStep, SerialLabelsStep, SerialResetStep, SerialGenStep, WireCurrentStep, MatchesStep
       DEF Tracked, SerialInv, Owned
  <1>. QED BY <1>1, <1>2, <1>3 DEF Tracked, Serial

\* It holds when the subsystem starts.
LEMMA TrackedInit == Init => Tracked
  <1>. SUFFICES ASSUME Init PROVE Tracked
    OBVIOUS
  <1>1. Owned
    BY OwnedInit
  <1>2. NoFin.pc = "none" /\ NoFin.src = 0 /\ Idle.kind = "idle" /\ Resting.pc = "idle"
    BY DEF NoFin, Idle, Resting
  <1>3. /\ job = Idle /\ fin = NoFin /\ ~gate /\ edge = "none" /\ ring = << >> /\ asked = {} /\ rsp = {}
        /\ bitmap = {} /\ \A l \in Labels : slot[l] = NoTx
        /\ \A th \in Threads : sub[th].pc = "idle"
    BY <1>2 DEF Init
  <1>4. nextTx = 1 /\ Len(ring) = 0
    BY <1>3 DEF Init
  <1>5. T0Frame
    BY <1>2, <1>3 DEF T0Frame, T0Busy, ResetFinish, GateFrame
  <1>6. LabelsAccounted
    BY <1>3 DEF LabelsAccounted
  <1>7. WireCreated
    BY <1>2, <1>3, <1>4 DEF WireCreated
  <1>8. SerialThreads /\ SerialLabels /\ SerialReset /\ SerialGen
    BY <1>2, <1>3 DEF SerialThreads, SerialLabels, SerialReset, SerialGen
  <1>9. WireCurrent
    BY <1>2, <1>3, <1>4 DEF WireCurrent
  <1>10. Matches
    BY <1>2, <1>3 DEF Matches
  <1>. QED BY <1>1, <1>5, <1>6, <1>7, <1>8, <1>9, <1>10 DEF Tracked, SerialInv

\* No label leaks while the subsystem runs, and when only the Default queue
\* submits LabelAllocator never hands out a label whose slot is taken.
THEOREM LabelsAgreeAlways == Spec => []LabelsAgree
  <1>1. Tracked => LabelsAgree
    BY DEF Tracked, LabelsAgree, LabelsAccounted, Accounted, SerialInv, SerialLabels
  <1>. QED BY <1>1, TrackedInit, TrackedStep, PTL DEF Spec

\* When only the Default queue submits, a bus reset leaves no transaction of an
\* earlier generation in the table, and none at all while the gate is closed.
THEOREM LiveIsCurrentAlways == Spec => []LiveIsCurrent
  <1>1. Tracked => LiveIsCurrent
    BY DEF Tracked, LiveIsCurrent, SerialInv, SerialReset, SerialGen, ResetJobs, Occupied
  <1>. QED BY <1>1, TrackedInit, TrackedStep, PTL DEF Spec

\* When only the Default queue submits, no response and no AT completion of one
\* generation ends a transaction of another.
THEOREM AnswerMatchesAlways == Spec => []AnswerMatches
  <1>1. Tracked => AnswerMatches
    <2>. SUFFICES ASSUME Tracked, Serial, InHand(fin.tx), fin.how \notin {"reset", "cancel"}
                  PROVE  txn[fin.tx].gen = txn[fin.src].gen
      BY DEF AnswerMatches
    <2>1. fin.pc \in {"free", "callback"}
      BY DEF Tracked, T0Frame, ResetFinish, InHand
    <2>. QED BY <2>1 DEF Tracked, SerialInv, Matches
  <1>. QED BY <1>1, TrackedInit, TrackedStep, PTL DEF Spec

=============================================================================
