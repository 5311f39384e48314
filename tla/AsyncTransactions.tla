--------------------------- MODULE AsyncTransactions ---------------------------
(***************************************************************************)
(* Tracking of outbound asynchronous transactions: the tLabel allocator,   *)
(* the 64-slot transaction table, the submit path of a command, and the    *)
(* ways a transaction can end (AT completion, AR response, timeout, and    *)
(* cancellation by a caller, a bus reset or teardown).                     *)
(*                                                                         *)
(* Interrupts, the watchdog, the bus reset machine and posted blocks run   *)
(* one after another on the Default queue, the thread T0.  Submitters      *)
(* are other queues (audio, AV/C, SCSI, user clients) and T0 itself, which *)
(* also submits from inside a completion callback.  The steps are          *)
(* the critical sections of the code: what runs under one lock, or one     *)
(* atomic operation, is one step; what the code does between two of them   *)
(* (Extract, then Free, then the callback) is several.                     *)
(*                                                                         *)
(* Tx numbers name Transaction objects in the order they are created.      *)
(***************************************************************************)
EXTENDS Naturals, Sequences, FiniteSets

CONSTANTS
    NLabels,        \* kMaxLabels: 64 in the code
    T0,             \* the Default queue
    Queues,         \* the queues besides T0 that submit
    Workloads,      \* who submits, commands of which completion strategies,
                    \* and the OHCI event codes the AT descriptors report
    MaxBusyRetries,     \* kMaxBusyRetries: 3 in the code
    MaxATRetries,       \* kMaxATRetries: 2 in the code
    MaxPendingRetries,  \* kMaxPendingRetries: 3 in the code
    MaxTx,          \* bound: transactions registered
    MaxResets       \* bound: bus resets

ASSUME AsyncAssumption ==
    /\ NLabels \in Nat \ {0}
    /\ MaxBusyRetries \in Nat /\ MaxATRetries \in Nat /\ MaxPendingRetries \in Nat
    /\ MaxTx \in Nat
    /\ MaxResets \in Nat
    /\ T0 \notin Queues
    /\ \A w \in Workloads :
            /\ w.by \subseteq Queues \cup {T0}
            /\ w.strategies \subseteq {"AT", "AR", "PHY"}
            /\ w.events \subseteq {"complete", "pending", "busy", "tardy",
                                  "dataError", "timeout", "flushed", "other"}

VARIABLES
    bitmap, cursor,     \* LabelAllocator: labels in use, next_label_
    slot,               \* TransactionManager::transactions_, 0 is nullptr
    txn,                \* the Transaction objects
    nextTx,             \* the number of the next object
    gate,               \* is_bus_reset_in_progress_
    edge,               \* a bus reset: "none", "raised" or being "handled"
    resets,             \* bus resets so far
    accepting,          \* acceptingSubmissions_ and isRunning_
    gen,                \* the generation of GenerationTracker, not wrapped
    load,               \* the workload of this behaviour, never changed
    sub,                \* where each thread is in Submit or Cancel
    handle,             \* the handle each thread got last, minus one
    ring,               \* AT request descriptors: object and status
    asked, rsp,         \* requests at the device; responses in the AR buffer
    job,                \* what T0 is running, and the labels it has left
    fin,                \* the transaction T0 is finishing
    posted,             \* cancellations posted to the workloop
    calls               \* times each object's callback has run

tables == <<bitmap, cursor, slot, txn, nextTx>>
bus == <<gate, edge, resets, accepting, gen, load>>
threads == <<sub, handle>>
wire == <<ring, asked, rsp>>
worker == <<job, fin, posted, calls>>
vars == <<tables, bus, threads, wire, worker>>

Labels == 0..(NLabels - 1)
NoLabel == NLabels
Tx == 1..MaxTx
NoTx == 0
Threads == Queues \cup {T0}

State == {"Created", "Submitted", "ATPosted", "ATCompleted", "AwaitingAR",
          "ARReceived", "Completed", "TimedOut", "Failed", "Cancelled"}
TerminalState == {"Completed", "TimedOut", "Failed", "Cancelled"}
Ack == {0, 1, 4, 8, 12, 13}
Deadline == {"none", "running", "expired"}
\* How a transaction is being finished.
Ending == {"response", "ackComplete", "phy", "ackError", "hwTimeout",
           "flushed", "timeout", "reset", "cancel"}

Transaction == [st : State, gen : Nat, label : Labels,
                strategy : {"AT", "AR", "PHY"}, ack : Ack, retry : Nat,
                latch : BOOLEAN, deadline : Deadline, asserted : BOOLEAN]
NoTransaction == [st |-> "Created", gen |-> 0, label |-> 0, strategy |-> "AT",
                  ack |-> 0, retry |-> 0, latch |-> FALSE,
                  deadline |-> "none", asserted |-> FALSE]

Idle == [kind |-> "idle", todo |-> {}]
NoFin == [pc |-> "none", label |-> 0, tx |-> NoTx, how |-> "response",
          src |-> NoTx]
Resting == [pc |-> "idle", gen |-> 0, strategy |-> "AT", label |-> 0,
            tx |-> NoTx]

Init ==
    /\ bitmap = {} /\ cursor = 0
    /\ slot = [l \in Labels |-> NoTx]
    /\ txn = [t \in Tx |-> NoTransaction]
    /\ nextTx = 1
    /\ gate = FALSE /\ edge = "none" /\ resets = 0
    /\ accepting = TRUE /\ gen = 0 /\ load \in Workloads
    /\ sub = [th \in Threads |-> Resting]
    /\ handle = [th \in Threads |-> NoLabel]
    /\ ring = << >> /\ asked = {} /\ rsp = {}
    /\ job = Idle /\ fin = NoFin
    /\ posted = {} /\ calls = [t \in Tx |-> 0]

-----------------------------------------------------------------------------
(* Transaction *)

IsValidTransition(from, to) ==
    \/ from = "Created" /\ to \in {"Submitted", "Cancelled"}
    \/ from = "Submitted" /\ to \in {"ATPosted", "Cancelled"}
    \/ from = "ATPosted" /\ to \in {"ATCompleted", "ARReceived", "Failed",
                                    "TimedOut", "Cancelled"}
    \/ from = "ATCompleted" /\ to \in {"AwaitingAR", "ARReceived", "Completed",
                                       "Failed", "TimedOut", "Cancelled"}
    \/ from = "AwaitingAR" /\ to \in {"ARReceived", "TimedOut", "Cancelled"}
    \/ from = "ARReceived" /\ to \in {"Completed", "Cancelled"}

\* A refused transition trips the assertion and, without it, changes nothing.
TransitionTo(x, to) ==
    IF IsValidTransition(x.st, to) THEN [x EXCEPT !.st = to]
    ELSE [x EXCEPT !.asserted = TRUE]

Through(x, first, second) == TransitionTo(TransitionTo(x, first), second)

-----------------------------------------------------------------------------
(* LabelAllocator *)

\* Round robin: l is the first free label at or after the cursor.
IsNextLabel(l, used, from) ==
    LET distance(k) == (k + NLabels - from) % NLabels
    IN  /\ l \in Labels \ used
        /\ \A k \in Labels \ used : distance(l) <= distance(k)

\* Mutant: next_label_ is not masked.
Allocate_NoWrap(l, used, from) ==
    /\ IsNextLabel(l, used, from)
    /\ bitmap' = used \cup {l}
    /\ cursor' = l + 1

Allocate(l, used, from) ==
    /\ IsNextLabel(l, used, from)
    /\ bitmap' = used \cup {l}
    /\ cursor' = (l + 1) % NLabels

Free(l) == bitmap' = bitmap \ {l}

ClearBitmap == bitmap' = {} /\ cursor' = 0

-----------------------------------------------------------------------------
(* The submit path (AsyncCommand::Submit), and who may enter it *)

T0Idle == job.kind = "idle" /\ fin.pc = "none" /\ sub[T0].pc = "idle"

\* T0 carries on with its job when no callback of it is submitting.
T0Runs == job.kind # "idle" /\ sub[T0].pc = "idle"

\* A thread calls between two calls of its own; T0 also from a callback.
CanCall(th) ==
    /\ sub[th].pc = "idle"
    /\ th = T0 => T0Idle \/ fin.pc \in {"callback", "callbackFirst"}

\* Bound: every submission under way has a number left.
Room == nextTx + Cardinality({th \in Threads :
                    sub[th].pc \in {"prepared", "labelled"}}) <= MaxTx

Prepared(th, s) ==
    sub' = [sub EXCEPT ![th] = [Resting EXCEPT !.pc = "prepared",
                                               !.gen = gen, !.strategy = s]]

\* Mutant: the bus reset gate is not looked at.
PrepareTransactionContext_NoGate(th, s) ==
    /\ CanCall(th) /\ Room
    /\ accepting
    /\ Prepared(th, s)
    /\ UNCHANGED <<tables, bus, handle, wire, worker>>

PrepareTransactionContext(th, s) ==
    /\ CanCall(th) /\ Room
    /\ accepting /\ ~gate
    /\ Prepared(th, s)
    /\ UNCHANGED <<tables, bus, handle, wire, worker>>

\* RegisterTx holds the tracking lock over its two steps.
LockHeld == \E th \in Threads : sub[th].pc = "labelled"

\* Bits that no transaction stands behind are stale: RegisterTx sweeps them.
Stale == bitmap # {} /\ \A l \in Labels : slot[l] = NoTx
SweptBitmap == IF Stale THEN {} ELSE bitmap
SweptCursor == IF Stale THEN 0 ELSE cursor

RegisterLabel(th) ==
    /\ sub[th].pc = "prepared" /\ ~LockHeld
    /\ \/ \E l \in Labels : /\ Allocate(l, SweptBitmap, SweptCursor)
                            /\ sub' = [sub EXCEPT ![th].pc = "labelled",
                                                  ![th].label = l]
       \/ /\ SweptBitmap = Labels
          /\ sub' = [sub EXCEPT ![th] = Resting]
          /\ UNCHANGED <<bitmap, cursor>>
    /\ UNCHANGED <<slot, txn, nextTx, bus, handle, wire, worker>>

\* The slot of the label is taken: RegisterTx gives the label back.
RegisterBusy(th) ==
    /\ sub[th].pc = "labelled" /\ slot[sub[th].label] # NoTx
    /\ Free(sub[th].label)
    /\ sub' = [sub EXCEPT ![th] = Resting]
    /\ UNCHANGED <<cursor, slot, txn, nextTx, bus, handle, wire, worker>>

NewTransaction(th) ==
    [NoTransaction EXCEPT !.st = "Submitted", !.gen = sub[th].gen,
                          !.label = sub[th].label,
                          !.strategy = sub[th].strategy]

Install(th) ==
    /\ nextTx <= MaxTx
    /\ slot' = [slot EXCEPT ![sub[th].label] = nextTx]
    /\ txn' = [txn EXCEPT ![nextTx] = NewTransaction(th)]
    /\ nextTx' = nextTx + 1
    /\ sub' = [sub EXCEPT ![th].pc = "registered", ![th].tx = nextTx]
    /\ UNCHANGED <<bitmap, cursor, bus, handle, wire, worker>>

\* Mutant: an occupied slot is overwritten.
RegisterTransaction_Overwrites(th) == sub[th].pc = "labelled" /\ Install(th)

RegisterTransaction(th) ==
    sub[th].pc = "labelled" /\ slot[sub[th].label] = NoTx /\ Install(th)

\* Submit returns 0 after RegisterTx: the transaction stays registered.  This
\* is also what happens when it was finished before the label is read back.
SubmitFails(th) ==
    /\ sub[th].pc = "registered"
    /\ sub' = [sub EXCEPT ![th] = Resting]
    /\ UNCHANGED <<tables, bus, handle, wire, worker>>

SubmitChain(th) ==
    /\ sub[th].pc = "registered" /\ slot[sub[th].label] # NoTx
    /\ ring' = Append(ring, [tx |-> sub[th].tx, status |-> "none"])
    /\ sub' = [sub EXCEPT ![th].pc = "onWire"]
    /\ UNCHANGED <<tables, bus, handle, asked, rsp, worker>>

\* Reads and locks wait for the response from the moment they are posted.
MarkPosted(x) ==
    LET posting == TransitionTo(x, "ATPosted")
    IN  [(IF x.strategy = "AR" THEN Through(posting, "ATCompleted", "AwaitingAR")
                               ELSE posting) EXCEPT !.deadline = "running"]

\* The handle names a label, so whatever now lives there is marked posted.
OnTxPosted(th) ==
    LET t == slot[sub[th].label]
    IN  /\ sub[th].pc = "onWire"
        /\ txn' = IF t = NoTx THEN txn
                  ELSE [txn EXCEPT ![t] = MarkPosted(txn[t])]
        /\ handle' = [handle EXCEPT ![th] = sub[th].label]
        /\ sub' = [sub EXCEPT ![th] = Resting]
        /\ UNCHANGED <<bitmap, cursor, slot, nextTx, bus, wire, worker>>

\* CancelTransactionHandle: Extract on the caller's thread ...
CancelExtract(th) ==
    /\ CanCall(th) /\ accepting /\ handle[th] # NoLabel
    /\ handle' = [handle EXCEPT ![th] = NoLabel]
    /\ slot[handle[th]] # NoTx
    /\ slot' = [slot EXCEPT ![handle[th]] = NoTx]
    /\ sub' = [sub EXCEPT ![th] = [Resting EXCEPT !.pc = "cancelling",
                                                  !.label = handle[th],
                                                  !.tx = slot[handle[th]]]]
    /\ UNCHANGED <<bitmap, cursor, txn, nextTx, bus, wire, worker>>

\* ... then Free, and the rest is posted to the workloop.
CancelPost(th) ==
    /\ sub[th].pc = "cancelling"
    /\ Free(sub[th].label)
    /\ posted' = posted \cup {sub[th].tx}
    /\ sub' = [sub EXCEPT ![th] = Resting]
    /\ UNCHANGED <<cursor, slot, txn, nextTx, bus, handle, wire, job, fin, calls>>

-----------------------------------------------------------------------------
(* The hardware and the device *)

\* The controller writes the status of the oldest descriptor without one; it
\* flushes while a bus reset is pending.  A request the device took may be
\* answered later.
HwComplete(ev) ==
    \E i \in 1..Len(ring) :
        /\ ring[i].status = "none" /\ \A j \in 1..(i - 1) : ring[j].status # "none"
        /\ ev = "flushed" <=> edge # "none"
        /\ ring' = [ring EXCEPT ![i].status = ev]
        /\ asked' = IF ev \in {"complete", "pending", "tardy", "other"}
                    THEN asked \cup {ring[i].tx} ELSE asked
        /\ UNCHANGED <<tables, bus, threads, rsp, worker>>

Flushed(r) == [i \in DOMAIN r |-> IF r[i].status # "none" THEN r[i]
                                  ELSE [r[i] EXCEPT !.status = "flushed"]]

\* A bus reset flushes the AT contexts and voids what the device was asked.
HwBusReset ==
    /\ accepting /\ edge # "raised" /\ resets < MaxResets
    /\ edge' = "raised" /\ resets' = resets + 1
    /\ ring' = Flushed(ring)
    /\ asked' = {}
    /\ UNCHANGED <<tables, gate, accepting, gen, load, threads, rsp, worker>>

Respond(t) ==
    /\ t \in asked
    /\ asked' = asked \ {t} /\ rsp' = rsp \cup {t}
    /\ UNCHANGED <<tables, bus, threads, ring, worker>>

\* The clock passes the deadline of a transaction in the table.
Expire(l) ==
    /\ slot[l] # NoTx /\ txn[slot[l]].deadline = "running"
    /\ txn' = [txn EXCEPT ![slot[l]].deadline = "expired"]
    /\ UNCHANGED <<bitmap, cursor, slot, nextTx, bus, threads, wire, worker>>

-----------------------------------------------------------------------------
(* TransactionCompletionHandler: deciding, on T0 *)

\* src is the transaction the packet that ends this one was about.
Finishing(l, how, src) ==
    [pc |-> "extract", label |-> l, tx |-> NoTx, how |-> how, src |-> src]

AckOf(ev) ==
    CASE ev = "complete" -> 0 [] ev = "pending" -> 1 [] ev = "busy" -> 4
      [] ev = "tardy" -> 12 [] ev = "dataError" -> 13
      [] OTHER -> 8     \* the raw nibble: the RUN bit

\* What an AT completion makes of the transaction it finds ...
ATUpdate(x, ev) ==
    LET y == [x EXCEPT !.ack = AckOf(ev)]
    IN  CASE x.st \in TerminalState -> x
          [] x.strategy \in {"PHY", "AR"} -> y
          [] ev \in {"pending", "tardy", "other"} ->
                Through(y, "ATCompleted", "AwaitingAR")
          [] ev = "complete" -> [y EXCEPT !.latch = TRUE]
          [] ev = "busy" ->
                [TransitionTo(y, "ATCompleted") EXCEPT !.deadline = "running"]
          [] OTHER -> y

\* ... and how it ends it, if it does.
ATPostAction(x, ev) ==
    IF x.st \in TerminalState THEN {}
    ELSE IF x.strategy = "PHY" THEN {"phy"}
    ELSE IF x.strategy = "AR" THEN {}
    ELSE CASE ev = "complete" -> IF x.latch THEN {} ELSE {"ackComplete"}
           [] ev = "dataError" -> {"ackError"}
           [] ev = "timeout" -> {"hwTimeout"}
           [] ev = "flushed" -> {"flushed"}
           [] OTHER -> {}

\* The AT completion names a label: it acts on whatever lives there.
OnATCompletion(c, ev) ==
    LET l == txn[c].label
        t == slot[l]
        ends == IF t = NoTx THEN {} ELSE ATPostAction(txn[t], ev)
    IN  /\ txn' = IF t = NoTx THEN txn
                  ELSE [txn EXCEPT ![t] = ATUpdate(txn[t], ev)]
        /\ \/ ends = {} /\ UNCHANGED fin
           \/ \E how \in ends : fin' = Finishing(l, how, c)

Retries(x) ==
    \/ x.ack = 4 /\ x.retry < MaxBusyRetries
    \/ x.st = "ATPosted" /\ x.ack = 0 /\ x.retry < MaxATRetries
    \/ x.st = "AwaitingAR" /\ x.ack \in {0, 1, 12} /\ x.retry < MaxPendingRetries

\* Mutant: the extension of a deadline is not counted.
ExtendDeadline_Uncounted(x) == [x EXCEPT !.deadline = "running"]

\* Mutant: the deadline is cleared for the retry and not set again.
ExtendDeadline_Clears(x) == [x EXCEPT !.retry = x.retry + 1, !.deadline = "none"]

ExtendDeadline(x) == [x EXCEPT !.retry = x.retry + 1, !.deadline = "running"]

OnTimeout(l) ==
    LET t == slot[l]
    IN  \/ t = NoTx /\ UNCHANGED <<txn, fin>>
        \/ /\ t # NoTx /\ Retries(txn[t])
           /\ txn' = [txn EXCEPT ![t] = ExtendDeadline(txn[t])]
           /\ UNCHANGED fin
        \/ /\ t # NoTx /\ ~Retries(txn[t])
           /\ fin' = Finishing(l, "timeout", t)
           /\ UNCHANGED txn

-----------------------------------------------------------------------------
(* Finishing a transaction: Extract, transitions and Free, callback.  A bus  *)
(* reset runs the callback before it frees the label.                        *)

Outcome(x, how) ==
    CASE how = "response" -> Through(x, "ARReceived", "Completed")
      [] how \in {"ackComplete", "phy"} -> Through(x, "ATCompleted", "Completed")
      [] how \in {"ackError", "hwTimeout"} -> Through(x, "ATCompleted", "Failed")
      [] how = "timeout" -> TransitionTo(x, "TimedOut")
      [] OTHER -> TransitionTo(x, "Cancelled")

\* Mutant: the object stays in the table while it is finished.
Extract_Copies(l) == UNCHANGED slot

Extract(l) == slot' = [slot EXCEPT ![l] = NoTx]

FinishExtract ==
    /\ fin.pc = "extract" /\ T0Runs
    /\ Extract(fin.label)
    /\ fin' = IF slot[fin.label] = NoTx THEN NoFin
              ELSE [fin EXCEPT !.tx = slot[fin.label],
                               !.pc = IF fin.how = "reset" THEN "callbackFirst"
                                      ELSE "free"]
    /\ UNCHANGED <<bitmap, cursor, txn, nextTx, bus, threads, wire, job, posted, calls>>

\* Mutant: the label is kept.
FinishFree_KeepsLabel ==
    /\ fin.pc = "free" /\ T0Runs
    /\ txn' = [txn EXCEPT ![fin.tx] = Outcome(@, fin.how)]
    /\ fin' = [fin EXCEPT !.pc = "callback"]
    /\ UNCHANGED <<bitmap, cursor, slot, nextTx, bus, threads, wire, job, posted, calls>>

FinishFree ==
    /\ fin.pc = "free" /\ T0Runs
    /\ txn' = [txn EXCEPT ![fin.tx] = Outcome(@, fin.how)]
    /\ Free(fin.label)
    /\ fin' = [fin EXCEPT !.pc = "callback"]
    /\ UNCHANGED <<cursor, slot, nextTx, bus, threads, wire, job, posted, calls>>

\* The object is destroyed: of its fields only what later packets carry, and
\* what the properties look at, is kept.
Destroyed(x) == [NoTransaction EXCEPT !.st = x.st, !.label = x.label,
                                      !.gen = x.gen, !.asserted = x.asserted]

\* The callback returns; until then T0 may submit from inside it.
FinishCallback ==
    /\ fin.pc = "callback" /\ T0Runs
    /\ calls' = [calls EXCEPT ![fin.tx] = @ + 1]
    /\ txn' = [txn EXCEPT ![fin.tx] = Destroyed(@)]
    /\ fin' = NoFin
    /\ UNCHANGED <<bitmap, cursor, slot, nextTx, bus, threads, wire, job, posted>>

FinishCallbackFirst ==
    /\ fin.pc = "callbackFirst" /\ T0Runs
    /\ IF txn[fin.tx].st \in TerminalState THEN UNCHANGED <<txn, calls>>
       ELSE /\ txn' = [txn EXCEPT ![fin.tx] = Destroyed(Outcome(@, fin.how))]
            /\ calls' = [calls EXCEPT ![fin.tx] = @ + 1]
    /\ fin' = [fin EXCEPT !.pc = "freeLast", !.tx = NoTx]
    /\ UNCHANGED <<bitmap, cursor, slot, nextTx, bus, threads, wire, job, posted>>

FinishFreeLast ==
    /\ fin.pc = "freeLast" /\ T0Runs
    /\ Free(fin.label)
    /\ fin' = NoFin
    /\ UNCHANGED <<cursor, slot, txn, nextTx, bus, threads, wire, job, posted, calls>>

-----------------------------------------------------------------------------
(* The jobs of T0 *)

\* RxPath stamps the response with the generation current now; the table looks
\* it up, the latch decides the race with the AT completion.
OnARResponse(r) ==
    LET l == txn[r].label
        t == slot[l]
        matched == t # NoTx /\ txn[t].gen = gen /\ txn[t].st \notin TerminalState
        wins == matched /\ ~txn[t].latch
    IN  /\ T0Idle /\ accepting /\ r \in rsp
        /\ rsp' = rsp \ {r}
        /\ txn' = IF wins THEN [txn EXCEPT ![t].latch = TRUE] ELSE txn
        /\ fin' = IF wins THEN Finishing(l, "response", r) ELSE fin
        /\ job' = IF wins THEN [kind |-> "rx", todo |-> {}] ELSE job
        /\ UNCHANGED <<bitmap, cursor, slot, nextTx, bus, threads, ring, asked,
                       posted, calls>>

HeadDone == ring # << >> /\ Head(ring).status # "none"

OnTxInterrupt ==
    /\ T0Idle /\ accepting /\ ~gate /\ HeadDone
    /\ job' = [kind |-> "drain", todo |-> {}]
    /\ UNCHANGED <<tables, bus, threads, wire, fin, posted, calls>>

DrainTxCompletion ==
    /\ T0Runs /\ job.kind = "drain" /\ fin.pc = "none" /\ HeadDone
    /\ ring' = Tail(ring)
    /\ OnATCompletion(Head(ring).tx, Head(ring).status)
    /\ UNCHANGED <<bitmap, cursor, slot, nextTx, bus, threads, asked, rsp, job,
                   posted, calls>>

ExpiredLabels == {l \in Labels : /\ slot[l] # NoTx
                                 /\ txn[slot[l]].st \notin TerminalState
                                 /\ txn[slot[l]].deadline = "expired"}

OnTimeoutTick ==
    /\ T0Idle /\ accepting /\ ~gate
    /\ ExpiredLabels # {} \/ HeadDone
    /\ job' = [kind |-> "tick", todo |-> ExpiredLabels]
    /\ UNCHANGED <<tables, bus, threads, wire, fin, posted, calls>>

TickTimeout(l) ==
    /\ T0Runs /\ job.kind = "tick" /\ fin.pc = "none" /\ l \in job.todo
    /\ OnTimeout(l)
    /\ job' = [job EXCEPT !.todo = @ \ {l}]
    /\ UNCHANGED <<bitmap, cursor, slot, nextTx, bus, threads, wire, posted, calls>>

\* After the timeouts the watchdog drains the AT completions.
TickDrains ==
    /\ T0Runs /\ job.kind = "tick" /\ fin.pc = "none" /\ job.todo = {}
    /\ job' = [job EXCEPT !.kind = "drain"]
    /\ UNCHANGED <<tables, bus, threads, wire, fin, posted, calls>>

RunPostedCancel(t) ==
    /\ T0Idle /\ t \in posted
    /\ posted' = posted \ {t}
    /\ IF txn[t].st \in TerminalState THEN UNCHANGED <<txn, fin, job>>
       ELSE /\ txn' = [txn EXCEPT ![t] = Outcome(@, "cancel")]
            /\ fin' = [NoFin EXCEPT !.pc = "callback", !.tx = t, !.how = "cancel"]
            /\ job' = [kind |-> "posted", todo |-> {}]
    /\ UNCHANGED <<bitmap, cursor, slot, nextTx, bus, threads, wire, calls>>

JobDone ==
    /\ T0Runs /\ fin.pc = "none"
    /\ job.kind \in {"rx", "posted"} \/ (job.kind = "drain" /\ ~HeadDone)
    /\ job' = Idle
    /\ UNCHANGED <<tables, bus, threads, wire, fin, posted, calls>>

-----------------------------------------------------------------------------
(* Bus reset, as the bus reset machine drives it: the new generation is      *)
(* confirmed when the Self-IDs decode, and only then is the gate closed.     *)

Occupied == {l \in Labels : slot[l] # NoTx}

\* Responses received before the reset have been dispatched by the interrupt
\* that latched selfIDComplete.
ConfirmBusGeneration(decoded) ==
    /\ T0Idle /\ accepting /\ edge = "raised" /\ rsp = {}
    /\ edge' = "handled"
    /\ gen' = IF decoded THEN gen + 1 ELSE gen
    /\ job' = [kind |-> "begin", todo |-> {}]
    /\ UNCHANGED <<tables, gate, resets, accepting, load, threads, wire, fin, posted, calls>>

OnBusResetBegin ==
    /\ T0Runs /\ job.kind = "begin"
    /\ gate' = TRUE
    /\ job' = [kind |-> "cancelAll", todo |-> Occupied]
    /\ UNCHANGED <<tables, edge, resets, accepting, gen, load, threads, wire, fin, posted,
                   calls>>

CancelVictim(l) ==
    /\ T0Runs /\ job.kind \in {"cancelAll", "cancelGen"} /\ fin.pc = "none"
    /\ l \in job.todo
    /\ fin' = Finishing(l, "reset", NoTx)
    /\ job' = [job EXCEPT !.todo = @ \ {l}]
    /\ UNCHANGED <<tables, bus, threads, wire, posted, calls>>

CancelByGeneration ==
    /\ T0Runs /\ job.kind = "cancelAll" /\ fin.pc = "none" /\ job.todo = {}
    /\ job' = [kind |-> "cancelGen",
               todo |-> {l \in Occupied : txn[slot[l]].gen = gen}]
    /\ UNCHANGED <<tables, bus, threads, wire, fin, posted, calls>>

\* Mutant: the AT contexts are left as they are.
ClearAndFlush_NoFlush ==
    /\ T0Runs /\ job.kind = "cancelGen" /\ fin.pc = "none" /\ job.todo = {}
    /\ ClearBitmap
    /\ job' = Idle
    /\ UNCHANGED <<slot, txn, nextTx, bus, threads, wire, fin, posted, calls>>

\* The hard clear, then the AT contexts are stopped (what was still being
\* flushed is flushed) and drained.
ClearAndFlush ==
    /\ T0Runs /\ job.kind = "cancelGen" /\ fin.pc = "none" /\ job.todo = {}
    /\ ClearBitmap
    /\ ring' = Flushed(ring)
    /\ job' = [kind |-> "drain", todo |-> {}]
    /\ UNCHANGED <<slot, txn, nextTx, bus, threads, asked, rsp, fin, posted, calls>>

OnBusResetComplete ==
    /\ T0Idle /\ accepting /\ edge = "handled"
    /\ gate' = FALSE /\ edge' = "none"
    /\ UNCHANGED <<tables, resets, accepting, gen, load, threads, wire, worker>>

\* Teardown, once the submitters are quiet: CancelAll runs the callbacks of
\* everything in the table, and the subsystem accepts nothing any more.
Teardown ==
    /\ T0Idle /\ accepting /\ \A th \in Threads : sub[th].pc = "idle"
    /\ accepting' = FALSE /\ gate' = FALSE /\ edge' = "none"
    /\ LET live == {t \in Tx : /\ \E l \in Labels : slot[l] = t
                               /\ txn[t].st \notin {"Completed", "Failed",
                                                    "Cancelled"}}
       IN  /\ txn' = [t \in Tx |-> IF t \in live
                                   THEN Destroyed(Outcome(txn[t], "cancel"))
                                   ELSE txn[t]]
           /\ calls' = [t \in Tx |-> IF t \in live THEN calls[t] + 1
                                     ELSE calls[t]]
    /\ slot' = [l \in Labels |-> NoTx]
    /\ ring' = << >> /\ asked' = {} /\ rsp' = {}
    /\ UNCHANGED <<bitmap, cursor, nextTx, resets, gen, load, threads, job, fin, posted>>

-----------------------------------------------------------------------------
SubmitStep(th) ==
    \/ RegisterLabel(th) \/ RegisterBusy(th) \/ RegisterTransaction(th)
    \/ SubmitFails(th) \/ SubmitChain(th) \/ OnTxPosted(th) \/ CancelPost(th)

Call(th) ==
    \/ \E s \in load.strategies : PrepareTransactionContext(th, s)
    \/ CancelExtract(th)

FinishStep ==
    \/ FinishExtract \/ FinishFree \/ FinishCallback
    \/ FinishCallbackFirst \/ FinishFreeLast

JobStep ==
    \/ FinishStep
    \/ DrainTxCompletion \/ TickDrains \/ JobDone
    \/ \E l \in Labels : TickTimeout(l) \/ CancelVictim(l)
    \/ OnBusResetBegin \/ CancelByGeneration \/ ClearAndFlush

StartJob ==
    \/ \E r \in Tx : OnARResponse(r)
    \/ \E t \in Tx : RunPostedCancel(t)
    \/ OnTxInterrupt \/ OnTimeoutTick
    \/ \E decoded \in BOOLEAN : ConfirmBusGeneration(decoded)
    \/ OnBusResetComplete
    \/ Teardown

Environment ==
    \/ \E ev \in load.events : HwComplete(ev)
    \/ HwBusReset
    \/ \E t \in Tx : Respond(t)
    \/ \E l \in Labels : Expire(l)

Next ==
    \/ \E th \in load.by : Call(th) \/ SubmitStep(th)
    \/ JobStep \/ StartJob \/ Environment

\* A thread inside the subsystem keeps running; the dispatch queue runs every
\* block it holds, the watchdog among them; the clock does not stop.
Fairness ==
    /\ \A th \in Threads : WF_vars(SubmitStep(th))
    /\ WF_vars(JobStep)
    /\ \A t \in Tx : SF_vars(RunPostedCancel(t))
    /\ SF_vars(OnTimeoutTick)
    /\ WF_vars(\E decoded \in BOOLEAN : ConfirmBusGeneration(decoded))
    /\ WF_vars(OnBusResetComplete)
    /\ \A l \in Labels : WF_vars(Expire(l))

Spec == Init /\ [][Next]_vars /\ Fairness

-----------------------------------------------------------------------------
(* Properties *)

TablesTyped ==
    /\ bitmap \subseteq Labels /\ cursor \in Labels
    /\ slot \in [Labels -> Tx \cup {NoTx}]
    /\ txn \in [Tx -> Transaction]
    /\ nextTx \in 1..(MaxTx + 1)

BusTyped ==
    /\ gate \in BOOLEAN /\ accepting \in BOOLEAN /\ gen \in Nat
    /\ edge \in {"none", "raised", "handled"} /\ resets \in 0..MaxResets
    /\ load \in Workloads

ThreadsTyped ==
    /\ sub \in [Threads ->
            [pc : {"idle", "prepared", "labelled", "registered", "onWire",
                   "cancelling"},
             gen : Nat, strategy : {"AT", "AR", "PHY"}, label : Labels,
             tx : Tx \cup {NoTx}]]
    /\ handle \in [Threads -> Labels \cup {NoLabel}]

WireTyped ==
    /\ ring \in Seq([tx : Tx, status : load.events \cup {"none", "flushed"}])
    /\ asked \subseteq Tx /\ rsp \subseteq Tx

WorkerTyped ==
    /\ job \in [kind : {"idle", "rx", "drain", "tick", "posted", "begin",
                        "cancelAll", "cancelGen"}, todo : SUBSET Labels]
    /\ fin \in [pc : {"none", "extract", "free", "callback", "callbackFirst",
                      "freeLast"},
                label : Labels, tx : Tx \cup {NoTx}, how : Ending,
                src : Tx \cup {NoTx}]
    /\ posted \subseteq Tx /\ calls \in [Tx -> Nat]

\* Every variable has its type: next_label_ stays a label, the table holds only
\* objects that were created, the threads and T0 are at a point of the code.
TypeOK == TablesTyped /\ BusTyped /\ ThreadsTyped /\ WireTyped /\ WorkerTyped

\* Where a transaction object can be.
InTable(t) == \E l \in Labels : slot[l] = t
InHand(t) == fin.pc \in {"free", "callback", "callbackFirst"} /\ fin.tx = t
InCancel(t) == \E th \in Threads : sub[th].pc = "cancelling" /\ sub[th].tx = t
InPost(t) == t \in posted

\* Ownership is exclusive: unique_ptr moves out of the table once, so no two
\* of the AT path, the AR path, the watchdog, a canceller and a bus reset ever
\* hold the same transaction.
Exclusive ==
    /\ \A l, k \in Labels : slot[l] = slot[k] /\ slot[l] # NoTx => l = k
    /\ \A a, b \in Threads :
            (/\ sub[a].pc = "cancelling" /\ sub[b].pc = "cancelling"
             /\ sub[a].tx = sub[b].tx) => a = b
    /\ \A t \in Tx : /\ ~(InTable(t) /\ (InHand(t) \/ InCancel(t) \/ InPost(t)))
                     /\ ~(InHand(t) /\ (InCancel(t) \/ InPost(t)))
                     /\ ~(InCancel(t) /\ InPost(t))

\* Every transaction registered and not held by anyone has had its callback
\* exactly once, and one that is still held has not had it: no path loses a
\* request and no two paths answer it twice.
AnsweredOnce ==
    \A t \in Tx :
        calls[t] = IF t >= nextTx \/ InTable(t) \/ InHand(t) \/ InCancel(t)
                      \/ InPost(t) THEN 0 ELSE 1

\* Nobody but the Default queue submits.
Serial == load.by = {T0}

\* The allocator's bitmap and the table agree.  A label marked in use has a
\* transaction behind it or somebody on the way to install or to free it, so
\* labels do not leak until none is left.  And when only the Default queue
\* submits, a label with a transaction behind it is marked in use, so the
\* allocator never hands out a label that is taken.
LabelsAgree ==
    /\ accepting =>
          \A l \in bitmap :
              \/ slot[l] # NoTx
              \/ fin.pc \in {"free", "callbackFirst", "freeLast"} /\ fin.label = l
              \/ \E th \in Threads : sub[th].pc \in {"labelled", "cancelling"}
                                     /\ sub[th].label = l
    /\ Serial => \A l \in Labels : slot[l] # NoTx => l \in bitmap

\* assert(IsValidTransition(state_, newState)): no transaction is ever asked to
\* make an illegal transition.
NeverAsserts == \A t \in Tx : ~txn[t].asserted

\* When only the Default queue submits, outside the cancelling part of a bus
\* reset no transaction of an earlier generation is in the table, where no
\* response could match it any more; and while the gate is closed the table and
\* the bitmap are empty: "Any new RegisterTx() calls will be blocked until bus
\* reset completes", those of the callbacks of the cancellation among them.
LiveIsCurrent ==
    Serial /\ job.kind \notin {"begin", "cancelAll", "cancelGen"} =>
        /\ \A l \in Labels : slot[l] # NoTx => txn[slot[l]].gen = gen
        /\ gate /\ fin.pc = "none" => Occupied = {} /\ bitmap = {}

\* A packet never ends a request of another generation: of a request that was
\* cancelled by a bus reset neither a late response nor a late AT completion
\* finishes the request that got its label afterwards.  (Within a generation a
\* response that comes after the timeout can end the next holder of the label:
\* only the round robin over 64 labels stands against that.)
AnswerMatches ==
    Serial /\ InHand(fin.tx) /\ fin.how \notin {"reset", "cancel"} =>
        txn[fin.tx].gen = txn[fin.src].gen

\* How far a request is, seen by its owner.
Phase(t) ==
    IF t >= nextTx THEN "none"
    ELSE IF calls[t] = 1 THEN "answered"
    ELSE IF calls[t] > 1 THEN "answered twice"
    ELSE IF ~InTable(t) THEN "taken"
    ELSE IF txn[t].deadline = "none" THEN "open" ELSE "posted"

Tracking == INSTANCE RequestTracking
                WITH Requests <- Tx, phase <- [t \in Tx |-> Phase(t)]

\* The subsystem implements RequestTracking: with the label allocator, the table,
\* the latch and all the racing paths, a request is still registered, posted,
\* taken and answered once each and in this order, and never put back.
TracksRequests == Tracking!Safety

\* A posted transaction is answered, whatever the device and the bus do.
EveryPostedAnswered ==
    \A t \in Tx : (InTable(t) /\ txn[t].deadline # "none") ~> calls[t] = 1

=============================================================================
