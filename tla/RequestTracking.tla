---------------------------- MODULE RequestTracking ----------------------------
(***************************************************************************)
(* What the asynchronous subsystem promises the owner of a request: it is  *)
(* registered, perhaps handed to the hardware, taken out of the table by   *)
(* one of the paths that can end it, and its callback runs, each of these  *)
(* once and in this order.  Nothing is said of labels, generations,        *)
(* acknowledges, retries, or of which path it is.                          *)
(***************************************************************************)
EXTENDS Naturals

CONSTANT Requests   \* naturals: the requests, in the order they are registered

VARIABLE phase      \* how far each request is

Init == phase = [r \in Requests |-> "none"]

\* A request is registered (in the table), posted (the AT context has it and
\* its timeout runs), taken out of the table and answered.
Advance ==
    {<<"none", "open">>, <<"open", "posted">>, <<"open", "taken">>,
     <<"posted", "taken">>, <<"taken", "answered">>}

InOrder(r) ==
    phase[r] = "none" => \A q \in Requests : phase[q] = "none" => r <= q

Step(r) ==
    \E a \in Advance :
        /\ phase[r] = a[1] /\ InOrder(r)
        /\ phase' = [phase EXCEPT ![r] = a[2]]

\* Teardown takes and answers whatever is left in the table.
AnswerAll ==
    phase' = [r \in Requests |-> IF phase[r] \in {"open", "posted"}
                                 THEN "answered" ELSE phase[r]]

Next == (\E r \in Requests : Step(r)) \/ AnswerAll

Safety == Init /\ [][Next]_phase

=============================================================================
