------------------------ MODULE MCAsyncTransactions ------------------------
(* Model of AsyncTransactions for TLC. *)
EXTENDS AsyncTransactions

\* The one submitting queue besides the Default queue.
CONSTANT c1

AllStrategies == {"AT", "AR", "PHY"}
AllEvents == {"complete", "pending", "busy", "tardy", "dataError", "timeout",
              "flushed", "other"}

\* Another queue submits, and races the Default queue.
Racing == [by |-> {c1}, strategies |-> {"AT"},
           events |-> {"complete", "pending", "flushed"}]

\* Only the Default queue submits, every kind of command, also from callbacks.
\* (Of the events, busy, tardy and other are handled like pending, but for the
\* retries, and dataError like timeout; Everything has them all.)
DefaultQueue == [by |-> {T0}, strategies |-> AllStrategies,
                 events |-> AllEvents \ {"busy", "tardy", "other", "dataError"}]

RacingAndSerial == {Racing, DefaultQueue}
RacingOnly == {Racing}
Everything == {[by |-> {c1}, strategies |-> AllStrategies, events |-> AllEvents]}

=============================================================================
