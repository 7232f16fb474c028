------------------------------ MODULE MCEvents ------------------------------
(* Events for TLC: the 10 seconds shrink to 1 or 2.                         *)
EXTENDS Events

BothSlots == {0, 1}
Everyone == {"nickel", "extra", "user"}

\* An icon is processed in one pass, but the database is often locked.
BusyDatabase == [window |-> 2, queue_max |-> 4, readers |-> Everyone, busy |-> TRUE,
                 one_pass |-> TRUE, prompt |-> TRUE, steady |-> TRUE]

\* Nickel goes over an icon as often as it likes.
ManyPasses == [BusyDatabase EXCEPT !.busy = FALSE, !.one_pass = FALSE]

\* Taps alone, in any interleaving with the handling, on a queue that overflows.
SmallQueue == [window |-> 1, queue_max |-> 2, readers |-> {"user"}, busy |-> FALSE,
               one_pass |-> TRUE, prompt |-> FALSE, steady |-> FALSE]

AllEnvironments == {BusyDatabase, ManyPasses, SmallQueue}
=============================================================================
