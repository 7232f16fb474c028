------------------------------ MODULE Launcher ------------------------------
(***************************************************************************)
(* What KFMon promises about the programs it launches, with no process     *)
(* table, no threads and no kernel: each watch slot runs at most one       *)
(* instance of its action, and while a program flagged "block_spawns" runs *)
(* nothing but a forced request may start another one.                     *)
(***************************************************************************)
CONSTANT Slots          \* the watch slots

\* How a program was launched: from a watch flagged block_spawns, by a
\* force-start/force-trigger request, or in the ordinary way.
LaunchKinds == {"plain", "forced", "blocker"}

VARIABLE running        \* what each slot runs: a member of LaunchKinds, or "nothing"

Init == running = [w \in Slots |-> "nothing"]

\* No program flagged block_spawns is running.
NoBlocker == \A w \in Slots : running[w] # "blocker"

Launch(w, kind) ==
    /\ running[w] = "nothing"
    /\ kind = "forced" \/ NoBlocker
    /\ running' = [running EXCEPT ![w] = kind]

Finish(w) ==
    /\ running[w] # "nothing"
    /\ running' = [running EXCEPT ![w] = "nothing"]

Next == \E w \in Slots : Finish(w) \/ \E kind \in LaunchKinds : Launch(w, kind)

Spec == Init /\ [][Next]_running
=============================================================================
