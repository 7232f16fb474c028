--------------------------- MODULE MCProcessTable ---------------------------
(* ProcessTable for TLC: two slots, and a pid more than the table can hold, *)
(* so that pids are recycled while reapers still remember them.  A thread   *)
(* is free again once it has ended, and a live one owns an entry, so that   *)
(* two are enough unless reapers leave entries behind.                      *)
EXTENDS ProcessTable, TLC

Symmetry == Permutations(Pids) \cup Permutations(Threads)
=============================================================================
