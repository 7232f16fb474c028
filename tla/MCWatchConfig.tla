---------------------------- MODULE MCWatchConfig ----------------------------
(* WatchConfig for TLC: two files that share a basename and one that does   *)
(* not.                                                                     *)
EXTENDS WatchConfig

MCPaths == {"/a/icon", "/b/icon", "/a/book"}
MCBasename == [p \in MCPaths |-> IF p = "/a/book" THEN "book" ELSE "icon"]
=============================================================================
