----------------------------- MODULE MCMainLoop -----------------------------
(* MainLoop for TLC: its constants are plain values.                        *)
EXTENDS MainLoop

=============================================================================
