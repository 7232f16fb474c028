----------------------------- MODULE MCTransfer -----------------------------
(* Transfer for TLC: messages longer than the kernel's buffer, than the     *)
(* reader's, and than what one call transfers.                              *)
EXTENDS Transfer
=============================================================================
