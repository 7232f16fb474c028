-------------------------------- MODULE Stream --------------------------------
(***************************************************************************)
(* What a stream socket and KFMon's wrappers around it promise: the bytes  *)
(* of a message arrive in order, each of them once, and what the sender is *)
(* told about them is true.                                                *)
(***************************************************************************)
EXTENDS Integers, Sequences

VARIABLES
    message,    \* what the sender wants sent, which never changes
    received,   \* what the reader got
    result,     \* what the sender knows: bytes sent, or one of the below
    reader      \* "reading", "ended" (it saw the end of the stream) or "left"

vars == <<message, received, result, reader>>

Failed == -1
Pending == -2
Died == -3      \* the sender never knew

First(n) == SubSeq(message, 1, n)

Init == received = <<>> /\ result = Pending /\ reader = "reading"

\* A few more bytes arrive.
Receive ==
    /\ reader = "reading"
    /\ \E n \in Len(received) + 1 .. (IF result >= 0 THEN result ELSE Len(message)) :
          received' = First(n)
    /\ UNCHANGED <<message, result, reader>>

\* The sender is told that n bytes are on their way, among them all that arrived.
Succeed ==
    /\ result = Pending
    /\ result' \in Len(received) .. Len(message) \ {0}
    /\ UNCHANGED <<message, received, reader>>

\* It fails only because of the reader.
Fail ==
    /\ result = Pending
    /\ reader # "reading"
    /\ result' = Failed
    /\ UNCHANGED <<message, received, reader>>

Die ==
    /\ result = Pending
    /\ result' = Died
    /\ UNCHANGED <<message, received, reader>>

\* The reader sees the end when the sender is done, and by then has got all that
\* was said to be sent.
End ==
    /\ reader = "reading"
    /\ result # Pending
    /\ result >= 0 => received = First(result)
    /\ reader' = "ended"
    /\ UNCHANGED <<message, received, result>>

Leave ==
    /\ reader = "reading"
    /\ reader' = "left"
    /\ UNCHANGED <<message, received, result>>

Next == Receive \/ Succeed \/ Fail \/ Die \/ End \/ Leave

Spec == Init /\ [][Next]_vars
=============================================================================
