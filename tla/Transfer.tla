------------------------------- MODULE Transfer -------------------------------
(***************************************************************************)
(* The wrappers KFMon and kfmon-ipc use to move bytes through a stream     *)
(* (openssh/atomicio.c): a writer in the middle of send_in_full,           *)
(* write_in_full or xwrite, and a reader that calls xread or read_in_full  *)
(* until the stream ends.  In between, a kernel buffer of a few bytes,     *)
(* calls that move less than asked for, signals, and ends that go away.    *)
(*                                                                         *)
(* A byte is the place it has in the message.                              *)
(***************************************************************************)
EXTENDS Integers, Sequences

CONSTANTS
    LEN,            \* a message has 1 to LEN bytes
    SIZE,           \* the reader's buffer has 1 to SIZE
    CAPACITY,       \* bytes the kernel buffers
    MAX_IO_BUFSIZ,  \* what one call transfers at most
    SIGNALS         \* bound: signals that arrive in the middle of a call

ASSUME SizesAssumption ==
    {LEN, SIZE, CAPACITY, MAX_IO_BUFSIZ} \subseteq Nat \ {0} /\ SIGNALS \in Nat

VARIABLES
    call,       \* the wrappers in use, the message's length, the buffer's size
    wire,       \* the kernel's buffer
    tx,         \* the writer: where it is, pos, and what the wrapper returned
    rx,         \* the reader: where it is, its buffer, and what the wrapper returned
    got,        \* what the reader's calls brought in so far
    signals     \* signals that may still arrive

vars == <<call, wire, tx, rx, got, signals>>

Failed == -1
Pending == -2

Least(a, b) == IF a < b THEN a ELSE b

\* No call asks for more than read() and write() accept.
Clamp(len) == Least(len, MAX_IO_BUFSIZ)

Message == [n \in 1 .. call.len |-> n]
Total == Clamp(call.len)            \* len in the writer's wrapper
Want == Clamp(call.size)            \* len in the reader's wrapper
Room == CAPACITY - Len(wire)

WriterOpen == tx.pc # "closed"
ReaderOpen == rx.pc # "closed"

\* Positions and buffers stay within what was asked for, the kernel's buffer
\* within its capacity.
TypeOK ==
    /\ call \in [out : {"xwrite", "write_in_full", "send_in_full"},
                 in : {"xread", "read_in_full"}, len : 1 .. LEN, size : 1 .. SIZE]
    /\ wire \in Seq(1 .. LEN) /\ Len(wire) <= CAPACITY
    /\ tx \in [pc : {"call", "poll", "returned", "closed"}, pos : 0 .. Total,
              ret : {Failed, Pending} \cup 1 .. Total]
    /\ rx \in [pc : {"call", "poll", "returned", "closed"}, buf : Seq(1 .. LEN),
              ret : {Failed, Pending} \cup 0 .. Want]
    /\ Len(rx.buf) <= Want
    /\ got \in Seq(1 .. LEN) /\ Len(got) <= call.len
    /\ signals \in 0 .. SIGNALS

-----------------------------------------------------------------------------
Init ==
    /\ call \in [out : {"xwrite", "write_in_full", "send_in_full"},
                 in : {"xread", "read_in_full"}, len : 1 .. LEN, size : 1 .. SIZE]
    /\ wire = <<>>
    /\ tx = [pc |-> "call", pos |-> 0, ret |-> Pending]
    /\ rx = [pc |-> "call", buf |-> <<>>, ret |-> Pending]
    /\ got = <<>>
    /\ signals = SIGNALS

(* The writer.                                                             *)

WriterStays == UNCHANGED <<call, rx, got, signals>>

\* The kernel takes n of the bytes that are left; xwrite is content with that.
Send(n) ==
    /\ tx.pc = "call"
    /\ ReaderOpen
    /\ n \in 1 .. Least(Room, Total - tx.pos)
    /\ wire' = wire \o SubSeq(Message, tx.pos + 1, tx.pos + n)
    /\ LET pos == tx.pos + n
           done == call.out = "xwrite" \/ pos = Total
       IN  tx' = [pc |-> IF done THEN "returned" ELSE "call", pos |-> pos,
                  ret |-> IF done THEN pos ELSE Pending]
    /\ WriterStays

\* EAGAIN: poll until there is room again.
SendBlocks ==
    /\ tx.pc = "call"
    /\ ReaderOpen
    /\ Room = 0
    /\ tx' = [tx EXCEPT !.pc = "poll"]
    /\ UNCHANGED wire /\ WriterStays

\* Mutant: poll does not report that the reader is gone.
SendWakesForRoom ==
    /\ tx.pc = "poll"
    /\ ReaderOpen /\ Room > 0
    /\ tx' = [tx EXCEPT !.pc = "call"]
    /\ UNCHANGED wire /\ WriterStays

SendWakes ==
    /\ tx.pc = "poll"
    /\ Room > 0 \/ ~ReaderOpen
    /\ tx' = [tx EXCEPT !.pc = "call"]
    /\ UNCHANGED wire /\ WriterStays

\* EPIPE, and but for MSG_NOSIGNAL the SIGPIPE that ends the program.
SendFails ==
    /\ tx.pc = "call"
    /\ ~ReaderOpen
    /\ tx' = IF call.out = "send_in_full" THEN [tx EXCEPT !.pc = "returned", !.ret = Failed]
             ELSE [tx EXCEPT !.pc = "closed"]
    /\ UNCHANGED wire /\ WriterStays

\* Mutant: a signal makes the wrapper give up.
SendInterruptedGivesUp ==
    /\ tx.pc \in {"call", "poll"}
    /\ signals > 0
    /\ signals' = signals - 1
    /\ tx' = [tx EXCEPT !.pc = "returned", !.ret = Failed]
    /\ UNCHANGED <<call, wire, rx, got>>

\* EINTR, in the call or in poll: try again.
SendInterrupted ==
    /\ tx.pc \in {"call", "poll"}
    /\ signals > 0
    /\ signals' = signals - 1
    /\ tx' = [tx EXCEPT !.pc = "call"]
    /\ UNCHANGED <<call, wire, rx, got>>

HangUp ==
    /\ tx.pc = "returned"
    /\ tx' = [tx EXCEPT !.pc = "closed"]
    /\ UNCHANGED wire /\ WriterStays

\* The writer is killed in the middle of a call.
WriterDies ==
    /\ tx.pc \in {"call", "poll"}
    /\ tx' = [tx EXCEPT !.pc = "closed"]
    /\ UNCHANGED wire /\ WriterStays

(* The reader.                                                             *)

ReaderStays == UNCHANGED <<call, tx, got, signals>>

\* Mutant: every try stores at the beginning of the buffer.
ReadToStart(n) ==
    /\ rx.pc = "call"
    /\ n \in 1 .. Least(Len(wire), Want - Len(rx.buf))
    /\ wire' = SubSeq(wire, n + 1, Len(wire))
    /\ LET buf == SubSeq(wire, 1, n)
           done == call.in = "xread" \/ Len(rx.buf) + n = Want
       IN  rx' = [pc |-> IF done THEN "returned" ELSE "call", buf |-> buf,
                  ret |-> IF done THEN Len(buf) ELSE Pending]
    /\ ReaderStays

\* The kernel hands out n of the bytes it has; xread is content with that.
Read(n) ==
    /\ rx.pc = "call"
    /\ n \in 1 .. Least(Len(wire), Want - Len(rx.buf))
    /\ wire' = SubSeq(wire, n + 1, Len(wire))
    /\ LET buf == rx.buf \o SubSeq(wire, 1, n)
           done == call.in = "xread" \/ Len(buf) = Want
       IN  rx' = [pc |-> IF done THEN "returned" ELSE "call", buf |-> buf,
                  ret |-> IF done THEN Len(buf) ELSE Pending]
    /\ ReaderStays

ReadBlocks ==
    /\ rx.pc = "call"
    /\ wire = <<>> /\ WriterOpen
    /\ rx' = [rx EXCEPT !.pc = "poll"]
    /\ UNCHANGED wire /\ ReaderStays

ReadWakes ==
    /\ rx.pc = "poll"
    /\ wire # <<>> \/ ~WriterOpen
    /\ rx' = [rx EXCEPT !.pc = "call"]
    /\ UNCHANGED wire /\ ReaderStays

\* Mutant: an empty buffer is taken for the end of the stream.
ReadEndsOnEmpty ==
    /\ rx.pc = "call"
    /\ wire = <<>>
    /\ rx' = [rx EXCEPT !.pc = "returned", !.ret = Len(rx.buf)]
    /\ UNCHANGED wire /\ ReaderStays

\* The end of the stream: what was read so far, if anything, is returned.
ReadEnds ==
    /\ rx.pc = "call"
    /\ wire = <<>> /\ ~WriterOpen
    /\ rx' = [rx EXCEPT !.pc = "returned", !.ret = Len(rx.buf)]
    /\ UNCHANGED wire /\ ReaderStays

\* ECONNRESET in its stead, if the writer left something unread behind.
ReadFails ==
    /\ rx.pc = "call"
    /\ wire = <<>> /\ ~WriterOpen
    /\ rx' = [rx EXCEPT !.pc = "returned", !.ret = Failed]
    /\ UNCHANGED wire /\ ReaderStays

ReadInterrupted ==
    /\ rx.pc \in {"call", "poll"}
    /\ signals > 0
    /\ signals' = signals - 1
    /\ rx' = [rx EXCEPT !.pc = "call"]
    /\ UNCHANGED <<call, wire, tx, got>>

\* The reader uses what it was returned, and calls again, until the end or a failure.
Consume ==
    /\ rx.pc = "returned"
    /\ IF rx.ret > 0
       THEN got' = got \o rx.buf /\ rx' = [pc |-> "call", buf |-> <<>>, ret |-> Pending]
       ELSE rx' = [rx EXCEPT !.pc = "closed", !.buf = <<>>] /\ UNCHANGED got
    /\ UNCHANGED <<call, wire, tx, signals>>

\* The reader goes away without having read everything.
ReaderLeaves ==
    /\ rx.pc # "closed"
    /\ rx' = [rx EXCEPT !.pc = "closed", !.buf = <<>>, !.ret = Failed]
    /\ wire' = <<>>
    /\ ReaderStays

-----------------------------------------------------------------------------
Writing == SendBlocks \/ SendWakes \/ SendFails \/ HangUp \/ \E n \in 1 .. LEN : Send(n)

Reading == ReadBlocks \/ ReadWakes \/ ReadEnds \/ ReadFails \/ Consume \/ \E n \in 1 .. SIZE : Read(n)

Done == tx.pc = "closed" /\ rx.pc = "closed" /\ UNCHANGED vars

Next ==
    \/ Writing \/ SendInterrupted \/ WriterDies
    \/ Reading \/ ReadInterrupted \/ ReaderLeaves
    \/ Done

Spec == Init /\ [][Next]_vars

\* Both ends run; the reader keeps reading (as kfmon-ipc does, whose loop polls the
\* socket as long as it runs), and the writer hangs up when it is done.
FairSpec == Spec /\ WF_vars(Writing) /\ WF_vars(Reading)

-----------------------------------------------------------------------------
(* Properties.                                                             *)

\* What the reader got, what it is being handed and what the kernel holds make up
\* the beginning of the message, up to where the writer is: no short transfer, no
\* retry and no signal loses or repeats a byte.
NothingLostOrRepeated ==
    ReaderOpen /\ rx.ret # Failed => got \o rx.buf \o wire = SubSeq(Message, 1, tx.pos)

\* The wrappers that transfer in full return all that was asked for, or a failure;
\* read_in_full returns less only at the end of the stream.
InFullMeansAll ==
    /\ tx.ret >= 0 => tx.ret = tx.pos /\ (call.out # "xwrite" => tx.ret = Total)
    /\ call.in = "read_in_full" /\ rx.pc = "returned" /\ rx.ret \in 0 .. Want - 1 => ~WriterOpen

\* The wrapper returns: a writer is never left behind in poll, whether the reader
\* makes room or goes away.
SendReturns == <>(tx.pc \in {"returned", "closed"})

\* What was said to be sent is received, unless the reader leaves.
SentIsReceived ==
    tx.ret > 0 ~> (got = SubSeq(Message, 1, tx.ret) \/ rx.ret = Failed)

(* The inductive invariant behind the safety properties.                   *)

\* What the writer's place says of its position and its result.
WriterInv ==
    /\ tx.pc \in {"call", "poll"} => tx.ret = Pending /\ tx.pos < Total
    /\ tx.pc = "returned" => tx.ret # Pending
    /\ tx.ret >= 0 => tx.ret = tx.pos /\ (call.out # "xwrite" => tx.ret = Total)

\* The same for the reader: a result short of what was asked for means the end.
ReaderInv ==
    /\ rx.pc \in {"call", "poll"} => rx.ret = Pending /\ Len(rx.buf) < Want
    /\ rx.pc = "returned" /\ rx.ret # Failed =>
          /\ rx.ret = Len(rx.buf)
          /\ rx.ret = 0 \/ (call.in = "read_in_full" /\ rx.ret < Want) =>
                ~WriterOpen /\ wire = <<>>

\* These bytes are the ones of the message that come after its first a.
After(a, bytes) == \A k \in 1 .. Len(bytes) : bytes[k] = a + k

\* Where each byte is, the reader's share first.
ContentInv ==
    /\ Len(got) <= tx.pos /\ After(0, got)
    /\ ReaderOpen =>
          /\ Len(got) + Len(rx.buf) + Len(wire) = tx.pos
          /\ After(Len(got), rx.buf)
          /\ After(Len(got) + Len(rx.buf), wire)

TransferInv == TypeOK /\ WriterInv /\ ReaderInv /\ ContentInv

\* The stream as the ends see it.
S == INSTANCE Stream WITH
        message <- Message,
        received <- got,
        result <- IF tx.pc = "closed" /\ tx.ret = Pending THEN -3 ELSE tx.ret,
        reader <- IF rx.pc # "closed" THEN "reading"
                  ELSE IF rx.ret = 0 THEN "ended" ELSE "left"

\* A transfer with these wrappers delivers the message in order, once, and tells
\* the writer the truth about it.
ImplementsStream == S!Spec
=============================================================================
