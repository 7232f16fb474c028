--------------------------- MODULE Transfer_proofs ---------------------------
(***************************************************************************)
(* Theorems about Transfer, for messages, buffers and short transfers of   *)
(* any size and any number of signals.                                     *)
(***************************************************************************)
EXTENDS Transfer, SequenceTheorems, TLAPS

LEMMA Constants ==
    /\ LEN \in Nat /\ LEN >= 1 /\ SIZE \in Nat /\ SIZE >= 1 /\ CAPACITY \in Nat
    /\ MAX_IO_BUFSIZ \in Nat /\ MAX_IO_BUFSIZ >= 1 /\ SIGNALS \in Nat
  BY SizesAssumption

\* What a call may transfer is something, and no more than what was asked for.
LEMMA Sizes ==
    ASSUME TypeOK
    PROVE  /\ call.len \in Nat /\ 1 <= call.len /\ call.len <= LEN /\ LEN \in Nat
           /\ Total \in Nat /\ 1 <= Total /\ Total <= call.len
           /\ Want \in Nat /\ 1 <= Want
           /\ Len(wire) \in Nat /\ Len(rx.buf) \in Nat /\ Len(got) \in Nat
           /\ Room \in Int /\ Room = CAPACITY - Len(wire) /\ CAPACITY \in Nat
           /\ tx.pos \in Nat /\ tx.pos <= Total /\ tx.ret \in Int /\ rx.ret \in Int
<1>1. call.len \in 1 .. LEN /\ call.size \in 1 .. SIZE
  BY DEF TypeOK
<1>2. /\ Total \in Nat /\ 1 <= Total /\ Total <= call.len
      /\ Want \in Nat /\ 1 <= Want /\ Want <= call.size
  BY <1>1, Constants DEF Total, Want, Clamp, Least
<1>3. wire \in Seq(1 .. LEN) /\ rx.buf \in Seq(1 .. LEN) /\ got \in Seq(1 .. LEN)
  BY DEF TypeOK
<1>4. Len(wire) \in Nat /\ Len(rx.buf) \in Nat /\ Len(got) \in Nat
  BY <1>3, LenProperties
<1>5. tx.pos \in 0 .. Total /\ tx.ret \in {Failed, Pending} \cup 1 .. Total
      /\ rx.ret \in {Failed, Pending} \cup 0 .. Want
  BY DEF TypeOK
<1>6. QED
  BY <1>1, <1>2, <1>4, <1>5, Constants DEF Room, Failed, Pending

\* The message, byte by byte.
LEMMA MessageIsSeq ==
    ASSUME call.len \in Nat, LEN \in Nat, call.len <= LEN
    PROVE  Message \in Seq(1 .. LEN) /\ Len(Message) = call.len
<1>1. \A k \in 1 .. call.len : k \in 1 .. LEN
  OBVIOUS
<1>2. Message \in [1 .. call.len -> 1 .. LEN]
  BY <1>1 DEF Message
<1>3. Message \in Seq(1 .. LEN)
  BY <1>2, SeqDef
<1>4. DOMAIN Message = 1 .. call.len /\ DOMAIN Message = 1 .. Len(Message) /\ Len(Message) \in Nat
  BY <1>3, LenProperties DEF Message
<1>5. QED
  BY <1>3, <1>4

\* A piece of it.
LEMMA MessageFacts ==
    ASSUME NEW a \in Nat, NEW b \in Nat, a <= b, b <= call.len,
           call.len \in Nat, LEN \in Nat, call.len <= LEN
    PROVE  /\ SubSeq(Message, a + 1, b) \in Seq(1 .. LEN)
           /\ Len(SubSeq(Message, a + 1, b)) = b - a
           /\ After(a, SubSeq(Message, a + 1, b))
<1>1. \A k \in 1 .. call.len : Message[k] = k
  BY DEF Message
<1>2. \A k \in a + 1 .. b : Message[k] \in 1 .. LEN
  BY <1>1
<1>3. /\ SubSeq(Message, a + 1, b) \in Seq(1 .. LEN)
      /\ Len(SubSeq(Message, a + 1, b)) = IF a + 1 <= b THEN b - (a + 1) + 1 ELSE 0
      /\ \A k \in 1 .. b - (a + 1) + 1 : SubSeq(Message, a + 1, b)[k] = Message[a + 1 + k - 1]
  BY <1>2, SubSeqProperties
<1>4. Len(SubSeq(Message, a + 1, b)) = b - a
  BY <1>3
<1>5. \A k \in 1 .. b - a : SubSeq(Message, a + 1, b)[k] = a + k
  BY <1>1, <1>3
<1>6. QED
  BY <1>3, <1>4, <1>5 DEF After

\* The two ends of a sequence that is cut in two.
LEMMA CutFacts ==
    ASSUME NEW D, NEW s \in Seq(D), NEW n \in Nat, 1 <= n, n <= Len(s),
           NEW a \in Nat, After(a, s)
    PROVE  /\ SubSeq(s, 1, n) \in Seq(D) /\ Len(SubSeq(s, 1, n)) = n
           /\ After(a, SubSeq(s, 1, n))
           /\ SubSeq(s, n + 1, Len(s)) \in Seq(D) /\ Len(SubSeq(s, n + 1, Len(s))) = Len(s) - n
           /\ After(a + n, SubSeq(s, n + 1, Len(s)))
<1>1. Len(s) \in Nat /\ \A k \in 1 .. Len(s) : s[k] \in D
  BY LenProperties, ElementOfSeq
<1>2. /\ SubSeq(s, 1, n) \in Seq(D) /\ Len(SubSeq(s, 1, n)) = IF 1 <= n THEN n - 1 + 1 ELSE 0
      /\ \A k \in 1 .. n - 1 + 1 : SubSeq(s, 1, n)[k] = s[1 + k - 1]
  BY <1>1, SubSeqProperties
<1>3. \A k \in n + 1 .. Len(s) : s[k] \in D
  BY <1>1
<1>4. /\ SubSeq(s, n + 1, Len(s)) \in Seq(D)
      /\ Len(SubSeq(s, n + 1, Len(s))) = IF n + 1 <= Len(s) THEN Len(s) - (n + 1) + 1 ELSE 0
      /\ \A k \in 1 .. Len(s) - (n + 1) + 1 : SubSeq(s, n + 1, Len(s))[k] = s[n + 1 + k - 1]
  BY <1>1, <1>3, SubSeqProperties
<1>5. Len(SubSeq(s, 1, n)) = n /\ Len(SubSeq(s, n + 1, Len(s))) = Len(s) - n
  BY <1>1, <1>2, <1>4
<1>6. \A k \in 1 .. n : SubSeq(s, 1, n)[k] = a + k
  BY <1>1, <1>2 DEF After
<1>7. ASSUME NEW k \in 1 .. Len(s) - n PROVE SubSeq(s, n + 1, Len(s))[k] = (a + n) + k
  <2>1. n + k \in 1 .. Len(s)
    BY <1>1
  <2>2. s[n + k] = a + (n + k)
    BY <2>1 DEF After
  <2>3. SubSeq(s, n + 1, Len(s))[k] = s[n + k]
    BY <1>1, <1>4
  <2>4. k \in Int
    OBVIOUS
  <2>5. QED
    BY <2>2, <2>3, <2>4
<1>8. QED
  BY <1>2, <1>4, <1>5, <1>6, <1>7 DEF After

\* Bytes that are where they belong, when more of them are appended.
LEMMA AppendFacts ==
    ASSUME NEW D, NEW s \in Seq(D), NEW t \in Seq(D), NEW a \in Nat, NEW b \in Nat,
           b = a + Len(s), After(a, s), After(b, t)
    PROVE  /\ s \o t \in Seq(D) /\ Len(s \o t) = Len(s) + Len(t)
           /\ After(a, s \o t)
<1>1. Len(s) \in Nat /\ Len(t) \in Nat
  BY LenProperties
<1>2. /\ s \o t \in Seq(D) /\ Len(s \o t) = Len(s) + Len(t)
      /\ \A k \in 1 .. Len(s) + Len(t) : (s \o t)[k] = IF k <= Len(s) THEN s[k] ELSE t[k - Len(s)]
  BY ConcatProperties
<1>3. ASSUME NEW k \in 1 .. Len(s) + Len(t) PROVE (s \o t)[k] = a + k
  <2>1. CASE k <= Len(s)
    BY <1>1, <1>2, <2>1 DEF After
  <2>2. CASE ~(k <= Len(s))
    <3>1. k - Len(s) \in 1 .. Len(t)
      BY <1>1, <2>2
    <3>2. t[k - Len(s)] = b + (k - Len(s))
      BY <3>1 DEF After
    <3>3. QED
      BY <1>1, <1>2, <2>2, <3>2
  <2>3. QED
    BY <2>1, <2>2
<1>4. QED
  BY <1>2, <1>3 DEF After

LEMMA TransferInvInit == Init => TransferInv
<1> SUFFICES ASSUME Init PROVE TransferInv
  OBVIOUS
<1>1. call.len \in 1 .. LEN /\ call.size \in 1 .. SIZE
  BY DEF Init
<1>2. Total \in Nat /\ 1 <= Total /\ Want \in Nat /\ 1 <= Want
  BY <1>1, Constants DEF Total, Want, Clamp, Least
<1>3. <<>> \in Seq(1 .. LEN) /\ Len(<<>>) = 0
  BY EmptySeq
<1>4. tx.pos = 0 /\ tx.ret = Pending /\ tx.pc = "call" /\ got = <<>> /\ wire = <<>>
      /\ rx.pc = "call" /\ rx.buf = <<>> /\ rx.ret = Pending
  BY DEF Init
<1>5. TypeOK
  BY <1>1, <1>2, <1>3, Constants DEF Init, TypeOK
<1>6. WriterInv /\ ReaderInv
  BY <1>2, <1>3, <1>4 DEF WriterInv, ReaderInv, Pending
<1>7. ContentInv
  BY <1>3, <1>4 DEF ContentInv, After
<1>8. QED
  BY <1>5, <1>6, <1>7 DEF TransferInv

-----------------------------------------------------------------------------
(* One lemma for each step that moves bytes.                               *)

LEMMA SendKeeps ==
    ASSUME TransferInv, NEW n, Send(n)
    PROVE  TransferInv'
<1> USE DEF TransferInv
<1>1. /\ call.len \in Nat /\ call.len <= LEN /\ LEN \in Nat
      /\ tx.pos \in Nat /\ Total \in Nat /\ Total <= call.len
  BY Sizes
<1>2. /\ Len(wire) \in Nat /\ Len(rx.buf) \in Nat /\ Len(got) \in Nat
      /\ Room \in Int /\ Room = CAPACITY - Len(wire) /\ CAPACITY \in Nat
  BY Sizes
<1>3. tx.pc = "call" /\ ReaderOpen /\ n \in 1 .. Least(Room, Total - tx.pos)
  BY DEF Send
<1>4. n \in Nat /\ 1 <= n /\ n <= Room /\ n <= Total - tx.pos
  BY <1>1, <1>2, <1>3 DEF Least
<1>5. tx.pos + n \in Nat /\ tx.pos <= tx.pos + n /\ tx.pos + n <= Total /\ tx.pos + n <= call.len
      /\ (tx.pos + n) - tx.pos = n
  BY <1>1, <1>4
<1> DEFINE bytes == SubSeq(Message, tx.pos + 1, tx.pos + n)
<1>6. /\ bytes \in Seq(1 .. LEN) /\ Len(bytes) = n
      /\ After(tx.pos, bytes)
  BY <1>1, <1>5, MessageFacts
<1>7. wire \in Seq(1 .. LEN) /\ wire' = wire \o bytes
  BY DEF Send, TypeOK
<1> HIDE DEF bytes
<1>8. /\ Len(got) + Len(rx.buf) + Len(wire) = tx.pos
      /\ After(0, got) /\ After(Len(got), rx.buf) /\ After(Len(got) + Len(rx.buf), wire)
  BY <1>3 DEF ContentInv
<1>9. Len(got) + Len(rx.buf) \in Nat
  BY <1>2
<1>10. /\ wire' \in Seq(1 .. LEN) /\ Len(wire') = Len(wire) + n
       /\ After(Len(got) + Len(rx.buf), wire')
  BY <1>1, <1>6, <1>7, <1>8, <1>9, AppendFacts
<1>11. /\ tx'.pos = tx.pos + n
       /\ \/ tx'.pc = "call" /\ tx'.ret = Pending /\ tx'.pos # Total
          \/ tx'.pc = "returned" /\ tx'.ret = tx'.pos /\ (call.out # "xwrite" => tx'.pos = Total)
       /\ tx' \in [pc : {"call", "returned"}, pos : {tx.pos + n}, ret : {Pending, tx.pos + n}]
       /\ UNCHANGED <<call, rx, got, signals>>
  BY DEF Send, WriterStays
<1>12. Total' = Total /\ Want' = Want
  BY <1>11 DEF Total, Want
<1>13. Len(wire') <= CAPACITY
  BY <1>2, <1>4, <1>10
<1>14. TypeOK'
  <2>1. tx.pos + n \in 0 .. Total /\ tx.pos + n \in 1 .. Total
    BY <1>1, <1>4, <1>5
  <2>2. tx' \in [pc : {"call", "poll", "returned", "closed"}, pos : 0 .. Total,
                 ret : {Failed, Pending} \cup 1 .. Total]
    BY <1>11, <2>1
  <2>3. QED
    BY <1>10, <1>11, <1>12, <1>13, <2>2 DEF TypeOK
<1>15. WriterInv'
  <2>1. tx'.pos \in Nat /\ tx'.pos <= Total /\ 1 <= tx'.pos
    BY <1>1, <1>4, <1>5, <1>11
  <2>2. QED
    BY <1>1, <1>11, <1>12, <2>1 DEF WriterInv, Pending
<1>16. ReaderInv'
  BY <1>3, <1>11, <1>12 DEF ReaderInv, WriterOpen
<1>17. ContentInv'
  <2>1. Len(got) + Len(rx.buf) + Len(wire') = tx'.pos /\ Len(got) <= tx'.pos
    <3> DEFINE g == Len(got)
               b == Len(rx.buf)
               w == Len(wire)
    <3>1. Len(wire') = w + n /\ tx'.pos = tx.pos + n /\ n \in Nat
      BY <1>4, <1>10, <1>11
    <3>2. g + b + w = tx.pos /\ g \in Nat /\ b \in Nat /\ w \in Nat
      BY <1>2, <1>8
    <3> HIDE DEF g, b, w
    <3>3. g + b + (w + n) = tx.pos + n /\ g <= tx.pos + n
      BY <3>1, <3>2
    <3>4. QED
      BY <3>1, <3>3 DEF g, b
  <2>2. QED
    BY <1>8, <1>10, <1>11, <2>1 DEF ContentInv, ReaderOpen
<1>18. QED
  BY <1>14, <1>15, <1>16, <1>17

LEMMA ReadKeeps ==
    ASSUME TransferInv, NEW n, Read(n)
    PROVE  TransferInv'
<1> USE DEF TransferInv
<1>1. /\ Len(wire) \in Nat /\ Len(rx.buf) \in Nat /\ Len(got) \in Nat /\ tx.pos \in Nat
      /\ Want \in Nat /\ CAPACITY \in Nat
  BY Sizes
<1>2. /\ rx.pc = "call" /\ ReaderOpen /\ n \in 1 .. Least(Len(wire), Want - Len(rx.buf))
      /\ wire \in Seq(1 .. LEN) /\ rx.buf \in Seq(1 .. LEN)
  BY DEF Read, TypeOK, ReaderOpen
<1>3. n \in Nat /\ 1 <= n /\ n <= Len(wire) /\ n <= Want - Len(rx.buf)
  BY <1>1, <1>2 DEF Least
<1> DEFINE taken == SubSeq(wire, 1, n)
           kept  == SubSeq(wire, n + 1, Len(wire))
           buf   == rx.buf \o taken
<1>4. /\ Len(got) + Len(rx.buf) + Len(wire) = tx.pos /\ Len(got) <= tx.pos
      /\ After(0, got) /\ After(Len(got), rx.buf) /\ After(Len(got) + Len(rx.buf), wire)
      /\ Len(got) + Len(rx.buf) \in Nat
  BY <1>1, <1>2 DEF ContentInv
<1>5. /\ wire' = kept /\ rx'.buf = buf
      /\ \/ rx'.pc = "call" /\ rx'.ret = Pending /\ Len(buf) # Want
         \/ rx'.pc = "returned" /\ rx'.ret = Len(buf) /\ (call.in # "xread" => Len(buf) = Want)
      /\ rx' \in [pc : {"call", "returned"}, buf : {buf}, ret : {Pending, Len(buf)}]
      /\ UNCHANGED <<call, tx, got, signals>>
  BY <1>2 DEF Read, ReaderStays, ReaderInv
<1>6. /\ taken \in Seq(1 .. LEN) /\ Len(taken) = n /\ After(Len(got) + Len(rx.buf), taken)
      /\ kept \in Seq(1 .. LEN) /\ Len(kept) = Len(wire) - n
      /\ After(Len(got) + Len(rx.buf) + n, kept)
  BY <1>2, <1>3, <1>4, CutFacts, ZenonT(60)
<1> HIDE DEF taken, kept
<1>7. buf \in Seq(1 .. LEN) /\ Len(buf) = Len(rx.buf) + Len(taken) /\ After(Len(got), buf)
  BY <1>1, <1>2, <1>4, <1>6, AppendFacts
<1> HIDE DEF buf
<1>8. Len(buf) = Len(rx.buf) + n
  BY <1>6, <1>7
<1>9. Len(got) + Len(buf) = Len(got) + Len(rx.buf) + n
  BY <1>1, <1>3, <1>8
<1>10. Total' = Total /\ Want' = Want
  BY <1>5 DEF Total, Want
<1>11. Len(buf) \in Nat /\ Len(buf) <= Want /\ 1 <= Len(buf)
  BY <1>1, <1>3, <1>8
<1>12. TypeOK'
  <2>1. Len(buf) \in 0 .. Want
    BY <1>1, <1>11
  <2>2. rx' \in [pc : {"call", "poll", "returned", "closed"}, buf : Seq(1 .. LEN),
                 ret : {Failed, Pending} \cup 0 .. Want]
    BY <1>5, <1>7, <2>1
  <2>3. Len(kept) <= CAPACITY
    <3>1. Len(wire) <= CAPACITY
      BY DEF TypeOK
    <3>2. QED
      BY <1>1, <1>3, <1>6, <3>1
  <2>4. Len(rx'.buf) <= Want
    BY <1>5, <1>11
  <2>5. QED
    BY <1>5, <1>6, <1>10, <2>2, <2>3, <2>4 DEF TypeOK
<1>13. WriterInv'
  BY <1>5, <1>10 DEF WriterInv
<1>14. ReaderInv'
  <2>1. CASE rx'.pc = "call"
    BY <1>1, <1>5, <1>10, <1>11, <2>1 DEF ReaderInv
  <2>2. CASE rx'.pc = "returned"
    <3>1. rx'.ret = Len(rx'.buf) /\ rx'.ret # 0 /\ (call.in = "read_in_full" => rx'.ret = Want)
      BY <1>5, <1>11, <2>2
    <3>2. ~(rx'.ret = 0 \/ (call.in = "read_in_full" /\ rx'.ret < Want))
      BY <1>1, <3>1
    <3>3. QED
      BY <1>5, <1>10, <2>2, <3>1, <3>2 DEF ReaderInv
  <2>3. QED
    BY <1>5, <2>1, <2>2
<1>15. ContentInv'
  <2>1. Len(got) + Len(buf) + Len(kept) = tx.pos
    <3>1. Len(got) \in Nat /\ Len(rx.buf) \in Nat /\ Len(wire) \in Nat /\ n \in Nat
      BY <1>1, <1>3
    <3>2. Len(got) + Len(rx.buf) + Len(wire) = tx.pos
      BY <1>4
    <3>3. Len(buf) = Len(rx.buf) + n /\ Len(kept) = Len(wire) - n
      BY <1>6, <1>8
    <3> HIDE DEF TransferInv
    <3>4. QED
      BY <3>1, <3>2, <3>3
  <2>2. QED
    BY <1>4, <1>5, <1>6, <1>7, <1>9, <2>1 DEF ContentInv, ReaderOpen
<1>16. QED
  BY <1>12, <1>13, <1>14, <1>15

LEMMA ConsumeKeeps ==
    ASSUME TransferInv, Consume
    PROVE  TransferInv'
<1> USE DEF TransferInv
<1>1. /\ rx.pc = "returned" /\ ReaderOpen
      /\ got \in Seq(1 .. LEN) /\ rx.buf \in Seq(1 .. LEN)
      /\ UNCHANGED <<call, wire, tx, signals>>
  BY DEF Consume, TypeOK, ReaderOpen
<1>2. Total' = Total /\ Want' = Want
  BY <1>1 DEF Total, Want
<1>3. <<>> \in Seq(1 .. LEN) /\ Len(<<>>) = 0
  BY EmptySeq
<1>4. /\ Len(wire) \in Nat /\ Len(rx.buf) \in Nat /\ Len(got) \in Nat /\ tx.pos \in Nat
      /\ Total \in Nat /\ Total <= call.len /\ tx.pos <= Total /\ call.len \in Nat
      /\ Want \in Nat /\ 1 <= Want /\ rx.ret \in Int
  BY Sizes
<1>5. /\ Len(got) + Len(rx.buf) + Len(wire) = tx.pos /\ Len(got) <= tx.pos
      /\ After(0, got) /\ After(Len(got), rx.buf) /\ After(Len(got) + Len(rx.buf), wire)
  BY <1>1, <1>4 DEF ContentInv
<1>6. WriterInv'
  BY <1>1, <1>2 DEF WriterInv
<1>7. CASE rx.ret > 0
  <2>1. got' = got \o rx.buf /\ rx' = [pc |-> "call", buf |-> <<>>, ret |-> Pending]
    BY <1>7 DEF Consume
  <2>2. /\ got' \in Seq(1 .. LEN) /\ Len(got') = Len(got) + Len(rx.buf)
        /\ After(0, got')
    BY <1>1, <1>4, <1>5, <2>1, AppendFacts
  <2>3. rx'.pc = "call" /\ rx'.buf = <<>> /\ rx'.ret = Pending /\ Len(rx'.buf) = 0
    BY <1>3, <2>1
  <2>4. Len(got') <= tx.pos /\ Len(got') <= call.len /\ Len(got') \in Nat
    BY <1>4, <1>5, <2>2
  <2>5. TypeOK'
    <3>1. rx' \in [pc : {"call", "poll", "returned", "closed"}, buf : Seq(1 .. LEN),
                   ret : {Failed, Pending} \cup 0 .. Want]
      BY <1>3, <2>1
    <3>2. Len(rx'.buf) <= Want
      BY <1>4, <2>3
    <3>3. QED
      BY <1>1, <1>2, <2>2, <2>4, <3>1, <3>2 DEF TypeOK
  <2>6. ReaderInv'
    BY <1>2, <1>4, <2>3 DEF ReaderInv
  <2>7. ContentInv'
    <3>1. Len(got') + Len(rx'.buf) = Len(got) + Len(rx.buf)
      BY <1>4, <2>2, <2>3
    <3>2. After(Len(got'), rx'.buf)
      BY <2>3 DEF After
    <3>3. QED
      BY <1>1, <1>5, <2>2, <2>4, <3>1, <3>2 DEF ContentInv
  <2>8. QED
    BY <1>6, <2>5, <2>6, <2>7
<1>8. CASE ~(rx.ret > 0)
  <2>1. rx' = [rx EXCEPT !.pc = "closed", !.buf = <<>>] /\ got' = got
    BY <1>8 DEF Consume
  <2>2. rx' \in [pc : {"call", "poll", "returned", "closed"}, buf : Seq(1 .. LEN),
                 ret : {Failed, Pending} \cup 0 .. Want]
        /\ rx'.pc = "closed" /\ rx'.buf = <<>>
    BY <1>3, <2>1 DEF TypeOK
  <2>3. Len(rx'.buf) <= Want
    BY <1>3, <1>4, <2>2
  <2>4. TypeOK'
    BY <1>1, <1>2, <2>1, <2>2, <2>3 DEF TypeOK
  <2>5. ReaderInv' /\ ContentInv'
    BY <1>1, <2>1, <2>2 DEF ReaderInv, ContentInv, ReaderOpen
  <2>6. QED
    BY <1>6, <2>4, <2>5
<1>9. QED
  BY <1>7, <1>8

-----------------------------------------------------------------------------
LEMMA TransferInvNext == TransferInv /\ [Next]_vars => TransferInv'
<1> SUFFICES ASSUME TransferInv, [Next]_vars PROVE TransferInv'
  OBVIOUS
<1>1. ASSUME NEW n \in 1 .. LEN, Send(n) PROVE TransferInv'
  BY <1>1, SendKeeps
<1>2. ASSUME NEW n \in 1 .. SIZE, Read(n) PROVE TransferInv'
  BY <1>2, ReadKeeps
<1>3. CASE Consume
  BY <1>3, ConsumeKeeps
<1>4. CASE SendBlocks \/ SendWakes \/ SendFails \/ SendInterrupted \/ HangUp \/ WriterDies
  <2>1. /\ tx'.pc \in {"call", "poll", "returned", "closed"} /\ tx'.pos = tx.pos
        /\ tx'.pc \in {"call", "poll"} => tx.pc \in {"call", "poll"} /\ tx'.ret = tx.ret
        /\ tx'.ret = tx.ret \/ tx'.ret = Failed
        /\ tx'.pc = "returned" => tx'.ret = Failed
        /\ tx.pc # "closed"
        /\ signals' = signals \/ (signals > 0 /\ signals' = signals - 1)
        /\ UNCHANGED <<call, wire, rx, got>> /\ Total' = Total /\ Want' = Want
    BY <1>4 DEF SendBlocks, SendWakes, SendFails, SendInterrupted, HangUp, WriterDies, WriterStays,
                TransferInv, TypeOK, Total, Want
  <2>2. TypeOK'
    <3>1. tx' \in [pc : {"call", "poll", "returned", "closed"}, pos : 0 .. Total,
                   ret : {Failed, Pending} \cup 1 .. Total]
      <4>1. tx \in [pc : {"call", "poll", "returned", "closed"}, pos : 0 .. Total,
                    ret : {Failed, Pending} \cup 1 .. Total]
        BY DEF TransferInv, TypeOK
      <4>2. \/ \E p \in {"call", "poll", "closed"} : tx' = [tx EXCEPT !.pc = p]
            \/ tx' = [tx EXCEPT !.pc = "returned", !.ret = Failed]
        BY <1>4 DEF SendBlocks, SendWakes, SendFails, SendInterrupted, HangUp, WriterDies
      <4>3. QED
        BY <4>1, <4>2
    <3>2. signals' \in 0 .. SIGNALS
      BY <2>1, Constants DEF TransferInv, TypeOK
    <3>3. QED
      BY <2>1, <3>1, <3>2 DEF TransferInv, TypeOK
  <2>3. WriterInv'
    BY <2>1 DEF TransferInv, WriterInv, Failed, Pending
  <2>4. ReaderInv' /\ ContentInv'
    BY <2>1 DEF TransferInv, ReaderInv, ContentInv, WriterOpen, ReaderOpen
  <2>5. QED
    BY <2>2, <2>3, <2>4 DEF TransferInv
<1>5. CASE ReadBlocks \/ ReadWakes \/ ReadEnds \/ ReadFails \/ ReadInterrupted
  <2>1. /\ rx.pc \in {"call", "poll"} /\ rx'.pc \in {"call", "poll", "returned"} /\ rx'.buf = rx.buf
        /\ rx'.pc \in {"call", "poll"} => rx'.ret = rx.ret
        /\ rx'.pc = "returned" => \/ rx'.ret = Failed
                                  \/ rx'.ret = Len(rx.buf) /\ wire = <<>> /\ ~WriterOpen
        /\ signals' = signals \/ (signals > 0 /\ signals' = signals - 1)
        /\ UNCHANGED <<call, wire, tx, got>> /\ Total' = Total /\ Want' = Want
    BY <1>5 DEF ReadBlocks, ReadWakes, ReadEnds, ReadFails, ReadInterrupted, ReaderStays,
                TransferInv, TypeOK, Total, Want
  <2>2. TypeOK'
    <3>1. rx' \in [pc : {"call", "poll", "returned", "closed"}, buf : Seq(1 .. LEN),
                   ret : {Failed, Pending} \cup 0 .. Want]
      <4>1. rx \in [pc : {"call", "poll", "returned", "closed"}, buf : Seq(1 .. LEN),
                    ret : {Failed, Pending} \cup 0 .. Want]
        BY DEF TransferInv, TypeOK
      <4>2. Len(rx.buf) \in 0 .. Want
        <5>1. Len(rx.buf) \in Nat /\ Len(rx.buf) <= Want /\ Want \in Nat
          BY Sizes DEF TransferInv, TypeOK
        <5>2. QED
          BY <5>1
      <4>3. \/ \E p \in {"call", "poll"} : rx' = [rx EXCEPT !.pc = p]
            \/ rx' = [rx EXCEPT !.pc = "returned", !.ret = Failed]
            \/ rx' = [rx EXCEPT !.pc = "returned", !.ret = Len(rx.buf)]
        BY <1>5 DEF ReadBlocks, ReadWakes, ReadEnds, ReadFails, ReadInterrupted
      <4>4. QED
        BY <4>1, <4>2, <4>3
    <3>2. signals' \in 0 .. SIGNALS
      BY <2>1, Constants DEF TransferInv, TypeOK
    <3>3. QED
      BY <2>1, <3>1, <3>2 DEF TransferInv, TypeOK
  <2>3. ReaderInv'
    BY <2>1, Sizes DEF TransferInv, ReaderInv, WriterOpen, Failed, Pending
  <2>4. WriterInv' /\ ContentInv'
    BY <2>1 DEF TransferInv, WriterInv, ContentInv, ReaderOpen
  <2>5. QED
    BY <2>2, <2>3, <2>4 DEF TransferInv
<1>6. CASE ReaderLeaves
  <2>1. /\ rx'.pc = "closed" /\ rx'.buf = <<>> /\ rx'.ret = Failed /\ wire' = <<>>
        /\ UNCHANGED <<call, tx, got, signals>> /\ Total' = Total /\ Want' = Want
    BY <1>6 DEF ReaderLeaves, ReaderStays, TransferInv, TypeOK, Total, Want
  <2>2. <<>> \in Seq(1 .. LEN) /\ Len(<<>>) = 0
    BY EmptySeq
  <2>3. TypeOK'
    <3>1. rx' \in [pc : {"call", "poll", "returned", "closed"}, buf : Seq(1 .. LEN),
                   ret : {Failed, Pending} \cup 0 .. Want]
      BY <1>6, <2>2 DEF ReaderLeaves, TransferInv, TypeOK
    <3>2. Len(rx'.buf) <= Want /\ Len(wire') <= CAPACITY
      <4>1. Len(rx'.buf) = 0 /\ Len(wire') = 0 /\ Want \in Nat /\ CAPACITY \in Nat
        BY <2>1, <2>2, Sizes DEF TransferInv
      <4>2. QED
        BY <4>1
    <3>3. QED
      BY <2>1, <2>2, <3>1, <3>2 DEF TransferInv, TypeOK
  <2>4. QED
    BY <2>1, <2>3 DEF TransferInv, WriterInv, ReaderInv, ContentInv, ReaderOpen
<1>7. CASE UNCHANGED vars
  BY <1>7 DEF vars, TransferInv, TypeOK, WriterInv, ReaderInv, ContentInv, After, Total, Want, Message,
              WriterOpen, ReaderOpen
<1>8. QED
  BY <1>1, <1>2, <1>3, <1>4, <1>5, <1>6, <1>7 DEF Next, Writing, Reading, Done

LEMMA TransferInvariant == Spec => []TransferInv
  BY TransferInvInit, TransferInvNext, PTL DEF Spec

-----------------------------------------------------------------------------
(* What the wrappers return is true.  The code: the loops of xread, xwrite, *)
(* read_in_full, write_in_full and send_in_full.                            *)
THEOREM ReturnsAreTrue == Spec => []InFullMeansAll
<1>1. TransferInv => InFullMeansAll
  <2> SUFFICES ASSUME TransferInv PROVE InFullMeansAll
    OBVIOUS
  <2>1. tx.ret >= 0 => tx.ret = tx.pos /\ (call.out # "xwrite" => tx.ret = Total)
    BY DEF TransferInv, WriterInv
  <2>2. ASSUME call.in = "read_in_full", rx.pc = "returned", rx.ret \in 0 .. Want - 1
        PROVE  ~WriterOpen
    <3>1. Want \in Nat
      BY Sizes DEF TransferInv
    <3>2. rx.ret # Failed /\ rx.ret < Want
      BY <2>2, <3>1 DEF Failed
    <3>3. QED
      BY <2>2, <3>2 DEF TransferInv, ReaderInv
  <2>3. QED
    BY <2>1, <2>2 DEF InFullMeansAll
<1>2. QED
  BY <1>1, TransferInvariant, PTL

\* The bytes that come first, and no others, are the beginning of the message.
LEMMA Beginning ==
    ASSUME TypeOK, NEW s \in Seq(1 .. LEN), After(0, s), Len(s) <= call.len
    PROVE  s = SubSeq(Message, 1, Len(s))
<1>1. Len(s) \in Nat /\ call.len \in Nat /\ LEN \in Nat /\ call.len <= LEN
      /\ 0 \in Nat /\ 0 <= Len(s)
  BY LenProperties, Sizes
<1>2. /\ SubSeq(Message, 0 + 1, Len(s)) \in Seq(1 .. LEN)
      /\ Len(SubSeq(Message, 0 + 1, Len(s))) = Len(s) - 0
      /\ After(0, SubSeq(Message, 0 + 1, Len(s)))
  BY <1>1, MessageFacts
<1>3. 0 + 1 = 1 /\ Len(s) - 0 = Len(s)
  BY <1>1
<1> DEFINE t == SubSeq(Message, 1, Len(s))
<1>4. t \in Seq(1 .. LEN) /\ Len(t) = Len(s) /\ After(0, t)
  BY <1>2, <1>3
<1> HIDE DEF t
<1>5. \A k \in 1 .. Len(s) : s[k] = t[k]
  BY <1>4 DEF After
<1>6. s = t
  BY <1>4, <1>5, SeqEqual
<1>7. QED
  BY <1>6 DEF t

(* No byte is lost or comes twice, however the calls cut the message up.    *)
(* The code: the buffer pointers and counts of the same loops.              *)
THEOREM StreamStaysWhole == Spec => []NothingLostOrRepeated
<1>1. TransferInv => NothingLostOrRepeated
  <2> SUFFICES ASSUME TransferInv, ReaderOpen
               PROVE  got \o rx.buf \o wire = SubSeq(Message, 1, tx.pos)
    BY DEF NothingLostOrRepeated
  <2>1. TypeOK /\ got \in Seq(1 .. LEN) /\ rx.buf \in Seq(1 .. LEN) /\ wire \in Seq(1 .. LEN)
    BY DEF TransferInv, TypeOK
  <2>2. /\ Len(got) \in Nat /\ Len(rx.buf) \in Nat /\ tx.pos \in Nat /\ 0 \in Nat
        /\ tx.pos <= Total /\ Total <= call.len /\ Total \in Nat /\ call.len \in Nat
    BY <2>1, Sizes
  <2>3. /\ Len(got) + Len(rx.buf) + Len(wire) = tx.pos
        /\ After(0, got) /\ After(Len(got), rx.buf) /\ After(Len(got) + Len(rx.buf), wire)
    BY DEF TransferInv, ContentInv
  <2>4. Len(got) = 0 + Len(got) /\ Len(got) + Len(rx.buf) \in Nat
    BY <2>2
  <2>5. /\ got \o rx.buf \in Seq(1 .. LEN) /\ Len(got \o rx.buf) = Len(got) + Len(rx.buf)
        /\ After(0, got \o rx.buf)
    BY <2>1, <2>2, <2>3, <2>4, AppendFacts
  <2> DEFINE front == got \o rx.buf
  <2>6. /\ front \in Seq(1 .. LEN) /\ After(0, front) /\ Len(front) \in Nat
        /\ Len(front) = 0 + Len(front) /\ After(Len(front), wire)
        /\ Len(front) + Len(wire) = tx.pos
    BY <2>2, <2>3, <2>4, <2>5
  <2> HIDE DEF front
  <2>7. /\ front \o wire \in Seq(1 .. LEN) /\ Len(front \o wire) = Len(front) + Len(wire)
        /\ After(0, front \o wire)
    BY <2>1, <2>2, <2>6, AppendFacts
  <2>8. Len(front \o wire) = tx.pos /\ tx.pos <= call.len
    BY <2>2, <2>6, <2>7
  <2>9. front \o wire = SubSeq(Message, 1, tx.pos)
    BY <2>1, <2>7, <2>8, Beginning
  <2>10. QED
    BY <2>9 DEF front
<1>2. QED
  BY <1>1, TransferInvariant, PTL

-----------------------------------------------------------------------------
LEMMA StreamInit == Init => S!Init
  BY DEF Init, S!Init, S!Pending, Pending

\* What the writer does.
LEMMA WriterRefines ==
    ASSUME TransferInv, Writing \/ SendInterrupted \/ WriterDies
    PROVE  [S!Next]_(S!vars)
<1> DEFINE result == IF tx.pc = "closed" /\ tx.ret = Pending THEN -3 ELSE tx.ret
<1>1. tx.pc \in {"call", "poll"} => tx.ret = Pending
  BY DEF TransferInv, WriterInv
<1>2. ASSUME NEW n, Send(n) PROVE [S!Next]_(S!vars)
  <2>1. UNCHANGED <<call, rx, got>> /\ Message' = Message
    BY <1>2 DEF Send, WriterStays, Message
  <2>2. result = Pending
    BY <1>1, <1>2 DEF Send
  <2>3. CASE tx'.pc = "call" /\ tx'.ret = Pending
    BY <2>1, <2>2, <2>3 DEF S!vars
  <2>4. CASE tx'.pc = "returned" /\ tx'.ret = tx.pos + n
    <3>1. result' = tx.pos + n
      BY <2>4
    <3>2. /\ call.len \in Nat /\ LEN \in Nat /\ call.len <= LEN /\ tx.pos \in Nat /\ Total \in Nat
          /\ Total <= call.len /\ Room \in Int /\ Len(got) \in Nat
      BY Sizes DEF TransferInv
    <3>3. n \in Nat /\ 1 <= n /\ n <= Total - tx.pos
      BY <1>2, <3>2 DEF Send, Least
    <3>4. Len(Message) = call.len
      BY <3>2, MessageIsSeq
    <3>5. Len(got) <= tx.pos
      BY DEF TransferInv, ContentInv
    <3>6. tx.pos + n \in Len(got) .. Len(Message) \ {0}
      BY <3>2, <3>3, <3>4, <3>5
    <3>7. S!Succeed
      BY <2>1, <2>2, <3>1, <3>6 DEF S!Succeed, S!Pending, Pending
    <3>8. QED
      BY <3>7 DEF S!Next
  <2>5. QED
    BY <1>2, <2>3, <2>4 DEF Send
<1>3. ASSUME UNCHANGED <<call, rx, got>>,
             result' = result \/ (result = Pending /\ (result' = -3 \/ (result' = Failed /\ ~ReaderOpen)))
      PROVE  [S!Next]_(S!vars)
  <2>1. Message' = Message
    BY <1>3 DEF Message
  <2>2. CASE result' = result
    BY <1>3, <2>1, <2>2 DEF S!vars
  <2>3. CASE result = Pending /\ result' = -3
    <3>1. S!Die
      BY <1>3, <2>1, <2>3 DEF S!Die, S!Pending, S!Died, Pending
    <3>2. QED
      BY <3>1 DEF S!Next
  <2>4. CASE result = Pending /\ result' = Failed /\ ~ReaderOpen
    <3>1. S!Fail
      BY <1>3, <2>1, <2>4 DEF S!Fail, S!Pending, S!Failed, Pending, Failed, ReaderOpen
    <3>2. QED
      BY <3>1 DEF S!Next
  <2>5. QED
    BY <1>3, <2>2, <2>3, <2>4
<1>4. tx.pc = "returned" => tx.ret # Pending
  BY DEF TransferInv, WriterInv
<1>5. ASSUME SendBlocks \/ SendWakes \/ SendFails \/ HangUp \/ SendInterrupted \/ WriterDies
      PROVE  [S!Next]_(S!vars)
  <2>1. UNCHANGED <<call, rx, got>>
    BY <1>5 DEF SendBlocks, SendWakes, SendFails, HangUp, SendInterrupted, WriterDies, WriterStays
  <2>2. \/ tx.pc \in {"call", "poll"} /\ tx'.pc \in {"call", "poll"} /\ tx'.ret = tx.ret
        \/ tx.pc \in {"call", "poll"} /\ tx'.pc = "closed" /\ tx'.ret = tx.ret
        \/ tx.pc = "call" /\ tx'.pc = "returned" /\ tx'.ret = Failed /\ ~ReaderOpen
        \/ tx.pc = "returned" /\ tx'.pc = "closed" /\ tx'.ret = tx.ret
    BY <1>5 DEF SendBlocks, SendWakes, SendFails, HangUp, SendInterrupted, WriterDies,
                TransferInv, TypeOK
  <2>3. \/ result' = result
        \/ result = Pending /\ (result' = -3 \/ (result' = Failed /\ ~ReaderOpen))
    BY <1>1, <1>4, <2>2 DEF Failed, Pending
  <2>4. QED
    BY <1>3, <2>1, <2>3
<1>6. QED
  BY <1>2, <1>5 DEF Writing

\* What the reader does but for using what it got.
LEMMA ReaderRefines ==
    ASSUME TransferInv,
           \/ ReadBlocks \/ ReadWakes \/ ReadEnds \/ ReadFails \/ ReadInterrupted \/ ReaderLeaves
           \/ \E n \in 1 .. SIZE : Read(n)
    PROVE  [S!Next]_(S!vars)
<1>1. UNCHANGED <<call, tx, got>> /\ Message' = Message
  BY DEF ReadBlocks, ReadWakes, ReadEnds, ReadFails, ReadInterrupted, ReaderLeaves, Read,
         ReaderStays, Message
<1>2. CASE ReaderLeaves
  <2>1. rx.pc # "closed" /\ rx'.pc = "closed" /\ rx'.ret = Failed
    BY <1>2 DEF ReaderLeaves, TransferInv, TypeOK
  <2>2. S!Leave
    BY <1>1, <2>1 DEF S!Leave, Failed
  <2>3. QED
    BY <2>2 DEF S!Next
<1>3. CASE ~ReaderLeaves
  <2>1. rx.pc # "closed" /\ rx'.pc # "closed"
    <3>1. CASE \E n \in 1 .. SIZE : Read(n)
      BY <3>1 DEF Read
    <3>2. CASE ReadBlocks \/ ReadWakes \/ ReadEnds \/ ReadFails \/ ReadInterrupted
      BY <3>2 DEF ReadBlocks, ReadWakes, ReadEnds, ReadFails, ReadInterrupted, TransferInv, TypeOK
    <3>3. QED
      BY <1>3, <3>1, <3>2
  <2>2. QED
    BY <1>1, <2>1 DEF S!vars
<1>4. QED
  BY <1>2, <1>3

\* The reader uses what it got, sees the end, or gives up.
LEMMA ConsumeRefines ==
    ASSUME TransferInv, TransferInv', Consume
    PROVE  [S!Next]_(S!vars)
<1> DEFINE result == IF tx.pc = "closed" /\ tx.ret = Pending THEN -3 ELSE tx.ret
<1>1. rx.pc = "returned" /\ ReaderOpen /\ UNCHANGED <<call, tx>> /\ Message' = Message
  BY DEF Consume, ReaderOpen, Message
<1>2. /\ call.len \in Nat /\ LEN \in Nat /\ call.len <= LEN /\ tx.pos \in Nat /\ Total \in Nat
      /\ tx.pos <= Total /\ Total <= call.len
      /\ Len(got) \in Nat /\ Len(rx.buf) \in Nat /\ Len(wire) \in Nat /\ rx.ret \in Int
  BY Sizes DEF TransferInv
<1>3. Len(got) + Len(rx.buf) + Len(wire) = tx.pos /\ After(0, got)
  BY <1>1 DEF TransferInv, ContentInv
<1>4. got \in Seq(1 .. LEN) /\ got' \in Seq(1 .. LEN) /\ rx.buf \in Seq(1 .. LEN) /\ TypeOK
  BY DEF TransferInv, TypeOK
<1>5. Len(Message) = call.len
  BY <1>2, MessageIsSeq
<1>6. tx.ret >= 0 => tx.ret = tx.pos
  BY DEF TransferInv, WriterInv
<1>7. CASE rx.ret > 0
  <2>1. got' = got \o rx.buf /\ rx'.pc = "call"
    BY <1>7 DEF Consume
  <2>2. rx.ret = Len(rx.buf)
    BY <1>1, <1>7 DEF TransferInv, ReaderInv, Failed
  <2>3. Len(got') = Len(got) + Len(rx.buf)
    BY <1>4, <2>1, ConcatProperties
  <2>4. Len(got') \in Nat /\ Len(got') >= Len(got) + 1 /\ Len(got') <= tx.pos /\ Len(got') <= call.len
    <3> DEFINE g == Len(got)
               b == Len(rx.buf)
               w == Len(wire)
    <3>1. g + b + w = tx.pos /\ g \in Nat /\ b \in Nat /\ w \in Nat /\ b > 0 /\ Len(got') = g + b
      BY <1>2, <1>3, <1>7, <2>2, <2>3
    <3> HIDE DEF g, b, w
    <3>2. g + b \in Nat /\ g + b >= g + 1 /\ g + b <= tx.pos /\ g + b <= call.len
      BY <1>2, <3>1
    <3>3. QED
      BY <3>1, <3>2 DEF g
  <2>5. got' = SubSeq(Message, 1, Len(got'))
    <3>1. After(0, got')
      BY DEF TransferInv, ContentInv
    <3>2. QED
      BY <1>4, <2>4, <3>1, Beginning
  <2>6. Len(got') \in Len(got) + 1 .. (IF result >= 0 THEN result ELSE Len(Message))
    BY <1>2, <1>5, <1>6, <2>4
  <2>7. S!Receive
    BY <1>1, <2>1, <2>5, <2>6 DEF S!Receive, S!First
  <2>8. QED
    BY <2>7 DEF S!Next
<1>8. CASE rx.ret = 0
  <2>1. got' = got /\ rx'.pc = "closed" /\ rx'.ret = 0
    <3>1. got' = got /\ rx' = [rx EXCEPT !.pc = "closed", !.buf = <<>>]
      BY <1>8 DEF Consume
    <3>2. rx \in [pc : {"call", "poll", "returned", "closed"}, buf : Seq(1 .. LEN),
                  ret : {Failed, Pending} \cup 0 .. Want]
      BY <1>4 DEF TypeOK
    <3>3. QED
      BY <1>8, <3>1, <3>2
  <2>2. Len(rx.buf) = 0 /\ ~WriterOpen /\ wire = <<>>
    BY <1>1, <1>8 DEF TransferInv, ReaderInv, Failed
  <2>3. result # Pending
    BY <2>2 DEF WriterOpen, Pending
  <2>4. Len(got) = tx.pos
    BY <1>2, <1>3, <2>2
  <2>5. result >= 0 => got = SubSeq(Message, 1, result)
    <3>1. got = SubSeq(Message, 1, Len(got))
      BY <1>2, <1>3, <1>4, <2>4, Beginning
    <3>2. result >= 0 => result = tx.pos
      BY <1>6
    <3>3. QED
      BY <2>4, <3>1, <3>2
  <2>6. S!End
    BY <1>1, <2>1, <2>3, <2>5 DEF S!End, S!First, S!Pending, Pending
  <2>7. QED
    BY <2>6 DEF S!Next
<1>9. CASE ~(rx.ret > 0) /\ rx.ret # 0
  <2>1. got' = got /\ rx'.pc = "closed" /\ rx'.ret # 0
    BY <1>4, <1>9 DEF Consume, TypeOK
  <2>2. S!Leave
    BY <1>1, <2>1 DEF S!Leave
  <2>3. QED
    BY <2>2 DEF S!Next
<1>10. QED
  BY <1>2, <1>7, <1>8, <1>9

LEMMA StreamNext ==
    ASSUME TransferInv, TransferInv', [Next]_vars
    PROVE  [S!Next]_(S!vars)
<1>1. CASE Writing \/ SendInterrupted \/ WriterDies
  BY <1>1, WriterRefines
<1>2. CASE (Reading /\ ~Consume) \/ ReadInterrupted \/ ReaderLeaves
  BY <1>2, ReaderRefines DEF Reading
<1>3. CASE Consume
  BY <1>3, ConsumeRefines
<1>4. CASE UNCHANGED vars
  BY <1>4 DEF vars, S!vars, Message
<1>5. QED
  BY <1>1, <1>2, <1>3, <1>4 DEF Next, Done, Reading

(* A transfer with these wrappers is a stream that delivers the message in  *)
(* order, once, and tells the writer the truth about it.                    *)
THEOREM TransfersAsPromised == Spec => ImplementsStream
<1>1. TransferInv /\ TransferInv' /\ [Next]_vars => [S!Next]_(S!vars)
  BY StreamNext
<1>2. QED
  BY <1>1, StreamInit, TransferInvariant, PTL DEF Spec, ImplementsStream, S!Spec
=============================================================================
