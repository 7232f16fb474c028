------------------------------ MODULE Ipc_proofs ------------------------------
(***************************************************************************)
(* Theorems about Ipc, for any number of clients, watches, lines and       *)
(* silent windows.                                                         *)
(***************************************************************************)
EXTENDS Ipc, FiniteSetTheorems, TLAPS

Elements(s) == {s[k] : k \in 1 .. Len(s)}

Injective(s) == \A j, k \in 1 .. Len(s) : s[j] = s[k] => j = k

Launches(c) == {l \in history.launched : l.c = c}

Told(c) == client[c].got \cup Elements(sock[c].out)
           \cup IF main.c = c THEN Elements(main.reply) ELSE {}

\* A client's lines that are on its stdin, and in the connection.
Given(c) == Elements(stdin[c].lines)
Sent(c) == Elements(sock[c].in)

\* Line n was given, and handled before anything on stdin or in the connection.
Past(c, n) == n <= stdin[c].count /\ \A x \in Given(c) \cup Sent(c) : n < x.n

\* A client's lines are sent and handled in the order they were given.
OrderInv(c) ==
    /\ \A x \in Given(c) \cup Sent(c) : x.n <= stdin[c].count
    /\ \A x \in Sent(c), y \in Given(c) : x.n < y.n

PastInv(c) ==
    /\ \A r \in Told(c) : Past(c, r.n)
    /\ \A l \in Launches(c) : Past(c, l.n)

LinesInv(c) == OrderInv(c) /\ PastInv(c)

\* What it was told, and is about to be told, agrees with what was launched for it.
ToldInv(c) ==
    /\ \A q, r \in Told(c) : q.n = r.n => q = r
    /\ \A k, l \in Launches(c) : k.n = l.n => k = l
    /\ \A r \in Told(c) : r.answer = "OK" <=> \E l \in Launches(c) : l.n = r.n
    /\ sock[c].client_open => \A l \in Launches(c) : \E r \in Told(c) : r.n = l.n

IsQueued(c) == c \in Elements(backlog)

\* A client connects once, and is served once.
ConnectionInv(c) ==
    /\ sock[c].client_open <=> client[c].pc \in {"poll", "stdin", "reply"}
    /\ client[c].pc = "off" => ~IsQueued(c) /\ main.c # c /\ Launches(c) = {}
    /\ IsQueued(c) => main.c # c /\ Launches(c) = {}
    /\ Launches(c) # {} => client[c].accepted

\* Where the main thread is in handle_connection.
MainInv ==
    /\ Injective(backlog)
    /\ main.pc = "listen" => main = Listening
    /\ main.pc # "listen" => /\ main.c \in Clients
                             /\ sock[main.c].client_open => client[main.c].accepted
    /\ main.pc # "reply" <=> main.reply = <<>>
    /\ main.pc \in {"ipc", "reply"} => client[main.c].accepted
    /\ main.pc = "ipc" => sock[main.c].in # <<>>
    /\ history.silent <= main.retry

OneBlocker == \A v, w \in running \cap Blockers : v = w

IInv ==
    /\ TypeOK
    /\ MainInv
    /\ OneBlocker
    /\ \A c \in Clients : LinesInv(c) /\ ToldInv(c) /\ ConnectionInv(c)

-----------------------------------------------------------------------------
(* Types.                                                                  *)

ClientStates == [pc : {"off", "poll", "stdin", "reply", "exit", "killed"}, revents : SUBSET Revents,
                 got : SUBSET Replies, accepted : BOOLEAN]
StdinStates == [lines : Seq(Lines), count : 0 .. CMDS, state : {"open", "hup", "eof"}]
SockStates == [in : Seq(Lines), out : Seq(Replies), client_open : BOOLEAN, server_open : BOOLEAN]
MainStates == [pc : {"listen", "poll", "ipc", "reply"}, c : Clients \cup {Nobody},
               retry : 0 .. RETRIES - 1, reply : Seq(Replies)]
Launched == [c : Clients, n : 1 .. CMDS, watch : Active, id : Nat]
Histories == [launched : SUBSET Launched, swallowed : SUBSET (Clients \X (1 .. CMDS)),
              silent : 0 .. RETRIES - 1]

LEMMA TypeParts ==
    TypeOK <=> /\ client \in [Clients -> ClientStates]
               /\ stdin \in [Clients -> StdinStates]
               /\ sock \in [Clients -> SockStates]
               /\ backlog \in Seq(Clients)
               /\ main \in MainStates
               /\ Len(main.reply) <= 1
               /\ running \in SUBSET Active
               /\ inhibited \in BOOLEAN
               /\ history \in Histories
  BY DEF TypeOK, ClientStates, StdinStates, SockStates, MainStates, Histories, Launched

LEMMA Sizes == CMDS \in Nat /\ RETRIES \in Nat /\ RETRIES > 0 /\ Nobody \notin Clients
  BY SizesAssumption, NobodyAssumption

LEMMA EmptySeqs ==
    <<>> \in Seq(Lines) /\ <<>> \in Seq(Replies) /\ <<>> \in Seq(Clients)
  OBVIOUS

LEMMA ListeningFacts ==
    /\ Listening \in MainStates
    /\ Listening.pc = "listen" /\ Listening.c = Nobody /\ Listening.reply = <<>> /\ Listening.retry = 0
  BY Sizes DEF Listening, MainStates

LEMMA CommandFacts ==
    ASSUME NEW command \in Commands
    PROVE  command.id \in Nat /\ command.force \in BOOLEAN
<1>1. CASE command \in Requests
  BY <1>1, IdsAssumption DEF Requests
<1>2. CASE command = Query
  BY <1>2 DEF Query
<1>3. QED
  BY <1>1, <1>2 DEF Commands

\* A command names one watch at most, and is told why when that is not launched.
LEMMA FoundFacts ==
    ASSUME NEW command
    PROVE  /\ Found(command) \subseteq Active
           /\ \A v, w \in Found(command) : v = w
  BY DEF Found

LEMMA ExcuseFacts ==
    ASSUME NEW command, NEW w, ~MayLaunch(command, w)
    PROVE  Excuse(command, w) \in Answers /\ Excuse(command, w) # "OK"
<1>1. CASE w \in running
  BY <1>1 DEF Excuse, Answers
<1>2. CASE w \notin running
  <2>1. ~Forced(command, w)
    BY <1>2 DEF MayLaunch
  <2>2. QED
    BY <1>2, <2>1 DEF Excuse, Answers
<1>3. QED
  BY <1>1, <1>2

\* Closing a connection.
LEMMA CloseType ==
    ASSUME TypeOK, NEW c \in Clients, Close(c)
    PROVE  /\ main' \in MainStates /\ Len(main'.reply) <= 1
           /\ history' \in Histories /\ sock' \in [Clients -> SockStates]
<1>1. main' \in MainStates /\ Len(main'.reply) <= 1
  BY ListeningFacts DEF Close
<1>2. history' \in Histories
  BY TypeParts, Sizes DEF Close, Histories
<1>3. sock' \in [Clients -> SockStates]
  <2>1. sock[c] \in SockStates
    BY TypeParts
  <2>2. [sock[c] EXCEPT !.server_open = FALSE, !.in = <<>>] \in SockStates
    BY <2>1, EmptySeqs DEF SockStates
  <2>3. QED
    BY <2>2, TypeParts DEF Close
<1>4. QED
  BY <1>1, <1>2, <1>3

LEMMA LeaveType ==
    ASSUME TypeOK, NEW c \in Clients, NEW how \in {"exit", "killed"}, Leave(c, how)
    PROVE  client' \in [Clients -> ClientStates] /\ sock' \in [Clients -> SockStates]
<1>1. client' \in [Clients -> ClientStates]
  BY TypeParts DEF Leave, ClientStates
<1>2. sock' \in [Clients -> SockStates]
  <2>1. sock[c] \in SockStates
    BY TypeParts
  <2>2. [sock[c] EXCEPT !.client_open = FALSE, !.out = <<>>] \in SockStates
    BY <2>1, EmptySeqs DEF SockStates
  <2>3. QED
    BY <2>2, TypeParts DEF Leave
<1>3. QED
  BY <1>1, <1>2

LEMMA TypeInit == Init => TypeOK
<1> SUFFICES ASSUME Init PROVE TypeOK
  OBVIOUS
<1>1. client \in [Clients -> ClientStates] /\ stdin \in [Clients -> StdinStates]
      /\ sock \in [Clients -> SockStates]
  BY Sizes DEF Init, ClientStates, StdinStates, SockStates
<1>2. main \in MainStates /\ Len(main.reply) <= 1
  BY ListeningFacts DEF Init
<1>3. history \in Histories
  BY Sizes DEF Init, Histories
<1>4. backlog \in Seq(Clients) /\ running \in SUBSET Active /\ inhibited \in BOOLEAN
  BY EmptySeqs DEF Init
<1>5. QED
  BY <1>1, <1>2, <1>3, <1>4, TypeParts

\* The command handled, and the answer to it.
Line == Head(sock[main.c].in)
Rest == Tail(sock[main.c].in)
Chosen == {w \in IF Line.command.verb # "query" THEN Found(Line.command) ELSE {} :
             MayLaunch(Line.command, w)}
NewLaunches == {[c |-> main.c, n |-> Line.n, watch |-> w, id |-> Line.command.id] : w \in Chosen}

\* Handling a command launches the one watch it names, or answers anything but OK.
LEMMA HandleFacts ==
    ASSUME TypeOK, MainInv, HandleIpc
    PROVE  /\ main.c \in Clients /\ sock[main.c].in # <<>>
           /\ Line \in Lines /\ Rest \in Seq(Lines)
           /\ Chosen \subseteq Active /\ (\A v, w \in Chosen : v = w)
           /\ \A w \in Chosen : MayLaunch(Line.command, w)
           /\ NewLaunches \subseteq Launched
           /\ running' = running \cup Chosen
           /\ history'.launched = history.launched \cup NewLaunches
           /\ history' \in Histories /\ history'.silent = history.silent
           /\ \E answer \in Answers : /\ answer = "OK" <=> Chosen # {}
                                     /\ main' = [main EXCEPT !.pc = "reply",
                                                            !.reply = <<[n |-> Line.n, answer |-> answer]>>]
           /\ sock' = [sock EXCEPT ![main.c].in = <<>>]
           /\ UNCHANGED <<client, stdin, backlog, inhibited>>
<1> DEFINE found == IF Line.command.verb # "query" THEN Found(Line.command) ELSE {}
<1>1. main.c \in Clients /\ sock[main.c].in # <<>> /\ sock[main.c].in \in Seq(Lines)
  BY TypeParts DEF MainInv, HandleIpc, SockStates
<1>2. Line \in Lines /\ Rest \in Seq(Lines)
  BY <1>1 DEF Line, Rest
<1>3. Line.n \in 1 .. CMDS /\ Line.command \in Commands
  BY <1>2 DEF Lines
<1>4. found \subseteq Active /\ \A v, w \in found : v = w
  BY FoundFacts
<1>5. Chosen = {w \in found : MayLaunch(Line.command, w)}
  BY DEF Chosen
<1>6. NewLaunches \subseteq Launched
  BY <1>1, <1>3, <1>4, <1>5, CommandFacts DEF NewLaunches, Launched
<1>7. PICK answer :
        /\ answer = IF Line.command.verb = "query" THEN "INFO"
                    ELSE IF found = {} THEN "ERR_INVALID_ID"
                    ELSE IF Chosen # {} THEN "OK"
                    ELSE Excuse(Line.command, CHOOSE w \in found : TRUE)
        /\ main' = [main EXCEPT !.pc = "reply", !.reply = <<[n |-> Line.n, answer |-> answer]>>]
  BY DEF HandleIpc, Line, Chosen
<1>8. answer \in Answers /\ (answer = "OK" <=> Chosen # {})
  <2>1. CASE Chosen # {}
    BY <1>5, <1>7, <2>1 DEF Answers
  <2>2. CASE Chosen = {} /\ found = {}
    BY <1>7, <2>2 DEF Answers
  <2>3. CASE Chosen = {} /\ found # {}
    <3>1. (CHOOSE w \in found : TRUE) \in found
      BY <2>3
    <3>2. ~MayLaunch(Line.command, CHOOSE w \in found : TRUE)
      BY <1>5, <2>3, <3>1
    <3>3. QED
      BY <1>7, <2>3, <3>2, ExcuseFacts DEF Answers
  <2>4. QED
    BY <2>1, <2>2, <2>3
<1>9. running' = running \cup Chosen /\ sock' = [sock EXCEPT ![main.c].in = <<>>]
      /\ UNCHANGED <<client, stdin, backlog, inhibited>>
  BY DEF HandleIpc, Chosen, Line
<1>10. history' = [history EXCEPT !.launched = @ \cup NewLaunches,
                                  !.swallowed = @ \cup {<<main.c, Rest[n].n>> : n \in 1 .. Len(Rest)}]
  BY DEF HandleIpc, NewLaunches, Chosen, Line, Rest
<1>11. \A n \in 1 .. Len(Rest) : Rest[n] \in Lines /\ Rest[n].n \in 1 .. CMDS
  <2>1. \A n \in 1 .. Len(Rest) : Rest[n] \in Lines
    BY <1>2
  <2>2. QED
    BY <2>1 DEF Lines
<1>12. {<<main.c, Rest[n].n>> : n \in 1 .. Len(Rest)} \subseteq Clients \X (1 .. CMDS)
  BY <1>1, <1>11
<1>13. history \in Histories
  BY TypeParts
<1>14. /\ history' \in Histories /\ history'.launched = history.launched \cup NewLaunches
       /\ history'.silent = history.silent
  BY <1>6, <1>10, <1>12, <1>13 DEF Histories
<1>15. QED
  BY <1>1, <1>2, <1>4, <1>5, <1>6, <1>7, <1>8, <1>9, <1>14

LEMMA TypeNext == TypeOK /\ MainInv /\ [Next]_vars => TypeOK'
<1> SUFFICES ASSUME TypeOK, MainInv, [Next]_vars PROVE TypeOK'
  OBVIOUS
<1>0. /\ client \in [Clients -> ClientStates]
      /\ stdin \in [Clients -> StdinStates]
      /\ sock \in [Clients -> SockStates]
      /\ backlog \in Seq(Clients)
      /\ main \in MainStates
      /\ Len(main.reply) <= 1
      /\ running \in SUBSET Active
      /\ inhibited \in BOOLEAN
      /\ history \in Histories
  BY TypeParts
<1>1. ASSUME client' \in [Clients -> ClientStates],
             stdin' \in [Clients -> StdinStates],
             sock' \in [Clients -> SockStates],
             backlog' \in Seq(Clients),
             main' \in MainStates, Len(main'.reply) <= 1,
             running' \in SUBSET Active, inhibited' \in BOOLEAN, history' \in Histories
      PROVE  TypeOK'
  BY <1>1 DEF TypeOK, ClientStates, StdinStates, SockStates, MainStates, Histories, Launched
<1>2. main.pc # "listen" => main.c \in Clients
  BY DEF MainInv
<1>3. CASE Accept
  <2>1. backlog # <<>> /\ Head(backlog) \in Clients /\ Tail(backlog) \in Seq(Clients)
    BY <1>0, <1>3 DEF Accept
  <2>2. main' \in MainStates /\ Len(main'.reply) <= 1
    <3>1. main' = [Listening EXCEPT !.pc = "poll", !.c = Head(backlog)]
      BY <1>3 DEF Accept
    <3>2. main' \in MainStates /\ main'.reply = <<>>
      BY <2>1, <3>1, ListeningFacts DEF MainStates
    <3>3. QED
      BY <3>2
  <2>3. client' \in [Clients -> ClientStates]
    BY <1>0, <1>3, <2>1, ZenonT(60) DEF Accept, ClientStates, SockStates
  <2>4. QED
    BY <1>0, <1>1, <1>3, <2>1, <2>2, <2>3 DEF Accept, watches
<1>4. CASE HungUp
  BY <1>0, <1>1, <1>2, <1>4, CloseType DEF HungUp, watches
<1>5. CASE DataIn
  <2>1. [main EXCEPT !.pc = "ipc"] \in MainStates /\ [main EXCEPT !.pc = "ipc"].reply = main.reply
    BY <1>0 DEF MainStates
  <2>2. [history EXCEPT !.silent = 0] \in Histories
    BY <1>0, Sizes DEF Histories
  <2>3. QED
    BY <1>0, <1>1, <1>5, <2>1, <2>2 DEF DataIn, watches
<1>6. CASE Timeout
  <2>1. CASE Close(main.c)
    BY <1>0, <1>1, <1>2, <1>6, <2>1, CloseType DEF Timeout, watches
  <2>2. CASE /\ main.retry + 1 < RETRIES
             /\ main' = [main EXCEPT !.retry = @ + 1]
             /\ history' = [history EXCEPT !.silent = @ + 1]
             /\ UNCHANGED sock
    <3>1. main.retry \in Nat /\ history.silent \in Nat /\ history.silent <= main.retry
      BY <1>0, Sizes DEF MainStates, Histories, MainInv
    <3>2. main.retry + 1 \in 0 .. RETRIES - 1 /\ history.silent + 1 \in 0 .. RETRIES - 1
      BY <2>2, <3>1, Sizes
    <3>3. main' \in MainStates /\ main'.reply = main.reply
      BY <1>0, <2>2, <3>2 DEF MainStates
    <3>4. history' \in Histories
      BY <1>0, <2>2, <3>2 DEF Histories
    <3>5. QED
      BY <1>0, <1>1, <1>6, <2>2, <3>3, <3>4 DEF Timeout, watches
  <2>3. main.retry + 1 >= RETRIES \/ main.retry + 1 < RETRIES
    BY <1>0, Sizes DEF MainStates
  <2>4. QED
    BY <1>6, <2>1, <2>2, <2>3 DEF Timeout
<1>7. CASE HandleIpc
  <2>1. PICK answer \in Answers :
          main' = [main EXCEPT !.pc = "reply", !.reply = <<[n |-> Line.n, answer |-> answer]>>]
    BY <1>7, HandleFacts
  <2>2. Line.n \in 1 .. CMDS
    BY <1>7, HandleFacts DEF Lines
  <2>3. [n |-> Line.n, answer |-> answer] \in Replies
    BY <2>2 DEF Replies
  <2>4. main' \in MainStates /\ Len(main'.reply) <= 1
    <3>1. <<[n |-> Line.n, answer |-> answer]>> \in Seq(Replies)
          /\ Len(<<[n |-> Line.n, answer |-> answer]>>) = 1
      BY <2>3
    <3>2. main' \in MainStates /\ main'.reply = <<[n |-> Line.n, answer |-> answer]>>
      BY <1>0, <2>1, <3>1 DEF MainStates
    <3>3. QED
      BY <3>1, <3>2
  <2>5. main.c \in Clients /\ sock' = [sock EXCEPT ![main.c].in = <<>>]
    BY <1>7, HandleFacts
  <2>6. sock' \in [Clients -> SockStates]
    BY <1>0, <2>5, EmptySeqs DEF SockStates
  <2>7. running' \in SUBSET Active /\ history' \in Histories
        /\ UNCHANGED <<client, stdin, backlog, inhibited>>
    BY <1>0, <1>7, HandleFacts
  <2>8. QED
    BY <1>0, <1>1, <2>4, <2>6, <2>7
<1>8. CASE SendReply
  <2>1. CASE sock[main.c].client_open
    <3>1. sock[main.c] \in SockStates /\ main.reply \in Seq(Replies)
      BY <1>0, <1>2, <1>8 DEF SendReply, MainStates
    <3>2. sock[main.c].out \o main.reply \in Seq(Replies)
      BY <3>1 DEF SockStates
    <3>3. [sock[main.c] EXCEPT !.out = sock[main.c].out \o main.reply] \in SockStates
      BY <3>1, <3>2 DEF SockStates
    <3>4. sock' \in [Clients -> SockStates]
      BY <1>0, <1>2, <1>8, <2>1, <3>3 DEF SendReply
    <3>5. [main EXCEPT !.pc = "poll", !.reply = <<>>] \in MainStates
          /\ [main EXCEPT !.pc = "poll", !.reply = <<>>].reply = <<>>
      BY <1>0, EmptySeqs DEF MainStates
    <3>6. main' \in MainStates /\ Len(main'.reply) <= 1
      <4>1. main' = [main EXCEPT !.pc = "poll", !.reply = <<>>]
        BY <1>8, <2>1 DEF SendReply
      <4>2. main' \in MainStates /\ main'.reply = <<>>
        BY <3>5, <4>1
      <4>3. QED
        BY <4>2
    <3>7. QED
      BY <1>0, <1>1, <1>8, <2>1, <3>4, <3>6 DEF SendReply, watches
  <2>2. CASE ~sock[main.c].client_open
    BY <1>0, <1>1, <1>2, <1>8, <2>2, CloseType DEF SendReply, watches
  <2>3. QED
    BY <2>1, <2>2
<1>9. ASSUME NEW c \in Clients, Poll(c) PROVE TypeOK'
  <2>1. Polled(c) \in SUBSET Revents
    BY DEF Polled
  <2>2. client' \in [Clients -> ClientStates]
    BY <1>0, <1>9, <2>1, ZenonT(60) DEF Poll, ClientStates
  <2>3. QED
    BY <1>0, <1>1, <1>9, <2>2 DEF Poll, watches
<1>10. ASSUME NEW c \in Clients, HandleStdin(c) PROVE TypeOK'
  <2>1. CASE "stdin_in" \notin client[c].revents
    <3>1. client' \in [Clients -> ClientStates]
      BY <1>0, <1>10, <2>1, ZenonT(60) DEF HandleStdin, ClientStates
    <3>2. QED
      BY <1>0, <1>1, <1>10, <2>1, <3>1 DEF HandleStdin, watches
  <2>2. CASE "stdin_in" \in client[c].revents
    <3>1. stdin' \in [Clients -> StdinStates]
      BY <1>0, <1>10, <2>2, EmptySeqs, ZenonT(60) DEF HandleStdin, StdinStates
    <3>2. CASE Leave(c, "exit")
      BY <1>0, <1>1, <1>10, <3>1, <3>2, LeaveType DEF HandleStdin, watches
    <3>3. CASE /\ sock' = [sock EXCEPT ![c].in = @ \o stdin[c].lines]
               /\ client' = [client EXCEPT
                     ![c].pc = IF "stdin_hup" \in client[c].revents THEN "poll" ELSE "reply"]
      <4>1. sock[c].in \o stdin[c].lines \in Seq(Lines)
        BY <1>0 DEF SockStates, StdinStates
      <4>2. [sock[c] EXCEPT !.in = sock[c].in \o stdin[c].lines] \in SockStates
        BY <1>0, <4>1 DEF SockStates
      <4>3. sock' \in [Clients -> SockStates]
        BY <1>0, <3>3, <4>2
      <4>4. client' \in [Clients -> ClientStates]
        BY <1>0, <3>3 DEF ClientStates
      <4>5. QED
        BY <1>0, <1>1, <1>10, <3>1, <4>3, <4>4 DEF HandleStdin, watches
    <3>4. QED
      BY <1>10, <2>2, <3>2, <3>3 DEF HandleStdin
  <2>3. QED
    BY <2>1, <2>2
<1>11. ASSUME NEW c \in Clients, HandleReply(c) PROVE TypeOK'
  <2>1. sock[c] \in SockStates /\ client[c] \in ClientStates
    BY <1>0
  <2>2. PICK leaves \in BOOLEAN, read \in SUBSET Replies, out \in Seq(Replies) :
          /\ client' = [client EXCEPT ![c].pc = IF leaves THEN "exit" ELSE "poll",
                                      ![c].revents = {}, ![c].got = @ \cup read]
          /\ sock' = [sock EXCEPT ![c].out = out, ![c].client_open = ~leaves]
    <3> DEFINE revents == client[c].revents
               eof == "sock_in" \in revents /\ sock[c].out = <<>>
               read == IF "sock_in" \in revents THEN {sock[c].out[n] : n \in 1 .. Len(sock[c].out)}
                       ELSE {}
               leaves == eof \/ revents \cap {"stdin_hup", "sock_hup"} # {}
               out == IF leaves \/ "sock_in" \in revents THEN <<>> ELSE sock[c].out
    <3>1. sock[c].out \in Seq(Replies)
      BY <2>1 DEF SockStates
    <3>2. read \in SUBSET Replies /\ out \in Seq(Replies) /\ leaves \in BOOLEAN
      BY <3>1, EmptySeqs
    <3>3. /\ client' = [client EXCEPT ![c].pc = IF leaves THEN "exit" ELSE "poll",
                                      ![c].revents = {}, ![c].got = @ \cup read]
          /\ sock' = [sock EXCEPT ![c].out = out, ![c].client_open = ~leaves]
      BY <1>11 DEF HandleReply
    <3>4. QED
      BY <3>2, <3>3
  <2>3. [sock[c] EXCEPT !.out = out, !.client_open = ~leaves] \in SockStates
    BY <2>1, <2>2 DEF SockStates
  <2>4. sock' \in [Clients -> SockStates]
    BY <1>0, <2>2, <2>3
  <2>5. client' \in [Clients -> ClientStates]
    BY <1>0, <2>1, <2>2 DEF ClientStates
  <2>6. QED
    BY <1>0, <1>1, <1>11, <2>4, <2>5 DEF HandleReply, watches
<1>12. ASSUME NEW c \in Clients, Type(c) PROVE TypeOK'
  <2>1. PICK command \in Commands :
          stdin' = [stdin EXCEPT ![c].count = @ + 1,
                                 ![c].lines = Append(@, [n |-> stdin[c].count + 1, command |-> command])]
    BY <1>12 DEF Type
  <2>2. stdin[c].count + 1 \in 0 .. CMDS /\ stdin[c].count + 1 \in 1 .. CMDS
    BY <1>0, <1>12, Sizes DEF Type, StdinStates
  <2>3. [n |-> stdin[c].count + 1, command |-> command] \in Lines
    BY <2>2 DEF Lines
  <2>4. stdin' \in [Clients -> StdinStates]
    <3> DEFINE lines == Append(stdin[c].lines, [n |-> stdin[c].count + 1, command |-> command])
    <3>1. lines \in Seq(Lines)
      BY <1>0, <2>3 DEF StdinStates
    <3>2. [stdin[c] EXCEPT !.count = stdin[c].count + 1, !.lines = lines] \in StdinStates
      BY <1>0, <2>2, <3>1 DEF StdinStates
    <3>3. QED
      BY <1>0, <2>1, <3>2
  <2>5. QED
    BY <1>0, <1>1, <1>12, <2>4 DEF Type, watches
<1>13. ASSUME NEW c \in Clients, CloseStdin(c) PROVE TypeOK'
  <2>1. stdin' \in [Clients -> StdinStates]
    BY <1>0, <1>13 DEF CloseStdin, StdinStates
  <2>2. QED
    BY <1>0, <1>1, <1>13, <2>1 DEF CloseStdin, watches
<1>14. ASSUME NEW c \in Clients, Connect(c) PROVE TypeOK'
  <2>1. client' \in [Clients -> ClientStates] /\ sock' \in [Clients -> SockStates]
    BY <1>0, <1>14, ZenonT(60) DEF Connect, ClientStates, SockStates
  <2>2. backlog' \in Seq(Clients)
    BY <1>0, <1>14 DEF Connect
  <2>3. QED
    BY <1>0, <1>1, <1>14, <2>1, <2>2 DEF Connect, watches
<1>15. ASSUME NEW c \in Clients, Kill(c) PROVE TypeOK'
  BY <1>0, <1>1, <1>15, LeaveType DEF Kill, watches
<1>16. ASSUME \E w \in Active : Tap(w) \/ ProgramEnds(w) PROVE TypeOK'
  BY <1>0, <1>1, <1>16 DEF Tap, ProgramEnds
<1>17. CASE ToggleBlockFile
  BY <1>0, <1>1, <1>17 DEF ToggleBlockFile
<1>18. CASE UNCHANGED vars
  BY <1>0, <1>1, <1>18 DEF vars, watches
<1>19. QED
  BY <1>3, <1>4, <1>5, <1>6, <1>7, <1>8, <1>9, <1>10, <1>11, <1>12, <1>13, <1>14, <1>15, <1>16,
     <1>17, <1>18 DEF Next, Serving, Running

-----------------------------------------------------------------------------
(* Sequences of lines and replies.                                         *)

LEMMA ElementsConcat ==
    ASSUME NEW S, NEW s \in Seq(S), NEW t \in Seq(S)
    PROVE  Elements(s \o t) = Elements(s) \cup Elements(t)
<1> DEFINE m == Len(s)
           n == Len(t)
<1>1. m \in Nat /\ n \in Nat /\ Len(s \o t) = m + n
      /\ \A k \in 1 .. m + n : (s \o t)[k] = IF k <= m THEN s[k] ELSE t[k - m]
  OBVIOUS
<1> HIDE DEF m, n
<1>2. \A k \in 1 .. m + n : k \in 1 .. m \/ (k - m \in 1 .. n /\ ~(k <= m))
  BY <1>1
<1>3. \A k \in 1 .. m : k \in 1 .. m + n /\ k <= m
  BY <1>1
<1>4. \A k \in 1 .. n : k + m \in 1 .. m + n /\ ~(k + m <= m) /\ (k + m) - m = k
  BY <1>1
<1>5. Elements(s \o t) \subseteq Elements(s) \cup Elements(t)
  BY <1>1, <1>2 DEF Elements, m, n
<1>6. Elements(s) \subseteq Elements(s \o t)
  BY <1>1, <1>3 DEF Elements, m, n
<1>7. Elements(t) \subseteq Elements(s \o t)
  BY <1>1, <1>4 DEF Elements, m, n
<1>8. QED
  BY <1>5, <1>6, <1>7

LEMMA ElementsAppend ==
    ASSUME NEW S, NEW s \in Seq(S), NEW x \in S
    PROVE  Elements(Append(s, x)) = Elements(s) \cup {x}
<1> DEFINE m == Len(s)
<1>1. m \in Nat /\ Len(Append(s, x)) = m + 1 /\ Append(s, x)[m + 1] = x
      /\ \A k \in 1 .. m : Append(s, x)[k] = s[k]
  OBVIOUS
<1> HIDE DEF m
<1>2. m + 1 \in 1 .. m + 1 /\ \A k \in 1 .. m + 1 : k \in 1 .. m \/ k = m + 1
  BY <1>1
<1>3. \A k \in 1 .. m : k \in 1 .. m + 1
  BY <1>1
<1>4. QED
  BY <1>1, <1>2, <1>3 DEF Elements, m

\* A queue without duplicates stays one when its head leaves, or a new member joins.
LEMMA QueueTail ==
    ASSUME NEW S, NEW s \in Seq(S), s # <<>>, Injective(s)
    PROVE  /\ Head(s) \in S /\ Head(s) \in Elements(s) /\ Tail(s) \in Seq(S)
           /\ Elements(Tail(s)) = Elements(s) \ {Head(s)}
           /\ Injective(Tail(s))
<1> DEFINE m == Len(s)
           t == Tail(s)
<1>1. m \in Nat /\ m >= 1 /\ Len(t) = m - 1 /\ Head(s) = s[1] /\ Head(s) \in S /\ t \in Seq(S)
      /\ \A k \in 1 .. m - 1 : t[k] = s[k + 1]
  OBVIOUS
<1>2. \A j, k \in 1 .. m : s[j] = s[k] => j = k
  BY DEF Injective
<1>3. Elements(s) = {s[k] : k \in 1 .. m} /\ Elements(t) = {t[k] : k \in 1 .. m - 1}
  BY <1>1 DEF Elements
<1> HIDE DEF m, t
<1>4. 1 \in 1 .. m /\ \A k \in 1 .. m - 1 : k + 1 \in 1 .. m /\ k + 1 # 1
  BY <1>1
<1>5. \A k \in 1 .. m : k = 1 \/ (k - 1 \in 1 .. m - 1 /\ (k - 1) + 1 = k)
  BY <1>1
<1>6. Elements(t) \subseteq Elements(s) \ {Head(s)}
  BY <1>1, <1>2, <1>3, <1>4
<1>7. Elements(s) \ {Head(s)} \subseteq Elements(t)
  <2>1. SUFFICES ASSUME NEW k \in 1 .. m, s[k] # s[1] PROVE \E j \in 1 .. m - 1 : t[j] = s[k]
    BY <1>1, <1>3, ZenonT(60)
  <2>2. k - 1 \in 1 .. m - 1 /\ (k - 1) + 1 = k
    BY <1>5, <2>1
  <2>3. t[k - 1] = s[k]
    BY <1>1, <2>2
  <2>4. QED
    BY <2>2, <2>3
<1>8. \A j, k \in 1 .. m - 1 : t[j] = t[k] => j = k
  <2>1. SUFFICES ASSUME NEW j \in 1 .. m - 1, NEW k \in 1 .. m - 1, t[j] = t[k] PROVE j = k
    OBVIOUS
  <2>2. s[j + 1] = s[k + 1]
    BY <1>1, <2>1
  <2>3. j + 1 = k + 1
    BY <1>2, <1>4, <2>2
  <2>4. QED
    BY <2>3
<1>9. QED
  BY <1>1, <1>3, <1>4, <1>6, <1>7, <1>8 DEF Injective, t

LEMMA QueueAppend ==
    ASSUME NEW S, NEW s \in Seq(S), Injective(s), NEW x \in S, x \notin Elements(s)
    PROVE  Injective(Append(s, x))
<1> DEFINE m == Len(s)
           t == Append(s, x)
<1>1. m \in Nat /\ Len(t) = m + 1 /\ t[m + 1] = x /\ \A k \in 1 .. m : t[k] = s[k]
  OBVIOUS
<1>2. (\A j, k \in 1 .. m : s[j] = s[k] => j = k) /\ \A k \in 1 .. m : s[k] # x
  BY DEF Injective, Elements
<1> HIDE DEF m, t
<1>3. \A k \in 1 .. m + 1 : k \in 1 .. m \/ k = m + 1
  BY <1>1
<1>4. \A j, k \in 1 .. m + 1 : t[j] = t[k] => j = k
  BY <1>1, <1>2, <1>3
<1>5. QED
  BY <1>1, <1>4 DEF Injective, t

LEMMA HeadFirst ==
    ASSUME NEW S, NEW s \in Seq(S), s # <<>>
    PROVE  Head(s) \in Elements(s) /\ Head(s) \in S
  BY DEF Elements

-----------------------------------------------------------------------------
(* Lines and answers.                                                      *)

LEMMA ClientTypes ==
    ASSUME TypeOK, NEW c \in Clients
    PROVE  /\ Given(c) \subseteq Lines /\ Sent(c) \subseteq Lines
           /\ Told(c) \subseteq Replies /\ Launches(c) \subseteq Launched
           /\ stdin[c].count \in Nat
           /\ \A x \in Lines \cup Replies \cup Launched : x.n \in Nat
<1>1. stdin[c].lines \in Seq(Lines) /\ stdin[c].count \in 0 .. CMDS
  BY TypeParts DEF StdinStates
<1>2. sock[c].in \in Seq(Lines) /\ sock[c].out \in Seq(Replies)
  BY TypeParts DEF SockStates
<1>3. client[c].got \subseteq Replies
  BY TypeParts DEF ClientStates
<1>4. main.reply \in Seq(Replies)
  BY TypeParts DEF MainStates
<1>5. Given(c) \subseteq Lines /\ Sent(c) \subseteq Lines
  BY <1>1, <1>2 DEF Given, Sent, Elements
<1>6. Told(c) \subseteq Replies
  BY <1>2, <1>3, <1>4 DEF Told, Elements
<1>7. Launches(c) \subseteq Launched
  BY TypeParts DEF Launches, Histories
<1>8. \A x \in Lines \cup Replies \cup Launched : x.n \in Nat
  BY Sizes DEF Lines, Replies, Launched
<1>9. QED
  BY <1>1, <1>5, <1>6, <1>7, <1>8, Sizes

\* Lines are given at the end, sent all at once, or lost.
LinesStep(c) ==
    \/ /\ stdin'[c].count = stdin[c].count
       /\ Given(c)' \subseteq Given(c) /\ Sent(c)' \subseteq Sent(c)
    \/ /\ stdin'[c].count = stdin[c].count
       /\ Given(c)' = {} /\ Sent(c)' \subseteq Sent(c) \cup Given(c)
    \/ /\ stdin'[c].count = stdin[c].count + 1
       /\ Sent(c)' \subseteq Sent(c)
       /\ \A x \in Given(c)' : x \in Given(c) \/ x.n = stdin[c].count + 1

LEMMA OrderNext ==
    ASSUME TypeOK, NEW c \in Clients, OrderInv(c), LinesStep(c)
    PROVE  OrderInv(c)' /\ \A n \in Nat : Past(c, n) => Past(c, n)'
<1> DEFINE N == stdin[c].count
           G == Given(c)
           S == Sent(c)
<1>1. /\ N \in Nat
      /\ \A x \in G \cup S : x.n \in Nat /\ x.n <= N
      /\ \A x \in S, y \in G : x.n < y.n
  BY ClientTypes DEF OrderInv
<1>2. ASSUME stdin'[c].count = N, G' \subseteq G, S' \subseteq S
      PROVE  OrderInv(c)' /\ \A n \in Nat : Past(c, n) => Past(c, n)'
  BY <1>1, <1>2 DEF OrderInv, Past
<1>3. ASSUME stdin'[c].count = N, G' = {}, S' \subseteq S \cup G
      PROVE  OrderInv(c)' /\ \A n \in Nat : Past(c, n) => Past(c, n)'
  BY <1>1, <1>3 DEF OrderInv, Past
<1>4. ASSUME stdin'[c].count = N + 1, S' \subseteq S, \A x \in G' : x \in G \/ x.n = N + 1
      PROVE  OrderInv(c)' /\ \A n \in Nat : Past(c, n) => Past(c, n)'
  BY <1>1, <1>4 DEF OrderInv, Past
<1>5. QED
  BY <1>2, <1>3, <1>4 DEF LinesStep

\* What a step of another client does to a client, or any step but the handling of
\* a command: it is told nothing new, and loses an answer only by leaving.
Effect(c) ==
    /\ LinesStep(c)
    /\ Launches(c)' = Launches(c)
    /\ Told(c)' \subseteq Told(c)
    /\ sock'[c].client_open => \/ Launches(c) = {}
                               \/ sock[c].client_open /\ Told(c)' = Told(c)
LEMMA EffectInv ==
    ASSUME TypeOK, NEW c \in Clients, LinesInv(c), ToldInv(c), Effect(c)
    PROVE  LinesInv(c)' /\ ToldInv(c)'
<1>1. OrderInv(c)' /\ \A n \in Nat : Past(c, n) => Past(c, n)'
  BY OrderNext DEF LinesInv, Effect
<1>2. (\A r \in Told(c) : r.n \in Nat) /\ (\A l \in Launches(c) : l.n \in Nat)
  BY ClientTypes
<1>3. PastInv(c)'
  BY <1>1, <1>2 DEF LinesInv, PastInv, Effect
<1>4. ToldInv(c)'
  BY DEF ToldInv, Effect
<1>5. QED
  BY <1>1, <1>3, <1>4 DEF LinesInv

LEMMA NextOf ==
    ASSUME NEW c
    PROVE  /\ Given(c)' = Elements(stdin'[c].lines)
           /\ Sent(c)' = Elements(sock'[c].in)
           /\ Told(c)' = client'[c].got \cup Elements(sock'[c].out)
                         \cup IF main'.c = c THEN Elements(main'.reply) ELSE {}
  BY DEF Given, Sent, Told, Elements

LEMMA Nothing == Elements(<<>>) = {}
  BY DEF Elements

\* A step that leaves a client's connection and answers alone.
LEMMA NoEffect ==
    ASSUME NEW c \in Clients,
           history'.launched = history.launched, client'[c].got = client[c].got,
           sock'[c] = sock[c], stdin'[c] = stdin[c],
           \/ main'.c = main.c /\ main'.reply = main.reply
           \/ main.reply = <<>> /\ main'.reply = <<>>
           \/ main.c # c /\ main'.c # c
    PROVE  Effect(c)
<1>1. Told(c)' = Told(c) /\ Launches(c)' = Launches(c)
  BY NextOf, Nothing DEF Told, Launches
<1>2. LinesStep(c)
  BY NextOf DEF LinesStep, Given, Sent
<1>3. QED
  BY <1>1, <1>2 DEF Effect

\* The end of a connection, by KFMon.
LEMMA CloseEffect ==
    ASSUME TypeOK, NEW c \in Clients, NEW d \in Clients, Close(c),
           main.c = c, main.reply = <<>> \/ ~sock[c].client_open,
           UNCHANGED <<client, stdin>>
    PROVE  Effect(d)
<1>1. /\ main' = Listening /\ Listening.c # d /\ history'.launched = history.launched
      /\ sock' = [sock EXCEPT ![c].server_open = FALSE, ![c].in = <<>>]
  BY Sizes, ListeningFacts, TypeParts DEF Close, Histories
<1>2. CASE d # c
  BY <1>1, <1>2, NoEffect, TypeParts
<1>3. CASE d = c
  <2>1. /\ sock'[d].out = sock[d].out /\ sock'[d].client_open = sock[d].client_open
        /\ sock'[d].in = <<>>
    BY <1>1, <1>3, TypeParts DEF SockStates
  <2>2. Elements(<<>>) = {}
    BY DEF Elements
  <2>3. LinesStep(d)
    BY <2>1, <2>2, NextOf DEF LinesStep, Given, Sent
  <2>4. Launches(d)' = Launches(d)
    BY <1>1 DEF Launches
  <2>5. Told(d)' = client[d].got \cup Elements(sock[d].out)
    BY <1>1, <2>1, NextOf DEF Told
  <2>6. Told(d) = client[d].got \cup Elements(sock[d].out) \cup Elements(main.reply)
    BY <1>3 DEF Told
  <2>7. Told(d)' \subseteq Told(d)
        /\ (sock'[d].client_open => sock[d].client_open /\ Told(d)' = Told(d))
    BY <1>3, <2>1, <2>2, <2>5, <2>6
  <2>8. QED
    BY <2>3, <2>4, <2>7 DEF Effect
<1>4. QED
  BY <1>2, <1>3

\* The end of a client.
LEMMA LeaveEffect ==
    ASSUME TypeOK, NEW c \in Clients, NEW d \in Clients, NEW how, Leave(c, how),
           UNCHANGED <<main, history>>,
           stdin'[d].count = stdin[d].count,
           stdin'[d].lines = stdin[d].lines \/ stdin'[d].lines = <<>>
    PROVE  Effect(d)
<1>1. Elements(<<>>) = {}
  BY DEF Elements
<1>2. /\ client'[d].got = client[d].got
      /\ sock'[d].in = sock[d].in
      /\ sock'[d].out = sock[d].out \/ sock'[d].out = <<>>
      /\ sock'[d] = sock[d] \/ ~sock'[d].client_open
  BY TypeParts DEF Leave, ClientStates, SockStates
<1>3. LinesStep(d)
  BY <1>1, <1>2, NextOf DEF LinesStep, Given, Sent
<1>4. Launches(d)' = Launches(d)
  BY DEF Launches
<1>5. Told(d)' = client[d].got \cup Elements(sock'[d].out)
                 \cup IF main.c = d THEN Elements(main.reply) ELSE {}
  BY <1>2, NextOf DEF Told
<1>6. Told(d)' \subseteq Told(d)
  BY <1>1, <1>2, <1>5 DEF Told
<1>7. sock'[d].client_open => sock[d].client_open /\ Told(d)' = Told(d)
  BY <1>2, <1>5 DEF Told
<1>8. QED
  BY <1>3, <1>4, <1>6, <1>7 DEF Effect

LEMMA Effects ==
    ASSUME TypeOK, MainInv, NEW c \in Clients, ConnectionInv(c), [Next]_vars,
           HandleIpc => c # main.c
    PROVE  Effect(c)
<1>0. /\ client \in [Clients -> ClientStates]
      /\ stdin \in [Clients -> StdinStates]
      /\ sock \in [Clients -> SockStates]
      /\ backlog \in Seq(Clients)
      /\ main \in MainStates
      /\ history \in Histories
  BY TypeParts
<1>1. main.pc # "listen" => main.c \in Clients
  BY DEF MainInv
<1>2. Elements(<<>>) = {}
  BY DEF Elements
<1>3. CASE Accept
  <2>1. main.reply = <<>> /\ main'.reply = <<>>
    BY <1>3, ListeningFacts DEF Accept, MainInv, MainStates, Listening
  <2>2. client'[c].got = client[c].got
    BY <1>0, <1>3 DEF Accept, ClientStates
  <2>3. QED
    BY <1>2, <1>3, <2>1, <2>2, NoEffect DEF Accept
<1>4. CASE HungUp
  BY <1>1, <1>4, CloseEffect DEF HungUp
<1>5. CASE DataIn
  BY <1>0, <1>5, NoEffect DEF DataIn, MainStates, Histories
<1>6. CASE Timeout
  <2>1. CASE Close(main.c)
    BY <1>1, <1>6, <2>1, CloseEffect DEF Timeout, MainInv
  <2>2. CASE /\ main' = [main EXCEPT !.retry = @ + 1]
             /\ history' = [history EXCEPT !.silent = @ + 1]
             /\ UNCHANGED sock
    BY <1>0, <1>6, <2>2, NoEffect DEF Timeout, MainStates, Histories
  <2>3. QED
    BY <1>6, <2>1, <2>2 DEF Timeout
<1>7. CASE HandleIpc
  <2>1. main.c # c /\ main'.c # c
    BY <1>0, <1>7, HandleFacts DEF MainStates
  <2>2. sock'[c] = sock[c] /\ UNCHANGED <<client, stdin>>
    BY <1>0, <1>7, <2>1, HandleFacts
  <2>3. Launches(c)' = Launches(c)
    <3>1. history'.launched = history.launched \cup NewLaunches
      BY <1>7, HandleFacts
    <3>2. \A l \in NewLaunches : l.c # c
      BY <2>1 DEF NewLaunches
    <3>3. QED
      BY <3>1, <3>2 DEF Launches
  <2>4. Told(c)' = Told(c)
    BY <2>1, <2>2, NextOf DEF Told
  <2>5. LinesStep(c)
    BY <2>2, NextOf DEF LinesStep, Given, Sent
  <2>6. QED
    BY <2>2, <2>3, <2>4, <2>5 DEF Effect
<1>8. CASE SendReply
  <2>1. main.pc = "reply"
    BY <1>8 DEF SendReply
  <2>2. CASE sock[main.c].client_open
    <3>1. /\ sock' = [sock EXCEPT ![main.c].out = @ \o main.reply]
          /\ main' = [main EXCEPT !.pc = "poll", !.reply = <<>>]
          /\ UNCHANGED <<client, stdin, history>>
      BY <1>8, <2>2 DEF SendReply
    <3>2. main'.c = main.c /\ main'.reply = <<>>
      BY <1>0, <3>1 DEF MainStates
    <3>3. CASE c # main.c
      BY <1>0, <3>1, <3>2, <3>3, NoEffect
    <3>4. CASE c = main.c
      <4>1. /\ sock'[c].out = sock[c].out \o main.reply
            /\ sock'[c].client_open = sock[c].client_open
            /\ sock'[c].in = sock[c].in
        BY <1>0, <3>1, <3>4 DEF SockStates
      <4>2. sock[c].out \in Seq(Replies) /\ main.reply \in Seq(Replies)
        BY <1>0 DEF SockStates, MainStates
      <4>3. Elements(sock'[c].out) = Elements(sock[c].out) \cup Elements(main.reply)
        BY <4>1, <4>2, ElementsConcat
      <4>4. Told(c)' = client[c].got \cup Elements(sock'[c].out)
        BY <3>1, <3>2, NextOf, Nothing
      <4>5. Told(c)' = Told(c)
        BY <3>4, <4>3, <4>4 DEF Told
      <4>6. LinesStep(c) /\ Launches(c)' = Launches(c)
        BY <3>1, <4>1, NextOf DEF LinesStep, Given, Sent, Launches
      <4>7. QED
        BY <2>2, <3>4, <4>5, <4>6 DEF Effect
    <3>5. QED
      BY <3>3, <3>4
  <2>3. CASE ~sock[main.c].client_open
    BY <1>1, <1>8, <2>1, <2>3, CloseEffect DEF SendReply
  <2>4. QED
    BY <2>2, <2>3
<1>9. ASSUME NEW d \in Clients, Poll(d) PROVE Effect(c)
  <2>1. client'[c].got = client[c].got
    BY <1>0, <1>9 DEF Poll, ClientStates
  <2>2. QED
    BY <1>9, <2>1, NoEffect DEF Poll
<1>10. ASSUME NEW d \in Clients, HandleStdin(d) PROVE Effect(c)
  <2>1. CASE "stdin_in" \notin client[d].revents
    <3>1. client'[c].got = client[c].got /\ UNCHANGED <<stdin, sock>>
      BY <1>0, <1>10, <2>1 DEF HandleStdin, ClientStates
    <3>2. QED
      BY <1>10, <3>1, NoEffect DEF HandleStdin
  <2>2. CASE "stdin_in" \in client[d].revents
    <3>1. stdin' = [stdin EXCEPT ![d].lines = <<>>] /\ UNCHANGED <<main, history>>
      BY <1>10, <2>2 DEF HandleStdin
    <3>2. stdin'[c].count = stdin[c].count
          /\ stdin'[c].lines = IF c = d THEN <<>> ELSE stdin[c].lines
      BY <1>0, <3>1 DEF StdinStates
    <3>3. CASE Leave(d, "exit")
      BY <3>1, <3>2, <3>3, LeaveEffect
    <3>4. CASE /\ sock' = [sock EXCEPT ![d].in = @ \o stdin[d].lines]
               /\ client' = [client EXCEPT
                     ![d].pc = IF "stdin_hup" \in client[d].revents THEN "poll" ELSE "reply"]
      <4>1. client'[c].got = client[c].got
        BY <1>0, <3>4 DEF ClientStates
      <4>2. CASE c # d
        BY <1>0, <3>1, <3>2, <3>4, <4>1, <4>2, NoEffect
      <4>3. CASE c = d
        <5>1. /\ sock'[c].in = sock[c].in \o stdin[c].lines
              /\ sock'[c].out = sock[c].out
              /\ sock'[c].client_open = sock[c].client_open
          BY <1>0, <3>4, <4>3 DEF SockStates
        <5>2. sock[c].in \in Seq(Lines) /\ stdin[c].lines \in Seq(Lines)
          BY <1>0 DEF SockStates, StdinStates
        <5>3. Elements(sock'[c].in) = Elements(sock[c].in) \cup Elements(stdin[c].lines)
          BY <5>1, <5>2, ElementsConcat
        <5>4. Elements(stdin'[c].lines) = {}
          BY <1>2, <3>2, <4>3
        <5>5. Given(c)' = {} /\ Sent(c)' = Sent(c) \cup Given(c)
          BY <5>3, <5>4, NextOf DEF Given, Sent
        <5>6. LinesStep(c)
          BY <3>2, <5>5 DEF LinesStep
        <5>7. Told(c)' = Told(c) /\ Launches(c)' = Launches(c)
          BY <3>1, <4>1, <5>1, NextOf DEF Told, Launches
        <5>8. QED
          BY <5>1, <5>6, <5>7 DEF Effect
      <4>4. QED
        BY <4>2, <4>3
    <3>5. QED
      BY <1>10, <2>2, <3>3, <3>4 DEF HandleStdin
  <2>3. QED
    BY <2>1, <2>2
<1>11. ASSUME NEW d \in Clients, HandleReply(d) PROVE Effect(c)
  <2> DEFINE revents == client[d].revents
             eof == "sock_in" \in revents /\ sock[d].out = <<>>
             read == IF "sock_in" \in revents THEN Elements(sock[d].out) ELSE {}
             leaves == eof \/ revents \cap {"stdin_hup", "sock_hup"} # {}
             out == IF leaves \/ "sock_in" \in revents THEN <<>> ELSE sock[d].out
  <2>1. /\ client' = [client EXCEPT ![d].pc = IF leaves THEN "exit" ELSE "poll",
                                    ![d].revents = {}, ![d].got = @ \cup read]
        /\ sock' = [sock EXCEPT ![d].out = out, ![d].client_open = ~leaves]
        /\ UNCHANGED <<stdin, main, history>>
    BY <1>11 DEF HandleReply, Elements
  <2>2. CASE c # d
    BY <1>0, <2>1, <2>2, NoEffect
  <2>3. CASE c = d
    <3>1. /\ client'[c].got = client[c].got \cup read
          /\ sock'[c].out = out /\ sock'[c].in = sock[c].in /\ sock'[c].client_open = ~leaves
      BY <1>0, <2>1, <2>3, ZenonT(60) DEF ClientStates, SockStates
    <3>2. LinesStep(c) /\ Launches(c)' = Launches(c)
      BY <2>1, <3>1, NextOf DEF LinesStep, Given, Sent, Launches
    <3>3. Told(c)' = client[c].got \cup read \cup Elements(out)
                     \cup IF main.c = c THEN Elements(main.reply) ELSE {}
      <4>1. client'[c].got = client[c].got \cup read /\ sock'[c].out = out /\ UNCHANGED main
        BY <2>1, <3>1
      <4> HIDE DEF out, read
      <4>2. QED
        BY <4>1, NextOf
    <3>4. Told(c)' \subseteq Told(c) /\ (~leaves => Told(c)' = Told(c))
      BY <1>2, <2>3, <3>3 DEF Told
    <3>5. sock[c].client_open
      BY <1>11, <2>3 DEF HandleReply, ConnectionInv
    <3>6. QED
      BY <3>1, <3>2, <3>4, <3>5 DEF Effect
  <2>4. QED
    BY <2>2, <2>3
<1>12. ASSUME NEW d \in Clients, Type(d) PROVE Effect(c)
  <2>1. PICK command \in Commands :
          stdin' = [stdin EXCEPT ![d].count = @ + 1,
                                 ![d].lines = Append(@, [n |-> stdin[d].count + 1, command |-> command])]
    BY <1>12 DEF Type
  <2>2. UNCHANGED <<client, sock, main, history>> /\ stdin[d].count + 1 \in 1 .. CMDS
    BY <1>0, <1>12, Sizes DEF Type, StdinStates
  <2>3. CASE c # d
    BY <1>0, <2>1, <2>2, <2>3, NoEffect
  <2>4. CASE c = d
    <3> DEFINE line == [n |-> stdin[c].count + 1, command |-> command]
    <3>1. line \in Lines /\ line.n = stdin[c].count + 1
      BY <2>2, <2>4 DEF Lines
    <3>2. stdin[c].lines \in Seq(Lines)
      BY <1>0 DEF StdinStates
    <3>3. stdin'[c].count = stdin[c].count + 1 /\ stdin'[c].lines = Append(stdin[c].lines, line)
      BY <1>0, <2>1, <2>4 DEF StdinStates
    <3>4. Elements(stdin'[c].lines) = Elements(stdin[c].lines) \cup {line}
      <4> HIDE DEF line
      <4>1. Elements(Append(stdin[c].lines, line)) = Elements(stdin[c].lines) \cup {line}
        BY <3>1, <3>2, ElementsAppend
      <4>2. QED
        BY <3>3, <4>1
    <3>5. Given(c)' = Given(c) \cup {line} /\ Sent(c)' = Sent(c)
      BY <2>2, <3>4, NextOf DEF Given, Sent
    <3>6. LinesStep(c)
      BY <3>1, <3>3, <3>5 DEF LinesStep
    <3>7. Told(c)' = Told(c) /\ Launches(c)' = Launches(c)
      BY <2>2, NextOf DEF Told, Launches
    <3>8. QED
      BY <2>2, <3>6, <3>7 DEF Effect
  <2>5. QED
    BY <2>3, <2>4
<1>13. ASSUME NEW d \in Clients, CloseStdin(d) PROVE Effect(c)
  <2>1. stdin'[c].lines = stdin[c].lines /\ stdin'[c].count = stdin[c].count
        /\ UNCHANGED <<client, sock, main, history>>
    BY <1>0, <1>13 DEF CloseStdin, StdinStates
  <2>2. LinesStep(c)
    BY <2>1, NextOf DEF LinesStep, Given, Sent
  <2>3. Told(c)' = Told(c) /\ Launches(c)' = Launches(c)
    BY <2>1, NextOf DEF Told, Launches
  <2>4. QED
    BY <2>1, <2>2, <2>3 DEF Effect
<1>14. ASSUME NEW d \in Clients, Connect(d) PROVE Effect(c)
  <2>1. /\ client'[c].got = client[c].got
        /\ sock'[c].in = sock[c].in /\ sock'[c].out = sock[c].out
        /\ UNCHANGED <<stdin, main, history>>
        /\ c # d => sock'[c].client_open = sock[c].client_open
    BY <1>0, <1>14 DEF Connect, ClientStates, SockStates
  <2>2. c = d => Launches(c) = {}
    BY <1>14 DEF Connect, ConnectionInv
  <2>3. LinesStep(c)
    BY <2>1, NextOf DEF LinesStep, Given, Sent
  <2>4. Told(c)' = Told(c) /\ Launches(c)' = Launches(c)
    BY <2>1, NextOf DEF Told, Launches
  <2>5. QED
    BY <2>1, <2>2, <2>3, <2>4 DEF Effect
<1>15. ASSUME NEW d \in Clients, Kill(d) PROVE Effect(c)
  BY <1>15, LeaveEffect DEF Kill
<1>16. ASSUME \E w \in Active : Tap(w) \/ ProgramEnds(w) PROVE Effect(c)
  BY <1>16, NoEffect DEF Tap, ProgramEnds
<1>17. CASE ToggleBlockFile
  BY <1>17, NoEffect DEF ToggleBlockFile
<1>18. CASE UNCHANGED vars
  BY <1>18, NoEffect DEF vars
<1>19. QED
  BY <1>3, <1>4, <1>5, <1>6, <1>7, <1>8, <1>9, <1>10, <1>11, <1>12, <1>13, <1>14, <1>15, <1>16,
     <1>17, <1>18 DEF Next, Serving, Running

\* The client whose command is handled.
LEMMA HandleOwn ==
    ASSUME TypeOK, MainInv, NEW c \in Clients, c = main.c, LinesInv(c), ToldInv(c), HandleIpc
    PROVE  LinesInv(c)' /\ ToldInv(c)'
<1>0. PICK answer \in Answers :
        /\ answer = "OK" <=> Chosen # {}
        /\ main' = [main EXCEPT !.pc = "reply", !.reply = <<[n |-> Line.n, answer |-> answer]>>]
  BY HandleFacts
<1> DEFINE q == [n |-> Line.n, answer |-> answer]
<1>1. /\ main'.c = c /\ main'.reply = <<q>>
      /\ sock' = [sock EXCEPT ![c].in = <<>>]
      /\ history'.launched = history.launched \cup NewLaunches
      /\ UNCHANGED <<client, stdin>>
  BY <1>0, HandleFacts, TypeParts DEF MainStates
<1>2. main.reply = <<>>
  BY DEF HandleIpc, MainInv
<1>3. /\ sock'[c].in = <<>> /\ sock'[c].out = sock[c].out
      /\ sock'[c].client_open = sock[c].client_open
  BY <1>1, TypeParts DEF SockStates
<1>4. Elements(<<q>>) = {q}
  BY DEF Elements
<1>5. Told(c)' = Told(c) \cup {q}
  <2>1. Told(c)' = client[c].got \cup Elements(sock[c].out) \cup Elements(<<q>>)
    BY <1>1, <1>3, NextOf
  <2>2. Told(c) = client[c].got \cup Elements(sock[c].out)
    BY <1>2, Nothing DEF Told
  <2>3. QED
    BY <1>4, <2>1, <2>2
<1>6. Launches(c)' = Launches(c) \cup NewLaunches
  BY <1>1 DEF Launches, NewLaunches
<1>7. Given(c)' = Given(c) /\ Sent(c)' = {} /\ stdin'[c].count = stdin[c].count
  BY <1>1, <1>3, NextOf, Nothing DEF Given
<1>8. Line \in Sent(c) /\ Line.n \in Nat
  <2>1. sock[c].in \in Seq(Lines) /\ sock[c].in # <<>>
    BY <1>1, HandleFacts, TypeParts DEF SockStates
  <2>2. Line \in Sent(c)
    BY <2>1, HeadFirst DEF Line, Sent
  <2>3. QED
    BY <1>1, <2>2, ClientTypes
<1>9. OrderInv(c)' /\ \A n \in Nat : Past(c, n) => Past(c, n)'
  <2>1. LinesStep(c)
    BY <1>7 DEF LinesStep
  <2>2. QED
    BY <1>1, <2>1, OrderNext DEF LinesInv
<1>10. /\ Told(c) \subseteq Replies /\ Launches(c) \subseteq Launched
       /\ \A x \in Told(c) \cup Launches(c) : x.n \in Nat
  BY <1>1, ClientTypes
<1>11. \A n \in Nat : n = Line.n => Past(c, n)'
  BY <1>7, <1>8 DEF Past, LinesInv, OrderInv
<1>12. q.n = Line.n /\ q.answer = answer
  OBVIOUS
<1>13. /\ \A l \in NewLaunches : l.n = q.n
       /\ \A k, l \in NewLaunches : k = l
       /\ NewLaunches # {} <=> q.answer = "OK"
  <2>1. \A v, w \in Chosen : v = w
    BY HandleFacts
  <2>2. \A l \in NewLaunches : l.n = Line.n /\ \E w \in Chosen : TRUE
    BY DEF NewLaunches
  <2>3. Chosen # {} => NewLaunches # {}
    BY DEF NewLaunches
  <2>4. \A k, l \in NewLaunches : k = l
    BY <2>1 DEF NewLaunches
  <2>5. QED
    BY <1>0, <1>12, <2>2, <2>3, <2>4
<1> HIDE DEF q
<1>14. \A x \in Told(c) \cup Launches(c) : x.n < q.n
  BY <1>8, <1>12 DEF LinesInv, PastInv, Past
<1>15. PastInv(c)'
  <2>1. \A x \in Told(c) \cup Launches(c) : Past(c, x.n)'
    BY <1>9, <1>10 DEF LinesInv, PastInv
  <2>2. \A x \in {q} \cup NewLaunches : Past(c, x.n)'
    BY <1>8, <1>11, <1>12, <1>13
  <2>3. QED
    BY <1>5, <1>6, <2>1, <2>2 DEF PastInv
<1>16. \A x \in Told(c) \cup Launches(c) : x.n # q.n
  BY <1>8, <1>10, <1>12, <1>14
<1>17. ToldInv(c)'
  <2>1. \A r, s \in Told(c)' : r.n = s.n => r = s
    BY <1>5, <1>16 DEF ToldInv
  <2>2. \A k, l \in Launches(c)' : k.n = l.n => k = l
    BY <1>6, <1>13, <1>16 DEF ToldInv
  <2>3. \A r \in Told(c)' : r.answer = "OK" <=> \E l \in Launches(c)' : l.n = r.n
    BY <1>5, <1>6, <1>13, <1>16 DEF ToldInv
  <2>4. sock'[c].client_open => \A l \in Launches(c)' : \E r \in Told(c)' : r.n = l.n
    BY <1>3, <1>5, <1>6, <1>13 DEF ToldInv
  <2>5. QED
    BY <1>1, <2>1, <2>2, <2>3, <2>4 DEF ToldInv
<1>18. QED
  BY <1>1, <1>9, <1>15, <1>17 DEF LinesInv

-----------------------------------------------------------------------------
(* The main thread and the connections.                                    *)

LEMMA ConcatNotEmpty ==
    ASSUME NEW S, NEW s \in Seq(S), NEW t \in Seq(S), s # <<>>
    PROVE  s \o t # <<>>
  OBVIOUS

\* A step of a client, which leaves the main thread and its queue alone.
LEMMA MainKept ==
    ASSUME MainInv, UNCHANGED <<main, backlog, history>>,
           main.pc # "listen" =>
              /\ client'[main.c].accepted = client[main.c].accepted
              /\ sock'[main.c].client_open => sock[main.c].client_open
              /\ sock[main.c].in # <<>> => sock'[main.c].in # <<>>
    PROVE  MainInv'
  BY DEF MainInv, Injective

\* The end of a connection, by KFMon.
LEMMA CloseMain ==
    ASSUME TypeOK, MainInv, Close(main.c), UNCHANGED backlog
    PROVE  MainInv'
<1>1. main' = Listening /\ history'.silent = 0
  BY Sizes, TypeParts DEF Close, Histories
<1>2. Injective(backlog)'
  BY DEF MainInv, Injective
<1>3. 0 <= Listening.retry
  BY ListeningFacts
<1>4. QED
  BY <1>1, <1>2, <1>3, ListeningFacts DEF MainInv

LEMMA MainNext ==
    ASSUME TypeOK, MainInv, \A c \in Clients : ConnectionInv(c), [Next]_vars
    PROVE  MainInv'
<1>0. /\ client \in [Clients -> ClientStates]
      /\ sock \in [Clients -> SockStates]
      /\ backlog \in Seq(Clients)
      /\ main \in MainStates
      /\ history \in Histories
  BY TypeParts
<1>1. main.pc # "listen" => main.c \in Clients
  BY DEF MainInv
<1>2. UNCHANGED backlog => (Injective(backlog) => Injective(backlog)')
  BY DEF Injective
<1>3. CASE Accept
  <2> DEFINE c == Head(backlog)
  <2>1. backlog # <<>> /\ Injective(backlog)
    BY <1>3 DEF Accept, MainInv
  <2>2. c \in Clients /\ Injective(Tail(backlog))
    BY <1>0, <2>1, QueueTail
  <2>3. Injective(backlog)'
    BY <1>3, <2>2 DEF Accept, Injective
  <2>4. main.pc = "listen" /\ main = Listening
    BY <1>3 DEF Accept, MainInv
  <2>5. main' = [Listening EXCEPT !.pc = "poll", !.c = c]
    BY <1>3 DEF Accept
  <2>6. main'.pc = "poll" /\ main'.c = c /\ main'.reply = <<>> /\ main'.retry = 0
    BY <2>5, ListeningFacts DEF MainStates
  <2>7. client'[c].accepted = sock[c].client_open /\ UNCHANGED <<sock, history>>
    BY <1>0, <1>3, <2>2 DEF Accept, ClientStates
  <2>8. history.silent <= main.retry /\ main.retry = 0
    BY <2>4, ListeningFacts DEF MainInv
  <2> HIDE DEF c
  <2>9. QED
    BY <2>2, <2>3, <2>6, <2>7, <2>8 DEF MainInv
<1>4. CASE HungUp
  BY <1>4, CloseMain DEF HungUp
<1>5. CASE DataIn
  <2>1. main'.pc = "ipc" /\ main'.c = main.c /\ main'.reply = main.reply /\ main'.retry = main.retry
        /\ history'.silent = 0
    BY <1>0, <1>5 DEF DataIn, MainStates, Histories
  <2>2. 0 <= main.retry
    BY <1>0, Sizes DEF MainStates
  <2>3. main.c \in Clients /\ client[main.c].accepted /\ main.reply = <<>> /\ sock[main.c].in # <<>>
    BY <1>5 DEF DataIn, MainInv
  <2>4. UNCHANGED <<client, sock, backlog>>
    BY <1>5 DEF DataIn
  <2>5. QED
    BY <1>2, <2>1, <2>2, <2>3, <2>4 DEF MainInv
<1>6. CASE Timeout
  <2>1. CASE Close(main.c)
    BY <1>6, <2>1, CloseMain DEF Timeout
  <2>2. CASE /\ main' = [main EXCEPT !.retry = @ + 1]
             /\ history' = [history EXCEPT !.silent = @ + 1]
             /\ UNCHANGED sock
    <3>1. main'.pc = "poll" /\ main'.c = main.c /\ main'.reply = main.reply
          /\ main'.retry = main.retry + 1 /\ history'.silent = history.silent + 1
      BY <1>0, <1>6, <2>2 DEF Timeout, MainStates, Histories
    <3>2. main.retry \in Nat /\ history.silent \in Nat
      BY <1>0, Sizes DEF MainStates, Histories
    <3>3. main.pc = "poll" /\ UNCHANGED <<client, sock, backlog>>
      BY <1>6, <2>2 DEF Timeout
    <3>4. history'.silent <= main'.retry
      BY <3>1, <3>2 DEF MainInv
    <3>5. QED
      BY <1>2, <3>1, <3>3, <3>4 DEF MainInv
  <2>3. QED
    BY <1>6, <2>1, <2>2 DEF Timeout
<1>7. CASE HandleIpc
  <2>1. PICK answer :
          main' = [main EXCEPT !.pc = "reply", !.reply = <<[n |-> Line.n, answer |-> answer]>>]
    BY <1>7, HandleFacts
  <2>2. main'.pc = "reply" /\ main'.c = main.c /\ main'.retry = main.retry
        /\ main'.reply = <<[n |-> Line.n, answer |-> answer]>>
    BY <1>0, <2>1 DEF MainStates
  <2>3. main'.reply # <<>>
    BY <2>2
  <2>4. sock' = [sock EXCEPT ![main.c].in = <<>>] /\ UNCHANGED <<client, backlog>>
        /\ history'.silent = history.silent
    BY <1>7, HandleFacts
  <2>5. main.c \in Clients /\ client[main.c].accepted
    BY <1>7 DEF HandleIpc, MainInv
  <2>6. QED
    BY <1>2, <2>2, <2>3, <2>4, <2>5 DEF MainInv
<1>8. CASE SendReply
  <2>1. CASE sock[main.c].client_open
    <3>1. main'.pc = "poll" /\ main'.c = main.c /\ main'.retry = main.retry /\ main'.reply = <<>>
      BY <1>0, <1>8, <2>1 DEF SendReply, MainStates
    <3>2. main.c \in Clients /\ client[main.c].accepted /\ UNCHANGED <<client, backlog, history>>
      BY <1>8, <2>1 DEF SendReply, MainInv
    <3>3. QED
      BY <1>2, <3>1, <3>2 DEF MainInv
  <2>2. CASE ~sock[main.c].client_open
    BY <1>8, <2>2, CloseMain DEF SendReply
  <2>3. QED
    BY <2>1, <2>2
<1>9. ASSUME NEW c \in Clients, Poll(c) PROVE MainInv'
  <2>1. \A d \in Clients : client'[d].accepted = client[d].accepted
    BY <1>0, <1>9 DEF Poll, ClientStates
  <2>2. QED
    BY <1>1, <1>9, <2>1, MainKept DEF Poll
<1>10. ASSUME NEW c \in Clients, NEW how, Leave(c, how), UNCHANGED <<main, backlog, history>>
       PROVE  MainInv'
  <2>1. \A d \in Clients : /\ client'[d].accepted = client[d].accepted
                           /\ sock'[d].client_open => sock[d].client_open
                           /\ sock'[d].in = sock[d].in
    BY <1>0, <1>10 DEF Leave, ClientStates, SockStates
  <2>2. QED
    BY <1>1, <1>10, <2>1, MainKept
<1>11. ASSUME NEW c \in Clients, HandleStdin(c) PROVE MainInv'
  <2>1. CASE "stdin_in" \notin client[c].revents
    <3>1. \A d \in Clients : client'[d].accepted = client[d].accepted
      BY <1>0, <1>11, <2>1 DEF HandleStdin, ClientStates
    <3>2. QED
      BY <1>1, <1>11, <2>1, <3>1, MainKept DEF HandleStdin
  <2>2. CASE "stdin_in" \in client[c].revents /\ Leave(c, "exit")
    BY <1>10, <1>11, <2>2 DEF HandleStdin
  <2>3. CASE /\ sock' = [sock EXCEPT ![c].in = @ \o stdin[c].lines]
             /\ client' = [client EXCEPT
                   ![c].pc = IF "stdin_hup" \in client[c].revents THEN "poll" ELSE "reply"]
    <3>1. sock[c].in \in Seq(Lines) /\ stdin[c].lines \in Seq(Lines)
      BY TypeParts DEF SockStates, StdinStates
    <3>2. sock[c].in # <<>> => sock[c].in \o stdin[c].lines # <<>>
      BY <3>1, ConcatNotEmpty
    <3>3. \A d \in Clients : /\ client'[d].accepted = client[d].accepted
                             /\ sock'[d].client_open = sock[d].client_open
                             /\ sock[d].in # <<>> => sock'[d].in # <<>>
      BY <1>0, <2>3, <3>2 DEF ClientStates, SockStates
    <3>4. QED
      BY <1>1, <1>11, <3>3, MainKept DEF HandleStdin
  <2>4. QED
    BY <1>11, <2>1, <2>2, <2>3 DEF HandleStdin
<1>12. ASSUME NEW c \in Clients, HandleReply(c) PROVE MainInv'
  <2>1. sock[c].client_open
    BY <1>12 DEF HandleReply, ConnectionInv
  <2>2. \A d \in Clients : /\ client'[d].accepted = client[d].accepted
                           /\ sock'[d].client_open => sock[d].client_open
                           /\ sock'[d].in = sock[d].in
    BY <1>0, <1>12, <2>1, ZenonT(60) DEF HandleReply, ClientStates, SockStates
  <2>3. QED
    BY <1>1, <1>12, <2>2, MainKept DEF HandleReply
<1>13. ASSUME NEW c \in Clients, Type(c) \/ CloseStdin(c) PROVE MainInv'
  BY <1>13, MainKept DEF Type, CloseStdin
<1>14. ASSUME NEW c \in Clients, Connect(c) PROVE MainInv'
  <2>1. c \notin Elements(backlog) /\ main.c # c
    BY <1>14 DEF Connect, ConnectionInv, IsQueued
  <2>2. Injective(backlog')
    BY <1>0, <1>14, <2>1, QueueAppend DEF Connect, MainInv
  <2>3. UNCHANGED <<main, history>>
    BY <1>14 DEF Connect
  <2>4. \A d \in Clients : d # c => client'[d] = client[d] /\ sock'[d] = sock[d]
    BY <1>0, <1>14 DEF Connect
  <2>5. main.pc # "listen" => /\ client'[main.c] = client[main.c]
                              /\ sock'[main.c] = sock[main.c]
    BY <1>1, <2>1, <2>4
  <2>6. Injective(backlog)'
    BY <2>2 DEF Injective
  <2>7. QED
    BY <2>3, <2>5, <2>6 DEF MainInv
<1>15. ASSUME NEW c \in Clients, Kill(c) PROVE MainInv'
  BY <1>10, <1>15 DEF Kill
<1>16. ASSUME \E w \in Active : Tap(w) \/ ProgramEnds(w) PROVE MainInv'
  BY <1>16, MainKept DEF Tap, ProgramEnds
<1>17. CASE ToggleBlockFile
  BY <1>17, MainKept DEF ToggleBlockFile
<1>18. CASE UNCHANGED vars
  BY <1>18, MainKept DEF vars
<1>19. QED
  BY <1>3, <1>4, <1>5, <1>6, <1>7, <1>8, <1>9, <1>11, <1>12, <1>13, <1>14, <1>15, <1>16, <1>17,
     <1>18 DEF Next, Serving, Running

\* A step that neither connects, accepts nor launches: the client may leave.
LEMMA ConnectionKept ==
    ASSUME NEW c, ConnectionInv(c), UNCHANGED backlog,
           main'.c = main.c \/ main'.c # c,
           history'.launched = history.launched,
           client'[c].accepted = client[c].accepted,
           \/ client'[c].pc = client[c].pc /\ sock'[c].client_open = sock[c].client_open
           \/ /\ client'[c].pc \in {"poll", "stdin", "reply"}
              /\ client[c].pc \in {"poll", "stdin", "reply"}
              /\ sock'[c].client_open = sock[c].client_open
           \/ client'[c].pc \in {"exit", "killed"} /\ ~sock'[c].client_open
    PROVE  ConnectionInv(c)'
<1>1. IsQueued(c)' <=> IsQueued(c)
  BY DEF IsQueued, Elements
<1>2. Launches(c)' = Launches(c)
  BY DEF Launches
<1>3. sock'[c].client_open <=> client'[c].pc \in {"poll", "stdin", "reply"}
  BY DEF ConnectionInv
<1>4. client'[c].pc = "off" => client[c].pc = "off"
  OBVIOUS
<1>5. QED
  BY <1>1, <1>2, <1>3, <1>4 DEF ConnectionInv

LEMMA ConnectionNext ==
    ASSUME TypeOK, MainInv, NEW c \in Clients, ConnectionInv(c), [Next]_vars
    PROVE  ConnectionInv(c)'
<1>0. /\ client \in [Clients -> ClientStates]
      /\ sock \in [Clients -> SockStates]
      /\ backlog \in Seq(Clients)
      /\ main \in MainStates
      /\ history \in Histories
  BY TypeParts
<1>1. main.pc # "listen" => main.c \in Clients
  BY DEF MainInv
<1>2. ASSUME Close(main.c), main.c \in Clients, UNCHANGED <<client, backlog>>
      PROVE  ConnectionInv(c)'
  <2>1. main'.c # c /\ history'.launched = history.launched
    BY <1>0, <1>2, ListeningFacts, Sizes DEF Close, Histories
  <2>2. sock'[c].client_open = sock[c].client_open
    BY <1>0, <1>2 DEF Close, SockStates
  <2>3. QED
    BY <1>2, <2>1, <2>2, ConnectionKept
<1>3. CASE Accept
  <2> DEFINE h == Head(backlog)
  <2>1. backlog # <<>> /\ Injective(backlog)
    BY <1>3 DEF Accept, MainInv
  <2>2. h \in Clients /\ h \in Elements(backlog) /\ Elements(Tail(backlog)) = Elements(backlog) \ {h}
    BY <1>0, <2>1, QueueTail
  <2>3. IsQueued(c)' <=> c \in Elements(backlog) \ {h}
    <3>1. IsQueued(c)' <=> c \in Elements(backlog')
      BY DEF IsQueued, Elements
    <3>2. QED
      BY <1>3, <2>2, <3>1 DEF Accept
  <2>4. main'.c = h
    BY <1>3, ListeningFacts DEF Accept, MainStates
  <2>5. Launches(c)' = Launches(c) /\ UNCHANGED sock
    BY <1>3 DEF Accept, Launches
  <2>6. client'[c].pc = client[c].pc /\ (c # h => client'[c].accepted = client[c].accepted)
    BY <1>0, <1>3 DEF Accept, ClientStates
  <2> HIDE DEF h
  <2>7. QED
    BY <2>2, <2>3, <2>4, <2>5, <2>6 DEF ConnectionInv, IsQueued
<1>4. CASE HungUp
  BY <1>1, <1>2, <1>4 DEF HungUp
<1>5. CASE DataIn
  BY <1>0, <1>5, ConnectionKept DEF DataIn, MainStates, Histories
<1>6. CASE Timeout
  <2>1. CASE Close(main.c)
    BY <1>1, <1>2, <1>6, <2>1 DEF Timeout
  <2>2. CASE /\ main' = [main EXCEPT !.retry = @ + 1]
             /\ history' = [history EXCEPT !.silent = @ + 1]
             /\ UNCHANGED sock
    BY <1>0, <1>6, <2>2, ConnectionKept DEF Timeout, MainStates, Histories
  <2>3. QED
    BY <1>6, <2>1, <2>2 DEF Timeout
<1>7. CASE HandleIpc
  <2>1. main.c \in Clients /\ client[main.c].accepted
    BY <1>7 DEF HandleIpc, MainInv
  <2>2. PICK answer :
          main' = [main EXCEPT !.pc = "reply", !.reply = <<[n |-> Line.n, answer |-> answer]>>]
    BY <1>7, HandleFacts
  <2>3. main'.c = main.c
    BY <1>0, <2>2 DEF MainStates
  <2>4. sock' = [sock EXCEPT ![main.c].in = <<>>] /\ UNCHANGED <<client, backlog>>
        /\ history'.launched = history.launched \cup NewLaunches
    BY <1>7, HandleFacts
  <2>5. sock'[c].client_open = sock[c].client_open
    BY <1>0, <2>4 DEF SockStates
  <2>6. IsQueued(c)' <=> IsQueued(c)
    BY <2>4 DEF IsQueued, Elements
  <2>7. c # main.c => Launches(c)' = Launches(c)
    <3>1. \A l \in NewLaunches : l.c = main.c
      BY DEF NewLaunches
    <3>2. QED
      BY <2>4, <3>1 DEF Launches
  <2>8. QED
    BY <2>1, <2>3, <2>4, <2>5, <2>6, <2>7 DEF ConnectionInv
<1>8. CASE SendReply
  <2>1. CASE sock[main.c].client_open
    <3>1. main'.c = main.c /\ UNCHANGED <<client, backlog, history>>
      BY <1>0, <1>8, <2>1 DEF SendReply, MainStates
    <3>2. sock'[c].client_open = sock[c].client_open
      <4>1. PICK out : sock' = [sock EXCEPT ![main.c].out = out]
        BY <1>8, <2>1 DEF SendReply
      <4>2. QED
        BY <1>0, <4>1 DEF SockStates
    <3>3. QED
      BY <3>1, <3>2, ConnectionKept
  <2>2. CASE ~sock[main.c].client_open
    BY <1>1, <1>2, <1>8, <2>2 DEF SendReply
  <2>3. QED
    BY <2>1, <2>2
<1>9. ASSUME NEW d \in Clients, Poll(d) PROVE ConnectionInv(c)'
  <2>1. /\ client'[c].accepted = client[c].accepted
        /\ c # d => client'[c].pc = client[c].pc
        /\ c = d => client[c].pc = "poll" /\ client'[c].pc = "stdin"
    BY <1>0, <1>9 DEF Poll, ClientStates
  <2>2. QED
    BY <1>9, <2>1, ConnectionKept DEF Poll
<1>10. ASSUME NEW d \in Clients, NEW how \in {"exit", "killed"}, Leave(d, how),
              UNCHANGED <<main, backlog, history>>
       PROVE  ConnectionInv(c)'
  <2>1. /\ client'[c].accepted = client[c].accepted
        /\ c # d => client'[c].pc = client[c].pc /\ sock'[c].client_open = sock[c].client_open
        /\ c = d => client'[c].pc = how /\ ~sock'[c].client_open
    BY <1>0, <1>10 DEF Leave, ClientStates, SockStates
  <2>2. QED
    BY <1>10, <2>1, ConnectionKept
<1>11. ASSUME NEW d \in Clients, HandleStdin(d) PROVE ConnectionInv(c)'
  <2>1. CASE "stdin_in" \notin client[d].revents
    <3>1. /\ client'[c].accepted = client[c].accepted /\ UNCHANGED sock
          /\ c # d => client'[c].pc = client[c].pc
          /\ c = d => client[c].pc = "stdin" /\ client'[c].pc = "reply"
      BY <1>0, <1>11, <2>1 DEF HandleStdin, ClientStates
    <3>2. QED
      BY <1>11, <3>1, ConnectionKept DEF HandleStdin
  <2>2. CASE "stdin_in" \in client[d].revents /\ Leave(d, "exit")
    BY <1>10, <1>11, <2>2 DEF HandleStdin
  <2>3. CASE /\ sock' = [sock EXCEPT ![d].in = @ \o stdin[d].lines]
             /\ client' = [client EXCEPT
                   ![d].pc = IF "stdin_hup" \in client[d].revents THEN "poll" ELSE "reply"]
    <3>1. /\ client'[c].accepted = client[c].accepted
          /\ sock'[c].client_open = sock[c].client_open
          /\ c # d => client'[c].pc = client[c].pc
          /\ c = d => client[c].pc = "stdin" /\ client'[c].pc \in {"poll", "reply"}
      BY <1>0, <1>11, <2>3 DEF HandleStdin, ClientStates, SockStates
    <3>2. QED
      BY <1>11, <3>1, ConnectionKept DEF HandleStdin
  <2>4. QED
    BY <1>11, <2>1, <2>2, <2>3 DEF HandleStdin
<1>12. ASSUME NEW d \in Clients, HandleReply(d) PROVE ConnectionInv(c)'
  <2>1. CASE c # d
    <3>1. client'[c] = client[c] /\ sock'[c] = sock[c]
      BY <1>0, <1>12, <2>1 DEF HandleReply
    <3>2. QED
      BY <1>12, <3>1, ConnectionKept DEF HandleReply
  <2>2. CASE c = d
    <3>1. client'[c].accepted = client[c].accepted /\ client[c].pc = "reply"
          /\ UNCHANGED <<main, backlog, history>>
      BY <1>0, <1>12, <2>2 DEF HandleReply, ClientStates
    <3>2. \/ client'[c].pc = "poll" /\ sock'[c].client_open
          \/ client'[c].pc = "exit" /\ ~sock'[c].client_open
      <4> DEFINE leaves == \/ "sock_in" \in client[d].revents /\ sock[d].out = <<>>
                           \/ client[d].revents \cap {"stdin_hup", "sock_hup"} # {}
      <4>1. client'[c].pc = (IF leaves THEN "exit" ELSE "poll") /\ sock'[c].client_open = ~leaves
        BY <1>0, <1>12, <2>2 DEF HandleReply, ClientStates, SockStates
      <4>2. QED
        BY <4>1
    <3>3. sock[c].client_open = TRUE
      BY <1>0, <3>1 DEF ConnectionInv, SockStates
    <3>4. sock'[c].client_open => sock'[c].client_open = sock[c].client_open
      <4>1. sock'[c].client_open \in BOOLEAN
        BY <1>12, TypeNext, TypeParts DEF Next, Running, SockStates, TypeOK
      <4>2. QED
        BY <3>3, <4>1
    <3>5. QED
      BY <3>1, <3>2, <3>4, ConnectionKept
  <2>3. QED
    BY <2>1, <2>2
<1>13. ASSUME NEW d \in Clients, Type(d) \/ CloseStdin(d) PROVE ConnectionInv(c)'
  BY <1>13, ConnectionKept DEF Type, CloseStdin
<1>14. ASSUME NEW d \in Clients, Connect(d) PROVE ConnectionInv(c)'
  <2>1. client[d].pc = "off" /\ UNCHANGED <<main, history>> /\ Launches(c)' = Launches(c)
    BY <1>14 DEF Connect, Launches
  <2>2. /\ client'[c].accepted = client[c].accepted
        /\ c # d => client'[c].pc = client[c].pc /\ sock'[c].client_open = sock[c].client_open
        /\ c = d => client'[c].pc = "poll" /\ sock'[c].client_open
    BY <1>0, <1>14 DEF Connect, ClientStates, SockStates
  <2>3. IsQueued(c)' <=> IsQueued(c) \/ c = d
    <3>1. Elements(backlog') = Elements(backlog) \cup {d}
      BY <1>0, <1>14, ElementsAppend DEF Connect
    <3>2. IsQueued(c)' <=> c \in Elements(backlog')
      BY DEF IsQueued, Elements
    <3>3. QED
      BY <3>1, <3>2 DEF IsQueued
  <2>4. QED
    BY <2>1, <2>2, <2>3 DEF ConnectionInv
<1>15. ASSUME NEW d \in Clients, Kill(d) PROVE ConnectionInv(c)'
  BY <1>10, <1>15 DEF Kill
<1>16. ASSUME \E w \in Active : Tap(w) \/ ProgramEnds(w) PROVE ConnectionInv(c)'
  BY <1>16, ConnectionKept DEF Tap, ProgramEnds
<1>17. CASE ToggleBlockFile
  BY <1>17, ConnectionKept DEF ToggleBlockFile
<1>18. CASE UNCHANGED vars
  BY <1>18, ConnectionKept DEF vars
<1>19. QED
  BY <1>3, <1>4, <1>5, <1>6, <1>7, <1>8, <1>9, <1>11, <1>12, <1>13, <1>14, <1>15, <1>16, <1>17,
     <1>18 DEF Next, Serving, Running

-----------------------------------------------------------------------------
(* The invariant.                                                          *)

LEMMA BlockerNext ==
    ASSUME TypeOK, MainInv, OneBlocker, [Next]_vars
    PROVE  OneBlocker'
<1>1. CASE HandleIpc
  <2>1. /\ running' = running \cup Chosen
        /\ \A v, w \in Chosen : v = w
        /\ \A w \in Chosen : MayLaunch(Line.command, w)
    BY <1>1, HandleFacts
  <2>2. \A w \in Chosen : w \notin Blockers \/ running \cap Blockers = {}
    BY <2>1 DEF MayLaunch, Forced, BlockerRunning
  <2>3. QED
    BY <2>1, <2>2 DEF OneBlocker
<1>2. ASSUME NEW w \in Active, Tap(w) PROVE OneBlocker'
  BY <1>2 DEF Tap, BlockerRunning, OneBlocker
<1>3. ASSUME NEW w \in Active, ProgramEnds(w) PROVE OneBlocker'
  BY <1>3 DEF ProgramEnds, OneBlocker
<1>4. ASSUME UNCHANGED running PROVE OneBlocker'
  BY <1>4 DEF OneBlocker
<1>5. ASSUME Accept \/ HungUp \/ DataIn \/ Timeout \/ SendReply PROVE UNCHANGED running
  BY <1>5 DEF Accept, HungUp, DataIn, Timeout, SendReply, watches, vars
<1>6. ASSUME NEW c \in Clients, Running(c) \/ Type(c) \/ CloseStdin(c) \/ Connect(c) \/ Kill(c)
      PROVE  UNCHANGED running
  BY <1>6 DEF Running, Poll, HandleStdin, HandleReply, Type, CloseStdin, Connect, Kill, watches
<1>7. ToggleBlockFile \/ UNCHANGED vars => UNCHANGED running
  BY DEF ToggleBlockFile, vars, watches
<1>8. QED
  BY <1>1, <1>2, <1>3, <1>4, <1>5, <1>6, <1>7 DEF Next, Serving

LEMMA InvInit == Init => IInv
<1> SUFFICES ASSUME Init PROVE IInv
  OBVIOUS
<1>1. TypeOK
  BY TypeInit
<1>2. backlog = <<>> /\ main = Listening /\ running = {} /\ history.launched = {} /\ history.silent = 0
  BY DEF Init
<1>3. MainInv
  BY <1>2, ListeningFacts DEF MainInv, Injective
<1>4. OneBlocker
  BY <1>2 DEF OneBlocker
<1>5. ASSUME NEW c \in Clients PROVE LinesInv(c) /\ ToldInv(c) /\ ConnectionInv(c)
  <2>1. /\ client[c].pc = "off" /\ client[c].got = {} /\ ~sock[c].client_open
        /\ stdin[c].lines = <<>> /\ sock[c].in = <<>> /\ sock[c].out = <<>>
    BY DEF Init
  <2>2. Given(c) = {} /\ Sent(c) = {} /\ ~IsQueued(c)
    BY <1>2, <2>1, Nothing DEF Given, Sent, IsQueued
  <2>3. Told(c) = {} /\ Launches(c) = {} /\ main.c # c
    BY <1>2, <2>1, Nothing, ListeningFacts, Sizes DEF Told, Launches
  <2>4. LinesInv(c)
    BY <2>2, <2>3 DEF LinesInv, OrderInv, PastInv
  <2>5. ToldInv(c)
    BY <2>3 DEF ToldInv
  <2>6. ConnectionInv(c)
    BY <2>1, <2>2, <2>3 DEF ConnectionInv
  <2>7. QED
    BY <2>4, <2>5, <2>6
<1>6. QED
  BY <1>1, <1>3, <1>4, <1>5 DEF IInv

LEMMA InvNext == IInv /\ [Next]_vars => IInv'
<1> SUFFICES ASSUME IInv, [Next]_vars PROVE IInv'
  OBVIOUS
<1>1. /\ TypeOK /\ MainInv /\ OneBlocker
      /\ \A c \in Clients : LinesInv(c) /\ ToldInv(c) /\ ConnectionInv(c)
  BY DEF IInv
<1>2. TypeOK'
  BY <1>1, TypeNext
<1>3. MainInv'
  BY <1>1, MainNext
<1>4. OneBlocker'
  BY <1>1, BlockerNext
<1>5. ASSUME NEW c \in Clients PROVE LinesInv(c)' /\ ToldInv(c)' /\ ConnectionInv(c)'
  <2>1. ConnectionInv(c)'
    BY <1>1, ConnectionNext
  <2>2. CASE HandleIpc /\ c = main.c
    BY <1>1, <2>1, <2>2, HandleOwn
  <2>3. CASE HandleIpc => c # main.c
    <3>1. Effect(c)
      BY <1>1, <2>3, Effects
    <3>2. QED
      BY <1>1, <2>1, <3>1, EffectInv
  <2>4. QED
    BY <2>2, <2>3
<1>6. QED
  BY <1>2, <1>3, <1>4, <1>5 DEF IInv

LEMMA Invariance == Spec => []IInv
  BY InvInit, InvNext, PTL DEF Spec

-----------------------------------------------------------------------------
(* Theorems.                                                               *)

\* Every connection, line and answer is of its type: a connection is dropped at the
\* last silent window, at most one answer waits to be sent, and only active watches run.
THEOREM TypeCorrect == Spec => []TypeOK
  BY Invariance, PTL DEF IInv

\* A client that was gone when its connection was accepted launches nothing.
THEOREM GoneClientsLaunchNothing == Spec => []HungUpLaunchesNothing
<1>1. IInv => HungUpLaunchesNothing
  <2>1. SUFFICES ASSUME IInv, NEW l \in history.launched PROVE client[l.c].accepted
    BY DEF HungUpLaunchesNothing
  <2>2. l.c \in Clients
    BY <2>1, TypeParts DEF IInv, Histories, Launched
  <2>3. l \in Launches(l.c)
    BY DEF Launches
  <2>4. QED
    BY <2>1, <2>2, <2>3 DEF IInv, ConnectionInv
<1>2. QED
  BY <1>1, Invariance, PTL

\* A set without two different members has one member at most.
LEMMA OneAtMost ==
    ASSUME NEW S, \A x, y \in S : x = y
    PROVE  Cardinality(S) <= 1
<1>1. CASE S = {}
  BY <1>1, FS_EmptySet
<1>2. CASE S # {}
  <2>1. PICK x \in S : TRUE
    BY <1>2
  <2>2. S = {x}
    BY <2>1
  <2>3. QED
    BY <2>2, FS_Singleton
<1>3. QED
  BY <1>1, <1>2

\* Forced commands and taps included, one spawn blocker runs at a time.
THEOREM OneBlockerAtATime == Spec => []OneBlockerRuns
<1>1. OneBlocker => OneBlockerRuns
  BY OneAtMost DEF OneBlocker, OneBlockerRuns
<1>2. QED
  BY <1>1, Invariance, PTL DEF IInv

\* A command is answered OK if and only if it launched its program, the one program
\* it launches, and a client that stays to hear an answer gets no other.
THEOREM AnswersAgreeWithLaunches == Spec => []AnswersAreTrue
<1>1. IInv => AnswersAreTrue
  <2>1. SUFFICES ASSUME IInv, NEW c \in Clients, NEW n \in 1 .. CMDS
                 PROVE  LET launches == {l \in history.launched : l.c = c /\ l.n = n}
                            told == client[c].got \cup {sock[c].out[k] : k \in 1 .. Len(sock[c].out)}
                                    \cup IF main.c = c THEN {main.reply[k] : k \in 1 .. Len(main.reply)}
                                         ELSE {}
                            answers == {r.answer : r \in {q \in told : q.n = n}}
                        IN  /\ Cardinality(launches) <= 1
                            /\ answers \subseteq Answers
                            /\ "OK" \in answers => launches # {} /\ answers = {"OK"}
                            /\ launches # {} /\ sock[c].client_open => answers = {"OK"}
    BY DEF AnswersAreTrue
  <2> DEFINE launches == {l \in history.launched : l.c = c /\ l.n = n}
             answers == {r.answer : r \in {q \in Told(c) : q.n = n}}
  <2>2. ToldInv(c) /\ Told(c) \subseteq Replies
    BY <2>1, ClientTypes DEF IInv
  <2>3. launches = {l \in Launches(c) : l.n = n}
    BY DEF Launches
  <2>4. Cardinality(launches) <= 1
    BY <2>2, <2>3, OneAtMost DEF ToldInv
  <2>5. answers \subseteq Answers
    BY <2>2 DEF Replies
  <2>6. "OK" \in answers => launches # {} /\ answers = {"OK"}
    BY <2>2, <2>3 DEF ToldInv
  <2>7. launches # {} /\ sock[c].client_open => answers = {"OK"}
    BY <2>2, <2>3 DEF ToldInv
  <2>8. Told(c) = client[c].got \cup {sock[c].out[k] : k \in 1 .. Len(sock[c].out)}
                  \cup IF main.c = c THEN {main.reply[k] : k \in 1 .. Len(main.reply)} ELSE {}
    BY DEF Told, Elements
  <2>9. QED
    BY <2>4, <2>5, <2>6, <2>7, <2>8
<1>2. QED
  BY <1>1, Invariance, PTL

=============================================================================
