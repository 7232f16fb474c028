--------------------------------- MODULE Ipc ---------------------------------
(***************************************************************************)
(* The IPC socket: handle_connection and handle_ipc in KFMon's main        *)
(* thread, and the clients, which run the main loop of utils/kfmon-ipc.c.  *)
(*                                                                         *)
(* A command is what it asks for; listing watches, giving a version and    *)
(* complaining about a command all come down to answering.  While KFMon    *)
(* serves a connection it does nothing else.                               *)
(***************************************************************************)
EXTENDS Integers, Sequences, FiniteSets

CONSTANTS
    Clients,        \* runs of kfmon-ipc
    WATCH_MAX,      \* number of watch slots
    Active,         \* the active ones
    Blockers,       \* those of them with block_spawns
    Ids,            \* ids clients ask for
    CMDS,           \* lines a client is given on stdin, at most
    RETRIES,        \* silent polls before a connection is dropped (4)
    Nobody

ASSUME SizesAssumption == WATCH_MAX \in 1 .. 255 /\ CMDS \in Nat /\ RETRIES \in Nat \ {0}
ASSUME WatchesAssumption == Active \subseteq 0 .. WATCH_MAX - 1 /\ Blockers \subseteq Active
ASSUME IdsAssumption == Ids \subseteq Nat
ASSUME NobodyAssumption == Nobody \notin Clients

\* start and trigger.  A trigger names a watch by its basename, which is unique:
\* the id of its slot stands for it, and WATCH_MAX for an unknown name.
Requests == [verb : {"start"}, id : Ids, force : BOOLEAN]
Query == [verb |-> "query", id |-> 0, force |-> FALSE]
Commands == Requests \cup {Query}

\* The nth line of a client, and the answer to it.
Lines == [n : 1 .. CMDS, command : Commands]
Answers == {"OK", "ERR_INVALID_ID", "WARN_ALREADY_RUNNING", "WARN_SPAWN_BLOCKED",
            "WARN_SPAWN_INHIBITED", "INFO"}
Replies == [n : 1 .. CMDS, answer : Answers]

Revents == {"stdin_in", "stdin_hup", "sock_in", "sock_hup"}

VARIABLES
    client,     \* each client's process
    stdin,      \* what is on each client's stdin
    sock,       \* each client's connection
    backlog,    \* connections KFMon has not accepted yet
    main,       \* the main thread, with the locals of handle_connection
    running,    \* slots with a process in the process table
    inhibited,  \* the BLOCK file is there
    history     \* launched: who launched what; swallowed: lines read but not handled;
                \* silent: silent windows since the connection last saw a command

watches == <<running, inhibited>>
vars == <<client, stdin, sock, backlog, main, watches, history>>

Listening == [pc |-> "listen", c |-> Nobody, retry |-> 0, reply |-> <<>>]

\* A connection is dropped at the last silent window, a reply is one answer to one
\* line, and only active watches run.
TypeOK ==
    /\ client \in [Clients -> [pc : {"off", "poll", "stdin", "reply", "exit", "killed"},
                               revents : SUBSET Revents, got : SUBSET Replies,
                               accepted : BOOLEAN]]
    /\ stdin \in [Clients -> [lines : Seq(Lines), count : 0 .. CMDS,
                              state : {"open", "hup", "eof"}]]
    /\ sock \in [Clients -> [in : Seq(Lines), out : Seq(Replies), client_open : BOOLEAN,
                             server_open : BOOLEAN]]
    /\ backlog \in Seq(Clients)
    /\ main \in [pc : {"listen", "poll", "ipc", "reply"}, c : Clients \cup {Nobody},
                 retry : 0 .. RETRIES - 1, reply : Seq(Replies)]
    /\ Len(main.reply) <= 1
    /\ running \in SUBSET Active
    /\ inhibited \in BOOLEAN
    /\ history \in [launched : SUBSET [c : Clients, n : 1 .. CMDS, watch : Active, id : Nat],
                    swallowed : SUBSET (Clients \X (1 .. CMDS)), silent : 0 .. RETRIES - 1]

Init ==
    /\ client = [c \in Clients |-> [pc |-> "off", revents |-> {}, got |-> {}, accepted |-> FALSE]]
    /\ stdin = [c \in Clients |-> [lines |-> <<>>, count |-> 0, state |-> "open"]]
    /\ sock = [c \in Clients |-> [in |-> <<>>, out |-> <<>>, client_open |-> FALSE,
                                  server_open |-> FALSE]]
    /\ backlog = <<>>
    /\ main = Listening
    /\ running = {}
    /\ inhibited = FALSE
    /\ history = [launched |-> {}, swallowed |-> {}, silent |-> 0]

-----------------------------------------------------------------------------
(* The client.                                                             *)

\* Lines are written to its stdin, by a user or by the other end of a pipe.
Type(c) ==
    /\ stdin[c].state = "open"
    /\ stdin[c].count < CMDS
    /\ client[c].pc \notin {"exit", "killed"}
    /\ \E command \in Commands :
          stdin' = [stdin EXCEPT ![c].count = @ + 1,
                                 ![c].lines = Append(@, [n |-> stdin[c].count + 1,
                                                         command |-> command])]
    /\ UNCHANGED <<client, sock, backlog, main, watches, history>>

\* The other end of the pipe is closed ("hup"), or the user types ^D ("eof").
CloseStdin(c) ==
    /\ stdin[c].state = "open"
    /\ client[c].pc \notin {"exit", "killed"}
    /\ \E how \in {"hup", "eof"} : stdin' = [stdin EXCEPT ![c].state = how]
    /\ UNCHANGED <<client, sock, backlog, main, watches, history>>

Connect(c) ==
    /\ client[c].pc = "off"
    /\ client' = [client EXCEPT ![c].pc = "poll"]
    /\ sock' = [sock EXCEPT ![c].client_open = TRUE, ![c].server_open = TRUE]
    /\ backlog' = Append(backlog, c)
    /\ UNCHANGED <<stdin, main, watches, history>>

\* The end of the process closes its socket.
Leave(c, how) ==
    /\ client' = [client EXCEPT ![c].pc = how, ![c].revents = {}]
    /\ sock' = [sock EXCEPT ![c].client_open = FALSE, ![c].out = <<>>]

\* A closed connection reads as end of file.
Polled(c) ==
    {r \in Revents :
        CASE r = "stdin_in"  -> stdin[c].lines # <<>> \/ stdin[c].state = "eof"
          [] r = "stdin_hup" -> stdin[c].state = "hup"
          [] r = "sock_in"   -> sock[c].out # <<>> \/ ~sock[c].server_open
          [] r = "sock_hup"  -> ~sock[c].server_open}

Poll(c) ==
    /\ client[c].pc = "poll"
    /\ Polled(c) # {}
    /\ client' = [client EXCEPT ![c].pc = "stdin", ![c].revents = Polled(c)]
    /\ UNCHANGED <<stdin, sock, backlog, main, watches, history>>

\* handle_stdin: send all there is; leave if that is nothing, or if KFMon is gone.
HandleStdin(c) ==
    /\ client[c].pc = "stdin"
    /\ IF "stdin_in" \notin client[c].revents
       THEN client' = [client EXCEPT ![c].pc = "reply"] /\ UNCHANGED <<stdin, sock>>
       ELSE /\ stdin' = [stdin EXCEPT ![c].lines = <<>>]
            /\ IF stdin[c].lines = <<>> \/ ~sock[c].server_open
               THEN Leave(c, "exit")
               ELSE /\ sock' = [sock EXCEPT ![c].in = @ \o stdin[c].lines]
                    /\ client' = [client EXCEPT
                          ![c].pc = IF "stdin_hup" \in client[c].revents THEN "poll" ELSE "reply"]
    /\ UNCHANGED <<backlog, main, watches, history>>

\* handle_reply, then the checks for a closed stdin and a closed connection.
HandleReply(c) ==
    /\ client[c].pc = "reply"
    /\ LET revents == client[c].revents
           eof == "sock_in" \in revents /\ sock[c].out = <<>>
           read == IF "sock_in" \in revents THEN {sock[c].out[n] : n \in 1 .. Len(sock[c].out)}
                   ELSE {}
           leaves == eof \/ revents \cap {"stdin_hup", "sock_hup"} # {}
       IN  /\ client' = [client EXCEPT ![c].pc = IF leaves THEN "exit" ELSE "poll",
                                       ![c].revents = {}, ![c].got = @ \cup read]
           /\ sock' = [sock EXCEPT ![c].out = IF leaves \/ "sock_in" \in revents THEN <<>> ELSE @,
                                   ![c].client_open = ~leaves]
    /\ UNCHANGED <<stdin, backlog, main, watches, history>>

\* A client may be killed, or tire of waiting.
Kill(c) ==
    /\ client[c].pc \in {"poll", "stdin", "reply"}
    /\ Leave(c, "killed")
    /\ UNCHANGED <<stdin, backlog, main, watches, history>>

-----------------------------------------------------------------------------
(* KFMon.                                                                  *)

\* A connection is accepted even if its client is gone by now.
Accept ==
    /\ main.pc = "listen"
    /\ backlog # <<>>
    /\ main' = [Listening EXCEPT !.pc = "poll", !.c = Head(backlog)]
    /\ client' = [client EXCEPT ![Head(backlog)].accepted = sock[Head(backlog)].client_open]
    /\ backlog' = Tail(backlog)
    /\ UNCHANGED <<stdin, sock, watches, history>>

Close(c) ==
    /\ main' = Listening
    /\ history' = [history EXCEPT !.silent = 0]
    /\ sock' = [sock EXCEPT ![c].server_open = FALSE, ![c].in = <<>>]

HungUp ==
    /\ main.pc = "poll"
    /\ ~sock[main.c].client_open
    /\ Close(main.c)
    /\ UNCHANGED <<client, stdin, backlog, watches>>

\* Mutant: data is looked at before the hang-up.
DataInAfterHangUp ==
    /\ main.pc = "poll"
    /\ sock[main.c].in # <<>>
    /\ main' = [main EXCEPT !.pc = "ipc"]
    /\ history' = [history EXCEPT !.silent = 0]
    /\ UNCHANGED <<client, stdin, sock, backlog, watches>>

DataIn ==
    /\ main.pc = "poll"
    /\ sock[main.c].client_open
    /\ sock[main.c].in # <<>>
    /\ main' = [main EXCEPT !.pc = "ipc"]
    /\ history' = [history EXCEPT !.silent = 0]
    /\ UNCHANGED <<client, stdin, sock, backlog, watches>>

\* Mutants: the connection is dropped one window late, or never.
TimeoutOffByOne ==
    /\ main.pc = "poll"
    /\ sock[main.c].client_open
    /\ sock[main.c].in = <<>>
    /\ IF main.retry >= RETRIES
       THEN Close(main.c)
       ELSE main' = [main EXCEPT !.retry = @ + 1] /\ UNCHANGED <<history, sock>>
    /\ UNCHANGED <<client, stdin, backlog, watches>>

TimeoutForever ==
    /\ main.pc = "poll"
    /\ sock[main.c].client_open
    /\ sock[main.c].in = <<>>
    /\ UNCHANGED vars

\* 15 seconds pass.  The silent windows add up, whatever comes between them.
Timeout ==
    /\ main.pc = "poll"
    /\ sock[main.c].client_open
    /\ sock[main.c].in = <<>>
    /\ IF main.retry + 1 >= RETRIES
       THEN Close(main.c)
       ELSE /\ main' = [main EXCEPT !.retry = @ + 1]
            /\ history' = [history EXCEPT !.silent = @ + 1]
            /\ UNCHANGED sock
    /\ UNCHANGED <<client, stdin, backlog, watches>>

\* An id is read as a byte.
Found(command) == {w \in Active : w = command.id % 256}

\* Mutant: it can.
ForcedBlocker(command, w) == command.force

\* A spawn blocker cannot be forced.
Forced(command, w) == command.force /\ w \notin Blockers

BlockerRunning == running \cap Blockers # {}

\* Mutant: the BLOCK file stops a forced launch too.
MayLaunchUninhibited(command, w) ==
    w \notin running /\ ~inhibited /\ (Forced(command, w) \/ ~BlockerRunning)

MayLaunch(command, w) ==
    w \notin running /\ (Forced(command, w) \/ (~BlockerRunning /\ ~inhibited))

\* Why watch w is not launched; the code has no answer ready for a forced one that
\* does not run.
Excuse(command, w) ==
    CASE w \in running                              -> "WARN_ALREADY_RUNNING"
      [] w \notin running /\ Forced(command, w)     -> "NONE"
      [] w \notin running /\ ~Forced(command, w)    ->
            IF BlockerRunning THEN "WARN_SPAWN_BLOCKED" ELSE "WARN_SPAWN_INHIBITED"

\* handle_ipc reads all that was sent, and looks at the first command only.
HandleIpc ==
    /\ main.pc = "ipc"
    /\ LET line == Head(sock[main.c].in)
           rest == Tail(sock[main.c].in)
           asks == line.command.verb # "query"
           found == IF asks THEN Found(line.command) ELSE {}
           launched == {w \in found : MayLaunch(line.command, w)}
           answer == IF ~asks THEN "INFO"
                     ELSE IF found = {} THEN "ERR_INVALID_ID"
                     ELSE IF launched # {} THEN "OK"
                     ELSE Excuse(line.command, CHOOSE w \in found : TRUE)
       IN  /\ main' = [main EXCEPT !.pc = "reply", !.reply = <<[n |-> line.n, answer |-> answer]>>]
           /\ running' = running \cup launched
           /\ history' = [history EXCEPT
                 !.launched = @ \cup {[c |-> main.c, n |-> line.n, watch |-> w,
                                        id |-> line.command.id] : w \in launched},
                 !.swallowed = @ \cup {<<main.c, rest[n].n>> : n \in 1 .. Len(rest)}]
    /\ sock' = [sock EXCEPT ![main.c].in = <<>>]
    /\ UNCHANGED <<client, stdin, backlog, inhibited>>

\* The reply fails if the client is gone, which ends the connection.
SendReply ==
    /\ main.pc = "reply"
    /\ IF sock[main.c].client_open
       THEN /\ sock' = [sock EXCEPT ![main.c].out = @ \o main.reply]
            /\ main' = [main EXCEPT !.pc = "poll", !.reply = <<>>]
            /\ UNCHANGED history
       ELSE Close(main.c)
    /\ UNCHANGED <<client, stdin, backlog, watches>>

\* handle_events may launch a program too, between two connections.
Tap(w) ==
    /\ main.pc = "listen"
    /\ w \notin running /\ ~BlockerRunning /\ ~inhibited
    /\ running' = running \cup {w}
    /\ UNCHANGED <<client, stdin, sock, backlog, main, inhibited, history>>

ProgramEnds(w) ==
    /\ w \in running
    /\ running' = running \ {w}
    /\ UNCHANGED <<client, stdin, sock, backlog, main, inhibited, history>>

ToggleBlockFile ==
    /\ inhibited' = ~inhibited
    /\ UNCHANGED <<client, stdin, sock, backlog, main, running, history>>

Serving == Accept \/ HungUp \/ DataIn \/ Timeout \/ HandleIpc \/ SendReply

Running(c) == Poll(c) \/ HandleStdin(c) \/ HandleReply(c)

Next ==
    \/ Serving
    \/ \E c \in Clients : Running(c) \/ Type(c) \/ CloseStdin(c) \/ Connect(c) \/ Kill(c)
    \/ \E w \in Active : Tap(w) \/ ProgramEnds(w)
    \/ ToggleBlockFile

Spec == Init /\ [][Next]_vars

FairSpec == Spec /\ WF_vars(Serving) /\ \A c \in Clients : WF_vars(Running(c))
-----------------------------------------------------------------------------
(* Properties.                                                             *)

\* What a client is told is what happened: a command is answered OK if and only if
\* it launched a program, a client still connected is told so, no command launches
\* two programs, and a refusal always comes with its reason.
AnswersAreTrue ==
    \A c \in Clients, n \in 1 .. CMDS :
        LET launches == {l \in history.launched : l.c = c /\ l.n = n}
            told == client[c].got \cup {sock[c].out[k] : k \in 1 .. Len(sock[c].out)}
                    \cup IF main.c = c THEN {main.reply[k] : k \in 1 .. Len(main.reply)} ELSE {}
            answers == {r.answer : r \in {q \in told : q.n = n}}
        IN  /\ Cardinality(launches) <= 1
            /\ answers \subseteq Answers
            /\ "OK" \in answers => launches # {} /\ answers = {"OK"}
            /\ launches # {} /\ sock[c].client_open => answers = {"OK"}

\* A client that tired of waiting for its turn launches nothing later, when its
\* turn comes.
HungUpLaunchesNothing == \A l \in history.launched : client[l.c].accepted

\* Whatever clients force and the user taps, there is one spawn blocker at a time.
OneBlockerRuns == Cardinality(running \cap Blockers) <= 1

\* No client keeps KFMon from its other business for good, be it mute, slow or
\* gone, once it has no more lines to send.
MainLoopResumes == main.pc # "listen" ~> main.pc = "listen"

(* What the comments and the README say, and the code does not do.         *)

\* Each command KFMon reads is answered.
ReadMeansAnswered == history.swallowed = {}

\* A client whose stdin is the end of a pipe prints the answer before it ends.
PipelineAnswered ==
    \A c \in Clients :
        client[c].pc = "exit" /\ sock[c].server_open /\ stdin[c].state = "hup" /\ stdin[c].count > 0
            => client[c].got # {}

\* Only an inactive connection, silent for all the windows, is dropped.
OnlyInactiveDropped ==
    [][main.pc = "poll" /\ main'.pc = "listen" /\ sock[main.c].client_open
          => history.silent + 1 >= RETRIES]_vars

\* start launches the watch with that id, or none.
StartsWhatWasAsked == \A l \in history.launched : l.watch = l.id
=============================================================================
