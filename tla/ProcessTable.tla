---------------------------- MODULE ProcessTable ----------------------------
(***************************************************************************)
(* The launching of programs by KFMon: the process table PT, the main      *)
(* thread that checks it and spawns, one detached reaper thread per spawn, *)
(* and the kernel's view of the children.                                  *)
(*                                                                         *)
(* A critical section under ptlock is one step, so the lock itself does    *)
(* not appear; what happens between two critical sections interleaves with *)
(* everything else.  The main thread is the only one that allocates        *)
(* entries, the reapers the only ones that release them.                   *)
(***************************************************************************)
EXTENDS Integers, FiniteSets

CONSTANTS
    WATCH_MAX,      \* number of watch slots and of process table entries
    Pids,           \* process ids the kernel may give to a child
    Threads,        \* reaper threads that may exist at once
    CONFIGS_STAY    \* no watch config disappears while its program runs

NoPid   == -1
NoWatch == -1
NoEntry == -1

ASSUME WatchMaxAssumption == WATCH_MAX \in Nat \ {0}
ASSUME PidsAssumption     == NoPid \notin Pids
ASSUME FlagsAssumption    == CONFIGS_STAY \in BOOLEAN

WatchIds == 0 .. WATCH_MAX - 1
Entries  == 0 .. WATCH_MAX - 1
SlotStates == {"unused", "plain", "blocker"}
Requests   == {"event", "start", "force"}
LaunchKinds == {"plain", "forced", "blocker"}

VARIABLES
    spawn_pids,      \* PT.spawn_pids
    spawn_watchids,  \* PT.spawn_watchids
    watchConfig,     \* is_active and block_spawns of each watch slot
    block_file,      \* the global BLOCK file exists
    auto_reap,       \* SIGCHLD is ignored (inherited through exec): no zombies; never changes
    main,            \* where the main thread is, and the locals of the launch
    reaper,          \* the reaper threads
    child            \* the kernel: our children, and what launched each of them

vars == <<spawn_pids, spawn_watchids, watchConfig, block_file, auto_reap, main, reaper, child>>

Polling == [pc |-> "poll", watch_idx |-> NoWatch, request |-> "event",
            spawned |-> FALSE, blocked |-> FALSE, pid |-> NoPid, i |-> NoEntry]
NoThread == [pc |-> "none", i |-> NoEntry, cpid |-> NoPid]
NoChild  == [state |-> "free", slot |-> NoWatch, kind |-> "plain"]

MainStates ==
    [pc : {"poll", "checked", "cleared", "forked", "found", "added", "exited"},
     watch_idx : WatchIds \cup {NoWatch}, request : Requests,
     spawned : BOOLEAN, blocked : BOOLEAN,
     pid : Pids \cup {NoPid}, i : Entries \cup {NoEntry}]
ReaperStates ==
    [pc : {"none", "started", "waiting", "reaped"},
     i : Entries \cup {NoEntry}, cpid : Pids \cup {NoPid}]
ChildStates ==
    [state : {"free", "running", "zombie"},
     slot : WatchIds \cup {NoWatch}, kind : LaunchKinds]

\* Entries, slots, threads and children hold what the code's types and sentinels
\* allow; an index is never out of the bounds of the arrays.
TypeOK ==
    /\ spawn_pids \in [Entries -> Pids \cup {NoPid}]
    /\ spawn_watchids \in [Entries -> WatchIds \cup {NoWatch}]
    /\ watchConfig \in [WatchIds -> SlotStates]
    /\ block_file \in BOOLEAN
    /\ auto_reap \in BOOLEAN
    /\ main \in MainStates
    /\ reaper \in [Threads -> ReaperStates]
    /\ child \in [Pids -> ChildStates]

-----------------------------------------------------------------------------
(* The helpers the code walks the process table with.                      *)

FreeEntries == {i \in Entries : spawn_watchids[i] = NoWatch}

\* Mutant: a dead process frees its entry before its reaper does.
IsNextAvailableOverDead(i) ==
    i \in FreeEntries \cup {j \in Entries \ FreeEntries : child[spawn_pids[j]].state = "zombie"}

\* The result of get_next_available_pt_entry: the first free entry, if any.
IsNextAvailable(i) ==
    \/ /\ i \in FreeEntries
       /\ \A j \in FreeEntries : i <= j
    \/ /\ i = NoEntry
       /\ FreeEntries = {}

IsWatchAlreadySpawned(w) == \E i \in Entries : spawn_watchids[i] = w

\* Only slots that are still active count, whatever the table says.
IsBlockerRunning ==
    \E i \in Entries, w \in WatchIds :
        spawn_watchids[i] = w /\ watchConfig[w] = "blocker"

\* Mutants: the pid is not stored; the entry to clear is looked up by pid,
\* which may have been recycled; only the pid is reset.
AddProcessToTableNoPid(i, pid, w) ==
    /\ spawn_watchids' = [spawn_watchids EXCEPT ![i] = w]
    /\ UNCHANGED spawn_pids

RemoveProcessFromTablePidOnly(i) ==
    /\ spawn_pids' = [spawn_pids EXCEPT ![i] = NoPid]
    /\ UNCHANGED spawn_watchids

AddProcessToTable(i, pid, w) ==
    /\ spawn_pids' = [spawn_pids EXCEPT ![i] = pid]
    /\ spawn_watchids' = [spawn_watchids EXCEPT ![i] = w]

RemoveProcessFromTable(i) ==
    /\ spawn_pids' = [spawn_pids EXCEPT ![i] = NoPid]
    /\ spawn_watchids' = [spawn_watchids EXCEPT ![i] = NoWatch]

\* exit(): the reaper threads die with the process, init adopts the children
\* and reaps those that are dead.
ExitDaemon ==
    /\ main' = [main EXCEPT !.pc = "exited"]
    /\ reaper' = [t \in Threads |-> NoThread]
    /\ child' = [p \in Pids |-> IF child[p].state = "zombie" THEN NoChild ELSE child[p]]

-----------------------------------------------------------------------------
(* Slips that would be easy to make in this code.  None is part of the     *)
(* specification: each stands in for the definition it is named after, to  *)
(* see that a property notices.                                            *)

\* A forced request ignores the running instance too.
DecideForceAll ==
    /\ main.pc = "checked"
    /\ LET clear == \/ main.request = "force"
                    \/ ~main.spawned /\ ~main.blocked /\ ~block_file
       IN  main' = IF clear THEN [main EXCEPT !.pc = "cleared"] ELSE Polling
    /\ UNCHANGED <<spawn_pids, spawn_watchids, watchConfig, block_file, auto_reap, reaper, child>>

\* The running blocker is not asked about.
DecideNoBlocker ==
    /\ main.pc = "checked"
    /\ LET clear == ~main.spawned /\ (main.request = "force" \/ ~block_file)
       IN  main' = IF clear THEN [main EXCEPT !.pc = "cleared"] ELSE Polling
    /\ UNCHANGED <<spawn_pids, spawn_watchids, watchConfig, block_file, auto_reap, reaper, child>>

\* The main thread joins the reaper, so waits for the program.
StartReaperJoined(t) ==
    /\ main.pc = "added"
    /\ IF reaper[t].pc = "none" /\ \A u \in Threads : reaper[u].i # main.i
       THEN reaper' = [reaper EXCEPT ![t] = [pc |-> "started", i |-> main.i, cpid |-> NoPid]]
            /\ UNCHANGED main
       ELSE child[main.pid].state = "free" /\ main' = Polling /\ UNCHANGED reaper
    /\ UNCHANGED <<spawn_pids, spawn_watchids, watchConfig, block_file, auto_reap, child>>

\* waitpid(WNOHANG): a child that still runs counts as reaped.
ReapNoHang(t) ==
    /\ reaper[t].pc = "waiting"
    /\ reaper' = [reaper EXCEPT ![t].pc = "reaped"]
    /\ child' = [child EXCEPT ![reaper[t].cpid] = IF @.state = "zombie" THEN NoChild ELSE @]
    /\ UNCHANGED <<spawn_pids, spawn_watchids, watchConfig, block_file, auto_reap, main>>

-----------------------------------------------------------------------------
Init ==
    /\ spawn_pids = [i \in Entries |-> NoPid]
    /\ spawn_watchids = [i \in Entries |-> NoWatch]
    /\ watchConfig \in [WatchIds -> SlotStates]
    /\ block_file = FALSE
    /\ auto_reap \in BOOLEAN
    /\ main = Polling
    /\ reaper = [t \in Threads |-> NoThread]
    /\ child = [p \in Pids |-> NoChild]

(* The main thread: a request to launch watch w, from an IN_CLOSE event    *)
(* ("event") or from an IPC client ("start", "force").                     *)

\* The critical section that answers both questions about the table.  A
\* forced request for a spawn blocker is demoted to an ordinary one.
CheckTable(w, request) ==
    /\ main.pc = "poll"
    /\ watchConfig[w] # "unused"
    /\ main' = [Polling EXCEPT
                  !.pc = "checked",
                  !.watch_idx = w,
                  !.request = IF request = "force" /\ watchConfig[w] = "blocker"
                              THEN "start" ELSE request,
                  !.spawned = IsWatchAlreadySpawned(w),
                  !.blocked = IsBlockerRunning]
    /\ UNCHANGED <<spawn_pids, spawn_watchids, watchConfig, block_file, auto_reap, reaper, child>>

\* The BLOCK file is looked up after the lock is released; then the decision.
Decide ==
    /\ main.pc = "checked"
    /\ LET clear == /\ ~main.spawned
                    /\ main.request = "force" \/ (~main.blocked /\ ~block_file)
       IN  main' = IF clear THEN [main EXCEPT !.pc = "cleared"] ELSE Polling
    /\ UNCHANGED <<spawn_pids, spawn_watchids, watchConfig, block_file, auto_reap, reaper, child>>

\* The icon may not be processed yet: an event then launches nothing.
GiveUp ==
    /\ main.pc = "cleared"
    /\ main.request = "event"
    /\ main' = Polling
    /\ UNCHANGED <<spawn_pids, spawn_watchids, watchConfig, block_file, auto_reap, reaper, child>>

\* spawn(): fork; the child execs the action of the slot.
Fork(p) ==
    /\ main.pc = "cleared"
    /\ child[p].state = "free"
    /\ child' = [child EXCEPT ![p] =
                    [state |-> "running", slot |-> main.watch_idx,
                     kind |-> IF main.request = "force" THEN "forced"
                              ELSE watchConfig[main.watch_idx]]]
    /\ main' = [main EXCEPT !.pc = "forked", !.pid = p]
    /\ UNCHANGED <<spawn_pids, spawn_watchids, watchConfig, block_file, auto_reap, reaper>>

\* First critical section of the parent: look for a free entry.
FindEntry(i) ==
    /\ main.pc = "forked"
    /\ IsNextAvailable(i)
    /\ main' = [main EXCEPT !.pc = "found", !.i = i]
    /\ UNCHANGED <<spawn_pids, spawn_watchids, watchConfig, block_file, auto_reap, reaper, child>>

\* Second critical section: fill it.  A full table ends the daemon.
AddEntry ==
    /\ main.pc = "found"
    /\ IF main.i = NoEntry
       THEN ExitDaemon /\ UNCHANGED <<spawn_pids, spawn_watchids>>
       ELSE /\ AddProcessToTable(main.i, main.pid, main.watch_idx)
            /\ main' = [main EXCEPT !.pc = "added"]
            /\ UNCHANGED <<reaper, child>>
    /\ UNCHANGED <<watchConfig, block_file, auto_reap>>

\* pthread_create: the reaper gets the entry's index, and its parent goes on.
StartReaper(t) ==
    /\ main.pc = "added"
    /\ reaper[t].pc = "none"
    /\ reaper' = [reaper EXCEPT ![t] = [pc |-> "started", i |-> main.i, cpid |-> NoPid]]
    /\ main' = Polling
    /\ UNCHANGED <<spawn_pids, spawn_watchids, watchConfig, block_file, auto_reap, child>>

\* fork, malloc or a pthread call fails: the daemon exits.  If it is a call after
\* pthread_create, it exits along with the new reaper, as if that had not been started.
SpawnFails ==
    /\ main.pc \in {"cleared", "added"}
    /\ ExitDaemon
    /\ UNCHANGED <<spawn_pids, spawn_watchids, watchConfig, block_file, auto_reap>>

(* The watch slots, as update_watch_configs changes them between two polls *)
(* (WatchConfig details it): a config may be set up in an unused slot, a   *)
(* slot that is not running may be updated or dropped, and a slot whose    *)
(* config is gone is dropped even if its program is still running.         *)

SetSlot(w, state) ==
    /\ main.pc = "poll"
    /\ watchConfig' = [watchConfig EXCEPT ![w] = state]
    /\ UNCHANGED <<spawn_pids, spawn_watchids, block_file, auto_reap, main, reaper, child>>

NewWatch(w) ==
    /\ watchConfig[w] = "unused"
    /\ \E state \in {"plain", "blocker"} : SetSlot(w, state)

UpdateWatch(w) ==
    /\ watchConfig[w] # "unused"
    /\ ~IsWatchAlreadySpawned(w)
    /\ \E state \in SlotStates : SetSlot(w, state)

PurgeStaleWatch(w) ==
    /\ watchConfig[w] # "unused"
    /\ CONFIGS_STAY => ~IsWatchAlreadySpawned(w)
    /\ SetSlot(w, "unused")

(* The reaper threads.                                                     *)

\* The critical section in which the thread learns the pid to wait for.
ReadEntry(t) ==
    /\ reaper[t].pc = "started"
    /\ reaper' = [reaper EXCEPT ![t].pc = "waiting", ![t].cpid = spawn_pids[reaper[t].i]]
    /\ UNCHANGED <<spawn_pids, spawn_watchids, watchConfig, block_file, auto_reap, main, child>>

\* The children waitpid(cpid) may report; -1 stands for any of them.
Awaited(cpid) == {p \in Pids : child[p].state # "free" /\ cpid \in {p, NoPid}}

\* waitpid returns a dead child, whose pid the kernel may now give again.
Reap(t) ==
    /\ reaper[t].pc = "waiting"
    /\ \E p \in Awaited(reaper[t].cpid) :
          /\ child[p].state = "zombie"
          /\ child' = [child EXCEPT ![p] = NoChild]
          /\ reaper' = [reaper EXCEPT ![t] = IF p = reaper[t].cpid
                                             THEN [reaper[t] EXCEPT !.pc = "reaped"]
                                             ELSE NoThread]
    /\ UNCHANGED <<spawn_pids, spawn_watchids, watchConfig, block_file, auto_reap, main>>

\* waitpid fails (ECHILD): the thread ends and leaves its entry in the table.
ReapFails(t) ==
    /\ reaper[t].pc = "waiting"
    /\ Awaited(reaper[t].cpid) = {}
    /\ reaper' = [reaper EXCEPT ![t] = NoThread]
    /\ UNCHANGED <<spawn_pids, spawn_watchids, watchConfig, block_file, auto_reap, main, child>>

\* The last critical section releases the entry, by index.
RemoveEntry(t) ==
    /\ reaper[t].pc = "reaped"
    /\ RemoveProcessFromTable(reaper[t].i)
    /\ reaper' = [reaper EXCEPT ![t] = NoThread]
    /\ UNCHANGED <<watchConfig, block_file, auto_reap, main, child>>

(* The environment.                                                        *)

\* A child dies.  Nobody has to wait for it under auto_reap, or once init
\* has adopted it.
ChildExits(p) ==
    /\ child[p].state = "running"
    /\ child' = [child EXCEPT ![p] = IF auto_reap \/ main.pc = "exited" THEN NoChild
                                     ELSE [child[p] EXCEPT !.state = "zombie"]]
    /\ UNCHANGED <<spawn_pids, spawn_watchids, watchConfig, block_file, auto_reap, main, reaper>>

\* The user creates or deletes the BLOCK file.
ToggleBlockFile ==
    /\ block_file' = ~block_file
    /\ UNCHANGED <<spawn_pids, spawn_watchids, watchConfig, auto_reap, main, reaper, child>>

-----------------------------------------------------------------------------
Spawning ==
    \/ Decide \/ GiveUp \/ AddEntry
    \/ \E p \in Pids : Fork(p)
    \/ \E i \in Entries \cup {NoEntry} : FindEntry(i)
    \/ \E t \in Threads : StartReaper(t)

Reaping(t) == ReadEntry(t) \/ Reap(t) \/ ReapFails(t) \/ RemoveEntry(t)

Configuring == \E w \in WatchIds : NewWatch(w) \/ UpdateWatch(w) \/ PurgeStaleWatch(w)

Environment == ToggleBlockFile \/ \E p \in Pids : ChildExits(p)

Next ==
    \/ \E w \in WatchIds, request \in Requests : CheckTable(w, request)
    \/ Spawning
    \/ SpawnFails
    \/ \E t \in Threads : Reaping(t)
    \/ Configuring
    \/ Environment

Spec == Init /\ [][Next]_vars

\* Runnable threads get to run; nobody owes the daemon a request, the end of
\* a child, or a failure.
Fairness == WF_vars(Spawning) /\ \A t \in Threads : WF_vars(Reaping(t))

FairSpec == Spec /\ Fairness

-----------------------------------------------------------------------------
(* Properties.                                                             *)

Live(t) == reaper[t].pc # "none"

\* No watch is registered in two entries of the table: what the note in
\* is_watch_already_spawned takes for granted, although the check and the
\* registration are separate critical sections.
UniqueWatch ==
    \A i, j \in Entries :
        spawn_watchids[i] = spawn_watchids[j] /\ spawn_watchids[i] # NoWatch => i = j

\* After a fork there is always a free entry, and the one that was found is
\* still free when it is filled: the "Can't spawn any more processes!" exit of
\* spawn is never taken, and no registration overwrites another.
TableHasRoom ==
    /\ main.pc = "forked" => FreeEntries # {}
    /\ main.pc = "found" => main.i \in FreeEntries

\* A used entry belongs to one reaper thread, or to the main thread that is
\* about to create it: two threads never release the same entry.
OneReaperPerEntry ==
    \A t \in Threads : Live(t) =>
        /\ spawn_watchids[reaper[t].i] # NoWatch
        /\ main.pc = "added" => reaper[t].i # main.i
        /\ \A u \in Threads : Live(u) /\ reaper[u].i = reaper[t].i => u = t

\* A reaper waits for the child its entry registers, and that child has not
\* been reaped by anybody else: its waitpid cannot fail or hang on a stranger,
\* even when pids are recycled (unless zombies vanish by themselves).
ReaperHasItsChild ==
    ~auto_reap => \A t \in Threads : reaper[t].pc = "waiting" =>
        /\ reaper[t].cpid = spawn_pids[reaper[t].i]
        /\ reaper[t].cpid \in Pids
        /\ child[reaper[t].cpid].state # "free"
        /\ child[reaper[t].cpid].slot = spawn_watchids[reaper[t].i]

\* Every child that still exists is registered under its own watch, or is the
\* one the main thread is registering: the checks made on the table are about
\* what really runs.
ChildRegistered ==
    main.pc # "exited" =>
        \A p \in Pids : child[p].state # "free" =>
            \/ main.pc \in {"forked", "found"} /\ main.pid = p
            \/ \E i \in Entries : spawn_pids[i] = p /\ spawn_watchids[i] = child[p].slot

(* The inductive invariants behind them, each on top of the one before.    *)

InLaunch == {"checked", "cleared", "forked", "found", "added"}

LaunchHasTarget ==
    /\ main.pc \in InLaunch => main.watch_idx \in WatchIds
    /\ main.pc \in {"checked", "cleared"} => watchConfig[main.watch_idx] # "unused"
    /\ main.pc = "added" => main.i \in Entries

ReapersHaveEntries == \A t \in Threads : Live(t) => reaper[t].i \in Entries

\* The types, made inductive: a launch under way is for an active slot, and a
\* reaper has an entry.
TypeInv == TypeOK /\ LaunchHasTarget /\ ReapersHaveEntries

MainInv ==
    /\ main.pc = "checked" /\ ~main.spawned => ~IsWatchAlreadySpawned(main.watch_idx)
    /\ main.pc \in {"cleared", "forked", "found"} => ~IsWatchAlreadySpawned(main.watch_idx)
    /\ main.pc \in {"forked", "found"} => main.pid \in Pids
    /\ main.pc = "found" => main.i \in FreeEntries
    /\ main.pc = "added" => spawn_watchids[main.i] # NoWatch

\* The table, the main thread and the reapers fit together at every step of a
\* launch: what the check found in one critical section still holds in the later
\* ones, whatever the reapers did in between.
TableInv == TypeInv /\ MainInv /\ UniqueWatch /\ OneReaperPerEntry

\* Entry i registers a child that has not been reaped.
Registers(i) ==
    /\ spawn_pids[i] \in Pids
    /\ child[spawn_pids[i]].state # "free"
    /\ child[spawn_pids[i]].slot = spawn_watchids[i]

\* A child is one of a watch, and outlives neither its wait nor, with the daemon gone,
\* the daemon's threads.
KernelInv ==
    /\ auto_reap => \A p \in Pids : child[p].state # "zombie"
    /\ \A p \in Pids : child[p].state # "free" => child[p].slot \in WatchIds
    /\ main.pc = "exited" => \A t \in Threads : ~Live(t)

\* The child of the launch under way.
LaunchedChildInv ==
    /\ main.pc \in {"forked", "found"} =>
          /\ child[main.pid].state # "free" => child[main.pid].slot = main.watch_idx
          /\ ~auto_reap => child[main.pid].state # "free"
    /\ main.pc = "added" /\ ~auto_reap => Registers(main.i)

\* The child of a reaper: there is one until it is reaped, and no other afterwards.
ReaperChildInv ==
    \A t \in Threads :
        /\ reaper[t].pc \in {"started", "waiting"} /\ ~auto_reap => Registers(reaper[t].i)
        /\ reaper[t].pc = "waiting" /\ ~auto_reap => reaper[t].cpid = spawn_pids[reaper[t].i]
        /\ reaper[t].pc = "reaped" =>
              \A p \in Pids : child[p].state # "free" => child[p].slot # spawn_watchids[reaper[t].i]

\* The table fits the kernel's children: from the fork to the removal of its entry,
\* a program is registered under its own pid and watch, unless its zombie vanishes
\* by itself (auto_reap).
ChildInv == KernelInv /\ LaunchedChildInv /\ ReaperChildInv /\ ChildRegistered

\* An entry in use is never overwritten, and it is released only once the
\* program it registers is dead and reaped.
EntryOutlivesProgram ==
    [][\A i \in Entries :
         spawn_watchids[i] # NoWatch /\ spawn_watchids'[i] # spawn_watchids[i] =>
            /\ spawn_watchids'[i] = NoWatch
            /\ \A p \in Pids : child[p].state # "free" => child[p].slot # spawn_watchids[i]]_vars

\* Nothing but a forced request launches a program while one that was launched
\* from a watch flagged block_spawns is still running.
BlockerExcludes ==
    [][\A p, q \in Pids :
         /\ child[p].state = "free" /\ child'[p].state = "running"
         /\ child[q].state = "running" /\ child[q].kind = "blocker"
         => child'[p].kind = "forced"]_vars

\* The main thread always comes back to its poll (or the daemon exits): no
\* launch leaves it waiting for a child or for a reaper.
MainReturns == main.pc # "poll" ~> main.pc \in {"poll", "exited"}

\* Once the program of a watch is dead its entry is released, so that the watch
\* can be launched again (unless its zombie vanished by itself).
SlotReleased ==
    \A w \in WatchIds :
        (\E i \in Entries : /\ spawn_watchids[i] = w
                            /\ \A p \in Pids : child[p].state = "running" => child[p].slot # w)
        ~> (~IsWatchAlreadySpawned(w) \/ main.pc = "exited" \/ auto_reap)

\* What each slot runs, for Launcher: the kind of its running child, if any.
RunningIn(children, w) ==
    LET here == {p \in Pids : children[p].state = "running" /\ children[p].slot = w}
    IN  IF here = {} THEN "nothing" ELSE children[CHOOSE p \in here : TRUE].kind

L == INSTANCE Launcher WITH Slots <- WatchIds,
                            running <- [w \in WatchIds |-> RunningIn(child, w)]

OnePerSlot(children) ==
    \A p, q \in Pids :
        /\ children[p].state = "running" /\ children[q].state = "running"
        /\ children[p].slot = children[q].slot
        => p = q

NoBlockerRuns == \A p \in Pids : child[p].state = "running" => child[p].kind # "blocker"

\* What the table knows of spawn blockers is true of the programs that run, as long as
\* no config disappears under them.
LauncherInv ==
    /\ OnePerSlot(child)
    /\ \A p \in Pids : child[p].state = "running" /\ child[p].kind = "blocker" =>
          watchConfig[child[p].slot] = "blocker"
    /\ main.pc = "checked" /\ ~main.blocked => NoBlockerRuns
    /\ main.pc = "cleared" /\ main.request # "force" => NoBlockerRuns

\* As long as no config disappears while its program runs, the daemon launches
\* at most one program per slot, and nothing unforced next to a spawn blocker.
ImplementsLauncher == L!Spec
=============================================================================
