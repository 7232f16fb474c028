------------------------ MODULE ProcessTable_proofs ------------------------
(***************************************************************************)
(* Theorems about ProcessTable, for any number of slots, pids and threads, *)
(* and that it implements Launcher.                                        *)
(***************************************************************************)
EXTENDS ProcessTable, FiniteSetTheorems, TLAPS

USE WatchMaxAssumption, PidsAssumption, FlagsAssumption

\* The idle states are states.
LEMMA IdleStates ==
    Polling \in MainStates /\ NoThread \in ReaperStates /\ NoChild \in ChildStates
  BY DEF Polling, MainStates, Requests, NoThread, ReaperStates, NoChild, ChildStates, LaunchKinds

\* exit() leaves well-typed states behind.
LEMMA ExitType == TypeOK /\ ExitDaemon => /\ main' \in MainStates
                                         /\ reaper' \in [Threads -> ReaperStates]
                                         /\ child' \in [Pids -> ChildStates]
  <1> SUFFICES ASSUME TypeOK, ExitDaemon
               PROVE  /\ main' \in MainStates
                      /\ reaper' \in [Threads -> ReaperStates]
                      /\ child' \in [Pids -> ChildStates]
    OBVIOUS
  <1>1. main' \in MainStates
    BY DEF TypeOK, ExitDaemon, MainStates
  <1>2. reaper' \in [Threads -> ReaperStates] /\ child' \in [Pids -> ChildStates]
    BY IdleStates DEF TypeOK, ExitDaemon
  <1>3. QED
    BY <1>1, <1>2

\* TypeOK is inductive once a launch has an active slot and a reaper an entry.
LEMMA TypeInvInit == Init => TypeInv
  <1> SUFFICES ASSUME Init PROVE TypeInv
    OBVIOUS
  <1>1. TypeOK
    BY IdleStates DEF Init, TypeOK
  <1>2. LaunchHasTarget
    BY DEF Init, LaunchHasTarget, InLaunch, Polling
  <1>3. ReapersHaveEntries
    BY DEF Init, ReapersHaveEntries, Live, NoThread
  <1>4. QED
    BY <1>1, <1>2, <1>3 DEF TypeInv

LEMMA TypeInvNext == TypeInv /\ [Next]_vars => TypeInv'
  <2> SUFFICES ASSUME TypeInv, [Next]_vars PROVE TypeInv'
    OBVIOUS
  <2> USE DEF TypeInv, TypeOK, LaunchHasTarget, ReapersHaveEntries, Live, InLaunch
  <2>1. ASSUME NEW w \in WatchIds, NEW request \in Requests, CheckTable(w, request)
        PROVE  TypeInv'
    <3>1. IsWatchAlreadySpawned(w) \in BOOLEAN /\ IsBlockerRunning \in BOOLEAN
      BY DEF IsWatchAlreadySpawned, IsBlockerRunning
    <3>2. main' \in MainStates /\ main'.pc = "checked" /\ main'.watch_idx = w
      BY <2>1, <3>1, ZenonT(60) DEF CheckTable, Polling, Requests, MainStates
    <3>3. QED
      BY <2>1, <3>2 DEF CheckTable
  <2>2. CASE Decide
    <3>1. [main EXCEPT !.pc = "cleared"] \in MainStates
      BY DEF MainStates
    <3>2. Polling.pc = "poll" /\ main.watch_idx \in WatchIds
      BY <2>2 DEF Decide, Polling
    <3>3. CASE main' = Polling
      BY <2>2, <3>2, <3>3, IdleStates DEF Decide
    <3>4. CASE main' = [main EXCEPT !.pc = "cleared"]
      <4>1. main'.pc = "cleared" /\ main'.watch_idx = main.watch_idx
        BY <3>4 DEF MainStates
      <4>2. QED
        BY <2>2, <3>1, <3>4, <4>1 DEF Decide
    <3>5. QED
      BY <2>2, <3>3, <3>4 DEF Decide
  <2>3. CASE GiveUp
    BY <2>3, IdleStates DEF GiveUp, Polling
  <2>4. CASE AddEntry
    <3>1. CASE main.i = NoEntry
      <4>1. main'.pc = "exited" /\ \A t \in Threads : reaper'[t].pc = "none"
        BY <2>4, <3>1 DEF AddEntry, ExitDaemon, MainStates, NoThread
      <4>2. QED
        BY <2>4, <3>1, <4>1, ExitType DEF AddEntry
    <3>2. CASE main.i # NoEntry
      <4>1. [main EXCEPT !.pc = "added"] \in MainStates
        BY DEF MainStates
      <4>2. spawn_pids' \in [Entries -> Pids \cup {NoPid}]
        BY <2>4, <3>2 DEF AddEntry, AddProcessToTable, MainStates
      <4>3. spawn_watchids' \in [Entries -> WatchIds \cup {NoWatch}]
        BY <2>4, <3>2 DEF AddEntry, AddProcessToTable, MainStates
      <4>4. main'.pc = "added" /\ main'.i \in Entries /\ main'.watch_idx \in WatchIds
        BY <2>4, <3>2 DEF AddEntry, MainStates
      <4>5. QED
        BY <2>4, <3>2, <4>1, <4>2, <4>3, <4>4 DEF AddEntry
    <3>3. QED
      BY <3>1, <3>2
  <2>5. ASSUME NEW p \in Pids, Fork(p) PROVE TypeInv'
    <3>1. main.watch_idx \in WatchIds /\ watchConfig[main.watch_idx] \in {"plain", "blocker"}
      BY <2>5 DEF Fork, SlotStates
    <3>2. child'[p] \in ChildStates
      BY <2>5, <3>1 DEF Fork, ChildStates, LaunchKinds
    <3>3. child' \in [Pids -> ChildStates]
      BY <2>5, <3>2 DEF Fork
    <3>4. main' \in MainStates /\ main'.pc = "forked" /\ main'.watch_idx = main.watch_idx
      BY <2>5 DEF Fork, MainStates
    <3>5. QED
      BY <2>5, <3>1, <3>3, <3>4 DEF Fork
  <2>6. ASSUME NEW i \in Entries \cup {NoEntry}, FindEntry(i) PROVE TypeInv'
    <3>1. main' \in MainStates /\ main'.pc = "found" /\ main'.watch_idx = main.watch_idx
      BY <2>6 DEF FindEntry, MainStates
    <3>2. QED
      BY <2>6, <3>1 DEF FindEntry
  <2>7. ASSUME NEW t \in Threads, StartReaper(t) PROVE TypeInv'
    <3>1. reaper'[t] \in ReaperStates /\ reaper'[t].i \in Entries
      BY <2>7 DEF StartReaper, ReaperStates, MainStates
    <3>2. main' = Polling /\ Polling.pc = "poll"
      BY <2>7 DEF StartReaper, Polling
    <3>3. \A u \in Threads : u # t => reaper'[u] = reaper[u]
      BY <2>7 DEF StartReaper
    <3>4. reaper' \in [Threads -> ReaperStates]
      BY <2>7, <3>1 DEF StartReaper
    <3>5. QED
      BY <2>7, <3>1, <3>2, <3>3, <3>4, IdleStates DEF StartReaper
  <2>8. CASE SpawnFails
    <3>1. main'.pc = "exited" /\ \A t \in Threads : reaper'[t].pc = "none"
      BY <2>8 DEF SpawnFails, ExitDaemon, MainStates, NoThread
    <3>2. QED
      BY <2>8, <3>1, ExitType DEF SpawnFails
  <2>9. ASSUME NEW t \in Threads, Reaping(t) PROVE TypeInv'
    <3>1. CASE ReadEntry(t)
      <4>1. /\ reaper'[t] \in ReaperStates
            /\ reaper'[t].i \in Entries
            /\ \A u \in Threads : u # t => reaper'[u] = reaper[u]
            /\ reaper' \in [Threads -> ReaperStates]
        BY <3>1, ZenonT(60) DEF ReadEntry, ReaperStates
      <4>2. QED
        BY <3>1, <4>1 DEF ReadEntry
    <3>2. CASE Reap(t)
      <4>1. [reaper[t] EXCEPT !.pc = "reaped"] \in ReaperStates
        BY DEF ReaperStates
      <4>2. reaper' \in [Threads -> ReaperStates] /\ child' \in [Pids -> ChildStates]
        BY <3>2, <4>1, IdleStates, ZenonT(60) DEF Reap
      <4>3. \A u \in Threads : reaper'[u].pc # "none" =>
              reaper[u].pc # "none" /\ reaper'[u].i = reaper[u].i
        BY <3>2 DEF Reap, NoThread, ReaperStates
      <4>4. QED
        BY <3>2, <4>2, <4>3 DEF Reap
    <3>3. CASE ReapFails(t)
      BY <3>3, IdleStates DEF ReapFails, NoThread
    <3>4. CASE RemoveEntry(t)
      BY <3>4, IdleStates DEF RemoveEntry, RemoveProcessFromTable, NoThread
    <3>5. QED
      BY <2>9, <3>1, <3>2, <3>3, <3>4 DEF Reaping
  <2>10. CASE Configuring
    BY <2>10 DEF Configuring, NewWatch, UpdateWatch, PurgeStaleWatch, SetSlot, SlotStates
  <2>11. CASE Environment
    <3>1. CASE ToggleBlockFile
      BY <3>1 DEF ToggleBlockFile
    <3>2. ASSUME NEW p \in Pids, ChildExits(p) PROVE TypeInv'
      <4>1. [child[p] EXCEPT !.state = "zombie"] \in ChildStates
        BY DEF ChildStates
      <4>2. QED
        BY <3>2, <4>1, IdleStates DEF ChildExits
    <3>3. QED
      BY <2>11, <3>1, <3>2 DEF Environment
  <2>12. CASE UNCHANGED vars
    BY <2>12 DEF vars
  <2>13. QED
    BY <2>1, <2>2, <2>3, <2>4, <2>5, <2>6, <2>7, <2>8, <2>9, <2>10, <2>11, <2>12
       DEF Next, Spawning

(* Every variable keeps its type, whatever the interleaving: in particular *)
(* a launch always has an active slot, and no index leaves the table.      *)
THEOREM TypeCorrect == Spec => []TypeOK
<1>1. Spec => []TypeInv
  BY TypeInvInit, TypeInvNext, PTL DEF Spec
<1>2. TypeInv => TypeOK
  BY DEF TypeInv
<1>3. QED
  BY <1>1, <1>2, PTL

-----------------------------------------------------------------------------
\* A watch that is not in the table leaves it an entry: there are as many
\* entries as watches, and no watch is in two of them.
LEMMA RoomForOneMore ==
    ASSUME TypeOK, UniqueWatch, NEW w \in WatchIds, ~IsWatchAlreadySpawned(w)
    PROVE  FreeEntries # {}
<1> SUFFICES ASSUME FreeEntries = {} PROVE FALSE
  OBVIOUS
<1> DEFINE Others == WatchIds \ {w}
<1>1. IsFiniteSet(WatchIds) /\ Cardinality(WatchIds) = WATCH_MAX
  BY WatchMaxAssumption, FS_Interval DEF WatchIds
<1>2. IsFiniteSet(Others) /\ Cardinality(Others) = WATCH_MAX - 1
  BY <1>1, FS_RemoveElement
<1>3. Entries = WatchIds
  BY DEF Entries, WatchIds
<1>4. spawn_watchids \in [Entries -> Others]
  <2>1. \A i \in Entries : spawn_watchids[i] \in Others
    BY DEF TypeOK, FreeEntries, IsWatchAlreadySpawned
  <2>2. QED
    BY <2>1 DEF TypeOK
<1>5. Cardinality(Others) < Cardinality(Entries)
  BY <1>1, <1>2, <1>3, WatchMaxAssumption
<1>6. PICK i, j \in Entries : i # j /\ spawn_watchids[i] = spawn_watchids[j]
  <2> HIDE DEF Others
  <2>1. QED
    BY <1>1, <1>2, <1>3, <1>4, <1>5, FS_PigeonHole
<1>7. QED
  BY <1>6 DEF UniqueWatch, FreeEntries

LEMMA TableInvInit == Init => TableInv
<1> SUFFICES ASSUME Init PROVE TableInv
  OBVIOUS
<1>1. main.pc = "poll" /\ \A t \in Threads : ~Live(t)
  BY DEF Init, Polling, NoThread, Live
<1>2. MainInv /\ OneReaperPerEntry
  BY <1>1 DEF MainInv, OneReaperPerEntry
<1>3. UniqueWatch
  BY DEF Init, UniqueWatch
<1>4. QED
  BY <1>2, <1>3, TypeInvInit DEF TableInv

LEMMA TableInvNext == TableInv /\ [Next]_vars => TableInv'
<1> SUFFICES ASSUME TableInv, [Next]_vars PROVE TableInv'
  OBVIOUS
<1>1. TypeInv /\ TypeInv' /\ TypeOK
  BY TypeInvNext DEF TableInv, TypeInv
<1>2. MainInv /\ UniqueWatch /\ OneReaperPerEntry
  BY DEF TableInv
<1> SUFFICES MainInv' /\ UniqueWatch' /\ OneReaperPerEntry'
  BY <1>1 DEF TableInv
\* The steps that leave the table and the reapers alone.
<1>3. ASSUME UNCHANGED <<spawn_watchids, reaper>>, main'.pc # "added"
      PROVE  UniqueWatch' /\ OneReaperPerEntry'
  BY <1>2, <1>3 DEF UniqueWatch, OneReaperPerEntry, Live
<1>4. ASSUME UNCHANGED <<spawn_watchids, reaper, main>> PROVE TableInv'
  BY <1>1, <1>2, <1>4
     DEF TableInv, MainInv, UniqueWatch, OneReaperPerEntry, Live, IsWatchAlreadySpawned, FreeEntries
<1>5. ASSUME NEW w \in WatchIds, NEW request \in Requests, CheckTable(w, request)
      PROVE  TableInv'
  <2>1. /\ main'.pc = "checked"
        /\ main'.watch_idx = w
        /\ main'.spawned = IsWatchAlreadySpawned(w)
    BY <1>5 DEF CheckTable, Polling
  <2>2. MainInv'
    BY <1>5, <2>1 DEF CheckTable, MainInv, IsWatchAlreadySpawned
  <2>3. QED
    BY <1>1, <1>3, <1>5, <2>1, <2>2 DEF CheckTable, TableInv
<1>6. CASE Decide
  <2>1. \/ main' = Polling
        \/ ~main.spawned /\ main' = [main EXCEPT !.pc = "cleared"]
    BY <1>6 DEF Decide
  <2>2. MainInv'
    BY <1>1, <1>2, <1>6, <2>1
       DEF Decide, MainInv, Polling, TypeOK, MainStates, IsWatchAlreadySpawned
  <2>3. main'.pc # "added"
    BY <1>1, <2>1 DEF Polling, TypeOK, MainStates
  <2>4. QED
    BY <1>1, <1>3, <1>6, <2>2, <2>3 DEF Decide, TableInv
<1>7. CASE GiveUp
  BY <1>1, <1>3, <1>7 DEF GiveUp, Polling, MainInv, TableInv
<1>8. ASSUME ExitDaemon, UNCHANGED spawn_watchids PROVE TableInv'
  <2>1. main'.pc = "exited" /\ \A t \in Threads : ~Live(t)'
    BY <1>1, <1>8 DEF ExitDaemon, NoThread, Live, TypeOK, MainStates
  <2>2. QED
    BY <1>1, <1>2, <1>8, <2>1 DEF TableInv, MainInv, UniqueWatch, OneReaperPerEntry
<1>9. CASE AddEntry
  <2>1. main.i \in FreeEntries /\ ~IsWatchAlreadySpawned(main.watch_idx)
    BY <1>2, <1>9 DEF AddEntry, MainInv
  <2>2. main.i \in Entries /\ main.i # NoEntry /\ main.watch_idx \in WatchIds
    BY <1>1, <1>9, <2>1
       DEF AddEntry, FreeEntries, Entries, NoEntry, TypeInv, LaunchHasTarget, InLaunch
  <2>3. /\ spawn_watchids' = [spawn_watchids EXCEPT ![main.i] = main.watch_idx]
        /\ main' = [main EXCEPT !.pc = "added"]
        /\ UNCHANGED reaper
    BY <1>9, <2>2 DEF AddEntry, AddProcessToTable
  <2>4. main'.pc = "added" /\ main'.i = main.i
    BY <1>1, <2>3 DEF TypeOK, MainStates
  <2>5. /\ spawn_watchids'[main.i] = main.watch_idx
        /\ main.watch_idx # NoWatch
        /\ \A j \in Entries : j # main.i => spawn_watchids'[j] = spawn_watchids[j]
    BY <1>1, <2>2, <2>3 DEF TypeOK, WatchIds, NoWatch
  <2>6. MainInv'
    BY <2>4, <2>5 DEF MainInv
  <2>7. UniqueWatch'
    BY <1>2, <2>1, <2>5 DEF UniqueWatch, IsWatchAlreadySpawned
  <2>8. OneReaperPerEntry'
    BY <1>1, <1>2, <2>1, <2>3, <2>4, <2>5
       DEF OneReaperPerEntry, Live, FreeEntries, TypeInv, ReapersHaveEntries
  <2>9. QED
    BY <1>1, <2>6, <2>7, <2>8 DEF TableInv
<1>10. ASSUME NEW p \in Pids, Fork(p) PROVE TableInv'
  <2>1. main'.pc = "forked" /\ main'.watch_idx = main.watch_idx /\ main'.pid = p
    BY <1>1, <1>10 DEF Fork, TypeOK, MainStates
  <2>2. MainInv'
    BY <1>2, <1>10, <2>1 DEF Fork, MainInv, IsWatchAlreadySpawned
  <2>3. QED
    BY <1>1, <1>3, <1>10, <2>1, <2>2 DEF Fork, TableInv
<1>11. ASSUME NEW i \in Entries \cup {NoEntry}, FindEntry(i) PROVE TableInv'
  <2>1. /\ main'.pc = "found" /\ main'.i = i
        /\ main'.watch_idx = main.watch_idx /\ main'.pid = main.pid
    BY <1>1, <1>11 DEF FindEntry, TypeOK, MainStates
  <2>2. main.watch_idx \in WatchIds /\ ~IsWatchAlreadySpawned(main.watch_idx)
    BY <1>1, <1>2, <1>11 DEF FindEntry, MainInv, TypeInv, LaunchHasTarget, InLaunch
  <2>3. FreeEntries # {}
    BY <1>1, <1>2, <2>2, RoomForOneMore
  <2>4. i \in FreeEntries
    BY <1>11, <2>3 DEF FindEntry, IsNextAvailable
  <2>5. MainInv'
    BY <1>2, <1>11, <2>1, <2>2, <2>4 DEF FindEntry, MainInv, IsWatchAlreadySpawned, FreeEntries
  <2>6. QED
    BY <1>1, <1>3, <1>11, <2>1, <2>5 DEF FindEntry, TableInv
<1>12. ASSUME NEW t \in Threads, StartReaper(t) PROVE TableInv'
  <2>1. /\ main.pc = "added" /\ main'.pc = "poll"
        /\ reaper'[t].i = main.i /\ reaper[t].pc = "none"
        /\ \A u \in Threads : u # t => reaper'[u] = reaper[u]
        /\ UNCHANGED spawn_watchids
    BY <1>1, <1>12 DEF StartReaper, Polling, TypeOK
  <2>2. OneReaperPerEntry'
    BY <1>2, <2>1 DEF OneReaperPerEntry, Live, MainInv
  <2>3. MainInv' /\ UniqueWatch'
    BY <1>2, <2>1 DEF MainInv, UniqueWatch
  <2>4. QED
    BY <1>1, <2>2, <2>3 DEF TableInv
<1>13. CASE SpawnFails
  BY <1>8, <1>13 DEF SpawnFails, TableInv
\* The reapers: a thread keeps its entry until it ends.
<1>14. ASSUME UNCHANGED <<spawn_watchids, main>>,
              \A u \in Threads : Live(u)' => Live(u) /\ reaper'[u].i = reaper[u].i
       PROVE  TableInv'
  BY <1>1, <1>2, <1>14
     DEF TableInv, MainInv, UniqueWatch, OneReaperPerEntry, IsWatchAlreadySpawned, FreeEntries
<1>15. ASSUME NEW t \in Threads, ReadEntry(t) PROVE TableInv'
  BY <1>1, <1>14, <1>15 DEF ReadEntry, Live, TypeOK, ReaperStates
<1>16. ASSUME NEW t \in Threads, Reap(t) PROVE TableInv'
  BY <1>1, <1>14, <1>16 DEF Reap, Live, NoThread, TypeOK, ReaperStates
<1>17. ASSUME NEW t \in Threads, ReapFails(t) PROVE TableInv'
  BY <1>1, <1>14, <1>17 DEF ReapFails, Live, NoThread, TypeOK
<1>18. ASSUME NEW t \in Threads, RemoveEntry(t) PROVE TableInv'
  <2> DEFINE i == reaper[t].i
  <2>1. i \in Entries /\ Live(t)
    BY <1>1, <1>18 DEF RemoveEntry, Live, TypeInv, ReapersHaveEntries
  <2>2. /\ spawn_watchids'[i] = NoWatch
        /\ \A j \in Entries : j # i => spawn_watchids'[j] = spawn_watchids[j]
        /\ ~Live(t)'
        /\ \A u \in Threads : u # t => reaper'[u] = reaper[u]
        /\ UNCHANGED main
    BY <1>1, <1>18, <2>1 DEF RemoveEntry, RemoveProcessFromTable, Live, NoThread, TypeOK
  <2>3. UniqueWatch'
    BY <1>2, <2>2 DEF UniqueWatch
  <2>4. OneReaperPerEntry'
    BY <1>1, <1>2, <2>1, <2>2 DEF OneReaperPerEntry, Live, TypeInv, ReapersHaveEntries
  <2>5. main.pc = "added" => main.i # i
    BY <1>2, <2>1 DEF OneReaperPerEntry
  <2>6. MainInv'
    <3>1. ASSUME NEW w \in WatchIds, ~IsWatchAlreadySpawned(w) PROVE ~IsWatchAlreadySpawned(w)'
      BY <2>2, <3>1 DEF IsWatchAlreadySpawned, WatchIds, NoWatch
    <3>2. QED
      BY <1>1, <1>2, <2>2, <2>5, <3>1
         DEF MainInv, FreeEntries, TypeInv, LaunchHasTarget, InLaunch
  <2>7. QED
    BY <1>1, <2>3, <2>4, <2>6 DEF TableInv
<1>19. CASE Configuring
  BY <1>4, <1>19 DEF Configuring, NewWatch, UpdateWatch, PurgeStaleWatch, SetSlot, TableInv
<1>20. CASE Environment
  BY <1>4, <1>20 DEF Environment, ChildExits, ToggleBlockFile, TableInv
<1>21. CASE UNCHANGED vars
  BY <1>4, <1>21 DEF vars, TableInv
<1>22. QED
  BY <1>5, <1>6, <1>7, <1>9, <1>10, <1>11, <1>12, <1>13, <1>15, <1>16, <1>17, <1>18, <1>19,
     <1>20, <1>21
     DEF Next, Spawning, Reaping, TableInv

(* No interleaving of checks, registrations and removals ever registers a  *)
(* watch twice, however many slots, pids and threads there are.            *)
THEOREM WatchesAreUnique == Spec => []UniqueWatch
<1>1. TableInv => UniqueWatch
  BY DEF TableInv
<1>2. QED
  BY <1>1, TableInvInit, TableInvNext, PTL DEF Spec

(* The daemon never exits for want of an entry, and never overwrites one.  *)
THEOREM TableNeverFull == Spec => []TableHasRoom
<1>1. TableInv => TableHasRoom
  <2> SUFFICES ASSUME TableInv PROVE TableHasRoom
    OBVIOUS
  <2>1. ASSUME main.pc = "forked" PROVE FreeEntries # {}
    BY <2>1, RoomForOneMore DEF TableInv, TypeInv, MainInv, LaunchHasTarget, InLaunch
  <2>2. QED
    BY <2>1 DEF TableHasRoom, TableInv, MainInv
<1>2. QED
  BY <1>1, TableInvInit, TableInvNext, PTL DEF Spec

(* An entry in use has one owner: no two reapers release the same one.     *)
THEOREM EntriesHaveOneReaper == Spec => []OneReaperPerEntry
<1>1. TableInv => OneReaperPerEntry
  BY DEF TableInv
<1>2. QED
  BY <1>1, TableInvInit, TableInvNext, PTL DEF Spec

-----------------------------------------------------------------------------
(* The table and the kernel's children.                                    *)

LEMMA ChildInvInit == Init => ChildInv
<1> SUFFICES ASSUME Init PROVE ChildInv
  OBVIOUS
<1>1. main.pc = "poll" /\ \A t \in Threads : reaper[t].pc = "none"
  BY DEF Init, Polling, NoThread
<1>2. \A p \in Pids : child[p].state = "free"
  BY DEF Init, NoChild
<1>3. QED
  BY <1>1, <1>2 DEF ChildInv, KernelInv, LaunchedChildInv, ReaperChildInv, ChildRegistered

\* A step that changes neither the table, nor the reapers, nor what there is of
\* children, and whose main thread neither gets nor loses one.
LEMMA ChildInvKept ==
    ASSUME ChildInv, UNCHANGED <<spawn_pids, spawn_watchids, auto_reap, reaper, child>>,
           \/ main' = main
           \/ main.pc \in {"poll", "checked", "cleared"} /\ main'.pc \in {"poll", "checked", "cleared"}
    PROVE  ChildInv'
  BY DEF ChildInv, KernelInv, LaunchedChildInv, ReaperChildInv, ChildRegistered, Registers, Live

\* A new child: its pid was free, its watch is in no entry.
LEMMA ChildInvFork ==
    ASSUME TableInv, ChildInv, NEW p \in Pids, Fork(p)
    PROVE  ChildInv'
<1> USE DEF ChildInv
<1>1. /\ child \in [Pids -> ChildStates] /\ main \in MainStates /\ main.watch_idx \in WatchIds
      /\ ~IsWatchAlreadySpawned(main.watch_idx) /\ ReapersHaveEntries
  BY DEF TableInv, TypeInv, TypeOK, LaunchHasTarget, InLaunch, MainInv, Fork
<1>2. /\ main'.pc = "forked" /\ main'.pid = p /\ main'.watch_idx = main.watch_idx
      /\ child'[p].state = "running" /\ child'[p].slot = main.watch_idx
      /\ \A q \in Pids : q # p => child'[q] = child[q]
      /\ child[p].state = "free" /\ main.pc = "cleared"
      /\ UNCHANGED <<spawn_pids, spawn_watchids, auto_reap, reaper>>
  BY <1>1 DEF Fork, MainStates
<1>3. KernelInv'
  BY <1>1, <1>2 DEF KernelInv
<1>4. LaunchedChildInv'
  BY <1>2 DEF LaunchedChildInv
<1>5. ReaperChildInv'
  <2>1. ASSUME NEW t \in Threads, Live(t) PROVE spawn_watchids[reaper[t].i] # main.watch_idx
    BY <1>1, <2>1 DEF IsWatchAlreadySpawned, ReapersHaveEntries
  <2>2. ASSUME NEW t \in Threads, reaper[t].pc \in {"started", "waiting"}, ~auto_reap
        PROVE  Registers(reaper[t].i)'
    <3>1. Registers(reaper[t].i)
      BY <2>2 DEF ReaperChildInv
    <3>2. spawn_pids[reaper[t].i] # p
      BY <1>2, <3>1 DEF Registers
    <3>3. QED
      BY <1>2, <3>1, <3>2 DEF Registers
  <2>3. QED
    BY <1>2, <2>1, <2>2 DEF ReaperChildInv, Live
<1>6. ChildRegistered'
  BY <1>2 DEF ChildRegistered
<1>7. QED
  BY <1>3, <1>4, <1>5, <1>6

\* The child is registered in an entry that was free.
LEMMA ChildInvAdd ==
    ASSUME TableInv, ChildInv, AddEntry
    PROVE  ChildInv'
<1> USE DEF ChildInv
<1>1. /\ main \in MainStates /\ main.watch_idx \in WatchIds /\ main.pid \in Pids
      /\ main.i \in FreeEntries /\ main.i \in Entries /\ main.i # NoEntry
      /\ spawn_pids \in [Entries -> Pids \cup {NoPid}]
      /\ spawn_watchids \in [Entries -> WatchIds \cup {NoWatch}]
  BY DEF TableInv, TypeInv, TypeOK, LaunchHasTarget, InLaunch, MainInv, AddEntry, FreeEntries, Entries, NoEntry
<1>2. /\ main.pc = "found" /\ main'.pc = "added" /\ main'.i = main.i
      /\ spawn_pids'[main.i] = main.pid /\ spawn_watchids'[main.i] = main.watch_idx
      /\ \A j \in Entries : j # main.i => spawn_pids'[j] = spawn_pids[j] /\ spawn_watchids'[j] = spawn_watchids[j]
      /\ UNCHANGED <<auto_reap, reaper, child>>
  BY <1>1 DEF AddEntry, AddProcessToTable, MainStates
<1>3. KernelInv'
  BY <1>2 DEF KernelInv, Live
<1>4. LaunchedChildInv'
  BY <1>1, <1>2 DEF LaunchedChildInv, Registers
<1>5. ReaperChildInv'
  <2>1. ASSUME NEW t \in Threads, Live(t) PROVE reaper[t].i \in Entries /\ reaper[t].i # main.i
    BY <1>1, <2>1 DEF TableInv, TypeInv, ReapersHaveEntries, OneReaperPerEntry, FreeEntries
  <2>2. QED
    BY <1>2, <2>1 DEF ReaperChildInv, Registers, Live
<1>6. ChildRegistered'
  <2>1. ASSUME NEW q \in Pids, child[q].state # "free"
        PROVE  \E i \in Entries : spawn_pids'[i] = q /\ spawn_watchids'[i] = child[q].slot
    <3>1. child[q].slot \in WatchIds /\ child[q].slot # NoWatch
      BY <2>1 DEF KernelInv, WatchIds, NoWatch
    <3>2. CASE q = main.pid
      BY <1>1, <1>2, <2>1, <3>2 DEF LaunchedChildInv
    <3>3. CASE q # main.pid
      <4>1. PICK i \in Entries : spawn_pids[i] = q /\ spawn_watchids[i] = child[q].slot
        BY <1>2, <2>1, <3>3 DEF ChildRegistered
      <4>2. i # main.i
        BY <1>1, <3>1, <4>1 DEF FreeEntries
      <4>3. QED
        BY <1>2, <4>1, <4>2
    <3>4. QED
      BY <3>2, <3>3
  <2>2. QED
    BY <1>2, <2>1 DEF ChildRegistered
<1>7. QED
  BY <1>3, <1>4, <1>5, <1>6

\* The daemon exits: its threads are gone, and init reaps the dead children.
LEMMA ChildInvExit ==
    ASSUME TypeOK, ChildInv, ExitDaemon, UNCHANGED auto_reap
    PROVE  ChildInv'
<1>1. main'.pc = "exited" /\ \A t \in Threads : reaper'[t].pc = "none"
  BY DEF TypeOK, ExitDaemon, MainStates, NoThread
<1>2. \A p \in Pids : child'[p] = child[p] \/ child'[p].state = "free"
  BY DEF ExitDaemon, NoChild
<1>3. QED
  BY <1>1, <1>2 DEF ChildInv, KernelInv, LaunchedChildInv, ReaperChildInv, ChildRegistered, Live

\* A reaper takes over the entry of the launch.
LEMMA ChildInvStart ==
    ASSUME TableInv, ChildInv, NEW t \in Threads, StartReaper(t)
    PROVE  ChildInv'
<1>1. /\ main.pc = "added" /\ main'.pc = "poll"
      /\ reaper'[t].pc = "started" /\ reaper'[t].i = main.i
      /\ \A u \in Threads : u # t => reaper'[u] = reaper[u]
      /\ UNCHANGED <<spawn_pids, spawn_watchids, auto_reap, child>>
  BY DEF StartReaper, Polling, TableInv, TypeInv, TypeOK
<1>2. QED
  BY <1>1 DEF ChildInv, KernelInv, LaunchedChildInv, ReaperChildInv, ChildRegistered, Registers, Live

\* A reaper reaps the child of its entry and no other, in spite of recycled pids.
LEMMA ChildInvReap ==
    ASSUME TableInv, ChildInv, NEW t \in Threads, Reap(t)
    PROVE  ChildInv'
<1> USE DEF ChildInv
<1> DEFINE i == reaper[t].i
<1>1. /\ child \in [Pids -> ChildStates] /\ reaper \in [Threads -> ReaperStates]
      /\ i \in Entries /\ spawn_watchids[i] # NoWatch /\ reaper[t].pc = "waiting"
      /\ MainInv /\ UniqueWatch /\ OneReaperPerEntry /\ ReapersHaveEntries
      /\ main.pc = "added" => main.i \in Entries
  BY DEF TableInv, TypeInv, TypeOK, ReapersHaveEntries, OneReaperPerEntry, Live, Reap, LaunchHasTarget
<1>2. ~auto_reap /\ main.pc # "exited"
  BY <1>1 DEF Reap, Awaited, KernelInv, Live
<1>3. reaper[t].cpid = spawn_pids[i] /\ Registers(i)
  BY <1>1, <1>2 DEF ReaperChildInv
<1> DEFINE p == spawn_pids[i]
<1>4. /\ p \in Pids /\ child[p].state = "zombie" /\ child[p].slot = spawn_watchids[i]
      /\ child'[p].state = "free" /\ \A q \in Pids : q # p => child'[q] = child[q]
      /\ reaper'[t].pc = "reaped" /\ reaper'[t].i = i
      /\ \A u \in Threads : u # t => reaper'[u] = reaper[u]
      /\ UNCHANGED <<spawn_pids, spawn_watchids, auto_reap, main>>
  <2>1. Awaited(reaper[t].cpid) \subseteq {p}
    BY <1>3 DEF Awaited, Registers
  <2>2. child' = [child EXCEPT ![p] = NoChild] /\ child[p].state = "zombie"
    BY <2>1 DEF Reap
  <2>3. reaper' = [reaper EXCEPT ![t] = [reaper[t] EXCEPT !.pc = "reaped"]]
    BY <1>3, <2>1 DEF Reap
  <2>4. p \in Pids /\ child[p].slot = spawn_watchids[i]
    BY <1>3 DEF Registers
  <2>5. child'[p].state = "free" /\ \A q \in Pids : q # p => child'[q] = child[q]
    BY <1>1, <2>2, <2>4 DEF NoChild
  <2>6. /\ reaper'[t].pc = "reaped" /\ reaper'[t].i = i
        /\ \A u \in Threads : u # t => reaper'[u] = reaper[u]
    BY <1>1, <2>3 DEF ReaperStates
  <2>7. QED
    BY <2>2, <2>4, <2>5, <2>6 DEF Reap
<1> HIDE DEF p
\* The child of another entry in use is another child.
<1>5. ASSUME NEW j \in Entries, Registers(j), j # i PROVE Registers(j)'
  <2>1. spawn_pids[j] # p
    BY <1>1, <1>4, <1>5 DEF Registers, UniqueWatch
  <2>2. QED
    BY <1>4, <1>5, <2>1 DEF Registers
<1>6. KernelInv'
  BY <1>2, <1>4 DEF KernelInv, Live
<1>7. LaunchedChildInv'
  <2>1. main.pc \in {"forked", "found"} => main.pid # p /\ main.pid \in Pids
    BY <1>1, <1>4 DEF LaunchedChildInv, MainInv, IsWatchAlreadySpawned
  <2>2. main.pc = "added" => main.i # i
    BY <1>1 DEF OneReaperPerEntry, Live
  <2>3. QED
    BY <1>1, <1>4, <1>5, <2>1, <2>2 DEF LaunchedChildInv
<1>8. ReaperChildInv'
  <2>1. ASSUME NEW u \in Threads, u # t, reaper[u].pc \in {"started", "waiting"}
        PROVE  Registers(reaper[u].i)'
    <3>1. reaper[u].i \in Entries /\ reaper[u].i # i
      BY <1>1, <2>1 DEF ReapersHaveEntries, OneReaperPerEntry, Live
    <3>2. Registers(reaper[u].i)
      BY <1>2, <2>1 DEF ReaperChildInv
    <3>3. QED
      BY <1>4, <1>5, <2>1, <3>1, <3>2 DEF Registers
  <2>2. ASSUME NEW q \in Pids, child[q].state # "free", child[q].slot = spawn_watchids[i] PROVE q = p
    <3>1. CASE main.pc \in {"forked", "found"} /\ main.pid = q
      BY <1>1, <2>2, <3>1 DEF LaunchedChildInv, MainInv, IsWatchAlreadySpawned
    <3>2. CASE \E j \in Entries : spawn_pids[j] = q /\ spawn_watchids[j] = child[q].slot
      BY <1>1, <2>2, <3>2 DEF UniqueWatch, p
    <3>3. QED
      BY <1>2, <2>2, <3>1, <3>2 DEF ChildRegistered
  <2>3. \A q \in Pids : child'[q].state # "free" => child'[q].slot # spawn_watchids'[i]
    BY <1>4, <2>2
  <2>4. QED
    BY <1>4, <2>1, <2>3 DEF ReaperChildInv
<1>9. ChildRegistered'
  BY <1>4 DEF ChildRegistered
<1>10. QED
  BY <1>6, <1>7, <1>8, <1>9

\* An entry is removed: its child was reaped, and it registered no other.
LEMMA ChildInvRemove ==
    ASSUME TableInv, ChildInv, NEW t \in Threads, RemoveEntry(t)
    PROVE  ChildInv'
<1> USE DEF ChildInv
<1> DEFINE i == reaper[t].i
<1>1. /\ spawn_pids \in [Entries -> Pids \cup {NoPid}] /\ reaper \in [Threads -> ReaperStates]
      /\ spawn_watchids \in [Entries -> WatchIds \cup {NoWatch}]
      /\ i \in Entries /\ reaper[t].pc = "reaped" /\ OneReaperPerEntry /\ ReapersHaveEntries
      /\ main.pc = "added" => main.i \in Entries
  BY DEF TableInv, TypeInv, TypeOK, ReapersHaveEntries, Live, RemoveEntry, LaunchHasTarget
<1>2. /\ \A j \in Entries : j # i => spawn_pids'[j] = spawn_pids[j] /\ spawn_watchids'[j] = spawn_watchids[j]
      /\ reaper'[t].pc = "none" /\ \A u \in Threads : u # t => reaper'[u] = reaper[u]
      /\ UNCHANGED <<auto_reap, main, child>>
  BY <1>1 DEF RemoveEntry, RemoveProcessFromTable, NoThread
<1>3. KernelInv'
  BY <1>2 DEF KernelInv, Live
<1>4. LaunchedChildInv'
  <2>1. main.pc = "added" => main.i # i
    BY <1>1 DEF OneReaperPerEntry, Live
  <2>2. QED
    BY <1>1, <1>2, <2>1 DEF LaunchedChildInv, Registers
<1>5. ReaperChildInv'
  <2>1. ASSUME NEW u \in Threads, u # t, Live(u) PROVE reaper[u].i \in Entries /\ reaper[u].i # i
    BY <1>1, <2>1 DEF OneReaperPerEntry, ReapersHaveEntries, Live
  <2>2. QED
    BY <1>2, <2>1 DEF ReaperChildInv, Registers, Live
<1>6. ChildRegistered'
  BY <1>1, <1>2 DEF ChildRegistered, ReaperChildInv
<1>7. QED
  BY <1>3, <1>4, <1>5, <1>6

LEMMA ChildInvNext == TableInv /\ ChildInv /\ [Next]_vars => ChildInv'
<1> SUFFICES ASSUME TableInv, ChildInv, [Next]_vars PROVE ChildInv'
  OBVIOUS
<1>1. TypeInv /\ TypeOK /\ MainInv /\ main \in MainStates
  BY DEF TableInv, TypeInv, TypeOK
<1>2. ASSUME NEW w \in WatchIds, NEW request \in Requests, CheckTable(w, request) PROVE ChildInv'
  BY <1>2, ChildInvKept DEF CheckTable, Polling
<1>3. CASE Decide
  <2>1. main.pc = "checked" /\ main'.pc \in {"poll", "cleared"}
    BY <1>1, <1>3 DEF Decide, Polling, MainStates
  <2>2. QED
    BY <1>3, <2>1, ChildInvKept DEF Decide
<1>4. CASE GiveUp
  BY <1>4, ChildInvKept DEF GiveUp, Polling
<1>5. CASE AddEntry
  BY <1>5, ChildInvAdd
<1>6. ASSUME NEW p \in Pids, Fork(p) PROVE ChildInv'
  BY <1>6, ChildInvFork
<1>7. ASSUME NEW i \in Entries \cup {NoEntry}, FindEntry(i) PROVE ChildInv'
  <2>1. /\ main.pc = "forked" /\ main'.pc = "found" /\ main'.pid = main.pid
        /\ main'.watch_idx = main.watch_idx
        /\ UNCHANGED <<spawn_pids, spawn_watchids, auto_reap, reaper, child>>
    BY <1>1, <1>7 DEF FindEntry, MainStates
  <2>2. QED
    BY <2>1 DEF ChildInv, KernelInv, LaunchedChildInv, ReaperChildInv, ChildRegistered, Registers, Live
<1>8. ASSUME NEW t \in Threads, StartReaper(t) PROVE ChildInv'
  BY <1>8, ChildInvStart
<1>9. CASE SpawnFails
  BY <1>1, <1>9, ChildInvExit DEF SpawnFails
<1>10. ASSUME NEW t \in Threads, ReadEntry(t) PROVE ChildInv'
  <2>1. /\ reaper[t].pc = "started" /\ reaper'[t].pc = "waiting" /\ reaper'[t].i = reaper[t].i
        /\ reaper'[t].cpid = spawn_pids[reaper[t].i]
        /\ \A u \in Threads : u # t => reaper'[u] = reaper[u]
        /\ UNCHANGED <<spawn_pids, spawn_watchids, auto_reap, main, child>>
    BY <1>1, <1>10 DEF ReadEntry, TypeOK, ReaperStates
  <2>2. QED
    BY <2>1 DEF ChildInv, KernelInv, LaunchedChildInv, ReaperChildInv, ChildRegistered, Registers, Live
<1>11. ASSUME NEW t \in Threads, Reap(t) PROVE ChildInv'
  BY <1>11, ChildInvReap
<1>12. ASSUME NEW t \in Threads, ReapFails(t) PROVE ChildInv'
  <2>1. /\ reaper'[t].pc = "none" /\ \A u \in Threads : u # t => reaper'[u] = reaper[u]
        /\ UNCHANGED <<spawn_pids, spawn_watchids, auto_reap, main, child>>
    BY <1>1, <1>12 DEF ReapFails, NoThread, TypeOK
  <2>2. QED
    BY <2>1 DEF ChildInv, KernelInv, LaunchedChildInv, ReaperChildInv, ChildRegistered, Registers, Live
<1>13. ASSUME NEW t \in Threads, RemoveEntry(t) PROVE ChildInv'
  BY <1>13, ChildInvRemove
<1>14. CASE Configuring
  BY <1>14, ChildInvKept DEF Configuring, NewWatch, UpdateWatch, PurgeStaleWatch, SetSlot
<1>15. CASE ToggleBlockFile
  BY <1>15, ChildInvKept DEF ToggleBlockFile
<1>16. ASSUME NEW p \in Pids, ChildExits(p) PROVE ChildInv'
  <2>1. /\ child[p].state = "running"
        /\ \A q \in Pids : q # p => child'[q] = child[q]
        /\ \/ auto_reap \/ main.pc = "exited"
           \/ child'[p].state = "zombie" /\ child'[p].slot = child[p].slot
        /\ \/ child'[p].state = "free"
           \/ ~auto_reap /\ child'[p].state = "zombie" /\ child'[p].slot = child[p].slot
        /\ UNCHANGED <<spawn_pids, spawn_watchids, auto_reap, main, reaper>>
    BY <1>1, <1>16 DEF ChildExits, TypeOK, ChildStates, NoChild
  <2>2. main.pc \in {"forked", "found"} => main.pid \in Pids
    BY <1>1 DEF MainInv
  <2>3. KernelInv' /\ LaunchedChildInv' /\ ChildRegistered'
    BY <2>1, <2>2 DEF ChildInv, KernelInv, LaunchedChildInv, ChildRegistered, Registers, Live
  <2>4. ReaperChildInv'
    BY <2>1 DEF ChildInv, KernelInv, ReaperChildInv, Registers, Live
  <2>5. QED
    BY <2>3, <2>4 DEF ChildInv
<1>17. CASE UNCHANGED vars
  BY <1>17, ChildInvKept DEF vars
<1>18. QED
  BY <1>2, <1>3, <1>4, <1>5, <1>6, <1>7, <1>8, <1>9, <1>10, <1>11, <1>12, <1>13, <1>14, <1>15,
     <1>16, <1>17
     DEF Next, Spawning, Reaping, Environment

(* The table fits the kernel's children at every moment of every launch.   *)
THEOREM TableFitsChildren == Spec => []ChildInv
  BY TableInvInit, TableInvNext, ChildInvInit, ChildInvNext, PTL DEF Spec

(* A reaper's waitpid is for the child of its own entry, which nobody else *)
(* has reaped, however pids are recycled.                                  *)
THEOREM ReapersWaitForTheirChild == Spec => []ReaperHasItsChild
<1>1. ChildInv => ReaperHasItsChild
  BY DEF ChildInv, ReaperChildInv, Registers, ReaperHasItsChild
<1>2. QED
  BY <1>1, TableFitsChildren, PTL

(* A program that runs is in the table, or about to be.                    *)
THEOREM ProgramsAreRegistered == Spec => []ChildRegistered
<1>1. ChildInv => ChildRegistered
  BY DEF ChildInv
<1>2. QED
  BY <1>1, TableFitsChildren, PTL

\* What EntryOutlivesProgram says of a step.
LEMMA EntryStep ==
    ASSUME TableInv, ChildInv, [Next]_vars, NEW i \in Entries,
           spawn_watchids[i] # NoWatch, spawn_watchids'[i] # spawn_watchids[i]
    PROVE  /\ spawn_watchids'[i] = NoWatch
           /\ \A p \in Pids : child[p].state # "free" => child[p].slot # spawn_watchids[i]
<1>1. AddEntry \/ \E t \in Threads : RemoveEntry(t)
  BY DEF Next, Spawning, Reaping, Configuring, Environment, CheckTable, Decide, GiveUp, Fork, FindEntry,
         StartReaper, SpawnFails, ReadEntry, Reap, ReapFails, NewWatch, UpdateWatch, PurgeStaleWatch,
         SetSlot, ChildExits, ToggleBlockFile, vars
<1>2. spawn_watchids \in [Entries -> WatchIds \cup {NoWatch}]
  BY DEF TableInv, TypeInv, TypeOK
<1>3. CASE AddEntry
  <2>1. main.i \in FreeEntries /\ main.i # NoEntry
    BY <1>3 DEF AddEntry, TableInv, MainInv, FreeEntries, Entries, NoEntry
  <2>2. i # main.i
    BY <2>1 DEF FreeEntries
  <2>3. QED
    BY <1>2, <1>3, <2>1, <2>2 DEF AddEntry, AddProcessToTable
<1>4. ASSUME NEW t \in Threads, RemoveEntry(t)
      PROVE  /\ spawn_watchids'[i] = NoWatch
             /\ \A p \in Pids : child[p].state # "free" => child[p].slot # spawn_watchids[i]
  BY <1>2, <1>4 DEF RemoveEntry, RemoveProcessFromTable, ChildInv, ReaperChildInv
<1>5. QED
  BY <1>1, <1>3, <1>4

(* An entry goes only when the program it registers is dead and reaped.    *)
THEOREM EntriesOutlivePrograms == Spec => EntryOutlivesProgram
<1>1. TableInv /\ ChildInv /\ [Next]_vars =>
        [\A i \in Entries :
           spawn_watchids[i] # NoWatch /\ spawn_watchids'[i] # spawn_watchids[i] =>
              /\ spawn_watchids'[i] = NoWatch
              /\ \A p \in Pids : child[p].state # "free" => child[p].slot # spawn_watchids[i]]_vars
  BY EntryStep
<1>2. QED
  BY <1>1, TableInvInit, TableInvNext, ChildInvInit, ChildInvNext, PTL DEF Spec, EntryOutlivesProgram

-----------------------------------------------------------------------------
(* ProcessTable implements Launcher, for any number of slots, pids and     *)
(* threads, as long as no config disappears while its program runs.        *)

\* What RunningIn finds, where no slot runs two programs.
LEMMA RunningInFacts ==
    ASSUME NEW f, OnePerSlot(f), NEW w
    PROVE  /\ \A p \in Pids : f[p].state = "running" /\ f[p].slot = w => RunningIn(f, w) = f[p].kind
           /\ (\A p \in Pids : f[p].state = "running" => f[p].slot # w) => RunningIn(f, w) = "nothing"
<1> DEFINE here == {p \in Pids : f[p].state = "running" /\ f[p].slot = w}
<1>1. ASSUME NEW p \in here PROVE (CHOOSE q \in here : TRUE) = p
  <2>1. (CHOOSE q \in here : TRUE) \in here
    BY <1>1
  <2>2. QED
    BY <1>1, <2>1 DEF OnePerSlot
<1>2. ASSUME NEW p \in here PROVE RunningIn(f, w) = f[p].kind
  <2>1. here # {}
    BY <1>2
  <2>2. QED
    BY <1>1, <1>2, <2>1 DEF RunningIn
<1>3. here = {} => RunningIn(f, w) = "nothing"
  BY DEF RunningIn
<1>4. QED
  BY <1>2, <1>3

\* The slots run what they ran when the running children are the same.
LEMMA RunningKept ==
    ASSUME NEW f, NEW g, OnePerSlot(f),
           \A p \in Pids : f[p].state = "running" => g[p] = f[p],
           \A p \in Pids : g[p].state = "running" => f[p].state = "running"
    PROVE  OnePerSlot(g) /\ \A w : RunningIn(g, w) = RunningIn(f, w)
<1>1. OnePerSlot(g)
  BY DEF OnePerSlot
<1>2. ASSUME NEW w PROVE RunningIn(g, w) = RunningIn(f, w)
  <2>1. CASE \E p \in Pids : f[p].state = "running" /\ f[p].slot = w
    <3>1. PICK p \in Pids : f[p].state = "running" /\ f[p].slot = w
      BY <2>1
    <3>2. RunningIn(f, w) = f[p].kind
      BY <3>1, RunningInFacts
    <3>3. g[p] = f[p]
      BY <3>1
    <3>4. g[p].state = "running" /\ g[p].slot = w
      BY <3>1, <3>3
    <3>5. RunningIn(g, w) = g[p].kind
      BY <1>1, <3>4, RunningInFacts
    <3>6. QED
      BY <3>2, <3>3, <3>5
  <2>2. CASE \A p \in Pids : f[p].state = "running" => f[p].slot # w
    <3>1. RunningIn(f, w) = "nothing"
      BY <2>2, RunningInFacts
    <3>2. \A p \in Pids : g[p].state = "running" => g[p].slot # w
      BY <2>2
    <3>3. RunningIn(g, w) = "nothing"
      BY <1>1, <3>2, RunningInFacts
    <3>4. QED
      BY <3>1, <3>3
  <2>3. QED
    BY <2>1, <2>2
<1>3. QED
  BY <1>1, <1>2

-----------------------------------------------------------------------------
(* The steps that concern programs.                                        *)

\* What a fork does: the slot of the launch is in no entry, and so runs nothing.
LEMMA ForkFacts ==
    ASSUME TableInv, ChildInv, NEW p \in Pids, Fork(p)
    PROVE  /\ main.watch_idx \in WatchIds /\ child[p].state = "free"
           /\ child'[p].state = "running" /\ child'[p].slot = main.watch_idx
           /\ child'[p].kind = IF main.request = "force" THEN "forced"
                               ELSE watchConfig[main.watch_idx]
           /\ child'[p].kind \in LaunchKinds
           /\ \A q \in Pids : q # p => child'[q] = child[q]
           /\ \A q \in Pids : child[q].state # "free" => child[q].slot # main.watch_idx
           /\ main.pc = "cleared" /\ main'.pc = "forked" /\ UNCHANGED watchConfig
<1>1. /\ child \in [Pids -> ChildStates] /\ main \in MainStates /\ main.watch_idx \in WatchIds
      /\ ~IsWatchAlreadySpawned(main.watch_idx) /\ watchConfig \in [WatchIds -> SlotStates]
      /\ main.pc = "cleared" /\ watchConfig[main.watch_idx] # "unused"
  BY DEF TableInv, TypeInv, TypeOK, LaunchHasTarget, InLaunch, MainInv, Fork
<1>2. /\ child[p].state = "free" /\ child'[p].state = "running" /\ child'[p].slot = main.watch_idx
      /\ child'[p].kind = IF main.request = "force" THEN "forced" ELSE watchConfig[main.watch_idx]
      /\ \A q \in Pids : q # p => child'[q] = child[q]
      /\ main'.pc = "forked" /\ UNCHANGED watchConfig
  BY <1>1 DEF Fork, MainStates
<1>3. child'[p].kind \in LaunchKinds
  BY <1>1, <1>2 DEF SlotStates, LaunchKinds
<1>4. ASSUME NEW q \in Pids, child[q].state # "free" PROVE child[q].slot # main.watch_idx
  BY <1>1, <1>4 DEF ChildInv, ChildRegistered, IsWatchAlreadySpawned
<1>5. QED
  BY <1>1, <1>2, <1>3, <1>4

\* A blocker that runs is seen by IsBlockerRunning, if the main thread polls.
LEMMA BlockerSeen ==
    ASSUME ChildInv, LauncherInv, main.pc = "poll", ~IsBlockerRunning
    PROVE  NoBlockerRuns
<1> SUFFICES ASSUME NEW p \in Pids, child[p].state = "running", child[p].kind = "blocker"
             PROVE FALSE
  BY DEF NoBlockerRuns
<1>1. child[p].slot \in WatchIds /\ watchConfig[child[p].slot] = "blocker"
  BY DEF ChildInv, KernelInv, LauncherInv
<1>2. PICK i \in Entries : spawn_watchids[i] = child[p].slot
  BY DEF ChildInv, ChildRegistered
<1>3. QED
  BY <1>1, <1>2 DEF IsBlockerRunning

LEMMA LauncherInvInit == Init => LauncherInv
  BY DEF Init, LauncherInv, OnePerSlot, NoChild, Polling

\* A step that leaves the children alone, or reaps some.
LEMMA LauncherInvKept ==
    ASSUME LauncherInv,
           \A p \in Pids : child[p].state = "running" => child'[p] = child[p],
           \A p \in Pids : child'[p].state = "running" => child[p].state = "running",
           \A p \in Pids : child[p].state = "running" /\ child[p].kind = "blocker" =>
               watchConfig'[child[p].slot] = "blocker",
           main'.pc = "checked" /\ ~main'.blocked => NoBlockerRuns,
           main'.pc = "cleared" /\ main'.request # "force" => NoBlockerRuns
    PROVE  LauncherInv'
<1>1. OnePerSlot(child)'
  BY RunningKept DEF LauncherInv
<1>2. NoBlockerRuns => NoBlockerRuns'
  BY DEF NoBlockerRuns
<1>3. QED
  BY <1>1, <1>2 DEF LauncherInv

LEMMA LauncherInvNext ==
    ASSUME CONFIGS_STAY, TableInv, ChildInv, LauncherInv, [Next]_vars
    PROVE  LauncherInv'
<1>1. /\ child \in [Pids -> ChildStates] /\ main \in MainStates
      /\ watchConfig \in [WatchIds -> SlotStates]
  BY DEF TableInv, TypeInv, TypeOK
<1>2. ASSUME NEW w \in WatchIds, NEW request \in Requests, CheckTable(w, request)
      PROVE  LauncherInv'
  <2>1. main'.pc = "checked" /\ main'.blocked = IsBlockerRunning /\ main.pc = "poll"
    BY <1>2 DEF CheckTable, Polling
  <2>2. ~main'.blocked => NoBlockerRuns
    BY <2>1, BlockerSeen
  <2>3. UNCHANGED <<child, watchConfig>>
    BY <1>2 DEF CheckTable
  <2>4. QED
    BY <2>1, <2>2, <2>3, LauncherInvKept DEF LauncherInv
<1>3. CASE Decide
  <2>1. UNCHANGED <<child, watchConfig>> /\ main.pc = "checked" /\ main'.pc # "checked"
    BY <1>1, <1>3 DEF Decide, Polling, MainStates
  <2>2. main'.pc = "cleared" /\ main'.request # "force" => NoBlockerRuns
    BY <1>1, <1>3 DEF Decide, Polling, MainStates, LauncherInv
  <2>3. QED
    BY <2>1, <2>2, LauncherInvKept DEF LauncherInv
<1>4. ASSUME NEW p \in Pids, Fork(p) PROVE LauncherInv'
  <2>1. OnePerSlot(child)'
    BY <1>4, ForkFacts DEF LauncherInv, OnePerSlot
  <2>2. \A q \in Pids : child'[q].state = "running" /\ child'[q].kind = "blocker" =>
          watchConfig'[child'[q].slot] = "blocker"
    BY <1>4, ForkFacts DEF LauncherInv
  <2>3. QED
    BY <1>4, <2>1, <2>2, ForkFacts DEF LauncherInv
<1>5. CASE SpawnFails \/ AddEntry
  <2>1. main' \in MainStates /\ main'.pc \in {"added", "exited"}
    BY <1>1, <1>5 DEF SpawnFails, AddEntry, ExitDaemon, MainStates
  <2>2. /\ \A p \in Pids : child[p].state = "running" => child'[p] = child[p]
        /\ \A p \in Pids : child'[p].state = "running" => child[p].state = "running"
        /\ UNCHANGED watchConfig
    BY <1>5 DEF SpawnFails, AddEntry, ExitDaemon, NoChild
  <2>3. QED
    BY <2>1, <2>2, LauncherInvKept DEF LauncherInv
<1>6. CASE GiveUp \/ (\E i \in Entries \cup {NoEntry} : FindEntry(i)) \/ \E t \in Threads : StartReaper(t)
  <2>1. CASE GiveUp \/ \E t \in Threads : StartReaper(t)
    BY <2>1, LauncherInvKept DEF GiveUp, StartReaper, Polling, LauncherInv
  <2>2. ASSUME NEW i \in Entries \cup {NoEntry}, FindEntry(i) PROVE LauncherInv'
    <3>1. main'.pc = "found" /\ UNCHANGED <<child, watchConfig>>
      BY <1>1, <2>2 DEF FindEntry, MainStates
    <3>2. QED
      BY <3>1, LauncherInvKept DEF LauncherInv
  <2>3. QED
    BY <1>6, <2>1, <2>2
<1>7. ASSUME NEW t \in Threads, Reaping(t) PROVE LauncherInv'
  <2>1. /\ \A p \in Pids : child[p].state = "running" => child'[p] = child[p]
        /\ \A p \in Pids : child'[p].state = "running" => child[p].state = "running"
        /\ UNCHANGED <<main, watchConfig>>
    BY <1>1, <1>7 DEF Reaping, ReadEntry, Reap, ReapFails, RemoveEntry, NoChild
  <2>2. QED
    BY <2>1, LauncherInvKept DEF LauncherInv
<1>8. ASSUME NEW w \in WatchIds, NewWatch(w) \/ UpdateWatch(w) \/ PurgeStaleWatch(w)
      PROVE  LauncherInv'
  <2>1. /\ main.pc = "poll" /\ UNCHANGED <<main, child>>
        /\ watchConfig[w] = "unused" \/ ~IsWatchAlreadySpawned(w)
        /\ \A v \in WatchIds : v # w => watchConfig'[v] = watchConfig[v]
    BY <1>1, <1>8 DEF NewWatch, UpdateWatch, PurgeStaleWatch, SetSlot
  <2>2. ASSUME NEW p \in Pids, child[p].state = "running", child[p].kind = "blocker"
        PROVE  watchConfig'[child[p].slot] = "blocker"
    <3>1. child[p].slot \in WatchIds /\ watchConfig[child[p].slot] = "blocker"
      BY <2>2 DEF ChildInv, KernelInv, LauncherInv
    <3>2. IsWatchAlreadySpawned(child[p].slot)
      BY <2>1, <2>2 DEF ChildInv, ChildRegistered, IsWatchAlreadySpawned
    <3>3. QED
      BY <2>1, <3>1, <3>2
  <2>3. QED
    BY <2>1, <2>2, LauncherInvKept DEF LauncherInv
<1>9. CASE Environment
  <2>1. CASE ToggleBlockFile
    BY <2>1, LauncherInvKept DEF ToggleBlockFile, LauncherInv
  <2>2. ASSUME NEW p \in Pids, ChildExits(p) PROVE LauncherInv'
    <3>1. /\ child'[p].state # "running" /\ \A q \in Pids : q # p => child'[q] = child[q]
          /\ UNCHANGED <<main, watchConfig>>
      BY <1>1, <2>2 DEF ChildExits, NoChild, ChildStates
    <3>2. OnePerSlot(child)' /\ (NoBlockerRuns => NoBlockerRuns')
      BY <3>1 DEF LauncherInv, OnePerSlot, NoBlockerRuns
    <3>3. QED
      BY <3>1, <3>2 DEF LauncherInv
  <2>3. QED
    BY <1>9, <2>1, <2>2 DEF Environment
<1>10. CASE UNCHANGED vars
  BY <1>10, LauncherInvKept DEF vars, LauncherInv
<1>11. QED
  BY <1>2, <1>3, <1>4, <1>5, <1>6, <1>7, <1>8, <1>9, <1>10 DEF Next, Spawning, Configuring

-----------------------------------------------------------------------------
(* The refinement.                                                         *)

LEMMA InitRefines == Init => L!Init
<1> SUFFICES ASSUME Init PROVE L!Init
  OBVIOUS
<1>1. OnePerSlot(child) /\ \A p \in Pids : child[p].state # "running"
  BY DEF Init, OnePerSlot, NoChild
<1>2. \A w \in WatchIds : RunningIn(child, w) = "nothing"
  BY <1>1, RunningInFacts
<1>3. QED
  BY <1>2 DEF L!Init

\* A fork launches.
LEMMA ForkRefines ==
    ASSUME TableInv, ChildInv, LauncherInv, LauncherInv', NEW p \in Pids, Fork(p)
    PROVE  L!Next
<1> DEFINE w == main.watch_idx
           kind == child'[p].kind
           running == [v \in WatchIds |-> RunningIn(child, v)]
<1>1. OnePerSlot(child) /\ OnePerSlot(child')
  BY DEF LauncherInv
<1>2. w \in WatchIds /\ running[w] = "nothing"
  BY <1>1, ForkFacts, RunningInFacts
<1>3. running'[w] = kind /\ kind \in LaunchKinds
  BY <1>1, ForkFacts, RunningInFacts
<1>4. ASSUME NEW v \in WatchIds, v # w PROVE running'[v] = running[v]
  <2>1. CASE \E q \in Pids : child[q].state = "running" /\ child[q].slot = v
    BY <1>1, <1>4, <2>1, ForkFacts, RunningInFacts
  <2>2. CASE \A q \in Pids : child[q].state = "running" => child[q].slot # v
    BY <1>1, <1>4, <2>2, ForkFacts, RunningInFacts
  <2>3. QED
    BY <2>1, <2>2
<1>5. running' = [running EXCEPT ![w] = kind]
  BY <1>2, <1>3, <1>4
<1>6. ASSUME kind # "forced", NEW v \in WatchIds PROVE running[v] # "blocker"
  <2>1. NoBlockerRuns
    BY <1>6, ForkFacts DEF LauncherInv
  <2>2. QED
    BY <1>1, <2>1, RunningInFacts DEF NoBlockerRuns
<1>7. L!Launch(w, kind)
  BY <1>2, <1>5, <1>6 DEF L!Launch, L!NoBlocker
<1>8. QED
  BY <1>2, <1>3, <1>7 DEF L!Next, L!LaunchKinds, LaunchKinds

\* The end of a running child is the end of what its slot runs.
LEMMA ExitRefines ==
    ASSUME TableInv, ChildInv, LauncherInv, LauncherInv', NEW p \in Pids, ChildExits(p)
    PROVE  L!Next
<1> DEFINE w == child[p].slot
           running == [v \in WatchIds |-> RunningIn(child, v)]
<1>1. OnePerSlot(child) /\ OnePerSlot(child') /\ child \in [Pids -> ChildStates]
  BY DEF LauncherInv, TableInv, TypeInv, TypeOK
<1>2. /\ child[p].state = "running" /\ child'[p].state # "running"
      /\ \A q \in Pids : q # p => child'[q] = child[q]
  BY <1>1 DEF ChildExits, NoChild, ChildStates
<1>3. w \in WatchIds /\ running[w] = child[p].kind /\ child[p].kind \in LaunchKinds
  BY <1>1, <1>2, RunningInFacts DEF ChildInv, KernelInv, ChildStates
<1>4. running'[w] = "nothing"
  <2>1. \A q \in Pids : child'[q].state = "running" => child'[q].slot # w
    BY <1>1, <1>2 DEF OnePerSlot
  <2>2. QED
    BY <1>1, <1>3, <2>1, RunningInFacts
<1>5. ASSUME NEW v \in WatchIds, v # w PROVE running'[v] = running[v]
  <2>1. CASE \E q \in Pids : child[q].state = "running" /\ child[q].slot = v
    BY <1>1, <1>2, <1>5, <2>1, RunningInFacts
  <2>2. CASE \A q \in Pids : child[q].state = "running" => child[q].slot # v
    BY <1>1, <1>2, <1>5, <2>2, RunningInFacts
  <2>3. QED
    BY <2>1, <2>2
<1>6. running' = [running EXCEPT ![w] = "nothing"]
  BY <1>3, <1>4, <1>5
<1>7. L!Finish(w)
  BY <1>3, <1>6 DEF L!Finish, LaunchKinds
<1>8. QED
  BY <1>3, <1>7 DEF L!Next

LEMMA NextRefines ==
    ASSUME CONFIGS_STAY, TableInv, ChildInv, LauncherInv, [Next]_vars
    PROVE  [L!Next]_([w \in WatchIds |-> RunningIn(child, w)])
<1> DEFINE running == [w \in WatchIds |-> RunningIn(child, w)]
<1>1. LauncherInv'
  BY LauncherInvNext
<1>2. ASSUME NEW p \in Pids, Fork(p) PROVE L!Next
  BY <1>1, <1>2, ForkRefines
<1>3. ASSUME NEW p \in Pids, ChildExits(p) PROVE L!Next
  BY <1>1, <1>3, ExitRefines
<1>4. ASSUME \A p \in Pids : ~Fork(p) /\ ~ChildExits(p) PROVE UNCHANGED running
  <2>1. /\ \A p \in Pids : child[p].state = "running" => child'[p] = child[p]
        /\ \A p \in Pids : child'[p].state = "running" => child[p].state = "running"
    <3>1. CASE UNCHANGED child
      BY <3>1
    <3>2. CASE AddEntry \/ SpawnFails \/ \E t \in Threads : Reap(t)
      BY <3>2 DEF AddEntry, SpawnFails, ExitDaemon, Reap, NoChild, TableInv, TypeInv, TypeOK
    <3>3. QED
      BY <1>4, <3>1, <3>2
         DEF Next, Spawning, Reaping, Configuring, Environment, CheckTable, Decide, GiveUp, FindEntry,
             StartReaper, ReadEntry, ReapFails, RemoveEntry, NewWatch, UpdateWatch, PurgeStaleWatch,
             SetSlot, ToggleBlockFile, vars
  <2>2. \A w : RunningIn(child', w) = RunningIn(child, w)
    BY <2>1, RunningKept DEF LauncherInv
  <2>3. QED
    BY <2>2
<1>5. QED
  BY <1>2, <1>3, <1>4

(* Launching, with its threads, its table and its pids, does what Launcher *)
(* says: one program per slot, and nothing unforced next to a blocker.     *)
THEOREM LaunchesAsPromised ==
    ASSUME CONFIGS_STAY
    PROVE  Spec => ImplementsLauncher
<1>1. Init => TableInv /\ ChildInv /\ LauncherInv /\ L!Init
  BY TableInvInit, ChildInvInit, LauncherInvInit, InitRefines
<1>2. TableInv /\ ChildInv /\ LauncherInv /\ [Next]_vars =>
        /\ (TableInv /\ ChildInv /\ LauncherInv)'
        /\ [L!Next]_([w \in WatchIds |-> RunningIn(child, w)])
  BY TableInvNext, ChildInvNext, LauncherInvNext, NextRefines
<1>3. QED
  BY <1>1, <1>2, PTL DEF Spec, ImplementsLauncher, L!Spec
=============================================================================
