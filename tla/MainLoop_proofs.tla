-------------------------- MODULE MainLoop_proofs --------------------------
(***************************************************************************)
(* Theorems about MainLoop, for any number of watches, sessions and        *)
(* changes of the mount table.                                             *)
(***************************************************************************)
EXTENDS MainLoop, TLAPS

\* Nothing is watched from the moment KFMon starts over until it adds watches, a
\* watch is on an icon that is there, and what is to be added is configured.
WatchesInv ==
    /\ main.pc \notin {"setup", "listen"} => watched = {}
    /\ watched \subseteq Icons
    /\ main.todo \subseteq configured

\* With the mount table still between a look at it and its consequences, KFMon
\* updates and sets up with the target mounted, and adds a watch on each icon.
SetupInv ==
    /\ main.pc \in {"update", "setup"} => mounted
    /\ main.pc = "setup" => /\ configured = disk.configs
                            /\ watched = (disk.configs \ main.todo) \cap disk.icons

\* While KFMon listens and was told of no loss, the target is mounted, its configs
\* are the active watches, and every icon of theirs has its inotify watch.
Settled ==
    main.pc = "listen" /\ ~ignored =>
        mounted /\ configured = disk.configs /\ watched = disk.configs \cap disk.icons

\* The changes counted on the way to giving up.
CountInv == main.pc = "wait" => main.changes < MAX_CHANGES

IInv == TypeOK /\ WatchesInv /\ CountInv

-----------------------------------------------------------------------------
LEMMA AtFacts ==
    ASSUME NEW pc
    PROVE  At(pc).pc = pc /\ At(pc).changes = 0 /\ At(pc).todo = {}
  BY DEF At

MainStates ==
    [pc : {"check", "open", "wait", "recheck", "update", "setup", "listen", "exited"},
     changes : 0 .. MAX_CHANGES, todo : SUBSET Watches]

LEMMA AtType ==
    ASSUME NEW pc \in {"check", "open", "wait", "recheck", "update", "setup", "listen", "exited"}
    PROVE  At(pc) \in MainStates
  BY BoundsAssumption DEF At, MainStates

LEMMA TypeNext ==
    ASSUME IInv, [Next]_vars
    PROVE  TypeOK'
<1>0. /\ mounted \in BOOLEAN /\ disk \in Disks /\ main \in MainStates
      /\ left \in [sessions : 0 .. SESSIONS, others : 0 .. OTHERS]
      /\ changed \in BOOLEAN /\ configured \subseteq Watches
      /\ watched \subseteq configured /\ ignored \in BOOLEAN
  BY DEF IInv, TypeOK, MainStates
<1>1. Configs \subseteq Watches
  BY <1>0 DEF Configs, Disks
<1>2. SUFFICES /\ mounted' \in BOOLEAN /\ disk' \in Disks /\ main' \in MainStates
               /\ left' \in [sessions : 0 .. SESSIONS, others : 0 .. OTHERS]
               /\ changed' \in BOOLEAN /\ configured' \subseteq Watches
               /\ watched' \subseteq configured' /\ ignored' \in BOOLEAN
  BY DEF TypeOK, Disks, MainStates
<1>3. CASE Check
  BY <1>0, <1>3, AtType DEF Check
<1>4. CASE Open
  BY <1>0, <1>4, AtType DEF Open
<1>5. CASE Wake
  <2>1. main.changes + 1 \in 0 .. MAX_CHANGES
    BY <1>0, <1>5, BoundsAssumption DEF Wake, IInv, CountInv, MainStates
  <2>2. main' \in MainStates
    BY <1>0, <1>5, <2>1 DEF Wake, MainStates
  <2>3. QED
    BY <1>0, <1>5, <2>2 DEF Wake
<1>6. CASE Recheck
  <2>1. main' \in MainStates
    BY <1>0, <1>6, AtType DEF Recheck, MainStates
  <2>2. QED
    BY <1>0, <1>6, <2>1 DEF Recheck
<1>7. CASE Update
  <2>1. [At("setup") EXCEPT !.todo = Configs] \in MainStates
    BY <1>1, AtType DEF MainStates
  <2>2. watched = {}
    BY <1>7 DEF Update, IInv, WatchesInv
  <2>3. QED
    BY <1>0, <1>1, <1>7, <2>1, <2>2 DEF Update
<1>8. ASSUME NEW w \in Watches, AddWatch(w)
      PROVE  TypeOK'
  <2>1. main' \in MainStates
    BY <1>0, <1>8 DEF AddWatch, MainStates
  <2>2. w \in configured
    BY <1>8 DEF AddWatch, IInv, WatchesInv
  <2>3. QED
    BY <1>0, <1>8, <2>1, <2>2 DEF AddWatch, TypeOK, MainStates
<1>9. CASE Listen
  BY <1>0, <1>9, AtType DEF Listen
<1>10. CASE StartOver
  BY <1>0, <1>10, AtType DEF StartOver
<1>11. CASE Unmount
  BY <1>0, <1>11 DEF Unmount
<1>12. CASE Mount
  <2>1. left' \in [sessions : 0 .. SESSIONS, others : 0 .. OTHERS]
    BY <1>0, <1>12, BoundsAssumption DEF Mount
  <2>2. QED
    BY <1>0, <1>12, <2>1 DEF Mount
<1>13. CASE OtherChange
  <2>1. left' \in [sessions : 0 .. SESSIONS, others : 0 .. OTHERS]
    BY <1>0, <1>13, BoundsAssumption DEF OtherChange
  <2>2. QED
    BY <1>0, <1>13, <2>1 DEF OtherChange
<1>14. ASSUME NEW w \in Watches, DeleteIcon(w)
       PROVE  TypeOK'
  BY <1>0, <1>14 DEF DeleteIcon, TypeOK, MainStates, Disks
<1>15. CASE UNCHANGED vars
  BY <1>0, <1>15 DEF vars
<1>16. QED
  BY <1>2, <1>3, <1>4, <1>5, <1>6, <1>7, <1>8, <1>9, <1>10, <1>11, <1>12, <1>13, <1>14, <1>15
     DEF Next, Looping, TypeOK, MainStates, Disks

LEMMA WatchesNext ==
    ASSUME IInv, [Next]_vars
    PROVE  WatchesInv' /\ CountInv'
<1>0. /\ TypeOK /\ main \in MainStates /\ WatchesInv /\ CountInv
      /\ MAX_CHANGES \in Nat /\ MAX_CHANGES > 0
  BY BoundsAssumption DEF IInv, TypeOK, MainStates
<1>1. CASE Check \/ Open
  BY <1>0, <1>1, AtFacts DEF Check, Open, WatchesInv, CountInv, Icons
<1>2. CASE Wake
  <2>1. main'.pc = "recheck" /\ main'.todo = main.todo
    BY <1>0, <1>2 DEF Wake, MainStates
  <2>2. QED
    BY <1>0, <1>2, <2>1 DEF Wake, WatchesInv, CountInv, Icons
<1>3. CASE Recheck
  <2>1. \/ main' = At("update") \/ main' = [main EXCEPT !.pc = "exited"]
        \/ main.changes < MAX_CHANGES /\ main' = [main EXCEPT !.pc = "wait"]
    BY <1>0, <1>3 DEF Recheck, MainStates
  <2>2. /\ main'.pc \in {"update", "exited", "wait"}
        /\ main'.todo \subseteq main.todo
        /\ main'.pc = "wait" => main'.changes < MAX_CHANGES
    BY <1>0, <2>1, AtFacts DEF MainStates
  <2>3. main.pc = "recheck" /\ UNCHANGED <<mounted, disk, watched, configured>>
    BY <1>3 DEF Recheck
  <2>4. QED
    BY <1>0, <2>2, <2>3 DEF WatchesInv, CountInv, Icons
<1>4. CASE Update
  <2>1. main'.pc = "setup" /\ main'.todo = Configs
    BY <1>4 DEF Update, At
  <2>2. QED
    BY <1>0, <1>4, <2>1 DEF Update, WatchesInv, CountInv, Icons
<1>5. ASSUME NEW w \in Watches, AddWatch(w)
      PROVE  WatchesInv' /\ CountInv'
  <2>1. main'.pc = "setup" /\ main'.todo = main.todo \ {w}
    BY <1>0, <1>5 DEF AddWatch, MainStates
  <2>2. QED
    BY <1>0, <1>5, <2>1 DEF AddWatch, WatchesInv, CountInv, Icons
<1>6. CASE Listen \/ StartOver
  BY <1>0, <1>6, AtFacts DEF Listen, StartOver, WatchesInv, CountInv, Icons
<1>7. CASE Unmount
  BY <1>0, <1>7 DEF Unmount, WatchesInv, CountInv, Icons
<1>8. CASE Mount
  BY <1>0, <1>8 DEF Mount, WatchesInv, CountInv, Icons
<1>9. CASE OtherChange
  BY <1>0, <1>9 DEF OtherChange, WatchesInv, CountInv, Icons
<1>10. ASSUME NEW w \in Watches, DeleteIcon(w)
       PROVE  WatchesInv' /\ CountInv'
  <2>1. disk'.icons = disk.icons \ {w}
    BY <1>0, <1>10 DEF DeleteIcon, TypeOK, Disks
  <2>2. QED
    BY <1>0, <1>10, <2>1 DEF DeleteIcon, WatchesInv, CountInv, Icons
<1>11. CASE UNCHANGED vars
  BY <1>0, <1>11 DEF vars, WatchesInv, CountInv, Icons
<1>12. QED
  BY <1>1, <1>2, <1>3, <1>4, <1>5, <1>6, <1>7, <1>8, <1>9, <1>10, <1>11 DEF Next, Looping

LEMMA Invariance == Spec => []IInv
<1>1. Init => IInv
  <2>1. SUFFICES ASSUME Init PROVE IInv
    OBVIOUS
  <2>2. main \in MainStates /\ main.pc = "check" /\ main.todo = {}
    BY <2>1, AtType, AtFacts DEF Init
  <2>3. TypeOK
    <3>1. left \in [sessions : 0 .. SESSIONS, others : 0 .. OTHERS]
      BY <2>1, BoundsAssumption DEF Init
    <3>2. disk \in Disks /\ configured = disk.configs /\ disk.configs \subseteq Watches
      BY <2>1 DEF Init, Disks
    <3>3. mounted = TRUE /\ changed = FALSE /\ watched = {} /\ ignored = FALSE
      BY <2>1 DEF Init
    <3>4. QED
      BY <2>2, <3>1, <3>2, <3>3 DEF TypeOK, MainStates
  <2>4. WatchesInv /\ CountInv
    BY <2>1, <2>2 DEF Init, WatchesInv, CountInv
  <2>5. QED
    BY <2>3, <2>4 DEF IInv
<1>2. IInv /\ [Next]_vars => IInv'
  BY TypeNext, WatchesNext DEF IInv
<1>3. QED
  BY <1>1, <1>2, PTL DEF Spec

-----------------------------------------------------------------------------
(* Theorems.                                                               *)

\* KFMon waits for MAX_CHANGES changes at most, and has inotify watches for active
\* watches only, whatever the mount table does between a look at it and its use.
THEOREM TypeCorrect == Spec => []TypeOK
  BY Invariance, PTL DEF IInv

\* From the loss of a watch to the next update nothing is watched, and KFMon never
\* counts on an inotify watch of an icon that is not there.
THEOREM WatchesAreOnIcons == Spec => []WatchesInv
  BY Invariance, PTL DEF IInv

\* If the mount table keeps still between a look at it and what is done about it, and
\* some icon is always there, KFMon listens either to all the icons its configs name or
\* to the news that it does not, so that it starts over: no session ends unnoticed.
THEOREM ListensToWhatIsThere == Spec /\ SEPARATE /\ ICON_STAYS => []Settled
<1> SUFFICES ASSUME SEPARATE, ICON_STAYS PROVE Spec => []Settled
  OBVIOUS
<1>1. Init => SetupInv /\ Settled
  BY AtFacts DEF Init, SetupInv, Settled
<1>2. IInv /\ SetupInv /\ Settled /\ [Next]_vars => SetupInv' /\ Settled'
  <2>1. SUFFICES ASSUME IInv, SetupInv, Settled, [Next]_vars PROVE SetupInv' /\ Settled'
    OBVIOUS
  <2>2. /\ disk \in Disks /\ main \in MainStates /\ disk.configs \cap disk.icons # {}
        /\ mounted \in BOOLEAN /\ ignored \in BOOLEAN
    BY <2>1 DEF IInv, TypeOK, MainStates, Disks
  <2>3. CASE Check \/ Open \/ StartOver
    BY <2>1, <2>2, <2>3, AtFacts DEF Check, Open, StartOver, SetupInv, Settled
  <2>4. CASE Wake
    <3>1. main'.pc = "recheck"
      BY <2>2, <2>4 DEF Wake, MainStates
    <3>2. QED
      BY <3>1 DEF SetupInv, Settled
  <2>5. CASE Recheck
    <3>1. main'.pc \in {"update", "exited", "wait"} /\ (main'.pc = "update" => mounted')
      BY <2>2, <2>5, AtFacts DEF Recheck, MainStates
    <3>2. QED
      BY <3>1 DEF SetupInv, Settled
  <2>6. CASE Update
    <3>1. main'.pc = "setup" /\ main'.todo = Configs
      BY <2>6 DEF Update, At
    <3>2. watched = {} /\ mounted
      BY <2>1, <2>6 DEF Update, IInv, WatchesInv, SetupInv
    <3>3. QED
      BY <2>6, <3>1, <3>2 DEF Update, SetupInv, Settled, Configs
  <2>7. ASSUME NEW w \in Watches, AddWatch(w)
        PROVE  SetupInv' /\ Settled'
    <3>1. main'.pc = "setup" /\ main'.todo = main.todo \ {w} /\ main.pc = "setup" /\ w \in main.todo
      BY <2>2, <2>7 DEF AddWatch, MainStates
    <3>2. mounted /\ configured = disk.configs
          /\ watched = (disk.configs \ main.todo) \cap disk.icons /\ w \in disk.configs
      BY <2>1, <3>1 DEF SetupInv, IInv, WatchesInv
    <3>3. watched' = (disk.configs \ main'.todo) \cap disk.icons
      BY <2>7, <3>1, <3>2 DEF AddWatch, Icons
    <3>4. QED
      BY <2>7, <3>1, <3>2, <3>3 DEF AddWatch, SetupInv, Settled
  <2>8. CASE Listen
    BY <2>1, <2>8, AtFacts DEF Listen, SetupInv, Settled
  <2>9. CASE Unmount
    <3>1. main.pc \notin {"update", "setup"}
      BY <2>9 DEF Unmount, InBetween
    <3>2. main.pc = "listen" => ignored'
      BY <2>1, <2>2, <2>9 DEF Unmount, Settled
    <3>3. QED
      BY <2>9, <3>1, <3>2 DEF Unmount, SetupInv, Settled
  <2>10. CASE Mount
    <3>1. main.pc \notin {"update", "setup"}
      BY <2>10 DEF Mount, InBetween
    <3>2. main.pc = "listen" => ignored'
      BY <2>1, <2>10 DEF Mount, Settled
    <3>3. QED
      BY <2>10, <3>1, <3>2 DEF Mount, SetupInv, Settled
  <2>11. CASE OtherChange
    BY <2>1, <2>11 DEF OtherChange, SetupInv, Settled
  <2>12. ASSUME NEW w \in Watches, DeleteIcon(w)
         PROVE  SetupInv' /\ Settled'
    <3>1. disk'.icons = disk.icons \ {w} /\ disk'.configs = disk.configs
      BY <2>2, <2>12 DEF DeleteIcon, Disks
    <3>2. watched' = watched \ {w} /\ (ignored' <=> ignored \/ w \in watched)
          /\ UNCHANGED <<mounted, main, configured>>
      BY <2>12 DEF DeleteIcon
    <3>3. SetupInv'
      BY <2>1, <3>1, <3>2 DEF SetupInv
    <3>4. Settled'
      BY <2>1, <3>1, <3>2 DEF Settled
    <3>5. QED
      BY <3>3, <3>4
  <2>13. CASE UNCHANGED vars
    BY <2>1, <2>13 DEF vars, SetupInv, Settled
  <2>14. QED
    BY <2>1, <2>3, <2>4, <2>5, <2>6, <2>7, <2>8, <2>9, <2>10, <2>11, <2>12, <2>13 DEF Next, Looping
<1>3. QED
  BY <1>1, <1>2, Invariance, PTL DEF Spec

=============================================================================
