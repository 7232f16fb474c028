------------------------------ MODULE MainLoop ------------------------------
(***************************************************************************)
(* KFMon's main loop across the sessions in which Nickel unmounts the      *)
(* target partition, exports it over USB and mounts it again:              *)
(* is_target_mounted, wait_for_target_mountpoint, and what the loop makes  *)
(* of the configs and the icons it finds.                                  *)
(*                                                                         *)
(* What becomes of a single config file is in WatchConfig, and the inotify *)
(* events other than the loss of a watch are in Events.                    *)
(***************************************************************************)
EXTENDS Naturals, FiniteSets

CONSTANTS
    Watches,        \* what a config file may ask to watch, and its icon
    MAX_CHANGES,    \* changes of the mount table KFMon waits for its target (6)
    SESSIONS,       \* bound: times the target is mounted again
    OTHERS,         \* bound: times another partition is mounted or unmounted
    SEPARATE,       \* the mount table does not change between a look at it and
                    \* what KFMon does about what it saw
    ICON_STAYS      \* at least one config has its icon

ASSUME BoundsAssumption ==
    MAX_CHANGES \in Nat \ {0} /\ SESSIONS \in Nat /\ OTHERS \in Nat
ASSUME FlagsAssumption == {SEPARATE, ICON_STAYS} \subseteq BOOLEAN
ASSUME WatchesAssumption == IsFiniteSet(Watches)

VARIABLES
    mounted,    \* the target partition is mounted
    disk,       \* what is on it: the configs, and the icons
    left,       \* sessions and other changes of the mount table to come
    main,       \* where the main thread is, and its count of changes
    changed,    \* the mount table changed since KFMon's open or poll of /proc/mounts
    configured, \* the active watches
    watched,    \* those with an inotify watch
    ignored     \* an IN_IGNORED event is queued

vars == <<mounted, disk, left, main, changed, configured, watched, ignored>>

Disks ==
    {d \in [configs : SUBSET Watches, icons : SUBSET Watches] :
        ICON_STAYS => d.configs \cap d.icons # {}}

\* KFMon counts MAX_CHANGES changes at most, and only active watches are watched.
TypeOK ==
    /\ mounted \in BOOLEAN
    /\ disk \in Disks
    /\ left \in [sessions : 0 .. SESSIONS, others : 0 .. OTHERS]
    /\ main \in [pc : {"check", "open", "wait", "recheck", "update", "setup", "listen", "exited"},
                 changes : 0 .. MAX_CHANGES, todo : SUBSET Watches]
    /\ changed \in BOOLEAN
    /\ configured \subseteq Watches
    /\ watched \subseteq configured
    /\ ignored \in BOOLEAN

At(pc) == [pc |-> pc, changes |-> 0, todo |-> {}]

\* load_config waits for the target as the loop does, and reads what is there.
Init ==
    /\ mounted = TRUE
    /\ disk \in Disks
    /\ left = [sessions |-> SESSIONS, others |-> OTHERS]
    /\ main = At("check")
    /\ changed = FALSE
    /\ configured = disk.configs
    /\ watched = {}
    /\ ignored = FALSE

-----------------------------------------------------------------------------
(* The main thread.                                                        *)

Check ==
    /\ main.pc = "check"
    /\ main' = At(IF mounted THEN "update" ELSE "open")
    /\ UNCHANGED <<mounted, disk, left, changed, configured, watched, ignored>>

\* What changed before the open is not reported.
Open ==
    /\ main.pc = "open"
    /\ main' = At("wait")
    /\ changed' = FALSE
    /\ UNCHANGED <<mounted, disk, left, configured, watched, ignored>>

Wake ==
    /\ main.pc = "wait"
    /\ changed
    /\ changed' = FALSE
    /\ main' = [main EXCEPT !.pc = "recheck", !.changes = @ + 1]
    /\ UNCHANGED <<mounted, disk, left, configured, watched, ignored>>

\* Mutants: any change will do; one change too many is waited for.
RecheckHasty ==
    /\ main.pc = "recheck"
    /\ main' = At("update")
    /\ UNCHANGED <<mounted, disk, left, changed, configured, watched, ignored>>

RecheckOffByOne ==
    /\ main.pc = "recheck"
    /\ main' = IF mounted THEN At("update")
               ELSE IF main.changes > MAX_CHANGES THEN [main EXCEPT !.pc = "exited"]
               ELSE [main EXCEPT !.pc = "wait"]
    /\ UNCHANGED <<mounted, disk, left, changed, configured, watched, ignored>>

Recheck ==
    /\ main.pc = "recheck"
    /\ main' = IF mounted THEN At("update")
               ELSE IF main.changes >= MAX_CHANGES THEN [main EXCEPT !.pc = "exited"]
               ELSE [main EXCEPT !.pc = "wait"]
    /\ UNCHANGED <<mounted, disk, left, changed, configured, watched, ignored>>

\* An unmounted target has no configs, and no icons.
Configs == IF mounted THEN disk.configs ELSE {}
Icons   == IF mounted THEN disk.icons ELSE {}

\* update_watch_configs: watches without a config are dropped.
Update ==
    /\ main.pc = "update"
    /\ configured' = Configs
    /\ main' = [At("setup") EXCEPT !.todo = Configs]
    /\ UNCHANGED <<mounted, disk, left, changed, watched, ignored>>

\* inotify_add_watch, one watch after the other: without its icon, it is IPC-only.
AddWatch(w) ==
    /\ main.pc = "setup"
    /\ w \in main.todo
    /\ main' = [main EXCEPT !.todo = @ \ {w}]
    /\ watched' = IF w \in Icons THEN watched \cup {w} ELSE watched
    /\ UNCHANGED <<mounted, disk, left, changed, configured, ignored>>

Listen ==
    /\ main.pc = "setup"
    /\ main.todo = {}
    /\ main' = At("listen")
    /\ UNCHANGED <<mounted, disk, left, changed, configured, watched, ignored>>

\* A watch is gone: handle_events removes the others, the descriptor is closed,
\* and the loop starts over.
StartOver ==
    /\ main.pc = "listen"
    /\ ignored
    /\ main' = At("check")
    /\ watched' = {}
    /\ ignored' = FALSE
    /\ UNCHANGED <<mounted, disk, left, changed, configured>>

-----------------------------------------------------------------------------
(* Nickel and the user.                                                    *)

InBetween == main.pc \in {"open", "update", "setup"}

Unmount ==
    /\ mounted
    /\ left.sessions > 0
    /\ SEPARATE => ~InBetween
    /\ mounted' = FALSE
    /\ changed' = TRUE
    /\ watched' = {}
    /\ ignored' = (ignored \/ watched # {})
    /\ UNCHANGED <<disk, left, main, configured>>

\* After a session, during which anything may have become of configs and icons.
Mount ==
    /\ ~mounted
    /\ left.sessions > 0
    /\ SEPARATE => ~InBetween
    /\ mounted' = TRUE
    /\ disk' \in Disks
    /\ left' = [left EXCEPT !.sessions = @ - 1]
    /\ changed' = TRUE
    /\ UNCHANGED <<main, configured, watched, ignored>>

OtherChange ==
    /\ left.others > 0
    /\ left' = [left EXCEPT !.others = @ - 1]
    /\ changed' = TRUE
    /\ UNCHANGED <<mounted, disk, main, configured, watched, ignored>>

\* An icon is deleted while KFMon runs.
DeleteIcon(w) ==
    /\ mounted
    /\ w \in disk.icons
    /\ disk' = [disk EXCEPT !.icons = @ \ {w}]
    /\ disk' \in Disks
    /\ watched' = watched \ {w}
    /\ ignored' = (ignored \/ w \in watched)
    /\ UNCHANGED <<mounted, left, main, changed, configured>>

Looping ==
    \/ Check \/ Open \/ Wake \/ Recheck \/ Update \/ Listen \/ StartOver
    \/ \E w \in Watches : AddWatch(w)

Next ==
    \/ Looping
    \/ Unmount \/ Mount \/ OtherChange
    \/ \E w \in Watches : DeleteIcon(w)

Spec == Init /\ [][Next]_vars

\* The main thread goes on as long as it can, and every session ends.
FairSpec == Spec /\ WF_vars(Looping) /\ WF_vars(Mount)

-----------------------------------------------------------------------------
(* Properties.                                                             *)

\* In the end, with the target mounted for good, KFMon has the watches its configs
\* ask for, and an inotify watch on each icon there is, whatever went on during
\* the sessions before; unless it gave up on a target that did not come back with
\* MAX_CHANGES changes of the mount table, and not with fewer.
Persists ==
    <>[](\/ main.pc = "exited" /\ main.changes = MAX_CHANGES
         \/ mounted /\ configured = disk.configs /\ watched = disk.configs \cap disk.icons)

\* The end of a session always gets KFMon out of its wait for the target.
WaitEnds == main.pc \in {"open", "wait"} ~> main.pc \notin {"open", "wait"}
=============================================================================
