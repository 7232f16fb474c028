----------------------------- MODULE WatchConfig -----------------------------
(***************************************************************************)
(* The watch configs of KFMon: the ini files of the config directory, the  *)
(* table of watch slots, the load at startup, and the update that runs at  *)
(* the top of every iteration of the main loop, that is at startup and     *)
(* after each USBMS session.  Programs launched from a slot end whenever   *)
(* they like, in the middle of an update too.                              *)
(*                                                                         *)
(* Of a config we keep whether it parses, its filename, whether the other  *)
(* mandatory keys are there (sane), and its settings, that is what an      *)
(* update may change.  Config reads them key by key, and implements this.  *)
(***************************************************************************)
EXTENDS Integers, FiniteSets

CONSTANTS
    WATCH_MAX,      \* number of watch slots
    FILES,          \* number of ini files; they are walked in this order
    Paths,          \* what a config may name as its filename
    Basename,       \* the basename of each path
    NoFile,         \* the blank filename of an unused slot
    Settings,       \* what the other keys of a config may amount to
    NoSettings,     \* those keys in an unused slot
    WATCH_ERRORS    \* inotify_add_watch may fail, and not because of ENOENT

ASSUME SizesAssumption == WATCH_MAX \in Nat \ {0} /\ FILES \in Nat \ {0}
ASSUME PathsAssumption == NoFile \notin Paths /\ DOMAIN Basename = Paths
ASSUME FlagsAssumption == WATCH_ERRORS \in BOOLEAN

Slots == 0 .. WATCH_MAX - 1
Files == 1 .. FILES

\* The zeroed struct of a free slot, and the active ones.
Unused == [is_active |-> FALSE, filename |-> NoFile, settings |-> NoSettings]
Watches == [is_active : {TRUE}, filename : Paths, settings : Settings]

\* What the walk finds under a file's name.  It passes over a file that is gone and
\* one that does not parse alike; a config without a filename fares no better, as it
\* matches no watch, and is not valid for a new one.
Unreadable == [state |-> "unreadable", filename |-> NoFile, sane |-> FALSE, settings |-> NoSettings]
Sane   == [state : {"parsed"}, filename : Paths, sane : {TRUE}, settings : Settings]
Insane == [state : {"parsed"}, filename : Paths, sane : {FALSE}, settings : {NoSettings}]
Contents == {Unreadable} \cup Sane \cup Insane

VARIABLES
    ini,            \* the config directory
    watchConfig,    \* the watch slots
    programs,       \* the filename each slot's running program was launched for
    walk,           \* where the main thread is, with the locals of the walk
    known           \* history: the slots as the current update found them

vars == <<ini, watchConfig, programs, walk, known>>

\* k is the next file (or slot) to handle, count is watch_count in a load and
\* new_watch_count in an update, kept is new_watch_list as a set; skipped
\* remembers the slots that were running when their config was walked.
Walk(phase, k) == [phase |-> phase, k |-> k, count |-> 0, kept |-> {}, skipped |-> {},
                   notify |-> FALSE]

\* Slots hold a whole watch or are blank, and the walk's counters stay within the
\* arrays they index.
TypeOK ==
    /\ ini \in [Files -> Contents]
    /\ watchConfig \in [Slots -> Watches \cup {Unused}]
    /\ programs \in [Slots -> Paths \cup {NoFile}]
    /\ walk \in [phase : {"load", "update", "setup", "idle", "session", "undefined"},
                 k : Nat, count : 0 .. WATCH_MAX,
                 kept : SUBSET Slots, skipped : SUBSET Slots, notify : BOOLEAN]
    /\ walk.k \in IF walk.phase \in {"load", "update", "undefined"} THEN 1 .. FILES + 1
                  ELSE 0 .. WATCH_MAX
    /\ known \in [Slots -> Watches \cup {Unused}]

-----------------------------------------------------------------------------
Active == {w \in Slots : watchConfig[w].is_active}

IsFirst(w, S) == w \in S /\ \A v \in S : w <= v

\* Mutant: the uniqueness of basenames is not checked.
IsValidPathOnly(c) == c.sane /\ \A w \in Active : watchConfig[w].filename # c.filename

\* validate_watch_config: nobody else watches that file, or one of that name.
IsValid(c) ==
    /\ c.sane
    /\ \A w \in Active : /\ watchConfig[w].filename # c.filename
                         /\ Basename[watchConfig[w].filename] # Basename[c.filename]

\* The active slot an updated config is matched to.
IsMatch(w, c) == IsFirst(w, {v \in Active : watchConfig[v].filename = c.filename})

\* get_next_available_watch_entry
IsNextAvailable(w) == IsFirst(w, Slots \ Active)

WatchOf(c) == [is_active |-> TRUE, filename |-> c.filename, settings |-> c.settings]

SetSlot(w, watch) == watchConfig' = [watchConfig EXCEPT ![w] = watch]

IsSpawned(w) == programs[w] # NoFile

-----------------------------------------------------------------------------
Init ==
    /\ ini \in [Files -> Contents]
    /\ watchConfig = [w \in Slots |-> Unused]
    /\ programs = [w \in Slots |-> NoFile]
    /\ walk = Walk("load", 1)
    /\ known = watchConfig

(* load_config: the valid configs fill the slots from the first one on.    *)

LoadFile ==
    /\ walk.phase = "load"
    /\ walk.k <= FILES
    /\ LET c == ini[walk.k]
           loaded == c.state = "parsed" /\ walk.count < WATCH_MAX /\ IsValid(c)
       IN  IF loaded
           THEN /\ SetSlot(walk.count, WatchOf(c))
                /\ walk' = [walk EXCEPT !.k = @ + 1, !.count = @ + 1]
           ELSE /\ walk' = [walk EXCEPT !.k = @ + 1]
                /\ UNCHANGED watchConfig
    /\ UNCHANGED <<ini, programs, known>>

(* update_watch_configs, one file at a time.                               *)

\* The first update comes right after the load, the others after a session.
BeginUpdate ==
    /\ \/ walk.phase = "load" /\ walk.k > FILES
       \/ walk.phase = "session"
    /\ walk' = Walk("update", 1)
    /\ known' = watchConfig
    /\ UNCHANGED <<ini, watchConfig, programs>>

Updating(state) ==
    /\ walk.phase = "update"
    /\ walk.k <= FILES
    /\ (ini[walk.k].state = "parsed") = (state = "parsed")

\* new_watch_list[new_watch_count++] = w.  The array has WATCH_MAX items: what
\* happens after a store past its end is undefined.
Keep(w, skipped, notify) ==
    walk' = IF walk.count < WATCH_MAX
            THEN [walk EXCEPT !.k = @ + 1, !.count = @ + 1, !.kept = @ \cup {w},
                              !.skipped = @ \cup skipped, !.notify = @ \/ notify]
            ELSE [walk EXCEPT !.phase = "undefined"]

SkipFile ==
    /\ Updating("other")
    /\ walk' = [walk EXCEPT !.k = @ + 1]
    /\ UNCHANGED <<ini, watchConfig, programs, known>>

\* A config nobody watches the file of: it needs a slot, and to be valid.
NewFile ==
    /\ Updating("parsed")
    /\ LET c == ini[walk.k] IN
       /\ \A w \in Slots : ~IsMatch(w, c)
       /\ IF Active # Slots /\ IsValid(c)
          THEN \E w \in Slots : IsNextAvailable(w) /\ SetSlot(w, WatchOf(c)) /\ Keep(w, {}, TRUE)
          ELSE walk' = [walk EXCEPT !.k = @ + 1] /\ UNCHANGED watchConfig
    /\ UNCHANGED <<ini, programs, known>>

\* The watch is running: its config is left alone, whatever the file says now.
RunningFile(w) ==
    /\ Updating("parsed")
    /\ IsMatch(w, ini[walk.k])
    /\ IsSpawned(w)
    /\ Keep(w, {w}, FALSE)
    /\ UNCHANGED <<ini, watchConfig, programs, known>>

\* Mutants: the merge goes on although the watch is running; a sane config is
\* accepted without being merged.
KnownFileAlways(w) ==
    /\ Updating("parsed")
    /\ IsMatch(w, ini[walk.k])
    /\ SetSlot(w, WatchOf(ini[walk.k]))
    /\ Keep(w, {}, TRUE)
    /\ UNCHANGED <<ini, programs, known>>

KnownFileUnmerged(w) ==
    /\ Updating("parsed")
    /\ IsMatch(w, ini[walk.k])
    /\ ~IsSpawned(w)
    /\ Keep(w, {}, FALSE)
    /\ UNCHANGED <<ini, watchConfig, programs, known>>

\* validate_and_merge_watch_config: merged if it is sane, dropped otherwise.
KnownFile(w) ==
    /\ Updating("parsed")
    /\ LET c == ini[walk.k] IN
       /\ IsMatch(w, c)
       /\ ~IsSpawned(w)
       /\ IF c.sane
          THEN SetSlot(w, WatchOf(c)) /\ Keep(w, {}, WatchOf(c) # watchConfig[w])
          ELSE SetSlot(w, Unused) /\ walk' = [walk EXCEPT !.k = @ + 1, !.notify = TRUE]
    /\ UNCHANGED <<ini, programs, known>>

\* Mutants: new_watch_list starts out full of zeros, so slot 0 is always kept;
\* dropping a stale watch is not a change to notify.
PurgeStaleZeroInit ==
    /\ walk.phase = "update"
    /\ walk.k > FILES
    /\ LET stale == Active \ (walk.kept \cup {0}) IN
       /\ watchConfig' = [w \in Slots |-> IF w \in stale THEN Unused ELSE watchConfig[w]]
       /\ walk' = [walk EXCEPT !.phase = "setup", !.k = 0, !.notify = @ \/ stale # {}]
    /\ UNCHANGED <<ini, programs, known>>

PurgeStaleSilently ==
    /\ walk.phase = "update"
    /\ walk.k > FILES
    /\ watchConfig' = [w \in Slots |-> IF w \in walk.kept THEN watchConfig[w] ELSE Unused]
    /\ walk' = [walk EXCEPT !.phase = "setup", !.k = 0]
    /\ UNCHANGED <<ini, programs, known>>

\* The active slots whose config was not walked are stale, running or not.
PurgeStale ==
    /\ walk.phase = "update"
    /\ walk.k > FILES
    /\ LET stale == Active \ walk.kept IN
       /\ watchConfig' = [w \in Slots |-> IF w \in stale THEN Unused ELSE watchConfig[w]]
       /\ walk' = [walk EXCEPT !.phase = "setup", !.k = 0, !.notify = @ \/ stale # {}]
    /\ UNCHANGED <<ini, programs, known>>

(* The main loop then sets up an inotify watch for each active slot.  When *)
(* that fails the slot is released, unless its program is running.         *)

\* Mutant: the loop goes on to the slot past the last one.
SetupWatchOffByOne ==
    /\ walk.phase = "setup"
    /\ walk.k <= WATCH_MAX
    /\ walk' = [walk EXCEPT !.k = @ + 1]
    /\ UNCHANGED <<ini, watchConfig, programs, known>>

SetupWatch ==
    /\ walk.phase = "setup"
    /\ walk.k < WATCH_MAX
    /\ walk' = [walk EXCEPT !.k = @ + 1]
    /\ \/ UNCHANGED watchConfig
       \/ WATCH_ERRORS /\ walk.k \in Active /\ ~IsSpawned(walk.k) /\ SetSlot(walk.k, Unused)
    /\ UNCHANGED <<ini, programs, known>>

StartListening ==
    /\ walk.phase = "setup"
    /\ walk.k = WATCH_MAX
    /\ walk' = Walk("idle", 0)
    /\ known' = watchConfig
    /\ UNCHANGED <<ini, watchConfig, programs>>

(* What happens around the walk.                                           *)

\* Launches only happen while the main thread listens (see ProcessTable).
Launch(w) ==
    /\ walk.phase = "idle"
    /\ w \in Active
    /\ ~IsSpawned(w)
    /\ programs' = [programs EXCEPT ![w] = watchConfig[w].filename]
    /\ UNCHANGED <<ini, watchConfig, walk, known>>

\* A reaper removes the slot's program from the process table.
ProgramEnds(w) ==
    /\ IsSpawned(w)
    /\ programs' = [programs EXCEPT ![w] = NoFile]
    /\ UNCHANGED <<ini, watchConfig, walk, known>>

HasConfig(path, dir) == \E f \in Files : dir[f].state = "parsed" /\ dir[f].filename = path

\* The partition is unmounted for a USBMS session: the main thread waits for it
\* to come back, and the user edits the directory meanwhile.
StartSession ==
    /\ walk.phase = "idle"
    /\ walk' = Walk("session", 0)
    /\ UNCHANGED <<ini, watchConfig, programs, known>>

EditFile(f, c) ==
    /\ walk.phase = "session"
    /\ ini' = [ini EXCEPT ![f] = c]
    /\ UNCHANGED <<watchConfig, programs, walk, known>>

\* After a store out of bounds the model says nothing more.
Undefined == walk.phase = "undefined" /\ UNCHANGED vars

Next ==
    \/ LoadFile
    \/ BeginUpdate
    \/ SkipFile
    \/ NewFile
    \/ \E w \in Slots : RunningFile(w) \/ KnownFile(w) \/ Launch(w) \/ ProgramEnds(w)
    \/ PurgeStale
    \/ SetupWatch
    \/ StartListening
    \/ StartSession
    \/ \E f \in Files, c \in Contents : EditFile(f, c)
    \/ Undefined

Spec == Init /\ [][Next]_vars

-----------------------------------------------------------------------------
(* Properties.                                                             *)

\* No two active watches have files of the same basename, at any point of a
\* load or an update: an IPC trigger names one watch, and no inotify watch is
\* shared.
UniqueBasenames ==
    \A v, w \in Active :
        Basename[watchConfig[v].filename] = Basename[watchConfig[w].filename] => v = w

\* As long as its config is there, the slot of a running program is neither
\* changed nor released nor reused, not even when an update, the program's end
\* and the removal of stale watches interleave.
RunningWatchKept ==
    [][\A w \in Slots : IsSpawned(w) /\ HasConfig(watchConfig[w].filename, ini)
          => watchConfig'[w] = watchConfig[w]]_vars

UpdateDone == walk.phase = "setup" /\ walk.k = 0

\* After an update no watch is left whose config file is gone or broken.
NoStaleWatch == UpdateDone => \A w \in Active : HasConfig(watchConfig[w].filename, ini)

\* After an update every watch that was not running has the settings its config
\* file holds (the last one walked, when several name the same file).
WatchesUpToDate ==
    UpdateDone => \A w \in Active \ walk.skipped :
        \E f \in Files :
            /\ ini[f].sane /\ WatchOf(ini[f]) = watchConfig[w]
            /\ \A g \in Files : g > f /\ ini[g].state = "parsed" =>
                  ini[g].filename # watchConfig[w].filename

\* An update that changed the watches touches the IPC socket, so that clients
\* know there is a new list to fetch.
ChangesAnnounced == UpdateDone /\ watchConfig # known => walk.notify

\* How ProcessTable lets the slots change between two launches.
SlotStepsAsInProcessTable ==
    [][\A w \in Slots : watchConfig'[w] # watchConfig[w] =>
         \/ ~watchConfig[w].is_active /\ watchConfig'[w].is_active
         \/ watchConfig[w].is_active /\ (IsSpawned(w) => ~watchConfig'[w].is_active)]_vars

\* README.md: "for a given watch, only one single instance of its action can
\* ever be run concurrently".
OneInstancePerWatch ==
    \A v, w \in Slots : IsSpawned(v) /\ programs[v] = programs[w] => v = w

\* validate_watch_config: of several configs on the same file, "that would only
\* actually register the first one parsed".
FirstParsedWins ==
    UpdateDone => \A w \in Active \ walk.skipped :
        \E f \in Files :
            /\ ini[f].sane /\ WatchOf(ini[f]) = watchConfig[w]
            /\ \A g \in Files : g < f /\ ini[g].sane =>
                  ini[g].filename # watchConfig[w].filename

\* README.md: KFMon "will check for new/removed/updated watch config files after
\* an USBMS session": if the configs are all sane, on files of different names,
\* and no more than there are slots, each of them ends up in a slot.
ConfigsTakeEffect ==
    LET present == {f \in Files : ini[f].state = "parsed"} IN
    UpdateDone
    /\ (\A f \in present : ini[f].sane)
    /\ (\A f, g \in present : f # g => Basename[ini[f].filename] # Basename[ini[g].filename])
    /\ Cardinality(present) <= WATCH_MAX
    => \A f \in present : \E w \in Active : watchConfig[w].filename = ini[f].filename

\* load_config: "Don't blow up when trying to store more watches than we have
\* space for": the list of the watches an update keeps stays within its array.
NewWatchListFits == walk.phase # "undefined"
=============================================================================
