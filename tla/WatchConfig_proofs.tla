------------------------- MODULE WatchConfig_proofs -------------------------
(***************************************************************************)
(* Theorems about WatchConfig, for any number of slots, files, paths and   *)
(* settings.                                                               *)
(***************************************************************************)
EXTENDS WatchConfig, FiniteSetTheorems, TLAPS

USE SizesAssumption, PathsAssumption, FlagsAssumption

\* A load fills the slots from the first one on, and nothing runs yet.
LoadFillsInOrder ==
    walk.phase = "load" => \A w \in Slots : /\ programs[w] = NoFile
                                            /\ walk.count <= w => w \notin Active

\* The files before the k-th that name this path.
Walked(path, k, dir) == {f \in Files : f < k /\ dir[f].state = "parsed" /\ dir[f].filename = path}

WalkedFor(w) == Walked(watchConfig[w].filename, walk.k, ini)

\* An update keeps the watches whose config it has walked.
KeptIfWalked(w) == w \in walk.kept <=> WalkedFor(w) # {}

\* A watch that is kept, and was not running, is what the last config walked says.
LastWalkedWins(w) ==
    w \in walk.kept \ walk.skipped =>
        \E f \in WalkedFor(w) : /\ ini[f].sane
                               /\ WatchOf(ini[f]) = watchConfig[w]
                               /\ \A g \in WalkedFor(w) : g <= f

UpdateInv ==
    walk.phase = "update" => /\ \A w \in Active : KeptIfWalked(w) /\ LastWalkedWins(w)
                             /\ watchConfig # known => walk.notify

\* The properties, with what makes them inductive.
IInv ==
    /\ TypeOK
    /\ UniqueBasenames
    /\ LoadFillsInOrder
    /\ UpdateInv
    /\ NoStaleWatch
    /\ WatchesUpToDate
    /\ ChangesAnnounced

-----------------------------------------------------------------------------
(* Facts about configs and slots.                                          *)

\* What a file holds once it parses, and once it is sane.
LEMMA ContentsFacts ==
    ASSUME NEW c \in Contents
    PROVE  /\ c.state = "parsed" => c.filename \in Paths
           /\ c.sane \in BOOLEAN
           /\ c.sane => c.state = "parsed" /\ WatchOf(c) \in Watches
           /\ WatchOf(c).filename = c.filename /\ WatchOf(c).is_active
<1>1. WatchOf(c).filename = c.filename /\ WatchOf(c).is_active
  BY DEF WatchOf
<1>2. CASE c = Unreadable
  BY <1>1, <1>2 DEF Unreadable
<1>3. CASE c \in Sane
  BY <1>1, <1>3 DEF Sane, WatchOf, Watches
<1>4. CASE c \in Insane
  BY <1>1, <1>4 DEF Insane
<1>5. QED
  BY <1>2, <1>3, <1>4 DEF Contents

\* A slot is blank, or a watch on a path.
LEMMA SlotFacts ==
    ASSUME TypeOK, NEW w \in Slots
    PROVE  /\ watchConfig[w].is_active \in BOOLEAN
           /\ watchConfig[w].is_active => watchConfig[w].filename \in Paths
           /\ ~watchConfig[w].is_active => watchConfig[w] = Unused
           /\ ~watchConfig[w].is_active => watchConfig[w].filename = NoFile
<1>1. watchConfig[w] \in Watches \/ watchConfig[w] = Unused
  BY DEF TypeOK
<1>2. CASE watchConfig[w] \in Watches
  BY <1>2 DEF Watches
<1>3. CASE watchConfig[w] = Unused
  BY <1>3 DEF Unused
<1>4. QED
  BY <1>1, <1>2, <1>3

\* The match of a config is the active slot with its filename.
LEMMA MatchFacts ==
    ASSUME NEW w, NEW c, IsMatch(w, c)
    PROVE  w \in Active /\ w \in Slots /\ watchConfig[w].filename = c.filename
  BY DEF IsMatch, IsFirst, Active

\* A watch on the file of a config is its match, as no other is on that file.
LEMMA WatcherMatches ==
    ASSUME TypeOK, UniqueBasenames, NEW w \in Active, NEW c, watchConfig[w].filename = c.filename
    PROVE  IsMatch(w, c) /\ \A v \in Active : watchConfig[v].filename = c.filename => v = w
<1>1. \A v \in Active : watchConfig[v].filename = c.filename => v = w
  BY DEF UniqueBasenames
<1>2. w \in Int /\ w <= w
  BY DEF Active, Slots
<1>3. QED
  BY <1>1, <1>2 DEF IsMatch, IsFirst

-----------------------------------------------------------------------------
(* Types.                                                                  *)

Phases == {"load", "update", "setup", "idle", "session", "undefined"}
Walks  == [phase : Phases, k : Nat, count : 0 .. WATCH_MAX,
           kept : SUBSET Slots, skipped : SUBSET Slots, notify : BOOLEAN]

\* The walk's state, apart from the rest of TypeOK.
WalkTypeOK ==
    /\ walk \in Walks
    /\ walk.phase \in {"load", "update", "undefined"} => 1 <= walk.k /\ walk.k <= FILES + 1
    /\ walk.phase \in {"setup", "idle", "session"} => walk.k <= WATCH_MAX

DataTypeOK ==
    /\ ini \in [Files -> Contents]
    /\ watchConfig \in [Slots -> Watches \cup {Unused}]
    /\ programs \in [Slots -> Paths \cup {NoFile}]
    /\ known \in [Slots -> Watches \cup {Unused}]

LEMMA TypeParts == TypeOK <=> WalkTypeOK /\ DataTypeOK
<1>1. TypeOK => WalkTypeOK /\ DataTypeOK
  BY DEF TypeOK, WalkTypeOK, DataTypeOK, Walks, Phases
<1>2. ASSUME WalkTypeOK, DataTypeOK PROVE TypeOK
  <2>1. walk.k \in IF walk.phase \in {"load", "update", "undefined"} THEN 1 .. FILES + 1
                    ELSE 0 .. WATCH_MAX
    <3>1. walk.phase \in Phases /\ walk.k \in Nat
      BY <1>2 DEF WalkTypeOK, Walks
    <3>2. CASE walk.phase \in {"load", "update", "undefined"}
      BY <1>2, <3>1, <3>2 DEF WalkTypeOK
    <3>3. CASE walk.phase \in {"setup", "idle", "session"}
      BY <1>2, <3>1, <3>3 DEF WalkTypeOK
    <3>4. QED
      BY <3>1, <3>2, <3>3 DEF Phases
  <2>2. QED
    BY <1>2, <2>1 DEF TypeOK, WalkTypeOK, DataTypeOK, Walks, Phases
<1>3. QED
  BY <1>1, <1>2

\* The walk starts a phase with empty locals.
LEMMA WalkStarts ==
    ASSUME NEW phase \in Phases, NEW k \in Nat
    PROVE  /\ Walk(phase, k) \in Walks
           /\ Walk(phase, k).phase = phase /\ Walk(phase, k).k = k
           /\ Walk(phase, k).count = 0 /\ Walk(phase, k).kept = {}
  BY DEF Walk, Walks

\* new_watch_list never grows past its array, but the walk may become undefined.
LEMMA KeepType ==
    ASSUME WalkTypeOK, walk.phase = "update", walk.k <= FILES,
           NEW w \in Slots, NEW skipped \in SUBSET Slots, NEW notify \in BOOLEAN,
           Keep(w, skipped, notify)
    PROVE  WalkTypeOK'
<1>1. CASE walk.count < WATCH_MAX
  <2>1. walk' = [walk EXCEPT !.k = @ + 1, !.count = @ + 1, !.kept = @ \cup {w},
                             !.skipped = @ \cup skipped, !.notify = @ \/ notify]
    BY <1>1 DEF Keep
  <2>2. walk.count + 1 \in 0 .. WATCH_MAX /\ walk.k + 1 \in Nat
    BY <1>1 DEF WalkTypeOK, Walks
  <2>3. (walk.notify \/ notify) \in BOOLEAN
    BY DEF WalkTypeOK, Walks
  <2>4. walk' \in Walks /\ walk'.phase = "update" /\ walk'.k = walk.k + 1
    BY <2>1, <2>2, <2>3 DEF WalkTypeOK, Walks
  <2>5. QED
    BY <2>4 DEF WalkTypeOK, Walks
<1>2. CASE ~(walk.count < WATCH_MAX)
  <2>1. walk' = [walk EXCEPT !.phase = "undefined"]
    BY <1>2 DEF Keep
  <2>2. walk' \in Walks /\ walk'.phase = "undefined" /\ walk'.k = walk.k
    BY <2>1 DEF WalkTypeOK, Walks, Phases
  <2>3. QED
    BY <2>2 DEF WalkTypeOK, Walks
<1>3. QED
  BY <1>1, <1>2

\* The walk goes on to the next file or slot.
LEMMA StepType ==
    ASSUME WalkTypeOK, NEW count \in 0 .. WATCH_MAX, NEW notify \in BOOLEAN,
           \/ walk.phase \in {"load", "update"} /\ walk.k <= FILES
           \/ walk.phase = "setup" /\ walk.k < WATCH_MAX,
           walk' = [walk EXCEPT !.k = @ + 1, !.count = count, !.notify = notify]
    PROVE  WalkTypeOK'
<1>1. walk.k \in Nat /\ walk \in Walks
  BY DEF WalkTypeOK, Walks
<1>2. walk.k + 1 \in Nat
  BY <1>1
<1>3. walk' = [walk EXCEPT !.k = walk.k + 1, !.count = count, !.notify = notify]
  OBVIOUS
<1>4. walk'.phase = walk.phase /\ walk'.k = walk.k + 1
  BY <1>1, <1>3 DEF Walks
<1>5. walk' \in Walks
  BY <1>1, <1>2, <1>3 DEF Walks
<1>6. QED
  BY <1>1, <1>4, <1>5 DEF WalkTypeOK

\* An update of one slot is well typed.
LEMMA SetSlotType ==
    ASSUME DataTypeOK, NEW w \in Slots, NEW watch \in Watches \cup {Unused}, SetSlot(w, watch),
           UNCHANGED <<ini, programs, known>>
    PROVE  DataTypeOK'
  BY DEF SetSlot, DataTypeOK

LEMMA TypeInit == Init => TypeOK
<1> SUFFICES ASSUME Init PROVE TypeOK
  OBVIOUS
<1>1. DataTypeOK
  BY DEF Init, DataTypeOK
<1>2. WalkTypeOK
  BY WalkStarts DEF Init, WalkTypeOK, Phases
<1>3. QED
  BY <1>1, <1>2, TypeParts

LEMMA TypeNext == TypeOK /\ [Next]_vars => TypeOK'
<1> SUFFICES ASSUME WalkTypeOK, DataTypeOK, [Next]_vars PROVE WalkTypeOK' /\ DataTypeOK'
  BY TypeParts, PTL
<1> DEFINE c == ini[walk.k]
<1>0. /\ walk \in Walks /\ walk.k \in Nat /\ walk.count \in 0 .. WATCH_MAX /\ walk.notify \in BOOLEAN
      /\ walk.phase \in {"load", "update"} /\ walk.k <= FILES => c \in Contents
  BY DEF WalkTypeOK, DataTypeOK, Walks, Files
<1>1. CASE LoadFile
  <2>1. CASE /\ c.state = "parsed" /\ walk.count < WATCH_MAX /\ IsValid(c)
             /\ SetSlot(walk.count, WatchOf(c))
             /\ walk' = [walk EXCEPT !.k = @ + 1, !.count = @ + 1]
    <3>1. walk.count \in Slots /\ WatchOf(c) \in Watches
      BY <1>0, <1>1, <2>1, ContentsFacts DEF LoadFile, Slots, IsValid
    <3>2. walk' = [walk EXCEPT !.k = @ + 1, !.count = walk.count + 1, !.notify = walk.notify]
      BY <1>0, <2>1 DEF Walks
    <3>3. walk.count + 1 \in 0 .. WATCH_MAX
      BY <1>0, <2>1
    <3>4. WalkTypeOK'
      BY <1>0, <1>1, <3>2, <3>3, StepType DEF LoadFile
    <3>5. QED
      BY <1>1, <2>1, <3>1, <3>4, SetSlotType DEF LoadFile
  <2>2. CASE walk' = [walk EXCEPT !.k = @ + 1] /\ UNCHANGED watchConfig
    <3>1. walk' = [walk EXCEPT !.k = @ + 1, !.count = walk.count, !.notify = walk.notify]
      BY <1>0, <2>2 DEF Walks
    <3>2. QED
      BY <1>0, <1>1, <2>2, <3>1, StepType DEF LoadFile, DataTypeOK
  <2>3. QED
    BY <1>1, <2>1, <2>2 DEF LoadFile
<1>2. CASE BeginUpdate
  BY <1>2, WalkStarts DEF BeginUpdate, WalkTypeOK, DataTypeOK, Phases
<1>3. CASE SkipFile
  <2>1. walk' = [walk EXCEPT !.k = @ + 1, !.count = walk.count, !.notify = walk.notify]
    BY <1>0, <1>3 DEF SkipFile, Walks
  <2>2. QED
    BY <1>0, <1>3, <2>1, StepType DEF SkipFile, Updating, DataTypeOK
<1>4. CASE NewFile
  <2>1. CASE IsValid(c) /\ \E w \in Slots : SetSlot(w, WatchOf(c)) /\ Keep(w, {}, TRUE)
    <3>1. WatchOf(c) \in Watches
      BY <1>0, <1>4, <2>1, ContentsFacts DEF NewFile, Updating, IsValid
    <3>2. QED
      BY <1>4, <2>1, <3>1, KeepType, SetSlotType DEF NewFile, Updating
  <2>2. CASE walk' = [walk EXCEPT !.k = @ + 1] /\ UNCHANGED watchConfig
    <3>1. walk' = [walk EXCEPT !.k = @ + 1, !.count = walk.count, !.notify = walk.notify]
      BY <1>0, <2>2 DEF Walks
    <3>2. QED
      BY <1>0, <1>4, <2>2, <3>1, StepType DEF NewFile, Updating, DataTypeOK
  <2>3. QED
    BY <1>4, <2>1, <2>2 DEF NewFile
<1>5. ASSUME NEW w \in Slots, RunningFile(w) PROVE WalkTypeOK' /\ DataTypeOK'
  BY <1>5, KeepType DEF RunningFile, Updating, DataTypeOK
<1>6. ASSUME NEW w \in Slots, KnownFile(w) PROVE WalkTypeOK' /\ DataTypeOK'
  <2>1. CASE c.sane /\ SetSlot(w, WatchOf(c)) /\ Keep(w, {}, WatchOf(c) # watchConfig[w])
    <3>1. WatchOf(c) \in Watches
      BY <1>0, <1>6, <2>1, ContentsFacts DEF KnownFile, Updating
    <3>2. WalkTypeOK'
      BY <1>6, <2>1, KeepType DEF KnownFile, Updating
    <3>3. QED
      BY <1>6, <2>1, <3>1, <3>2, SetSlotType DEF KnownFile
  <2>2. CASE SetSlot(w, Unused) /\ walk' = [walk EXCEPT !.k = @ + 1, !.notify = TRUE]
    <3>1. walk' = [walk EXCEPT !.k = @ + 1, !.count = walk.count, !.notify = TRUE]
      BY <1>0, <2>2 DEF Walks
    <3>2. QED
      BY <1>0, <1>6, <2>2, <3>1, StepType, SetSlotType DEF KnownFile, Updating
  <2>3. QED
    BY <1>6, <2>1, <2>2 DEF KnownFile
<1>7. CASE PurgeStale
  <2> DEFINE stale == Active \ walk.kept
  <2>1. watchConfig' \in [Slots -> Watches \cup {Unused}]
    BY <1>7 DEF PurgeStale, DataTypeOK
  <2>2. walk' = [walk EXCEPT !.phase = "setup", !.k = 0, !.notify = walk.notify \/ stale # {}]
    BY <1>7 DEF PurgeStale
  <2>3. walk' \in Walks /\ walk'.phase = "setup" /\ walk'.k = 0
    BY <1>0, <2>2 DEF Walks, Phases
  <2>4. QED
    BY <1>7, <2>1, <2>3 DEF PurgeStale, WalkTypeOK, DataTypeOK
<1>8. CASE SetupWatch
  <2>1. walk' = [walk EXCEPT !.k = @ + 1, !.count = walk.count, !.notify = walk.notify]
    BY <1>0, <1>8 DEF SetupWatch, Walks
  <2>2. WalkTypeOK'
    BY <1>0, <1>8, <2>1, StepType DEF SetupWatch
  <2>3. watchConfig' \in [Slots -> Watches \cup {Unused}]
    BY <1>8 DEF SetupWatch, SetSlot, DataTypeOK
  <2>4. QED
    BY <1>8, <2>2, <2>3 DEF SetupWatch, DataTypeOK
<1>9. CASE StartListening
  BY <1>9, WalkStarts DEF StartListening, WalkTypeOK, DataTypeOK, Phases
<1>10. ASSUME NEW w \in Slots, Launch(w) PROVE WalkTypeOK' /\ DataTypeOK'
  <2>1. watchConfig[w].filename \in Paths
    BY <1>10, SlotFacts, TypeParts DEF Launch, Active
  <2>2. QED
    BY <1>10, <2>1 DEF Launch, WalkTypeOK, DataTypeOK
<1>11. ASSUME NEW w \in Slots, ProgramEnds(w) PROVE WalkTypeOK' /\ DataTypeOK'
  BY <1>11 DEF ProgramEnds, WalkTypeOK, DataTypeOK
<1>12. CASE StartSession
  BY <1>12, WalkStarts DEF StartSession, WalkTypeOK, DataTypeOK, Phases
<1>13. ASSUME NEW f \in Files, NEW content \in Contents, EditFile(f, content)
       PROVE  WalkTypeOK' /\ DataTypeOK'
  BY <1>13 DEF EditFile, WalkTypeOK, DataTypeOK
<1>14. CASE UNCHANGED vars
  BY <1>14 DEF vars, WalkTypeOK, DataTypeOK
<1>15. QED
  BY <1>1, <1>2, <1>3, <1>4, <1>5, <1>6, <1>7, <1>8, <1>9, <1>10, <1>11, <1>12, <1>13, <1>14
  DEF Next, Undefined

-----------------------------------------------------------------------------
(* What a step may do to the slots.                                        *)

\* Watches stay on their files, or go.
NoNewWatch ==
    \A v \in Slots : watchConfig'[v].is_active =>
        watchConfig[v].is_active /\ watchConfig'[v].filename = watchConfig[v].filename

\* A valid config of the walk takes a free slot.
NewWatch(w) ==
    LET c == ini[walk.k] IN
    /\ w \in Slots \ Active
    /\ walk.k \in Files
    /\ c.state = "parsed"
    /\ IsValid(c)
    /\ SetSlot(w, WatchOf(c))

LEMMA SlotSteps ==
    ASSUME TypeOK, LoadFillsInOrder, [Next]_vars
    PROVE  NoNewWatch \/ \E w \in Slots : NewWatch(w)
<1> DEFINE c == ini[walk.k]
<1>0. WalkTypeOK /\ DataTypeOK
  BY TypeParts
<1>1. ASSUME walk.phase \in {"load", "update"}, walk.k <= FILES
      PROVE  walk.k \in Files /\ c \in Contents
  BY <1>0, <1>1 DEF WalkTypeOK, DataTypeOK, Walks, Files
<1>2. ASSUME UNCHANGED watchConfig PROVE NoNewWatch
  BY <1>2 DEF NoNewWatch
<1>3. ASSUME NEW w \in Slots, NEW watch, SetSlot(w, watch),
             watch.is_active => watchConfig[w].is_active /\ watch.filename = watchConfig[w].filename
      PROVE  NoNewWatch
  <2>1. watchConfig' = [watchConfig EXCEPT ![w] = watch] /\ DOMAIN watchConfig = Slots
    BY <1>0, <1>3 DEF SetSlot, DataTypeOK
  <2>2. ASSUME NEW v \in Slots, watchConfig'[v].is_active
        PROVE  watchConfig[v].is_active /\ watchConfig'[v].filename = watchConfig[v].filename
    BY <1>3, <2>1, <2>2
  <2>3. QED
    BY <2>2 DEF NoNewWatch
<1>4. ~Unused.is_active
  BY DEF Unused
<1>5. CASE LoadFile
  <2>1. CASE /\ c.state = "parsed" /\ walk.count < WATCH_MAX /\ IsValid(c)
             /\ SetSlot(walk.count, WatchOf(c))
    <3>1. walk.count \in Slots /\ walk.count <= walk.count
      BY <1>0, <2>1 DEF WalkTypeOK, Walks, Slots
    <3>2. walk.count \notin Active
      BY <1>5, <3>1 DEF LoadFile, LoadFillsInOrder
    <3>3. QED
      BY <1>1, <1>5, <2>1, <3>1, <3>2 DEF LoadFile, NewWatch
  <2>2. QED
    BY <1>2, <1>5, <2>1 DEF LoadFile
<1>6. CASE NewFile
  <2>1. CASE IsValid(c) /\ \E w \in Slots : IsNextAvailable(w) /\ SetSlot(w, WatchOf(c))
    <3>1. c.state = "parsed"
      BY <1>6 DEF NewFile, Updating
    <3>2. \A w \in Slots : IsNextAvailable(w) => w \in Slots \ Active
      BY DEF IsNextAvailable, IsFirst
    <3>3. QED
      BY <1>1, <1>6, <2>1, <3>1, <3>2 DEF NewFile, Updating, NewWatch
  <2>2. QED
    BY <1>2, <1>6, <2>1 DEF NewFile
<1>7. ASSUME NEW w \in Slots, KnownFile(w) PROVE NoNewWatch
  <2>1. watchConfig[w].is_active /\ watchConfig[w].filename = c.filename
    BY <1>7, MatchFacts DEF KnownFile, Active
  <2>2. CASE SetSlot(w, WatchOf(c))
    BY <1>3, <2>1, <2>2 DEF WatchOf
  <2>3. CASE SetSlot(w, Unused)
    BY <1>3, <1>4, <2>3
  <2>4. QED
    BY <1>7, <2>2, <2>3 DEF KnownFile
<1>8. CASE PurgeStale
  <2>1. \A v \in Slots : watchConfig'[v] = watchConfig[v] \/ watchConfig'[v] = Unused
    BY <1>8 DEF PurgeStale
  <2>2. QED
    BY <1>4, <2>1, SlotFacts DEF NoNewWatch
<1>9. CASE SetupWatch
  <2>1. CASE walk.k \in Active /\ SetSlot(walk.k, Unused)
    BY <1>3, <1>4, <2>1 DEF Active
  <2>2. QED
    BY <1>2, <1>9, <2>1 DEF SetupWatch
<1>10. QED
  BY <1>2, <1>5, <1>6, <1>7, <1>8, <1>9
  DEF Next, vars, Undefined, BeginUpdate, SkipFile, RunningFile, Launch, ProgramEnds,
      StartListening, StartSession, EditFile

LEMMA UniqueNext ==
    TypeOK /\ UniqueBasenames /\ LoadFillsInOrder /\ [Next]_vars => UniqueBasenames'
<1> SUFFICES ASSUME TypeOK, UniqueBasenames, LoadFillsInOrder, [Next]_vars
             PROVE  UniqueBasenames'
  OBVIOUS
<1>1. CASE NoNewWatch
  BY <1>1 DEF NoNewWatch, UniqueBasenames, Active
<1>2. ASSUME NEW w \in Slots, NewWatch(w) PROVE UniqueBasenames'
  <2> DEFINE c == ini[walk.k]
  <2>1. watchConfig' = [watchConfig EXCEPT ![w] = WatchOf(c)] /\ DOMAIN watchConfig = Slots
    BY <1>2 DEF NewWatch, SetSlot, TypeOK
  <2>2. watchConfig'[w].filename = c.filename
    BY <2>1 DEF WatchOf
  <2>3. \A v \in Active' \ {w} : v \in Active /\ watchConfig'[v] = watchConfig[v]
    BY <2>1 DEF Active
  <2>4. \A v \in Active : Basename[watchConfig[v].filename] # Basename[c.filename]
    BY <1>2 DEF NewWatch, IsValid
  <2>5. ASSUME NEW u \in Active', NEW v \in Active',
               Basename[watchConfig'[u].filename] = Basename[watchConfig'[v].filename]
        PROVE  u = v
    <3>1. CASE u # w /\ v # w
      BY <2>3, <2>5, <3>1 DEF UniqueBasenames
    <3>2. CASE u = w /\ v # w
      BY <2>2, <2>3, <2>4, <2>5, <3>2
    <3>3. CASE u # w /\ v = w
      BY <2>2, <2>3, <2>4, <2>5, <3>3
    <3>4. QED
      BY <3>1, <3>2, <3>3
  <2>6. QED
    BY <2>5 DEF UniqueBasenames
<1>3. QED
  BY <1>1, <1>2, SlotSteps

-----------------------------------------------------------------------------
(* An update, from file to file.                                           *)

\* new_watch_list takes one more watch, or overflows.
LEMMA KeepEffect ==
    ASSUME walk \in Walks, NEW w, NEW skipped, NEW notify, Keep(w, skipped, notify)
    PROVE  \/ walk'.phase = "undefined"
           \/ /\ walk'.phase = walk.phase /\ walk'.k = walk.k + 1
              /\ walk'.kept = walk.kept \cup {w}
              /\ walk'.skipped = walk.skipped \cup skipped
              /\ walk'.notify = (walk.notify \/ notify)
<1>1. CASE walk' = [walk EXCEPT !.phase = "undefined"]
  BY <1>1 DEF Walks
<1>2. CASE walk' = [walk EXCEPT !.k = @ + 1, !.count = @ + 1, !.kept = @ \cup {w},
                                !.skipped = @ \cup skipped, !.notify = @ \/ notify]
  BY <1>2 DEF Walks
<1>3. QED
  BY <1>1, <1>2 DEF Keep

\* Only a load leads to a load.
LEMMA LoadSteps ==
    ASSUME TypeOK, [Next]_vars, walk'.phase = "load"
    PROVE  /\ walk.phase = "load"
           /\ \/ LoadFile
              \/ \E v \in Slots : ProgramEnds(v)
              \/ UNCHANGED vars
<1>0. walk \in Walks
  BY TypeParts DEF WalkTypeOK
<1>1. CASE BeginUpdate \/ StartListening \/ StartSession
  BY <1>1, WalkStarts DEF BeginUpdate, StartListening, StartSession, Walk
<1>2. CASE NewFile \/ SkipFile \/ \E w \in Slots : RunningFile(w) \/ KnownFile(w)
  <2>1. walk.phase = "update"
    BY <1>2 DEF NewFile, SkipFile, RunningFile, KnownFile, Updating
  <2>2. CASE walk'.phase = walk.phase \/ walk'.phase = "undefined"
    BY <2>1, <2>2
  <2>3. CASE walk' = [walk EXCEPT !.k = @ + 1] \/ walk' = [walk EXCEPT !.k = @ + 1, !.notify = TRUE]
    BY <1>0, <2>1, <2>3 DEF Walks
  <2>4. QED
    BY <1>0, <1>2, <2>2, <2>3, KeepEffect DEF NewFile, SkipFile, RunningFile, KnownFile
<1>3. CASE PurgeStale
  BY <1>0, <1>3 DEF PurgeStale, Walks
<1>4. CASE SetupWatch
  BY <1>0, <1>4 DEF SetupWatch, Walks
<1>5. QED
  BY <1>1, <1>2, <1>3, <1>4 DEF Next, vars, Undefined, LoadFile, Launch, ProgramEnds, EditFile

LEMMA LoadNext == TypeOK /\ LoadFillsInOrder /\ [Next]_vars => LoadFillsInOrder'
<1> SUFFICES ASSUME TypeOK, LoadFillsInOrder, [Next]_vars, walk'.phase = "load",
                    NEW w \in Slots
             PROVE  programs'[w] = NoFile /\ (walk'.count <= w => w \notin Active')
  BY DEF LoadFillsInOrder
<1>0. walk \in Walks /\ walk.phase \in Phases /\ walk.count \in Nat
  BY TypeParts DEF WalkTypeOK, Walks
<1>1. CASE LoadFile
  <2>1. programs'[w] = NoFile /\ (walk.count <= w => w \notin Active)
    BY <1>1 DEF LoadFile, LoadFillsInOrder
  <2>2. CASE SetSlot(walk.count, WatchOf(ini[walk.k])) /\ walk' = [walk EXCEPT !.k = @ + 1, !.count = @ + 1]
    <3>1. walk'.count = walk.count + 1
      BY <1>0, <2>2 DEF Walks
    <3>2. ASSUME walk'.count <= w PROVE w # walk.count /\ walk.count <= w
      BY <1>0, <3>1, <3>2 DEF Slots
    <3>3. w # walk.count => watchConfig'[w] = watchConfig[w]
      BY <2>2 DEF SetSlot, TypeOK
    <3>4. QED
      BY <2>1, <3>2, <3>3 DEF Active
  <2>3. CASE walk' = [walk EXCEPT !.k = @ + 1] /\ UNCHANGED watchConfig
    BY <1>0, <2>1, <2>3 DEF Walks, Active
  <2>4. QED
    BY <1>1, <2>2, <2>3 DEF LoadFile
<1>2. CASE UNCHANGED vars
  BY <1>2 DEF LoadFillsInOrder, vars, Active
<1>3. ASSUME NEW v \in Slots, ProgramEnds(v) PROVE FALSE
  BY <1>3, LoadSteps DEF ProgramEnds, IsSpawned, LoadFillsInOrder
<1>4. QED
  BY <1>1, <1>2, <1>3, LoadSteps

\* Walking one more file.
LEMMA WalkedGrows ==
    ASSUME NEW k \in Files, NEW dir, NEW path
    PROVE  Walked(path, k + 1, dir) =
             IF dir[k].state = "parsed" /\ dir[k].filename = path
             THEN Walked(path, k, dir) \cup {k} ELSE Walked(path, k, dir)
<1>1. \A f \in Files : f < k + 1 <=> f < k \/ f = k
  BY DEF Files
<1>2. ~(k < k)
  BY DEF Files
<1>3. QED
  BY <1>1, <1>2 DEF Walked

\* A watch no config in this file is about is as right as before.
LEMMA OtherWatch ==
    ASSUME NEW v \in Slots, KeptIfWalked(v), LastWalkedWins(v),
           walk.k \in Files, walk'.k = walk.k + 1, ini' = ini,
           watchConfig'[v] = watchConfig[v],
           ini[walk.k].state = "parsed" => watchConfig[v].filename # ini[walk.k].filename,
           v \in walk'.kept <=> v \in walk.kept,
           v \in walk'.skipped <=> v \in walk.skipped
    PROVE  KeptIfWalked(v)' /\ LastWalkedWins(v)'
<1>1. Walked(watchConfig[v].filename, walk.k + 1, ini) = Walked(watchConfig[v].filename, walk.k, ini)
  BY WalkedGrows
<1>2. WalkedFor(v)' = WalkedFor(v)
  BY <1>1 DEF WalkedFor
<1>3. QED
  BY <1>2 DEF KeptIfWalked, LastWalkedWins

\* A watch that was just merged with the config in this file, or created from it.
LEMMA MergedWatch ==
    ASSUME NEW w \in Slots, walk.k \in Files, walk'.k = walk.k + 1, ini' = ini,
           ini[walk.k].state = "parsed", ini[walk.k].sane,
           watchConfig'[w] = WatchOf(ini[walk.k]),
           w \in walk'.kept
    PROVE  KeptIfWalked(w)' /\ LastWalkedWins(w)'
<1>1. watchConfig'[w].filename = ini[walk.k].filename
  BY DEF WatchOf
<1>2. walk.k \in WalkedFor(w)'
  BY <1>1 DEF WalkedFor, Walked, Files
<1>3. \A g \in WalkedFor(w)' : g <= walk.k
  BY DEF WalkedFor, Walked, Files
<1>4. QED
  BY <1>2, <1>3 DEF KeptIfWalked, LastWalkedWins

\* A running watch whose config is in this file.
LEMMA SkippedWatch ==
    ASSUME NEW w \in Slots, walk.k \in Files, walk'.k = walk.k + 1, ini' = ini,
           ini[walk.k].state = "parsed", ini[walk.k].filename = watchConfig[w].filename,
           watchConfig'[w] = watchConfig[w],
           w \in walk'.kept, w \in walk'.skipped
    PROVE  KeptIfWalked(w)' /\ LastWalkedWins(w)'
<1>1. watchConfig'[w].filename = ini[walk.k].filename
  OBVIOUS
<1>2. walk.k \in WalkedFor(w)'
  BY <1>1 DEF WalkedFor, Walked, Files
<1>3. QED
  BY <1>2 DEF KeptIfWalked, LastWalkedWins

LEMMA UpdateNext ==
    TypeOK /\ UniqueBasenames /\ UpdateInv /\ [Next]_vars => UpdateInv'
<1> SUFFICES ASSUME TypeOK, UniqueBasenames, UpdateInv, [Next]_vars, walk'.phase = "update"
             PROVE  /\ \A v \in Active' : KeptIfWalked(v)' /\ LastWalkedWins(v)'
                    /\ watchConfig' # known' => walk'.notify
  BY DEF UpdateInv
<1> DEFINE c == ini[walk.k]
<1>0. /\ walk \in Walks /\ walk.k \in Nat /\ walk.notify \in BOOLEAN
      /\ watchConfig \in [Slots -> Watches \cup {Unused}]
      /\ ini \in [Files -> Contents]
  BY TypeParts DEF WalkTypeOK, DataTypeOK, Walks
<1>1. \A v \in Active' : v \in Slots
  BY DEF Active
<1>2. ASSUME walk.phase = "update", walk.k <= FILES
      PROVE  walk.k \in Files /\ c \in Contents
  BY <1>0, <1>2, TypeParts DEF WalkTypeOK, Files
<1>3. CASE BeginUpdate
  <2>1. walk'.k = 1 /\ walk'.kept = {} /\ watchConfig' = known'
    BY <1>3, WalkStarts DEF BeginUpdate, Phases
  <2>2. \A v \in Slots : WalkedFor(v)' = {}
    BY <2>1 DEF WalkedFor, Walked, Files
  <2>3. QED
    BY <1>1, <2>1, <2>2 DEF KeptIfWalked, LastWalkedWins
<1>4. CASE UNCHANGED <<ini, watchConfig, walk, known>>
  BY <1>4 DEF UpdateInv, Active, KeptIfWalked, LastWalkedWins, WalkedFor
\* One more file, that is about none of the watches.
<1>5. ASSUME walk.phase = "update", walk.k <= FILES,
             walk' = [walk EXCEPT !.k = @ + 1], UNCHANGED <<ini, watchConfig, known>>,
             c.state = "parsed" => \A v \in Active : watchConfig[v].filename # c.filename
      PROVE  UpdateInv'
  <2>1. /\ walk'.k = walk.k + 1 /\ walk'.kept = walk.kept /\ walk'.skipped = walk.skipped
        /\ walk'.notify = walk.notify
    BY <1>0, <1>5 DEF Walks
  <2>2. \A v \in Active' : KeptIfWalked(v)' /\ LastWalkedWins(v)'
    BY <1>2, <1>5, <2>1, OtherWatch DEF UpdateInv, Active
  <2>3. QED
    BY <1>5, <2>1, <2>2 DEF UpdateInv
\* A file that is about the watch in slot w, which is kept, or dropped.
<1>6. ASSUME NEW w \in Slots, walk.phase = "update", walk.k <= FILES, c.state = "parsed",
             w \in Active => watchConfig[w].filename = c.filename,
             w \notin Active => \A v \in Active : watchConfig[v].filename # c.filename,
             walk'.k = walk.k + 1, ini' = ini,
             \A v \in Slots \ {w} : /\ watchConfig'[v] = watchConfig[v]
                                    /\ v \in walk'.kept <=> v \in walk.kept
                                    /\ v \in walk'.skipped <=> v \in walk.skipped,
             w \in Active' => KeptIfWalked(w)' /\ LastWalkedWins(w)'
      PROVE  \A v \in Active' : KeptIfWalked(v)' /\ LastWalkedWins(v)'
  <2>1. ASSUME NEW v \in Active', v # w PROVE KeptIfWalked(v)' /\ LastWalkedWins(v)'
    <3>1. v \in Active /\ v \in Slots /\ watchConfig'[v] = watchConfig[v]
      BY <1>6, <2>1 DEF Active
    <3>2. watchConfig[v].filename # c.filename
      BY <1>6, <2>1, <3>1, WatcherMatches
    <3>3. QED
      BY <1>2, <1>6, <2>1, <3>1, <3>2, OtherWatch DEF UpdateInv
  <2>2. QED
    BY <1>6, <2>1
<1>7. CASE SkipFile
  BY <1>5, <1>7 DEF SkipFile, Updating, UpdateInv
<1>8. CASE NewFile
  <2>0. walk.phase = "update" /\ walk.k <= FILES /\ c.state = "parsed"
        /\ ini' = ini /\ known' = known
    BY <1>8 DEF NewFile, Updating
  <2>1. \A v \in Active : watchConfig[v].filename # c.filename
    BY <1>8, WatcherMatches DEF NewFile, Active
  <2>2. ASSUME NEW w \in Slots, IsValid(c), IsNextAvailable(w), SetSlot(w, WatchOf(c)),
               Keep(w, {}, TRUE)
        PROVE  UpdateInv'
    <3>1. /\ walk'.k = walk.k + 1 /\ walk'.kept = walk.kept \cup {w}
          /\ walk'.skipped = walk.skipped \cup {} /\ walk'.notify
      BY <1>0, <2>2, KeepEffect
    <3>2. watchConfig' = [watchConfig EXCEPT ![w] = WatchOf(c)]
      BY <2>2 DEF SetSlot
    <3>3. watchConfig'[w] = WatchOf(c) /\ \A v \in Slots \ {w} : watchConfig'[v] = watchConfig[v]
      BY <1>0, <3>2
    <3>4. c.sane /\ w \notin Active
      BY <2>2 DEF IsValid, IsNextAvailable, IsFirst
    <3>5. KeptIfWalked(w)' /\ LastWalkedWins(w)'
      BY <1>2, <2>0, <3>1, <3>3, <3>4, MergedWatch
    <3>6. \A v \in Active' : KeptIfWalked(v)' /\ LastWalkedWins(v)'
      BY <1>6, <2>0, <2>1, <3>1, <3>3, <3>4, <3>5
    <3>7. QED
      BY <3>1, <3>6 DEF UpdateInv
  <2>3. CASE walk' = [walk EXCEPT !.k = @ + 1] /\ UNCHANGED watchConfig
    BY <1>5, <2>0, <2>1, <2>3 DEF UpdateInv
  <2>4. QED
    BY <1>8, <2>2, <2>3 DEF NewFile, UpdateInv
<1>9. ASSUME NEW w \in Slots, RunningFile(w) PROVE UpdateInv'
  <2>1. /\ walk.phase = "update" /\ walk.k <= FILES /\ c.state = "parsed"
        /\ ini' = ini /\ known' = known /\ watchConfig' = watchConfig
        /\ w \in Active /\ watchConfig[w].filename = c.filename
    BY <1>9, MatchFacts DEF RunningFile, Updating
  <2>2. /\ walk'.k = walk.k + 1 /\ walk'.kept = walk.kept \cup {w}
        /\ walk'.skipped = walk.skipped \cup {w} /\ walk'.notify = (walk.notify \/ FALSE)
    BY <1>0, <1>9, KeepEffect DEF RunningFile
  <2>3. KeptIfWalked(w)' /\ LastWalkedWins(w)'
    BY <1>2, <2>1, <2>2, SkippedWatch
  <2>4. \A v \in Active' : KeptIfWalked(v)' /\ LastWalkedWins(v)'
    BY <1>6, <2>1, <2>2, <2>3
  <2>5. QED
    BY <2>1, <2>2, <2>4 DEF UpdateInv
<1>10. ASSUME NEW w \in Slots, KnownFile(w) PROVE UpdateInv'
  <2>1. /\ walk.phase = "update" /\ walk.k <= FILES /\ c.state = "parsed"
        /\ ini' = ini /\ known' = known
        /\ w \in Active /\ watchConfig[w].filename = c.filename
    BY <1>10, MatchFacts DEF KnownFile, Updating
  <2>2. CASE c.sane /\ SetSlot(w, WatchOf(c)) /\ Keep(w, {}, WatchOf(c) # watchConfig[w])
    <3>1. /\ walk'.k = walk.k + 1 /\ walk'.kept = walk.kept \cup {w}
          /\ walk'.skipped = walk.skipped \cup {}
          /\ walk'.notify = (walk.notify \/ WatchOf(c) # watchConfig[w])
      BY <1>0, <2>2, KeepEffect
    <3>2. watchConfig' = [watchConfig EXCEPT ![w] = WatchOf(c)]
      BY <2>2 DEF SetSlot
    <3>3. watchConfig'[w] = WatchOf(c) /\ \A v \in Slots \ {w} : watchConfig'[v] = watchConfig[v]
      BY <1>0, <3>2
    <3>4. KeptIfWalked(w)' /\ LastWalkedWins(w)'
      BY <1>2, <2>1, <2>2, <3>1, <3>3, MergedWatch
    <3>5. \A v \in Active' : KeptIfWalked(v)' /\ LastWalkedWins(v)'
      BY <1>6, <2>1, <3>1, <3>3, <3>4
    <3>6. CASE WatchOf(c) = watchConfig[w]
      <4>1. watchConfig' = watchConfig
        BY <1>0, <3>2, <3>6
      <4>2. QED
        BY <2>1, <3>1, <3>5, <4>1 DEF UpdateInv
    <3>7. CASE WatchOf(c) # watchConfig[w]
      BY <3>1, <3>5, <3>7 DEF UpdateInv
    <3>8. QED
      BY <3>6, <3>7
  <2>3. CASE SetSlot(w, Unused) /\ walk' = [walk EXCEPT !.k = @ + 1, !.notify = TRUE]
    <3>1. /\ walk'.k = walk.k + 1 /\ walk'.kept = walk.kept /\ walk'.skipped = walk.skipped
          /\ walk'.notify
      BY <1>0, <2>3 DEF Walks
    <3>2. watchConfig'[w] = Unused /\ \A v \in Slots \ {w} : watchConfig'[v] = watchConfig[v]
      BY <1>0, <2>3 DEF SetSlot
    <3>3. w \notin Active'
      BY <3>2 DEF Active, Unused
    <3>4. \A v \in Active' : KeptIfWalked(v)' /\ LastWalkedWins(v)'
      BY <1>6, <2>1, <3>1, <3>2, <3>3
    <3>5. QED
      BY <3>1, <3>4 DEF UpdateInv
  <2>4. QED
    BY <1>10, <2>2, <2>3 DEF KnownFile
<1>11. ASSUME LoadFile \/ PurgeStale \/ SetupWatch \/ StartListening \/ StartSession
       PROVE  FALSE
  <2>1. CASE LoadFile
    BY <1>0, <2>1 DEF LoadFile, Walks
  <2>2. CASE PurgeStale
    BY <1>0, <2>2 DEF PurgeStale, Walks
  <2>3. CASE SetupWatch
    BY <1>0, <2>3 DEF SetupWatch, Walks
  <2>4. CASE StartListening \/ StartSession
    BY <2>4 DEF StartListening, StartSession, Walk
  <2>5. QED
    BY <1>11, <2>1, <2>2, <2>3, <2>4
<1>12. ASSUME \/ \E w \in Slots : Launch(w)
              \/ \E f \in Files, content \in Contents : EditFile(f, content)
       PROVE  FALSE
  BY <1>12 DEF Launch, EditFile
<1>13. QED
  BY <1>3, <1>4, <1>7, <1>8, <1>9, <1>10, <1>11, <1>12
  DEF Next, vars, Undefined, ProgramEnds, UpdateInv

-----------------------------------------------------------------------------
(* The end of an update.                                                   *)

DoneInv == NoStaleWatch /\ WatchesUpToDate /\ ChangesAnnounced

\* Once every file is walked, what was walked is the whole directory.
LEMMA WalkedAll ==
    ASSUME walk.k \in Nat, walk.k > FILES, NEW w \in Slots
    PROVE  WalkedFor(w) = {f \in Files : ini[f].state = "parsed" /\ ini[f].filename = watchConfig[w].filename}
  BY DEF WalkedFor, Walked, Files

\* Only the removal of the stale watches ends an update.
LEMMA DoneSteps ==
    ASSUME TypeOK, [Next]_vars, UpdateDone'
    PROVE  \/ PurgeStale
           \/ UpdateDone /\ UNCHANGED <<ini, watchConfig, walk, known>>
<1>0. walk \in Walks /\ walk.k \in Nat
  BY TypeParts DEF WalkTypeOK, Walks
<1>1. CASE LoadFile
  BY <1>0, <1>1 DEF LoadFile, UpdateDone, Walks
<1>2. CASE BeginUpdate \/ StartListening \/ StartSession
  BY <1>2, WalkStarts DEF BeginUpdate, StartListening, StartSession, Walk, UpdateDone
<1>3. CASE NewFile \/ SkipFile \/ \E w \in Slots : RunningFile(w) \/ KnownFile(w)
  <2>1. walk.phase = "update"
    BY <1>3 DEF NewFile, SkipFile, RunningFile, KnownFile, Updating
  <2>2. CASE walk'.phase = walk.phase \/ walk'.phase = "undefined"
    BY <2>1, <2>2 DEF UpdateDone
  <2>3. CASE walk' = [walk EXCEPT !.k = @ + 1] \/ walk' = [walk EXCEPT !.k = @ + 1, !.notify = TRUE]
    BY <1>0, <2>1, <2>3 DEF Walks, UpdateDone
  <2>4. QED
    BY <1>0, <1>3, <2>2, <2>3, KeepEffect DEF NewFile, SkipFile, RunningFile, KnownFile
<1>4. CASE SetupWatch
  <2>1. walk'.k = walk.k + 1
    BY <1>0, <1>4 DEF SetupWatch, Walks
  <2>2. QED
    BY <1>0, <2>1 DEF UpdateDone
<1>5. QED
  BY <1>1, <1>2, <1>3, <1>4 DEF Next, vars, Undefined, Launch, ProgramEnds, EditFile, UpdateDone

LEMMA DoneNext ==
    TypeOK /\ UpdateInv /\ DoneInv /\ [Next]_vars => DoneInv'
<1> SUFFICES ASSUME TypeOK, UpdateInv, DoneInv, [Next]_vars, UpdateDone' PROVE DoneInv'
  BY DEF DoneInv, NoStaleWatch, WatchesUpToDate, ChangesAnnounced
<1>0. /\ walk \in Walks /\ walk.k \in Nat
      /\ watchConfig \in [Slots -> Watches \cup {Unused}]
  BY TypeParts DEF WalkTypeOK, DataTypeOK, Walks
<1>1. CASE UpdateDone /\ UNCHANGED <<ini, watchConfig, walk, known>>
  BY <1>1 DEF DoneInv, NoStaleWatch, WatchesUpToDate, ChangesAnnounced, UpdateDone, Active, HasConfig
<1>2. CASE PurgeStale
  <2> DEFINE stale == Active \ walk.kept
  <2>1. /\ walk.phase = "update" /\ walk.k > FILES /\ ini' = ini /\ known' = known
        /\ watchConfig' = [w \in Slots |-> IF w \in stale THEN Unused ELSE watchConfig[w]]
    BY <1>2 DEF PurgeStale
  <2>2. walk'.skipped = walk.skipped /\ walk'.notify = (walk.notify \/ stale # {})
    BY <1>0, <1>2 DEF PurgeStale, Walks
  <2>3. ASSUME NEW w \in Active'
        PROVE  w \in Active /\ w \in Slots /\ w \in walk.kept /\ watchConfig'[w] = watchConfig[w]
    BY <2>1, <2>3 DEF Active, Unused
  <2>4. ASSUME NEW w \in Active' PROVE HasConfig(watchConfig'[w].filename, ini')
    BY <1>0, <2>1, <2>3, <2>4, WalkedAll DEF UpdateInv, KeptIfWalked, HasConfig
  <2>5. ASSUME NEW w \in Active' \ walk'.skipped
        PROVE  \E f \in Files :
                  /\ ini'[f].sane /\ WatchOf(ini'[f]) = watchConfig'[w]
                  /\ \A g \in Files : g > f /\ ini'[g].state = "parsed" =>
                        ini'[g].filename # watchConfig'[w].filename
    <3>1. /\ w \in Active /\ w \in Slots /\ w \in walk.kept \ walk.skipped
          /\ watchConfig'[w] = watchConfig[w]
      BY <2>2, <2>3, <2>5
    <3>2. PICK f \in WalkedFor(w) : /\ ini[f].sane /\ WatchOf(ini[f]) = watchConfig[w]
                                   /\ \A g \in WalkedFor(w) : g <= f
      BY <2>1, <3>1 DEF UpdateInv, LastWalkedWins
    <3>3. f \in Files
      BY DEF WalkedFor, Walked
    <3>4. ASSUME NEW g \in Files, g > f, ini[g].state = "parsed"
          PROVE  ini[g].filename # watchConfig[w].filename
      BY <1>0, <2>1, <3>1, <3>2, <3>3, <3>4, WalkedAll DEF Files
    <3>5. QED
      BY <2>1, <3>1, <3>2, <3>3, <3>4
  <2>6. ASSUME watchConfig' # known' PROVE walk'.notify
    <3>1. CASE stale # {}
      BY <2>2, <3>1
    <3>2. CASE stale = {}
      <4>1. watchConfig' = watchConfig
        BY <1>0, <2>1, <3>2
      <4>2. QED
        BY <2>1, <2>2, <2>6, <4>1 DEF UpdateInv
    <3>3. QED
      BY <3>1, <3>2
  <2>7. QED
    BY <2>4, <2>5, <2>6 DEF DoneInv, NoStaleWatch, WatchesUpToDate, ChangesAnnounced
<1>3. QED
  BY <1>1, <1>2, DoneSteps

-----------------------------------------------------------------------------
(* The inductive invariant, and the properties.                            *)

LEMMA Invariance == Spec => []IInv
<1> USE DEF IInv
<1>1. Init => IInv
  <2> SUFFICES ASSUME Init PROVE IInv
    OBVIOUS
  <2>1. walk.phase = "load" /\ Active = {}
    BY WalkStarts DEF Init, Phases, Active, Unused
  <2>2. QED
    BY <2>1, TypeInit DEF Init, UniqueBasenames, LoadFillsInOrder, UpdateInv, UpdateDone,
       NoStaleWatch, WatchesUpToDate, ChangesAnnounced
<1>2. IInv /\ [Next]_vars => IInv'
  BY TypeNext, UniqueNext, LoadNext, UpdateNext, DoneNext DEF DoneInv
<1>3. QED
  BY <1>1, <1>2, PTL DEF Spec

\* Slots hold a whole watch or are blank, and the counters of a load or an update
\* stay within the arrays they index, save for the store an overflow makes
\* undefined.
THEOREM TypeCorrect == Spec => []TypeOK
  BY Invariance, PTL DEF IInv

\* At no point of a load or an update do two active watches share a basename.
THEOREM BasenamesAreUnique == Spec => []UniqueBasenames
  BY Invariance, PTL DEF IInv

\* After an update, no watch is left whose config is gone or broken.
THEOREM StaleWatchesGo == Spec => []NoStaleWatch
  BY Invariance, PTL DEF IInv

\* After an update, every watch whose program was not running has the settings of the
\* last config walked that names its file.
THEOREM WatchesFollowConfigs == Spec => []WatchesUpToDate
  BY Invariance, PTL DEF IInv

\* An update that changed any slot touches the IPC socket.
THEOREM ChangesAreAnnounced == Spec => []ChangesAnnounced
  BY Invariance, PTL DEF IInv

-----------------------------------------------------------------------------
(* Action properties.                                                      *)

\* A slot that changes is taken while it is free, merged or released while nothing
\* runs from it, or released as stale.
LEMMA ChangedSlots ==
    ASSUME TypeOK, LoadFillsInOrder, [Next]_vars, NEW w \in Slots, watchConfig'[w] # watchConfig[w]
    PROVE  \/ ~watchConfig[w].is_active /\ watchConfig'[w].is_active
           \/ watchConfig[w].is_active /\ ~IsSpawned(w)
           \/ PurgeStale /\ w \in Active \ walk.kept /\ watchConfig'[w] = Unused
<1> DEFINE c == ini[walk.k]
<1>1. DOMAIN watchConfig = Slots
  BY DEF TypeOK
<1>2. ASSUME NEW v, NEW watch, SetSlot(v, watch) PROVE w = v /\ watchConfig'[w] = watch
  BY <1>1, <1>2 DEF SetSlot
<1>3. WatchOf(c).is_active
  BY DEF WatchOf
<1>4. CASE LoadFile
  <2>1. walk.count \in Nat
    BY TypeParts DEF WalkTypeOK, Walks
  <2>2. SetSlot(walk.count, WatchOf(c)) /\ walk.phase = "load"
    BY <1>4 DEF LoadFile
  <2>3. w = walk.count /\ watchConfig'[w].is_active
    BY <1>2, <1>3, <2>2
  <2>4. w \notin Active
    BY <2>1, <2>2, <2>3 DEF LoadFillsInOrder
  <2>5. QED
    BY <2>3, <2>4, SlotFacts DEF Active
<1>5. CASE NewFile
  <2>1. PICK v \in Slots : IsNextAvailable(v) /\ SetSlot(v, WatchOf(c))
    BY <1>5 DEF NewFile
  <2>2. QED
    BY <1>2, <1>3, <2>1, SlotFacts DEF IsNextAvailable, IsFirst, Active
<1>6. ASSUME NEW v \in Slots, KnownFile(v) PROVE watchConfig[w].is_active /\ ~IsSpawned(w)
  <2>1. SetSlot(v, WatchOf(c)) \/ SetSlot(v, Unused)
    BY <1>6 DEF KnownFile
  <2>2. w = v
    BY <1>2, <2>1
  <2>3. QED
    BY <1>6, <2>2, MatchFacts DEF KnownFile, Active
<1>7. CASE PurgeStale
  BY <1>7 DEF PurgeStale
<1>8. CASE SetupWatch
  <2>1. SetSlot(walk.k, Unused) /\ walk.k \in Active /\ ~IsSpawned(walk.k)
    BY <1>8 DEF SetupWatch
  <2>2. QED
    BY <1>2, <2>1 DEF Active
<1>9. QED
  BY <1>4, <1>5, <1>6, <1>7, <1>8
  DEF Next, vars, Undefined, BeginUpdate, SkipFile, RunningFile, Launch, ProgramEnds,
      StartListening, StartSession, EditFile

\* Between two launches, a slot is taken while it is free, keeps a running watch as
\* it is, or is released, as ProcessTable has it.
THEOREM SlotsChangeAsInProcessTable == Spec => SlotStepsAsInProcessTable
<1>1. ASSUME IInv, [Next]_vars, NEW w \in Slots, watchConfig'[w] # watchConfig[w]
      PROVE  \/ ~watchConfig[w].is_active /\ watchConfig'[w].is_active
             \/ watchConfig[w].is_active /\ (IsSpawned(w) => ~watchConfig'[w].is_active)
  BY <1>1, ChangedSlots DEF IInv, Active, Unused
<1>2. IInv /\ [Next]_vars =>
        \A w \in Slots : watchConfig'[w] # watchConfig[w] =>
           \/ ~watchConfig[w].is_active /\ watchConfig'[w].is_active
           \/ watchConfig[w].is_active /\ (IsSpawned(w) => ~watchConfig'[w].is_active)
  BY <1>1
<1>3. QED
  BY <1>2, Invariance, PTL DEF Spec, SlotStepsAsInProcessTable

\* The slot of a running program is left alone as long as its config is there: a
\* program that ends in the middle of an update, or a slot reused in that update,
\* cannot make the watch look stale.
THEOREM RunningWatchesAreKept == Spec => RunningWatchKept
<1>1. ASSUME IInv, [Next]_vars, NEW w \in Slots, IsSpawned(w),
             HasConfig(watchConfig[w].filename, ini), watchConfig'[w] # watchConfig[w]
      PROVE  FALSE
  <2>1. PICK f \in Files : ini[f].state = "parsed" /\ ini[f].filename = watchConfig[w].filename
    BY <1>1 DEF HasConfig
  <2>2. CASE ~watchConfig[w].is_active
    <3>1. watchConfig[w].filename = NoFile
      BY <1>1, <2>2, SlotFacts DEF IInv
    <3>2. ini[f].filename \in Paths
      BY <1>1, <2>1, ContentsFacts DEF IInv, TypeOK
    <3>3. QED
      BY <2>1, <3>1, <3>2
  <2>3. CASE PurgeStale /\ w \in Active \ walk.kept
    <3>1. walk.phase = "update" /\ walk.k > FILES /\ walk.k \in Nat
      BY <1>1, <2>3, TypeParts DEF PurgeStale, IInv, WalkTypeOK, Walks
    <3>2. f \in WalkedFor(w)
      BY <2>1, <3>1, WalkedAll
    <3>3. QED
      BY <1>1, <2>3, <3>1, <3>2 DEF IInv, UpdateInv, KeptIfWalked
  <2>4. QED
    BY <1>1, <2>2, <2>3, ChangedSlots DEF IInv
<1>2. IInv /\ [Next]_vars =>
        \A w \in Slots : IsSpawned(w) /\ HasConfig(watchConfig[w].filename, ini)
          => watchConfig'[w] = watchConfig[w]
  BY <1>1
<1>3. QED
  BY <1>2, Invariance, PTL DEF Spec, RunningWatchKept

-----------------------------------------------------------------------------
(* When the list of kept watches fits.                                     *)

\* No two configs name the same file.
DistinctFilenames ==
    \A f, g \in Files :
        ini[f].state = "parsed" /\ ini[g].state = "parsed" /\ ini[f].filename = ini[g].filename
        => f = g

\* Then a kept watch is never dropped in the same update, nor counted twice.
ListInv ==
    /\ NewWatchListFits
    /\ walk.phase = "update" => walk.kept \subseteq Active /\ walk.count = Cardinality(walk.kept)

\* There is room for one more watch as long as one slot is not in the list.
LEMMA RoomForOneMore ==
    ASSUME NEW S \in SUBSET Slots, NEW w \in Slots \ S
    PROVE  /\ Cardinality(S) < WATCH_MAX
           /\ Cardinality(S \cup {w}) = Cardinality(S) + 1
<1>1. IsFiniteSet(Slots) /\ Cardinality(Slots) = WATCH_MAX
  BY FS_Interval DEF Slots
<1>2. IsFiniteSet(S) /\ Cardinality(S) \in Nat
  BY <1>1, FS_Subset, FS_CardinalityType
<1>3. Cardinality(S \cup {w}) = Cardinality(S) + 1
  BY <1>2, FS_AddElement
<1>4. Cardinality(S \cup {w}) <= Cardinality(Slots)
  BY <1>1, FS_Subset
<1>5. QED
  BY <1>1, <1>2, <1>3, <1>4

LEMMA ListNext == IInv /\ DistinctFilenames /\ ListInv /\ [Next]_vars => ListInv'
<1> SUFFICES ASSUME IInv, DistinctFilenames, ListInv, [Next]_vars PROVE ListInv'
  OBVIOUS
<1> DEFINE c == ini[walk.k]
<1>0. /\ walk \in Walks /\ walk.k \in Nat /\ walk.count \in Nat /\ walk.kept \in SUBSET Slots
      /\ watchConfig \in [Slots -> Watches \cup {Unused}]
      /\ walk.phase = "update" /\ walk.k <= FILES => walk.k \in Files
  BY TypeParts DEF IInv, WalkTypeOK, DataTypeOK, Walks, Files
\* No file walked so far names the file of this config.
<1>1. ASSUME walk.phase = "update", walk.k <= FILES, c.state = "parsed",
             NEW w \in Active, watchConfig[w].filename = c.filename
      PROVE  w \in Slots /\ w \notin walk.kept
  <2>1. WalkedFor(w) = {}
    BY <1>0, <1>1 DEF WalkedFor, Walked, DistinctFilenames, Files
  <2>2. QED
    BY <1>1, <2>1 DEF IInv, UpdateInv, KeptIfWalked, Active
<1>2. ASSUME NEW w \in Slots, w \notin walk.kept, walk.phase = "update", NEW skipped, NEW notify,
             Keep(w, skipped, notify), walk.kept \cup {w} \subseteq Active'
      PROVE  ListInv'
  <2>1. walk.count = Cardinality(walk.kept) /\ walk.count < WATCH_MAX
    BY <1>0, <1>2, RoomForOneMore DEF ListInv
  <2>2. walk' = [walk EXCEPT !.k = @ + 1, !.count = @ + 1, !.kept = @ \cup {w},
                             !.skipped = @ \cup skipped, !.notify = @ \/ notify]
    BY <1>2, <2>1 DEF Keep
  <2>3. walk'.phase = "update" /\ walk'.count = walk.count + 1 /\ walk'.kept = walk.kept \cup {w}
    BY <1>0, <1>2, <2>2 DEF Walks
  <2>4. QED
    BY <1>0, <1>2, <2>1, <2>3, RoomForOneMore DEF ListInv, NewWatchListFits
<1>3. ASSUME walk.phase = "update", walk'.phase = "update", walk'.count = walk.count,
             walk'.kept = walk.kept, walk.kept \subseteq Active'
      PROVE  ListInv'
  BY <1>3 DEF ListInv, NewWatchListFits
<1>4. ASSUME walk'.phase \notin {"update", "undefined"} PROVE ListInv'
  BY <1>4 DEF ListInv, NewWatchListFits
<1>5. CASE LoadFile
  BY <1>0, <1>4, <1>5 DEF LoadFile, Walks
<1>6. CASE BeginUpdate
  <2>1. walk'.phase = "update" /\ walk'.kept = {} /\ walk'.count = 0
    BY <1>6, WalkStarts DEF BeginUpdate, Phases
  <2>2. QED
    BY <2>1, FS_EmptySet DEF ListInv, NewWatchListFits
<1>7. CASE SkipFile
  <2>1. /\ walk'.phase = "update" /\ walk'.count = walk.count /\ walk'.kept = walk.kept
        /\ walk.phase = "update" /\ Active' = Active
    BY <1>0, <1>7 DEF SkipFile, Updating, Walks, Active
  <2>2. QED
    BY <1>3, <2>1 DEF ListInv
<1>8. CASE NewFile
  <2>0. walk.phase = "update" /\ walk.kept \subseteq Active
    BY <1>8 DEF NewFile, Updating, ListInv
  <2>1. ASSUME NEW w \in Slots, IsNextAvailable(w), SetSlot(w, WatchOf(c)), Keep(w, {}, TRUE)
        PROVE  ListInv'
    <3>1. w \notin Active
      BY <2>1 DEF IsNextAvailable, IsFirst
    <3>2. \A v \in Active \cup {w} : v \in Active'
      BY <1>0, <2>1 DEF SetSlot, WatchOf, Active
    <3>3. QED
      BY <1>2, <2>0, <2>1, <3>1, <3>2
  <2>2. CASE walk' = [walk EXCEPT !.k = @ + 1] /\ UNCHANGED watchConfig
    BY <1>0, <1>3, <2>0, <2>2 DEF Walks, Active
  <2>3. QED
    BY <1>8, <2>1, <2>2 DEF NewFile
<1>9. ASSUME NEW w \in Slots, RunningFile(w) PROVE ListInv'
  <2>1. w \in Active /\ Active' = Active /\ walk.phase = "update" /\ walk.kept \subseteq Active
    BY <1>9, MatchFacts DEF RunningFile, Updating, Active, ListInv
  <2>2. w \notin walk.kept
    BY <1>1, <1>9, MatchFacts DEF RunningFile, Updating
  <2>3. QED
    BY <1>2, <1>9, <2>1, <2>2 DEF RunningFile
<1>10. ASSUME NEW w \in Slots, KnownFile(w) PROVE ListInv'
  <2>1. w \in Active /\ walk.phase = "update" /\ walk.kept \subseteq Active /\ w \notin walk.kept
    BY <1>1, <1>10, MatchFacts DEF KnownFile, Updating, ListInv
  <2>2. CASE SetSlot(w, WatchOf(c)) /\ Keep(w, {}, WatchOf(c) # watchConfig[w])
    <3>1. \A v \in Active : v \in Active'
      BY <1>0, <2>2 DEF SetSlot, WatchOf, Active
    <3>2. QED
      BY <1>2, <2>1, <2>2, <3>1
  <2>3. CASE SetSlot(w, Unused) /\ walk' = [walk EXCEPT !.k = @ + 1, !.notify = TRUE]
    <3>1. \A v \in Active \ {w} : v \in Active'
      BY <1>0, <2>3 DEF SetSlot, Active
    <3>2. QED
      BY <1>0, <1>3, <2>1, <2>3, <3>1 DEF Walks
  <2>4. QED
    BY <1>10, <2>2, <2>3 DEF KnownFile
<1>11. CASE PurgeStale
  BY <1>0, <1>4, <1>11 DEF PurgeStale, Walks
<1>12. CASE SetupWatch
  BY <1>0, <1>4, <1>12 DEF SetupWatch, Walks
<1>13. CASE StartListening \/ StartSession
  BY <1>4, <1>13 DEF StartListening, StartSession, Walk
<1>14. ASSUME UNCHANGED <<watchConfig, walk>> PROVE ListInv'
  BY <1>14 DEF ListInv, NewWatchListFits, Active
<1>15. QED
  BY <1>5, <1>6, <1>7, <1>8, <1>9, <1>10, <1>11, <1>12, <1>13, <1>14
  DEF Next, vars, Undefined, Launch, ProgramEnds, EditFile

\* As long as no two configs name the same file, an update never stores past the
\* end of new_watch_list.
THEOREM ListFitsDistinctConfigs == Spec /\ []DistinctFilenames => []NewWatchListFits
<1>1. Init => ListInv
  BY WalkStarts DEF Init, Phases, ListInv, NewWatchListFits
<1>2. IInv /\ DistinctFilenames /\ ListInv /\ [Next]_vars => ListInv'
  BY ListNext
<1>3. ListInv => NewWatchListFits
  BY DEF ListInv
<1>4. QED
  BY <1>1, <1>2, <1>3, Invariance, PTL DEF Spec

=============================================================================
