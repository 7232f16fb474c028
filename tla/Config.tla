------------------------------- MODULE Config -------------------------------
(***************************************************************************)
(* Reading KFMon's ini files, key by key: what the handlers make of a      *)
(* value, what becomes of a file with a bad one, the daemon's settings     *)
(* from kfmon.ini and kfmon.user.ini, and the watches from the other       *)
(* files, at startup and in each update.  Of the update's surroundings     *)
(* there is just enough to implement WatchConfig, which has the rest.      *)
(*                                                                         *)
(* An ini file is the sequence of the <<key, value>> pairs inih finds in   *)
(* it, and a missing file the empty sequence.  A pair of another section,  *)
(* or a line inih cannot read, counts as an unknown key.  Values are in    *)
(* lower case where the code ignores the case.                             *)
(***************************************************************************)
EXTENDS Integers, Sequences

CONSTANTS
    WATCH_MAX,      \* number of watch slots
    FILES,          \* number of watch ini files; they are walked in this order
    CFG_SZ_MAX,     \* size of a filename, an action or a label
    DB_SZ_MAX,      \* size of a title, an author or a comment
    SHRT_MAX,       \* numbers are clamped to this
    ULONG_MAX,      \* the largest number strtoul returns
    Numeral,        \* what strtoul finds in the values that start with a number
    Basename,       \* the basename of each path that fits a filename
    Texts,          \* what each watch's ini file may hold
    Starts          \* what may be on the disk when KFMon starts

Slots == 0 .. WATCH_MAX - 1
Files == 1 .. FILES

ASSUME SizesAssumption ==
    {WATCH_MAX, FILES, CFG_SZ_MAX, DB_SZ_MAX, SHRT_MAX, ULONG_MAX} \subseteq Nat \ {0}
ASSUME NumeralAssumption ==
    \A text \in DOMAIN Numeral : /\ Numeral[text].value \in Nat
                                 /\ Numeral[text].minus \in BOOLEAN
                                 /\ Numeral[text].trailing \in BOOLEAN

IniTexts == Seq(STRING \X STRING)
ASSUME TextsAssumption ==
    /\ \A f \in Files : Texts[f] \subseteq IniTexts
    /\ \A start \in Starts :
        /\ start \in [main : IniTexts, user : IniTexts, watches : [Files -> IniTexts], edited : BOOLEAN]
        /\ \A f \in Files : start.watches[f] \in Texts[f]

\* Strings are sequences of characters.
ASSUME StringsAssumption ==
    /\ Len("") = 0
    /\ \A f \in Files : \A text \in Texts[f] : \A n \in DOMAIN text :
        LET value == text[n][2] IN
        /\ Len(value) \in Nat
        /\ SubSeq(value, 1, Len(value)) = value
        /\ \A m \in 0 .. Len(value) : Len(SubSeq(value, 1, m)) = m

ASSUME BasenameAssumption ==
    /\ "" \notin DOMAIN Basename
    /\ \A f \in Files : \A text \in Texts[f] : \A n \in DOMAIN text :
        text[n][1] = "filename" /\ Len(text[n][2]) < CFG_SZ_MAX => text[n][2] \in DOMAIN Basename \cup {""}

\* The keys of a watch config by the way watch_handler takes their values.
Strict  == {"filename", "action"}
DbKeys  == {"db_title", "db_author", "db_comment"}
Loose   == {"label"} \cup DbKeys
Flags   == {"hidden", "block_spawns", "skip_db_checks", "do_db_update"}
Ignored == {"reboot_on_exit"}
WatchKeys == Strict \cup Loose \cup Flags

DaemonFlags == {"use_syslog", "with_notifications", "with_storage_notifications"}

\* The zeroed structs.
NoWatch  == [key \in WatchKeys \cup {"is_active"} |->
                IF key \in Flags \cup {"is_active"} THEN FALSE ELSE ""]
NoDaemon == [key \in DaemonFlags \cup {"db_timeout"} |->
                IF key \in DaemonFlags THEN FALSE ELSE 0]

VARIABLES
    disk,           \* the config directory: kfmon.ini (main), kfmon.user.ini (user), the
                    \* watches' files, and whether the user edits these in a session
    daemonConfig,   \* the daemon's settings
    watchConfig,    \* the watch slots
    programs,       \* the filename each slot's running program was launched for
    walk,           \* where the main thread is, with its locals (see WatchConfig)
    known           \* history: the slots as the current update found them

vars == <<disk, daemonConfig, watchConfig, programs, walk, known>>

-----------------------------------------------------------------------------
(* What becomes of a value: each operator gives the new content of its     *)
(* destination, and whether the value was accepted.                        *)

Took(x) == [ok |-> TRUE, dst |-> x]
Refused(x) == [ok |-> FALSE, dst |-> x]

Size(key) == IF key \in DbKeys THEN DB_SZ_MAX ELSE CFG_SZ_MAX

\* Mutant: the NUL is forgotten.
Str5cpyNoNul(dst, dstsize, src, trunc) ==
    IF Len(src) <= dstsize THEN Took(src)
    ELSE IF trunc THEN Took(SubSeq(src, 1, dstsize)) ELSE Refused(dst)

\* A string with its NUL needs dstsize characters.  One that does not fit is cut, or
\* refused and the destination left alone.
Str5cpy(dst, dstsize, src, trunc) ==
    IF Len(src) < dstsize THEN Took(src)
    ELSE IF trunc THEN Took(SubSeq(src, 1, dstsize - 1))
    ELSE Refused(dst)

StrtoulHu(dst, value) ==
    LET n == Numeral[value] IN
    IF \/ value \notin DOMAIN Numeral           \* no digits
       \/ n.minus
       \/ n.value > ULONG_MAX                   \* ERANGE
       \/ n.trailing
    THEN Refused(dst)
    ELSE Took(IF n.value > SHRT_MAX THEN SHRT_MAX ELSE n.value)

Strtobool(dst, value) ==
    IF value \in {"true", "yes", "1", "on"} THEN Took(TRUE)
    ELSE IF value \in {"false", "no", "0", "off"} THEN Took(FALSE)
    ELSE Refused(dst)

DaemonValue(dst, key, value) ==
    IF key \in DaemonFlags THEN Strtobool(dst, value) ELSE StrtoulHu(dst, value)

WatchValue(dst, key, value) ==
    IF key \in Flags THEN Strtobool(dst, value)
    ELSE Str5cpy(dst, Size(key), value, key \in Loose)

Stored(config, key, r) == [ok |-> r.ok, config |-> [config EXCEPT ![key] = r.dst]]

DaemonHandler(config, key, value) ==
    IF key \in DaemonFlags \cup {"db_timeout"}
    THEN Stored(config, key, DaemonValue(config[key], key, value))
    ELSE [ok |-> FALSE, config |-> config]

WatchHandler(config, key, value) ==
    IF key \in WatchKeys
    THEN Stored(config, key, WatchValue(config[key], key, value))
    ELSE [ok |-> key \in Ignored, config |-> config]

\* ini_parse calls the handler for each pair, also after one it refused, and reports
\* whether it refused any.
Unread(config) == [ok |-> TRUE, config |-> config]

AndThen(parse, r) == [ok |-> parse.ok /\ r.ok, config |-> r.config]

Handle(handler, config, pair) ==
    IF handler = "daemon_handler" THEN DaemonHandler(config, pair[1], pair[2])
    ELSE WatchHandler(config, pair[1], pair[2])

IniParse(text, handler, config) ==
    LET parse[n \in 0 .. Len(text)] ==
            IF n = 0 THEN Unread(config)
            ELSE LET before == parse[n - 1]
                 IN  AndThen(before, Handle(handler, before.config, text[n]))
    IN  parse[Len(text)]

ParseDaemon(text, config) == IniParse(text, "daemon_handler", config)

ParseWatch(text, config) == IniParse(text, "watch_handler", config)

-----------------------------------------------------------------------------
Active == {w \in Slots : watchConfig[w].is_active}

IsFirst(w, S) == w \in S /\ \A v \in S : w <= v

\* The mandatory keys are there.
Complete(c) ==
    /\ \A key \in Strict : c[key] # ""
    /\ c["do_db_update"] => \A key \in DbKeys : c[key] # ""

\* validate_watch_config
IsValid(c) ==
    /\ Complete(c)
    /\ \A w \in Active : Basename[watchConfig[w].filename] # Basename[c.filename]

\* Mutant: the keys of the database are left alone in any case.
MergedWithoutDb(watch, c) ==
    [key \in DOMAIN watch |->
        IF key \in {"filename", "is_active"} \cup DbKeys THEN watch[key] ELSE c[key]]

\* What validate_and_merge_watch_config leaves of a slot whose config is complete.
\* As the config was matched to the slot by its filename, that never changes.  The
\* keys of the database are left alone unless an update of it is asked for.
Merged(watch, c) ==
    [key \in DOMAIN watch |->
        IF key \in {"filename", "is_active"} \/ (key \in DbKeys /\ ~c.do_db_update)
        THEN watch[key] ELSE c[key]]

IsMatch(w, c) == IsFirst(w, {v \in Active : watchConfig[v].filename = c.filename})

Activated(c) == [c EXCEPT !.is_active = TRUE]

SetSlot(w, watch) == watchConfig' = [watchConfig EXCEPT ![w] = watch]

IsSpawned(w) == programs[w] # ""

Walk(phase, k) == [phase |-> phase, k |-> k, count |-> 0, kept |-> {}, skipped |-> {},
                   notify |-> FALSE]

-----------------------------------------------------------------------------
Init ==
    /\ disk \in Starts
    /\ daemonConfig = NoDaemon
    /\ watchConfig = [w \in Slots |-> NoWatch]
    /\ programs = [w \in Slots |-> ""]
    /\ walk = Walk("load", 1)
    /\ known = watchConfig

(* load_config.  Where kfmon.ini comes in the walk makes no difference: it *)
(* and the watches' files share nothing.  kfmon.user.ini comes last.       *)

\* Mutant: a slot that was parsed into in vain is not blanked.
LoadFileResidue ==
    /\ walk.phase = "load"
    /\ walk.k <= FILES
    /\ LET parsed == ParseWatch(disk.watches[walk.k], watchConfig[walk.count]) IN
       IF walk.count < WATCH_MAX
       THEN IF parsed.ok /\ IsValid(parsed.config)
            THEN /\ SetSlot(walk.count, Activated(parsed.config))
                 /\ walk' = [walk EXCEPT !.k = @ + 1, !.count = @ + 1]
            ELSE SetSlot(walk.count, parsed.config) /\ walk' = [walk EXCEPT !.k = @ + 1]
       ELSE walk' = [walk EXCEPT !.k = @ + 1] /\ UNCHANGED watchConfig
    /\ UNCHANGED <<disk, daemonConfig, programs, known>>

\* The file is parsed right into the first free slot, which is blanked again if the
\* file turns out to be of no use.
LoadFile ==
    /\ walk.phase = "load"
    /\ walk.k <= FILES
    /\ IF walk.count < WATCH_MAX
       THEN LET parsed == ParseWatch(disk.watches[walk.k], watchConfig[walk.count])
            IN  IF parsed.ok /\ IsValid(parsed.config)
                THEN /\ SetSlot(walk.count, Activated(parsed.config))
                     /\ walk' = [walk EXCEPT !.k = @ + 1, !.count = @ + 1]
                ELSE /\ SetSlot(walk.count, NoWatch)
                     /\ walk' = [walk EXCEPT !.k = @ + 1]
       ELSE walk' = [walk EXCEPT !.k = @ + 1] /\ UNCHANGED watchConfig
    /\ UNCHANGED <<disk, daemonConfig, programs, known>>

MainParsed(config) == ParseDaemon(disk.main, config)

UserParsed(config) == ParseDaemon(disk.user, config)

\* Mutant: the files are taken in the order of the walk, were kfmon.user.ini first.
LoadDaemonUserFirst ==
    /\ walk.phase = "load"
    /\ walk.k > FILES
    /\ LET user == UserParsed(daemonConfig)
           main == MainParsed(user.config)
       IN  /\ daemonConfig' = main.config
           /\ walk' = [walk EXCEPT !.phase = IF main.ok /\ user.ok THEN "loaded" ELSE "aborted"]
    /\ UNCHANGED <<disk, watchConfig, programs, known>>

\* A bad pair in either of the daemon's files, and KFMon gives up.
LoadDaemon ==
    /\ walk.phase = "load"
    /\ walk.k > FILES
    /\ LET main == MainParsed(daemonConfig)
           user == UserParsed(main.config)
       IN  /\ daemonConfig' = user.config
           /\ walk' = [walk EXCEPT !.phase = IF main.ok /\ user.ok THEN "loaded" ELSE "aborted"]
    /\ UNCHANGED <<disk, watchConfig, programs, known>>

\* exit(EXIT_FAILURE)
Aborted == walk.phase = "aborted" /\ UNCHANGED vars

(* update_watch_configs.  The daemon's files are not read again.           *)

BeginUpdate ==
    /\ walk.phase \in {"loaded", "session"}
    /\ walk' = Walk("update", 1)
    /\ known' = watchConfig
    /\ UNCHANGED <<disk, daemonConfig, watchConfig, programs>>

\* new_watch_list[new_watch_count++] = w, in an array of WATCH_MAX items.
Keep(w, skipped, notify) ==
    walk' = IF walk.count < WATCH_MAX
            THEN [walk EXCEPT !.k = @ + 1, !.count = @ + 1, !.kept = @ \cup {w},
                              !.skipped = @ \cup skipped, !.notify = @ \/ notify]
            ELSE [walk EXCEPT !.phase = "undefined"]

Updating == walk.phase = "update" /\ walk.k <= FILES

\* cur_watch
Parsed == ParseWatch(disk.watches[walk.k], NoWatch)

OnlyTheWatches == UNCHANGED <<disk, daemonConfig, programs, known>>

DiscardFile ==
    /\ Updating
    /\ ~Parsed.ok
    /\ walk' = [walk EXCEPT !.k = @ + 1]
    /\ UNCHANGED watchConfig
    /\ OnlyTheWatches

NewFile ==
    /\ Updating
    /\ LET c == Parsed.config
           free == {w \in Slots \ Active : IsFirst(w, Slots \ Active)}
       IN  /\ Parsed.ok
           /\ \A w \in Slots : ~IsMatch(w, c)
           /\ \/ /\ free = {}
                 /\ walk' = [walk EXCEPT !.k = @ + 1]
                 /\ UNCHANGED watchConfig
              \/ \E w \in free :
                    IF IsValid(c)
                    THEN SetSlot(w, Activated(c)) /\ Keep(w, {}, TRUE)
                    ELSE SetSlot(w, NoWatch) /\ walk' = [walk EXCEPT !.k = @ + 1]
    /\ OnlyTheWatches

RunningFile(w) ==
    /\ Updating
    /\ Parsed.ok
    /\ IsMatch(w, Parsed.config)
    /\ IsSpawned(w)
    /\ Keep(w, {w}, FALSE)
    /\ UNCHANGED watchConfig
    /\ OnlyTheWatches

KnownFile(w) ==
    /\ Updating
    /\ LET c == Parsed.config
           merged == Merged(watchConfig[w], c)
       IN  /\ Parsed.ok
           /\ IsMatch(w, c)
           /\ ~IsSpawned(w)
           /\ IF Complete(c)
              THEN SetSlot(w, merged) /\ Keep(w, {}, merged # watchConfig[w])
              ELSE SetSlot(w, NoWatch) /\ walk' = [walk EXCEPT !.k = @ + 1, !.notify = TRUE]
    /\ OnlyTheWatches

PurgeStale ==
    /\ walk.phase = "update"
    /\ walk.k > FILES
    /\ LET stale == Active \ walk.kept IN
       /\ watchConfig' = [w \in Slots |-> IF w \in stale THEN NoWatch ELSE watchConfig[w]]
       /\ walk' = [walk EXCEPT !.phase = "setup", !.k = 0, !.notify = @ \/ stale # {}]
    /\ OnlyTheWatches

(* Between two updates (see WatchConfig and ProcessTable).                 *)

\* The setup of a slot's inotify watch, which does not fail here.
SetupWatch ==
    /\ walk.phase = "setup"
    /\ walk.k < WATCH_MAX
    /\ walk' = [walk EXCEPT !.k = @ + 1]
    /\ UNCHANGED watchConfig
    /\ OnlyTheWatches

StartListening ==
    /\ walk.phase = "setup"
    /\ walk.k = WATCH_MAX
    /\ walk' = Walk("idle", 0)
    /\ known' = watchConfig
    /\ UNCHANGED <<disk, daemonConfig, watchConfig, programs>>

Launch(w) ==
    /\ walk.phase = "idle"
    /\ w \in Active
    /\ ~IsSpawned(w)
    /\ programs' = [programs EXCEPT ![w] = watchConfig[w].filename]
    /\ UNCHANGED <<disk, daemonConfig, watchConfig, walk, known>>

ProgramEnds(w) ==
    /\ IsSpawned(w)
    /\ programs' = [programs EXCEPT ![w] = ""]
    /\ UNCHANGED <<disk, daemonConfig, watchConfig, walk, known>>

StartSession ==
    /\ walk.phase = "idle"
    /\ walk' = Walk("session", 0)
    /\ UNCHANGED watchConfig
    /\ OnlyTheWatches

EditFile(f, text) ==
    /\ walk.phase = "session"
    /\ disk.edited
    /\ disk' = [disk EXCEPT !.watches[f] = text]
    /\ UNCHANGED <<daemonConfig, watchConfig, programs, walk, known>>

Undefined == walk.phase = "undefined" /\ UNCHANGED vars

Next ==
    \/ LoadFile
    \/ LoadDaemon
    \/ Aborted
    \/ BeginUpdate
    \/ DiscardFile
    \/ NewFile
    \/ \E w \in Slots : RunningFile(w) \/ KnownFile(w) \/ Launch(w) \/ ProgramEnds(w)
    \/ PurgeStale
    \/ SetupWatch
    \/ StartListening
    \/ StartSession
    \/ \E f \in Files : \E text \in Texts[f] : EditFile(f, text)
    \/ Undefined

Spec == Init /\ [][Next]_vars

-----------------------------------------------------------------------------
(* What the files say, without a word on how they are read.                *)

TruthOf(value) ==
    CASE value \in {"true", "yes", "1", "on"} -> TRUE
      [] value \in {"false", "no", "0", "off"} -> FALSE

Least(a, b) == IF a < b THEN a ELSE b

IsNumber(value) ==
    /\ value \in DOMAIN Numeral
    /\ ~Numeral[value].minus /\ ~Numeral[value].trailing /\ Numeral[value].value <= ULONG_MAX

\* A string is as long as its array lets it be, which takes a NUL as well.
Acceptable(key, value) ==
    \/ key \in Loose \cup Ignored
    \/ key \in Strict /\ Len(value) < CFG_SZ_MAX
    \/ key \in Flags \cup DaemonFlags /\ value \in {"true", "yes", "1", "on", "false", "no", "0", "off"}
    \/ key = "db_timeout" /\ IsNumber(value)

Meaning(key, value) ==
    CASE key \in Strict -> value
      [] key \in Loose  -> SubSeq(value, 1, Least(Len(value), Size(key) - 1))
      [] key \in Flags \cup DaemonFlags -> TruthOf(value)
      [] key = "db_timeout" -> Least(Numeral[value].value, SHRT_MAX)

Lines(text, key) == {n \in DOMAIN text : text[n][1] = key}

\* A key means what its last line says.
Says(text, key, x) ==
    \E n \in Lines(text, key) : /\ \A m \in Lines(text, key) : m <= n
                                /\ x = Meaning(key, text[n][2])

\* The settings x of a struct are those of the text, the rest is zeroed.
Holds(struct, text, keys, zeroed) ==
    \A key \in keys : IF Lines(text, key) = {} THEN struct[key] = zeroed[key]
                      ELSE Says(text, key, struct[key])

WellFormed(text, keys) ==
    \A n \in DOMAIN text : text[n][1] \in keys /\ Acceptable(text[n][1], text[n][2])

\* README.md:83 and :107 give the arrays' sizes for the lengths of the strings, one
\* character more than the code has room for: these are the readings that grant it.
AtTheLimit(key, value) == key \in Strict /\ Len(value) = CFG_SZ_MAX

WellFormedAtTheLimit(text, keys) ==
    \A n \in DOMAIN text :
        text[n][1] \in keys /\ (Acceptable(text[n][1], text[n][2]) \/ AtTheLimit(text[n][1], text[n][2]))

SaysAtTheLimit(text, key, x) ==
    /\ key \in DbKeys
    /\ \E n \in Lines(text, key) : /\ \A m \in Lines(text, key) : m <= n
                                   /\ x = SubSeq(text[n][2], 1, Least(Len(text[n][2]), DB_SZ_MAX))

HoldsAtTheLimit(struct, text, keys, zeroed) ==
    \A key \in keys : IF Lines(text, key) = {} THEN struct[key] = zeroed[key]
                      ELSE Says(text, key, struct[key]) \/ SaysAtTheLimit(text, key, struct[key])

DaemonKeys == DaemonFlags \cup {"db_timeout"}

UpdateDone == walk.phase = "setup" /\ walk.k = 0

-----------------------------------------------------------------------------
(* Properties.                                                             *)

\* Settings have their types, strings fit their arrays, and the counters of the walk
\* stay within theirs.
TypeOK ==
    /\ \A key \in DaemonFlags : daemonConfig[key] \in BOOLEAN
    /\ daemonConfig["db_timeout"] \in 0 .. SHRT_MAX
    /\ \A w \in Slots :
        /\ \A key \in Flags \cup {"is_active"} : watchConfig[w][key] \in BOOLEAN
        /\ \A key \in Strict \cup Loose : Len(watchConfig[w][key]) < Size(key)
    /\ walk.count \in 0 .. WATCH_MAX
    /\ walk.k \in IF walk.phase \in {"load", "loaded", "aborted", "update", "undefined"}
                  THEN 1 .. FILES + 1 ELSE 0 .. WATCH_MAX

\* A watch has, after the load and after an update that found it at rest, just the
\* settings some config file spells out: the last line of a key counts, nothing is
\* left of the files that were discarded or of the watches that used the slot before,
\* and no mandatory key is missing.  (The keys of the database are stale where no
\* update of it is asked for.)  A filename or an action of CFG_SZ_MAX characters may
\* be taken or refused, and a title be cut to DB_SZ_MAX characters or to one less: on
\* this README.md and the code differ.  See LengthsAsDocumented.
SettingsAsWritten ==
    \A w \in Active \ walk.skipped :
        LET watch == watchConfig[w]
            stale == IF UpdateDone /\ ~watch.do_db_update THEN DbKeys ELSE {}
        IN  walk.phase = "loaded" \/ UpdateDone =>
            /\ Complete(watch)
            /\ \E f \in Files :
                /\ WellFormedAtTheLimit(disk.watches[f], WatchKeys \cup Ignored)
                /\ HoldsAtTheLimit(watch, disk.watches[f], WatchKeys \ stale, NoWatch)

\* What README.md says of lengths, to the letter: a file is discarded if a filename or
\* an action exceeds CFG_SZ_MAX characters, and a title is cropped at DB_SZ_MAX.  The
\* code keeps one of these characters for the NUL, and does neither.
LengthsAsDocumented ==
    \A f \in Files :
        LET text == disk.watches[f]
            parse == ParseWatch(text, NoWatch)
        IN  /\ WellFormedAtTheLimit(text, WatchKeys \cup Ignored) => parse.ok
            /\ parse.ok => \A key \in DbKeys :
                              Lines(text, key) # {} => SaysAtTheLimit(text, key, parse.config[key])

\* KFMon runs if both of its daemon files are good, and gives up otherwise.  When it
\* runs, kfmon.user.ini overrides kfmon.ini key by key, and for good.
DaemonAsWritten ==
    LET text == disk.main \o disk.user IN
    walk.phase # "load" =>
        IF WellFormed(text, DaemonKeys)
        THEN walk.phase # "aborted" /\ Holds(daemonConfig, text, DaemonKeys, NoDaemon)
        ELSE walk.phase = "aborted"

-----------------------------------------------------------------------------
(* What WatchConfig keeps of all this.                                     *)

SettingsOf(c) ==
    [key \in (WatchKeys \ {"filename"}) |->
        IF key \in DbKeys /\ ~c.do_db_update THEN "" ELSE c[key]]

WatchSettings(c) == [is_active |-> c.is_active, filename |-> c.filename, settings |-> SettingsOf(c)]

AllTexts == UNION {Texts[f] : f \in Files}
AllSettings == {SettingsOf(ParseWatch(text, NoWatch).config) : text \in AllTexts}
NoneSet == SettingsOf(NoWatch)

ContentsOf ==
    [text \in AllTexts |->
        LET parse == ParseWatch(text, NoWatch)
            c == parse.config
            parsed == parse.ok /\ c.filename # ""
            sane == parsed /\ Complete(c)
        IN  [state    |-> IF parsed THEN "parsed" ELSE "unreadable",
             filename |-> IF parsed THEN c.filename ELSE "",
             sane     |-> sane,
             settings |-> IF sane THEN SettingsOf(c) ELSE NoneSet]]

W == INSTANCE WatchConfig WITH
        Paths        <- DOMAIN Basename,
        NoFile       <- "",
        Settings     <- AllSettings,
        NoSettings   <- NoneSet,
        WATCH_ERRORS <- FALSE,
        ini          <- [f \in Files |-> ContentsOf[disk.watches[f]]],
        watchConfig  <- [w \in Slots |-> WatchSettings(watchConfig[w])],
        walk         <- [walk EXCEPT !.phase = IF @ \in {"loaded", "aborted"} THEN "load" ELSE @],
        known        <- [w \in Slots |-> WatchSettings(known[w])]

\* Key by key, the load and the updates do to the slots what WatchConfig says.
ImplementsWatchConfig == W!Spec
=============================================================================
