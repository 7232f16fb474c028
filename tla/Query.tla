-------------------------------- MODULE Query --------------------------------
(***************************************************************************)
(* is_target_processed: has Nickel processed an icon?  KFMon asks Nickel's *)
(* database and looks for the thumbnails Nickel makes, one statement and   *)
(* one file at a time; it may change the icon's title; and it waits for    *)
(* Nickel's transaction to end.  All the while Nickel adds and removes the *)
(* icon and its thumbnails.  Events takes an answer for a single step: the *)
(* properties below say what there is to that.                             *)
(*                                                                         *)
(* The names of the thumbnails' files, made from a hash of the icon's id   *)
(* or from its path, are left out: a file goes by its kind.                *)
(***************************************************************************)
EXTENDS Integers, Sequences, FiniteSets

CONSTANTS
    LOOKS,          \* looks at the journal before KFMon goes on anyway (20 in the code)
    Devices         \* the devices KFMon runs on: version, tolino, wal (see device below)

ASSUME LooksAssumption == LOOKS \in Nat \ {0}
ASSUME DevicesAssumption == Devices \subseteq [fwVersion : Nat, is_tolino : BOOLEAN, wal : BOOLEAN]

VARIABLES
    device,         \* the firmware, and whether its database uses a WAL
    content,        \* what there is of the icon: see Things
    transaction,    \* Nickel is in the middle of changing the database
    query,          \* where the main thread is, with the locals of is_target_processed
    seen,           \* history: what there was of the icon since the call, at some moment,
    missed,         \* and what there was not
    quiet           \* history: no transaction of Nickel's was open at some moment since
                    \* the thumbnails were found

vars == <<device, content, transaction, query, seen, missed, quiet>>
history == <<seen, missed, quiet>>

\* A device in Kobo mode behaves like a version 4 one.
IsV4 == device.fwVersion < 50 \/ ~device.is_tolino

\* The thumbnails, in the order they are looked for.
V4Thumbnails == <<"N3_FULL", "N3_LIBRARY_FULL", "N3_LIBRARY_GRID">>
V5Thumbnails == IF device.fwVersion >= 56 THEN <<"v5.6", "v5">> ELSE <<"v5">>
Thumbnails == IF IsV4 THEN V4Thumbnails ELSE V5Thumbnails
ThumbnailSet == {Thumbnails[n] : n \in DOMAIN Thumbnails}

\* The icon's row in the database, the title of the watch config in that row, and the
\* files of its thumbnails.
Things == {"row", "title"} \cup ThumbnailSet

\* The file access() finds while a transaction is open; a WAL makes none.
Journal == transaction /\ ~device.wal

QueryStates ==
    [pc : {"idle", "open", "exists", "image_id", "thumbnails", "title", "update", "journal",
           "close", "answered"},
     update : BOOLEAN, wait_for_db : BOOLEAN, is_processed : BOOLEAN, failed : BOOLEAN,
     closed : BOOLEAN, thumbnail : 1 .. 4, thumbnails_count : 0 .. 3, count : 0 .. LOOKS]

\* The locals keep to their types, the looks and the files counted to their numbers.
TypeOK ==
    /\ device \in Devices
    /\ content \in SUBSET Things /\ seen \in SUBSET Things /\ missed \in SUBSET Things
    /\ transaction \in BOOLEAN /\ quiet \in BOOLEAN
    /\ query \in QueryStates

-----------------------------------------------------------------------------
Idle == [pc |-> "idle", update |-> FALSE, wait_for_db |-> FALSE, is_processed |-> FALSE,
         thumbnail |-> 1, thumbnails_count |-> 0, count |-> 0, failed |-> FALSE, closed |-> FALSE]

Init ==
    /\ device \in Devices
    /\ content \in {{}, Things}
    /\ transaction \in BOOLEAN
    /\ query = Idle
    /\ seen = {} /\ missed = {} /\ quiet = FALSE

(* The query.  wait_for_db is set on IN_CLOSE, update is do_db_update of   *)
(* the watch config.  Each statement is prepared, bound and stepped.       *)

Call(update, wait_for_db) ==
    /\ query.pc = "idle"
    /\ query' = [Idle EXCEPT !.pc = "open", !.update = update, !.wait_for_db = wait_for_db]
    /\ seen' = content
    /\ missed' = Things \ content
    /\ quiet' = FALSE
    /\ UNCHANGED <<device, content, transaction>>

OnlyTheQuery == UNCHANGED <<device, content, transaction, history>>

\* CALL_SQLITE: when opening the database, or preparing or binding a statement fails,
\* what is_processed is by then is the answer, and nothing is closed.
SqliteFails ==
    /\ query.pc \in {"open", "exists", "image_id", "title", "update"}
    /\ query' = [query EXCEPT !.pc = "answered", !.failed = TRUE]
    /\ OnlyTheQuery

\* Where the query goes when the title is dealt with.
LastStep(q) == IF q.is_processed /\ q.wait_for_db THEN "journal" ELSE "close"

Finish(q) == [q EXCEPT !.pc = LastStep(q)]

OpenDb ==
    /\ query.pc = "open"
    /\ query' = [query EXCEPT !.pc = "exists"]
    /\ OnlyTheQuery

\* sqlite3_step of a SELECT: the icon has a row, or has none, or the database is
\* locked for longer than the busy timeout, which is taken for the same.
Select(pc, q) ==
    /\ query.pc = pc
    /\ \/ "row" \in content /\ query' = q
       \/ "row" \notin content /\ query' = Finish(query)
       \/ query' = Finish([query EXCEPT !.failed = TRUE])
    /\ OnlyTheQuery

\* The verdict "processed" is withdrawn again until there are thumbnails.
SelectExists == Select("exists", [query EXCEPT !.pc = "image_id"])

SelectImageID == Select("image_id", [query EXCEPT !.pc = "thumbnails"])

\* Mutant: version 5 thumbnails are looked for under their current name only.
LookedEnoughV5(q) == q.thumbnail > Len(Thumbnails) \/ ~IsV4

\* All thumbnails of version 4 are counted; the first match of version 5 will do.
LookedEnough(q) ==
    q.thumbnail > Len(Thumbnails) \/ (~IsV4 /\ q.thumbnails_count = 1)

\* Mutant: any thumbnail will do.
GreenlightForOne(q) == q.thumbnails_count > 0

Greenlight(q) == q.thumbnails_count = IF IsV4 THEN 3 ELSE 1

\* access() on the file of the next thumbnail.
CheckThumbnail ==
    /\ query.pc = "thumbnails"
    /\ LET here == Thumbnails[query.thumbnail] \in content
           q == [query EXCEPT !.thumbnail = @ + 1, !.thumbnails_count = IF here THEN @ + 1 ELSE @]
       IN  IF ~LookedEnough(q) THEN query' = q /\ UNCHANGED quiet
           ELSE /\ query' = IF Greenlight(q)
                            THEN IF q.update THEN [q EXCEPT !.is_processed = TRUE, !.pc = "title"]
                                 ELSE Finish([q EXCEPT !.is_processed = TRUE])
                            ELSE Finish(q)
                /\ quiet' = ~transaction
    /\ UNCHANGED <<device, content, transaction, seen, missed>>

\* Mutant: an icon that has the title is updated, and no other.
SelectTitleSwapped ==
    Select("title", IF "title" \in content THEN [query EXCEPT !.pc = "update"] ELSE Finish(query))

\* needs_update
SelectTitle ==
    Select("title", IF "title" \notin content THEN [query EXCEPT !.pc = "update"] ELSE Finish(query))

\* It takes the write lock to change a row, if there is one still.
Update ==
    /\ query.pc = "update"
    /\ \/ /\ ~transaction
          /\ content' = IF "row" \in content THEN content \cup {"title"} ELSE content
          /\ seen' = seen \cup content'
          /\ query' = Finish(query)
       \/ /\ query' = Finish([query EXCEPT !.failed = TRUE])
          /\ UNCHANGED <<content, seen>>
    /\ UNCHANGED <<device, transaction, missed, quiet>>

\* Mutants: one look at the journal is enough; the looks are not counted.
LookAtJournalOnce ==
    /\ query.pc = "journal"
    /\ query' = [query EXCEPT !.pc = "close"]
    /\ OnlyTheQuery

LookAtJournalForever ==
    /\ query.pc = "journal"
    /\ query' = IF Journal THEN query ELSE [query EXCEPT !.pc = "close"]
    /\ OnlyTheQuery

\* Wait for a rollback journal to go away, but not for more than LOOKS looks.
LookAtJournal ==
    /\ query.pc = "journal"
    /\ query' = IF Journal
                THEN [query EXCEPT !.count = @ + 1,
                                   !.pc = IF query.count + 1 >= LOOKS THEN "close" ELSE @]
                ELSE [query EXCEPT !.pc = "close"]
    /\ OnlyTheQuery

CloseDb ==
    /\ query.pc = "close"
    /\ query' = [query EXCEPT !.pc = "answered", !.closed = TRUE]
    /\ OnlyTheQuery

\* handle_events goes on with the answer.
Return ==
    /\ query.pc = "answered"
    /\ query' = Idle
    /\ seen' = {} /\ missed' = {} /\ quiet' = FALSE
    /\ UNCHANGED <<device, content, transaction>>

-----------------------------------------------------------------------------
(* Nickel.                                                                 *)

\* What there is of the icon changes; the histories of a query in progress take note.
ContentBecomes(c) ==
    /\ content' = c
    /\ IF query.pc = "idle" THEN UNCHANGED <<seen, missed>>
       ELSE seen' = seen \cup c /\ missed' = missed \cup (Things \ c)

BeginTransaction ==
    /\ ~transaction
    /\ transaction' = TRUE
    /\ UNCHANGED <<device, content, query, history>>

\* A transaction adds the icon, removes it, or has nothing to do with it.
EndTransaction ==
    /\ transaction
    /\ transaction' = FALSE
    /\ \/ ContentBecomes(content)
       \/ ContentBecomes(content \cup {"row"})
       \/ ContentBecomes(content \ {"row", "title"})
    /\ quiet' = (query.pc # "idle")
    /\ UNCHANGED <<device, query>>

\* Thumbnails are made for icons in the database, and removed some time after them.
ChangeThumbnail(thumbnail) ==
    /\ ContentBecomes(IF "row" \in content THEN content \cup {thumbnail} ELSE content \ {thumbnail})
    /\ UNCHANGED <<device, transaction, query, quiet>>

-----------------------------------------------------------------------------
QueryStep ==
    \/ SqliteFails
    \/ OpenDb
    \/ SelectExists
    \/ SelectImageID
    \/ CheckThumbnail
    \/ SelectTitle
    \/ Update
    \/ LookAtJournal
    \/ CloseDb

NickelStep ==
    \/ BeginTransaction
    \/ EndTransaction
    \/ \E thumbnail \in ThumbnailSet : ChangeThumbnail(thumbnail)

Next ==
    \/ \E update, wait_for_db \in BOOLEAN : Call(update, wait_for_db)
    \/ QueryStep
    \/ Return
    \/ NickelStep

Spec == Init /\ [][Next]_vars

\* The main thread goes on with a query, whatever Nickel does.
FairSpec == Spec /\ WF_vars(QueryStep)

-----------------------------------------------------------------------------
(* Properties.                                                             *)

Answered == query.pc = "answered"

\* An icon passes for processed only if, while the query ran, it was in the database,
\* and each thumbnail it needs was there: all three, or for version 5 the one under
\* one of the names its firmware may use.
TrueAnswers ==
    Answered /\ query.is_processed =>
        /\ "row" \in seen
        /\ IF IsV4 THEN ThumbnailSet \subseteq seen ELSE ThumbnailSet \cap seen # {}

\* An icon is only taken for unprocessed if something of it was missing at some moment
\* of the query, or the database did not answer.
FalseAnswers ==
    Answered /\ ~query.is_processed =>
        \/ query.failed
        \/ "row" \in missed
        \/ IF IsV4 THEN ThumbnailSet \cap missed # {} ELSE ThumbnailSet \subseteq missed

\* On a device whose database has a rollback journal, a query on IN_CLOSE lets an icon
\* pass only after Nickel had no transaction open, at some moment since the thumbnails
\* were found, or after LOOKS looks at the journal; also if the title could not be read
\* or written.  Nothing is said of the early returns of CALL_SQLITE, which leave the
\* database open and wait for nobody, nor of a database with a WAL: there the code finds
\* no journal to wait for, and an icon may pass in the middle of a transaction.
CommitAwaited ==
    Answered /\ query.is_processed /\ query.wait_for_db /\ query.closed /\ ~device.wal =>
        quiet \/ query.count = LOOKS

\* If the watch asks for it, a processed icon got its title by the time of the answer,
\* unless Nickel removed it or the database did not answer.
TitleIsSet ==
    Answered /\ query.is_processed /\ query.update /\ ~query.failed =>
        "title" \in seen \/ "row" \in missed

\* A query ends, though Nickel's transaction may not.
AnswerComes == query.pc = "open" ~> Answered

(* The inductive invariant behind these.                                   *)

\* The histories know of the present.
HistoryInv == query.pc # "idle" => content \subseteq seen /\ Things \ content \subseteq missed

Looked == {Thumbnails[m] : m \in 1 .. query.thumbnail - 1}

\* What the number of thumbnails found says of those that were looked for.
ThumbnailInv ==
    LET n == query.thumbnail - 1
        c == query.thumbnails_count
    IN  /\ n <= Len(Thumbnails) /\ c <= n /\ (~IsV4 => c <= 1)
        /\ IF c = n THEN Looked \subseteq seen ELSE Looked \cap missed # {}
        /\ IF c = 0 THEN Looked \subseteq missed ELSE Looked \cap seen # {}
        /\ query.pc \in {"open", "exists", "image_id"} => n = 0
        /\ query.pc = "thumbnails" => ~LookedEnough(query)

\* What a verdict rests on, and what the lack of one does.
VerdictInv ==
    /\ query.pc \in {"idle", "open", "exists", "image_id", "thumbnails"} => ~query.is_processed
    /\ query.pc \in {"title", "update", "journal"} => query.is_processed
    /\ query.pc \in {"image_id", "thumbnails"} \/ query.is_processed => "row" \in seen
    /\ query.is_processed => Greenlight(query)
    /\ query.pc \in {"close", "answered"} /\ ~query.is_processed =>
          query.failed \/ "row" \in missed \/ (LookedEnough(query) /\ ~Greenlight(query))

\* What is true of the transaction and the title once the thumbnails were found.
AfterInv ==
    /\ query.is_processed => quiet \/ transaction
    /\ query.closed => query.pc = "answered"
    /\ query.is_processed /\ query.pc \in {"journal", "close", "answered"} /\ ~query.failed =>
          (query.update => "title" \in seen \/ "row" \in missed)
    /\ (query.pc = "close" \/ query.closed) /\ query.is_processed /\ ~device.wal =>
          (query.wait_for_db => quiet \/ query.count = LOOKS)
    /\ query.pc = "journal" => query.count < LOOKS
    /\ query.pc \in {"open", "exists", "image_id", "thumbnails", "title", "update"} => query.count = 0

QueryInv == TypeOK /\ HistoryInv /\ ThumbnailInv /\ VerdictInv /\ AfterInv
=============================================================================
