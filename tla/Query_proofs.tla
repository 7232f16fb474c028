---------------------------- MODULE Query_proofs ----------------------------
(***************************************************************************)
(* What is_target_processed answers, proved for every device and every     *)
(* number of looks at the journal.                                         *)
(***************************************************************************)
EXTENDS Query, TLAPS

\* There are three thumbnails of version 4, one or two names for that of version 5.
LEMMA ThumbnailFacts ==
    /\ Len(Thumbnails) \in 1 .. 3
    /\ IsV4 => Len(Thumbnails) = 3
    /\ ~IsV4 => Len(Thumbnails) \in 1 .. 2
    /\ DOMAIN Thumbnails = 1 .. Len(Thumbnails)
    /\ ThumbnailSet = {Thumbnails[n] : n \in 1 .. Len(Thumbnails)}
    /\ ThumbnailSet \subseteq Things \ {"row", "title"}
<1>1. CASE IsV4
  <2>1. Thumbnails = V4Thumbnails /\ Len(Thumbnails) = 3 /\ DOMAIN Thumbnails = 1 .. 3
    BY <1>1 DEF Thumbnails, V4Thumbnails
  <2>2. Thumbnails[1] = "N3_FULL" /\ Thumbnails[2] = "N3_LIBRARY_FULL" /\ Thumbnails[3] = "N3_LIBRARY_GRID"
    BY <2>1 DEF V4Thumbnails
  <2>3. QED
    BY <1>1, <2>1, <2>2 DEF ThumbnailSet, Things
<1>2. CASE ~IsV4 /\ device.fwVersion >= 56
  <2>1. Thumbnails = <<"v5.6", "v5">> /\ Len(Thumbnails) = 2 /\ DOMAIN Thumbnails = 1 .. 2
    BY <1>2 DEF Thumbnails, V5Thumbnails
  <2>2. QED
    BY <1>2, <2>1 DEF ThumbnailSet, Things
<1>3. CASE ~IsV4 /\ ~(device.fwVersion >= 56)
  <2>1. Thumbnails = <<"v5">> /\ Len(Thumbnails) = 1 /\ DOMAIN Thumbnails = 1 .. 1
    BY <1>3 DEF Thumbnails, V5Thumbnails
  <2>2. QED
    BY <1>3, <2>1 DEF ThumbnailSet, Things
<1>4. QED
  BY <1>1, <1>2, <1>3

\* The device is always the same, and so is what depends on it.
LEMMA DeviceStays ==
    ASSUME UNCHANGED device
    PROVE  UNCHANGED <<IsV4, Thumbnails, ThumbnailSet, Things>>
  BY DEF IsV4, Thumbnails, V4Thumbnails, V5Thumbnails, ThumbnailSet, Things

LEMMA NextKeepsDevice == [Next]_vars => UNCHANGED device
  BY DEF Next, QueryStep, NickelStep, vars, Call, SqliteFails, OpenDb, SelectExists, SelectImageID,
         Select, CheckThumbnail, SelectTitle, Update, LookAtJournal, CloseDb, Return,
         BeginTransaction, EndTransaction, ChangeThumbnail, OnlyTheQuery

LEMMA IdleState == Idle \in QueryStates /\ Idle.pc = "idle" /\ ~Idle.is_processed /\ ~Idle.closed
  BY LooksAssumption DEF Idle, QueryStates

LEMMA QueryInvInit == Init => QueryInv
<1> SUFFICES ASSUME Init PROVE QueryInv
  OBVIOUS
<1>1. query = Idle /\ query.pc = "idle" /\ ~query.is_processed /\ query.thumbnail = 1
      /\ query.thumbnails_count = 0 /\ query.count = 0 /\ ~query.closed
  BY DEF Init, Idle
<1>2. TypeOK
  BY IdleState DEF Init, TypeOK
<1>3. ThumbnailInv
  <2>1. Looked = {}
    BY <1>1 DEF Looked
  <2>2. QED
    BY <1>1, <2>1, ThumbnailFacts DEF ThumbnailInv
<1>4. HistoryInv /\ VerdictInv /\ AfterInv
  BY <1>1, LooksAssumption DEF HistoryInv, VerdictInv, AfterInv
<1>5. QED
  BY <1>2, <1>3, <1>4 DEF QueryInv

(* What each step does to the locals, in the words of the invariant.       *)

\* Finish goes on to the journal or to the end.
LEMMA FinishFacts ==
    ASSUME NEW q \in QueryStates
    PROVE  /\ Finish(q) \in QueryStates
           /\ Finish(q).pc = IF q.is_processed /\ q.wait_for_db THEN "journal" ELSE "close"
           /\ Finish(q).update = q.update /\ Finish(q).wait_for_db = q.wait_for_db
           /\ Finish(q).is_processed = q.is_processed /\ Finish(q).failed = q.failed
           /\ Finish(q).closed = q.closed
           /\ Finish(q).thumbnail = q.thumbnail
           /\ Finish(q).thumbnails_count = q.thumbnails_count /\ Finish(q).count = q.count
  BY DEF Finish, LastStep, QueryStates

\* A failure is noted, and nothing else.
LEMMA FailedFacts ==
    ASSUME NEW q \in QueryStates, NEW r, r = Finish([q EXCEPT !.failed = TRUE])
    PROVE  /\ r \in QueryStates /\ r.failed
           /\ r.pc = IF q.is_processed /\ q.wait_for_db THEN "journal" ELSE "close"
           /\ r.update = q.update /\ r.wait_for_db = q.wait_for_db
           /\ r.is_processed = q.is_processed /\ r.closed = q.closed
           /\ r.thumbnail = q.thumbnail
           /\ r.thumbnails_count = q.thumbnails_count /\ r.count = q.count
<1>1. [q EXCEPT !.failed = TRUE] \in QueryStates
  BY DEF QueryStates
<1>2. QED
  BY <1>1, FinishFacts DEF QueryStates

\* There is a thumbnail to look for next.
LEMMA CountBounds ==
    ASSUME QueryInv, query.pc = "thumbnails"
    PROVE  /\ query.thumbnail \in 1 .. Len(Thumbnails) /\ query.thumbnail \in 1 .. 3
           /\ query.thumbnails_count \in 0 .. query.thumbnail - 1
           /\ query.thumbnail + 1 \in 1 .. 4 /\ query.thumbnails_count + 1 \in 0 .. 3
           /\ ~IsV4 => query.thumbnails_count = 0
<1>1. query.thumbnail \in 1 .. 4 /\ query.thumbnails_count \in 0 .. 3
  BY DEF QueryInv, TypeOK, QueryStates
<1>2. /\ query.thumbnails_count <= query.thumbnail - 1
      /\ ~LookedEnough(query)
      /\ ~IsV4 => query.thumbnails_count <= 1
  BY DEF QueryInv, ThumbnailInv
<1>3. query.thumbnail <= Len(Thumbnails) /\ (~IsV4 => query.thumbnails_count # 1)
  BY <1>1, <1>2, ThumbnailFacts DEF LookedEnough
<1>4. QED
  BY <1>1, <1>2, <1>3, ThumbnailFacts

\* The types are kept by every step.
LEMMA TypeNext == QueryInv /\ [Next]_vars => TypeOK'
<1> SUFFICES ASSUME QueryInv, [Next]_vars PROVE TypeOK'
  OBVIOUS
<1> USE DEF QueryInv, TypeOK
<1>0. UNCHANGED <<device, IsV4, Thumbnails, ThumbnailSet, Things>>
  BY NextKeepsDevice, DeviceStays
<1>1. ASSUME NEW update \in BOOLEAN, NEW wait_for_db \in BOOLEAN, Call(update, wait_for_db)
      PROVE  TypeOK'
  <2>1. query' \in QueryStates
    BY <1>1, IdleState DEF Call, QueryStates
  <2>2. QED
    BY <1>0, <1>1, <2>1 DEF Call
<1>2. CASE SqliteFails
  BY <1>0, <1>2 DEF SqliteFails, OnlyTheQuery, history, QueryStates
<1>3. CASE OpenDb \/ CloseDb
  BY <1>0, <1>3 DEF OpenDb, CloseDb, OnlyTheQuery, history, QueryStates
<1>4. CASE SelectExists \/ SelectImageID \/ SelectTitle
  <2>1. ASSUME NEW pc, NEW q \in QueryStates, Select(pc, q) PROVE query' \in QueryStates
    <3>1. [query EXCEPT !.failed = TRUE] \in QueryStates
      BY DEF QueryStates
    <3>2. QED
      BY <2>1, <3>1, FinishFacts DEF Select
  <2>2. /\ [query EXCEPT !.pc = "image_id"] \in QueryStates
        /\ [query EXCEPT !.pc = "thumbnails"] \in QueryStates
        /\ [query EXCEPT !.pc = "update"] \in QueryStates
        /\ Finish(query) \in QueryStates
    BY FinishFacts DEF QueryStates
  <2>3. query' \in QueryStates
    BY <1>4, <2>1, <2>2 DEF SelectExists, SelectImageID, SelectTitle
  <2>4. QED
    BY <1>0, <1>4, <2>3 DEF SelectExists, SelectImageID, SelectTitle, Select, OnlyTheQuery, history
<1>5. CASE CheckThumbnail
  <2> DEFINE here == Thumbnails[query.thumbnail] \in content
             q == [query EXCEPT !.thumbnail = @ + 1, !.thumbnails_count = IF here THEN @ + 1 ELSE @]
  <2>1. query.thumbnail + 1 \in 1 .. 4 /\ query.thumbnails_count + 1 \in 0 .. 3
    BY <1>5, CountBounds DEF CheckThumbnail
  <2>2. q \in QueryStates
    <3>1. (IF here THEN query.thumbnails_count + 1 ELSE query.thumbnails_count) \in 0 .. 3
      BY <2>1 DEF QueryStates
    <3> HIDE DEF here
    <3>2. QED
      BY <2>1, <3>1 DEF QueryStates
  <2>3. /\ [q EXCEPT !.is_processed = TRUE, !.pc = "title"] \in QueryStates
        /\ [q EXCEPT !.is_processed = TRUE] \in QueryStates
    BY <2>2, ZenonT(60) DEF QueryStates
  <2>4. query' \in QueryStates
    <3> HIDE DEF q
    <3> QED
      BY <1>5, <2>2, <2>3, FinishFacts DEF CheckThumbnail, q
  <2>5. quiet' \in BOOLEAN
    BY <1>5 DEF CheckThumbnail
  <2>6. QED
    BY <1>0, <1>5, <2>4, <2>5 DEF CheckThumbnail
<1>6. CASE Update
  <2>1. query' \in QueryStates
    <3>1. [query EXCEPT !.failed = TRUE] \in QueryStates
      BY DEF QueryStates
    <3>2. QED
      BY <1>6, <3>1, FinishFacts DEF Update
  <2>2. content' \subseteq Things /\ seen' \subseteq Things
    BY <1>6 DEF Update, Things
  <2>3. QED
    BY <1>0, <1>6, <2>1, <2>2 DEF Update
<1>7. CASE LookAtJournal
  <2>1. query.count + 1 \in 0 .. LOOKS
    BY <1>7, LooksAssumption DEF LookAtJournal, AfterInv, QueryStates
  <2>2. query' \in QueryStates
    BY <1>7, <2>1 DEF LookAtJournal, QueryStates
  <2>3. QED
    BY <1>0, <1>7, <2>2 DEF LookAtJournal, OnlyTheQuery, history
<1>8. CASE Return
  BY <1>0, <1>8, IdleState DEF Return
<1>9. CASE BeginTransaction
  BY <1>0, <1>9 DEF BeginTransaction, history
<1>10. CASE EndTransaction
  <2>1. content' \subseteq Things
    BY <1>10 DEF EndTransaction, ContentBecomes, Things
  <2>2. seen' \subseteq Things /\ missed' \subseteq Things
    BY <1>10, <2>1 DEF EndTransaction, ContentBecomes
  <2>3. QED
    BY <1>0, <1>10, <2>1, <2>2 DEF EndTransaction
<1>11. ASSUME NEW thumbnail \in ThumbnailSet, ChangeThumbnail(thumbnail) PROVE TypeOK'
  <2>1. content' \subseteq Things
    BY <1>11, ThumbnailFacts DEF ChangeThumbnail, ContentBecomes
  <2>2. seen' \subseteq Things /\ missed' \subseteq Things
    BY <1>11, <2>1 DEF ChangeThumbnail, ContentBecomes
  <2>3. QED
    BY <1>0, <1>11, <2>1, <2>2 DEF ChangeThumbnail
<1>12. CASE UNCHANGED vars
  BY <1>0, <1>12 DEF vars
<1>13. QED
  BY <1>1, <1>2, <1>3, <1>4, <1>5, <1>6, <1>7, <1>8, <1>9, <1>10, <1>11, <1>12
     DEF Next, QueryStep, NickelStep

\* The query runs before and after each of its steps, and the histories only grow.
LEMMA QueryStepFacts ==
    ASSUME query \in QueryStates, QueryStep
    PROVE  /\ query.pc # "idle" /\ query'.pc # "idle"
           /\ seen \subseteq seen' /\ missed' = missed /\ UNCHANGED transaction
<1>1. CASE SqliteFails \/ OpenDb \/ LookAtJournal \/ CloseDb
  BY <1>1 DEF SqliteFails, OpenDb, LookAtJournal, CloseDb, OnlyTheQuery, history, QueryStates
<1>2. CASE SelectExists \/ SelectImageID \/ SelectTitle
  <2>1. ASSUME NEW pc, NEW q \in QueryStates, Select(pc, q), q.pc # "idle" PROVE query'.pc # "idle"
    BY <2>1, FinishFacts, FailedFacts DEF Select
  <2>2. ASSUME NEW pc \in {"image_id", "thumbnails", "update"}
        PROVE  [query EXCEPT !.pc = pc] \in QueryStates /\ [query EXCEPT !.pc = pc].pc # "idle"
    BY DEF QueryStates
  <2>3. Finish(query) \in QueryStates /\ Finish(query).pc # "idle"
    BY FinishFacts
  <2>4. query'.pc # "idle"
    BY <1>2, <2>1, <2>2, <2>3 DEF SelectExists, SelectImageID, SelectTitle
  <2>5. QED
    BY <1>2, <2>4 DEF SelectExists, SelectImageID, SelectTitle, Select, OnlyTheQuery, history
<1>3. CASE CheckThumbnail
  BY <1>3 DEF CheckThumbnail, Finish, LastStep, QueryStates
<1>4. CASE Update
  BY <1>4 DEF Update, Finish, LastStep, QueryStates
<1>5. QED
  BY <1>1, <1>2, <1>3, <1>4 DEF QueryStep

\* Nickel leaves the query alone, and the histories grow here too.
LEMMA NickelStepFacts ==
    ASSUME NickelStep
    PROVE  query' = query /\ seen \subseteq seen' /\ missed \subseteq missed'
  BY DEF NickelStep, BeginTransaction, EndTransaction, ChangeThumbnail, ContentBecomes, history

\* The histories know of the present after every step.
LEMMA HistoryNext == QueryInv /\ [Next]_vars => HistoryInv'
<1> SUFFICES ASSUME QueryInv, [Next]_vars PROVE HistoryInv'
  OBVIOUS
<1>0. UNCHANGED Things /\ HistoryInv
  BY NextKeepsDevice, DeviceStays DEF QueryInv
<1> USE DEF HistoryInv
<1>1. ASSUME NEW update \in BOOLEAN, NEW wait_for_db \in BOOLEAN, Call(update, wait_for_db)
      PROVE  HistoryInv'
  BY <1>0, <1>1 DEF Call
<1>2. CASE QueryStep
  <2>1. query.pc # "idle" /\ seen \subseteq seen' /\ missed' = missed
    BY <1>2, QueryStepFacts DEF QueryInv, TypeOK
  <2>2. content' = content \/ (Update /\ content' = content \cup {"title"} /\ seen' = seen \cup content')
    BY <1>2 DEF QueryStep, SqliteFails, OpenDb, SelectExists, SelectImageID, Select, CheckThumbnail,
                SelectTitle, Update, LookAtJournal, CloseDb, OnlyTheQuery
  <2>3. QED
    BY <1>0, <2>1, <2>2
<1>3. CASE Return
  BY <1>3, IdleState DEF Return
<1>4. CASE NickelStep
  BY <1>0, <1>4 DEF NickelStep, BeginTransaction, EndTransaction, ChangeThumbnail, ContentBecomes, history
<1>5. CASE UNCHANGED vars
  BY <1>0, <1>5 DEF vars
<1>6. QED
  BY <1>1, <1>2, <1>3, <1>4, <1>5 DEF Next

(* What the number of thumbnails found says.                               *)

\* A step that looks for no thumbnail takes nothing from what the number says.
LEMMA ThumbnailKept ==
    ASSUME QueryInv, UNCHANGED device,
           query'.thumbnail = query.thumbnail, query'.thumbnails_count = query.thumbnails_count,
           seen \subseteq seen', missed \subseteq missed',
           query'.pc \in {"open", "exists", "image_id"} => query.thumbnail = 1,
           query'.pc = "thumbnails" => ~LookedEnough(query)
    PROVE  ThumbnailInv'
<1>1. UNCHANGED <<IsV4, Thumbnails>>
  BY DeviceStays
<1>2. Looked' = Looked /\ LookedEnough(query)' = LookedEnough(query)
  BY <1>1 DEF Looked, LookedEnough
<1>3. QED
  BY <1>1, <1>2 DEF QueryInv, ThumbnailInv

\* A query that starts afresh has looked for nothing.
LEMMA ThumbnailReset ==
    ASSUME UNCHANGED device, query'.thumbnail = 1, query'.thumbnails_count = 0,
           query'.pc # "thumbnails"
    PROVE  ThumbnailInv'
<1>1. UNCHANGED <<IsV4, Thumbnails>>
  BY DeviceStays
<1>2. Looked' = {}
  BY DEF Looked
<1>3. QED
  BY <1>1, <1>2, ThumbnailFacts DEF ThumbnailInv

\* Looking for one more thumbnail, found or not.
LEMMA ThumbnailLooked ==
    ASSUME QueryInv, CheckThumbnail
    PROVE  ThumbnailInv'
<1>1. UNCHANGED <<device, IsV4, Thumbnails, content, seen, missed>>
  BY DeviceStays DEF CheckThumbnail
<1> DEFINE t == Thumbnails[query.thumbnail]
           here == t \in content
           q == [query EXCEPT !.thumbnail = @ + 1, !.thumbnails_count = IF here THEN @ + 1 ELSE @]
           n == query.thumbnail - 1
           c == query.thumbnails_count
<1>2. query.pc = "thumbnails" /\ query \in QueryStates
  BY DEF CheckThumbnail, QueryInv, TypeOK
<1>3. /\ query'.thumbnail = query.thumbnail + 1
      /\ query'.thumbnails_count = IF here THEN c + 1 ELSE c
      /\ query'.pc # "thumbnails" \/ ~LookedEnough(q)
      /\ query'.pc \notin {"open", "exists", "image_id"}
  BY <1>2, ZenonT(60) DEF CheckThumbnail, Finish, LastStep, QueryStates
<1>4. /\ n \in 0 .. 2 /\ c \in 0 .. n /\ n + 1 <= Len(Thumbnails)
      /\ query.thumbnail = n + 1 /\ ~IsV4 => c = 0
  BY <1>2, CountBounds DEF QueryStates
<1>5. Looked' = Looked \cup {t}
  <2>1. 1 .. query'.thumbnail - 1 = (1 .. query.thumbnail - 1) \cup {query.thumbnail}
    BY <1>3, <1>4
  <2>2. QED
    BY <1>1, <2>1 DEF Looked
<1>6. IF here THEN t \in seen ELSE t \in missed
  <2>1. t \in Things
    BY <1>4, ThumbnailFacts
  <2>2. QED
    BY <1>2, <2>1 DEF QueryInv, HistoryInv
<1>7. /\ IF c = n THEN Looked \subseteq seen ELSE Looked \cap missed # {}
      /\ IF c = 0 THEN Looked \subseteq missed ELSE Looked \cap seen # {}
  BY DEF QueryInv, ThumbnailInv
<1>8. query'.pc = "thumbnails" => ~LookedEnough(query)'
  <2>1. q.thumbnail = query'.thumbnail /\ q.thumbnails_count = query'.thumbnails_count
    BY <1>2, <1>3 DEF QueryStates
  <2>2. QED
    BY <1>1, <1>3, <2>1 DEF LookedEnough
<1>9. CASE here
  <2>1. query'.thumbnail - 1 = n + 1 /\ query'.thumbnails_count = c + 1
    BY <1>3, <1>4, <1>9
  <2>2. c + 1 # 0 /\ (c + 1 = n + 1 => c = n)
    BY <1>4
  <2>3. t \in seen'
    BY <1>1, <1>6, <1>9
  <2>4. IF c + 1 = n + 1 THEN Looked' \subseteq seen' ELSE Looked' \cap missed' # {}
    BY <1>1, <1>5, <1>7, <2>2, <2>3
  <2>5. IF c + 1 = 0 THEN Looked' \subseteq missed' ELSE Looked' \cap seen' # {}
    BY <1>5, <2>2, <2>3
  <2>6. n + 1 <= Len(Thumbnails') /\ c + 1 <= n + 1 /\ (~IsV4' => c + 1 <= 1)
    BY <1>1, <1>4
  <2>7. QED
    BY <1>3, <1>8, <2>1, <2>4, <2>5, <2>6 DEF ThumbnailInv
<1>10. CASE ~here
  BY <1>1, <1>3, <1>4, <1>5, <1>6, <1>7, <1>8, <1>10 DEF ThumbnailInv
<1>11. QED
  BY <1>9, <1>10

\* What a SELECT may do: find the row, miss it, or fail.
LEMMA SelectFacts ==
    ASSUME QueryInv, SelectExists \/ SelectImageID \/ SelectTitle
    PROVE  /\ query \in QueryStates /\ UNCHANGED <<device, content, transaction, seen, missed, quiet>>
           /\ query'.thumbnail = query.thumbnail /\ query'.thumbnails_count = query.thumbnails_count
           /\ query'.count = query.count /\ query'.is_processed = query.is_processed
           /\ query'.update = query.update /\ query'.wait_for_db = query.wait_for_db
           /\ query'.closed = query.closed
           /\ \/ query' = Finish(query) /\ "row" \in missed
              \/ query' = Finish([query EXCEPT !.failed = TRUE]) /\ query'.failed
              \/ SelectTitle /\ query' = Finish(query) /\ "title" \in seen
              \/ /\ "row" \in seen /\ query'.failed = query.failed
                 /\ \/ SelectExists /\ query'.pc = "image_id"
                    \/ SelectImageID /\ query'.pc = "thumbnails"
                    \/ SelectTitle /\ query'.pc = "update"
<1>1. query \in QueryStates /\ content \subseteq Things
  BY DEF QueryInv, TypeOK
<1>2. UNCHANGED <<device, content, transaction, seen, missed, quiet>>
  BY DEF SelectExists, SelectImageID, SelectTitle, Select, OnlyTheQuery, history
<1>3. /\ \A x \in Things : x \in content => x \in seen
      /\ \A x \in Things : x \notin content => x \in missed
      /\ "row" \in Things /\ "title" \in Things
  BY DEF QueryInv, HistoryInv, SelectExists, SelectImageID, SelectTitle, Select, Things
<1>4. ASSUME NEW pc, NEW q, Select(pc, q)
      PROVE  \/ query' = Finish(query) /\ "row" \in missed
             \/ query' = Finish([query EXCEPT !.failed = TRUE]) /\ query'.failed
             \/ query' = q /\ "row" \in seen
  BY <1>1, <1>3, <1>4, FailedFacts DEF Select
<1> DEFINE Named(q) == /\ q.thumbnail = query.thumbnail /\ q.thumbnails_count = query.thumbnails_count
                       /\ q.count = query.count /\ q.is_processed = query.is_processed
                       /\ q.update = query.update /\ q.wait_for_db = query.wait_for_db
                       /\ q.closed = query.closed
<1>5. ASSUME NEW pc \in {"image_id", "thumbnails", "update"}
      PROVE  LET q == [query EXCEPT !.pc = pc]
             IN  q.pc = pc /\ q.failed = query.failed /\ Named(q)
  BY <1>1 DEF QueryStates
<1>6. Named(Finish(query)) /\ Named(Finish([query EXCEPT !.failed = TRUE]))
  BY <1>1, FinishFacts, FailedFacts
<1> HIDE DEF Named
<1>7. \/ query' = Finish(query) /\ "row" \in missed
      \/ query' = Finish([query EXCEPT !.failed = TRUE]) /\ query'.failed
      \/ SelectTitle /\ query' = Finish(query) /\ "title" \in seen
      \/ SelectExists /\ query' = [query EXCEPT !.pc = "image_id"] /\ "row" \in seen
      \/ SelectImageID /\ query' = [query EXCEPT !.pc = "thumbnails"] /\ "row" \in seen
      \/ SelectTitle /\ query' = [query EXCEPT !.pc = "update"] /\ "row" \in seen
  BY <1>3, <1>4 DEF SelectExists, SelectImageID, SelectTitle
<1>8. Named(query')
  BY <1>5, <1>6, <1>7
<1>9. QED
  BY <1>1, <1>2, <1>5, <1>7, <1>8 DEF Named

\* What the number of thumbnails found says is right after every step.
LEMMA ThumbnailNext == QueryInv /\ [Next]_vars => ThumbnailInv'
<1> SUFFICES ASSUME QueryInv, [Next]_vars PROVE ThumbnailInv'
  OBVIOUS
<1>0. UNCHANGED device /\ query \in QueryStates
  BY NextKeepsDevice DEF QueryInv, TypeOK
<1>1. ASSUME NEW update \in BOOLEAN, NEW wait_for_db \in BOOLEAN, Call(update, wait_for_db)
      PROVE  ThumbnailInv'
  <2>1. query'.thumbnail = 1 /\ query'.thumbnails_count = 0 /\ query'.pc = "open"
    BY <1>1, IdleState DEF Call, Idle
  <2>2. QED
    BY <1>0, <2>1, ThumbnailReset
<1>2. CASE SqliteFails \/ OpenDb \/ LookAtJournal \/ CloseDb
  <2>1. /\ query'.thumbnail = query.thumbnail /\ query'.thumbnails_count = query.thumbnails_count
        /\ seen' = seen /\ missed' = missed
        /\ query'.pc # "thumbnails"
        /\ query'.pc \in {"open", "exists", "image_id"} => query.pc = "open"
    BY <1>0, <1>2 DEF SqliteFails, OpenDb, LookAtJournal, CloseDb, OnlyTheQuery, history, QueryStates
  <2>2. query.pc = "open" => query.thumbnail = 1
    BY <1>0 DEF QueryInv, ThumbnailInv, QueryStates
  <2>3. QED
    BY <1>0, <2>1, <2>2, ThumbnailKept
<1>3. CASE SelectExists \/ SelectImageID \/ SelectTitle
  <2>1. query.pc \in {"exists", "image_id"} => query.thumbnail = 1 /\ query.thumbnails_count = 0
    BY <1>0 DEF QueryInv, ThumbnailInv, QueryStates
  <2>2. query.pc = "image_id" => ~LookedEnough(query)
    BY <2>1, ThumbnailFacts DEF LookedEnough
  <2>3. /\ query'.pc \in {"open", "exists", "image_id"} => query.pc = "exists"
        /\ query'.pc = "thumbnails" => query.pc = "image_id"
    BY <1>3, SelectFacts, FinishFacts, FailedFacts DEF SelectExists, SelectImageID, Select
  <2>4. QED
    BY <1>0, <1>3, <2>1, <2>2, <2>3, SelectFacts, ThumbnailKept
<1>4. CASE CheckThumbnail
  BY <1>4, ThumbnailLooked
<1>5. CASE Update
  <2>1. \/ query' = Finish(query)
        \/ query' = Finish([query EXCEPT !.failed = TRUE])
    BY <1>5 DEF Update
  <2>2. seen \subseteq seen' /\ missed' = missed
    BY <1>5 DEF Update
  <2>3. QED
    BY <1>0, <2>1, <2>2, FinishFacts, FailedFacts, ThumbnailKept
<1>6. CASE Return
  BY <1>0, <1>6, ThumbnailReset DEF Return, Idle
<1>7. CASE NickelStep
  <2>1. /\ query.pc \in {"open", "exists", "image_id"} => query.thumbnail = 1
        /\ query.pc = "thumbnails" => ~LookedEnough(query)
    BY <1>0 DEF QueryInv, ThumbnailInv, QueryStates
  <2>2. QED
    BY <1>0, <1>7, <2>1, NickelStepFacts, ThumbnailKept
<1>8. CASE UNCHANGED vars
  <2>1. /\ query.pc \in {"open", "exists", "image_id"} => query.thumbnail = 1
        /\ query.pc = "thumbnails" => ~LookedEnough(query)
    BY <1>0 DEF QueryInv, ThumbnailInv, QueryStates
  <2>2. QED
    BY <1>0, <1>8, <2>1, ThumbnailKept DEF vars
<1>9. QED
  BY <1>1, <1>2, <1>3, <1>4, <1>5, <1>6, <1>7, <1>8 DEF Next, QueryStep

(* What the verdict rests on, and what is true once it is given.           *)

\* The look for the last thumbnail gives the verdict; any other goes on.
LEMMA CheckFacts ==
    ASSUME QueryInv, CheckThumbnail
    PROVE  /\ query \in QueryStates /\ query.pc = "thumbnails" /\ UNCHANGED <<device, transaction, seen, missed>>
           /\ query'.update = query.update /\ query'.wait_for_db = query.wait_for_db
           /\ query'.failed = query.failed /\ query'.count = query.count
           /\ query'.closed = query.closed
           /\ \/ /\ query'.pc = "thumbnails" /\ ~query'.is_processed /\ quiet' = quiet
              \/ /\ ~query'.is_processed /\ query'.pc = "close"
                 /\ LookedEnough(query)' /\ ~Greenlight(query)'
              \/ /\ query'.is_processed /\ Greenlight(query)' /\ quiet' = ~transaction
                 /\ query'.pc = IF query.update THEN "title"
                                 ELSE IF query.wait_for_db THEN "journal" ELSE "close"
<1> DEFINE here == Thumbnails[query.thumbnail] \in content
           q == [query EXCEPT !.thumbnail = @ + 1, !.thumbnails_count = IF here THEN @ + 1 ELSE @]
<1>1. query \in QueryStates /\ query.pc = "thumbnails" /\ ~query.is_processed
  BY DEF CheckThumbnail, QueryInv, TypeOK, VerdictInv
<1>2. UNCHANGED <<device, transaction, seen, missed, IsV4, Thumbnails>>
  BY DeviceStays DEF CheckThumbnail
<1>3. /\ q.update = query.update /\ q.wait_for_db = query.wait_for_db /\ q.failed = query.failed
      /\ q.count = query.count /\ q.closed = query.closed
      /\ q.pc = "thumbnails" /\ ~q.is_processed
  BY <1>1 DEF QueryStates
<1>4. q \in QueryStates
  <2>1. query.thumbnail + 1 \in 1 .. 4 /\ query.thumbnails_count + 1 \in 0 .. 3
    BY <1>1, CountBounds
  <2>2. (IF here THEN query.thumbnails_count + 1 ELSE query.thumbnails_count) \in 0 .. 3
    BY <1>1, <2>1 DEF QueryStates
  <2> HIDE DEF here
  <2>3. QED
    BY <1>1, <2>1, <2>2 DEF QueryStates
<1> HIDE DEF q
<1>5. \/ query' = q /\ quiet' = quiet
      \/ LookedEnough(q) /\ ~Greenlight(q) /\ query' = Finish(q)
      \/ /\ LookedEnough(q) /\ Greenlight(q) /\ quiet' = ~transaction
         /\ query' = IF q.update THEN [q EXCEPT !.is_processed = TRUE, !.pc = "title"]
                     ELSE Finish([q EXCEPT !.is_processed = TRUE])
  BY DEF CheckThumbnail, q
<1>6. ASSUME query'.thumbnail = q.thumbnail, query'.thumbnails_count = q.thumbnails_count
      PROVE  LookedEnough(query)' = LookedEnough(q) /\ Greenlight(query)' = Greenlight(q)
  BY <1>2, <1>6 DEF LookedEnough, Greenlight
<1>7. CASE query' = q /\ quiet' = quiet
  BY <1>1, <1>2, <1>3, <1>7
<1>8. CASE LookedEnough(q) /\ ~Greenlight(q) /\ query' = Finish(q)
  BY <1>1, <1>2, <1>3, <1>4, <1>6, <1>8, FinishFacts
<1>9. CASE /\ LookedEnough(q) /\ Greenlight(q) /\ quiet' = ~transaction
           /\ query' = IF q.update THEN [q EXCEPT !.is_processed = TRUE, !.pc = "title"]
                       ELSE Finish([q EXCEPT !.is_processed = TRUE])
  <2> DEFINE r == [q EXCEPT !.is_processed = TRUE]
  <2>1. /\ r \in QueryStates /\ r.is_processed
        /\ r.wait_for_db = q.wait_for_db /\ r.update = q.update
        /\ r.failed = q.failed /\ r.count = q.count /\ r.closed = q.closed
        /\ r.thumbnail = q.thumbnail /\ r.thumbnails_count = q.thumbnails_count
    BY <1>4 DEF QueryStates
  <2>2. CASE q.update
    <3>1. query' = [q EXCEPT !.is_processed = TRUE, !.pc = "title"]
      BY <1>9, <2>2
    <3>2. /\ query'.pc = "title" /\ query'.is_processed /\ query'.update = q.update
          /\ query'.wait_for_db = q.wait_for_db /\ query'.failed = q.failed /\ query'.count = q.count
          /\ query'.closed = q.closed
          /\ query'.thumbnail = q.thumbnail /\ query'.thumbnails_count = q.thumbnails_count
      BY <1>4, <3>1 DEF QueryStates
    <3>3. QED
      BY <1>1, <1>2, <1>3, <1>6, <1>9, <2>2, <3>2
  <2>3. CASE ~q.update
    <3>1. query' = Finish(r)
      BY <1>9, <2>3
    <3> HIDE DEF r
    <3>2. /\ query'.is_processed /\ query'.pc = IF q.wait_for_db THEN "journal" ELSE "close"
          /\ query'.update = q.update /\ query'.wait_for_db = q.wait_for_db
          /\ query'.failed = q.failed /\ query'.count = q.count /\ query'.closed = q.closed
          /\ query'.thumbnail = q.thumbnail /\ query'.thumbnails_count = q.thumbnails_count
      BY <2>1, <3>1, FinishFacts
    <3>3. QED
      BY <1>1, <1>2, <1>3, <1>6, <1>9, <2>3, <3>2
  <2>4. QED
    BY <2>2, <2>3
<1>10. QED
  BY <1>5, <1>7, <1>8, <1>9

\* What the verdict rests on is right after every step.
LEMMA VerdictNext == QueryInv /\ [Next]_vars => VerdictInv'
<1> SUFFICES ASSUME QueryInv, [Next]_vars PROVE VerdictInv'
  OBVIOUS
<1>0. UNCHANGED <<device, IsV4, Thumbnails>> /\ query \in QueryStates /\ VerdictInv
  BY NextKeepsDevice, DeviceStays DEF QueryInv, TypeOK
<1>a. ASSUME query'.thumbnail = query.thumbnail, query'.thumbnails_count = query.thumbnails_count
      PROVE  LookedEnough(query)' = LookedEnough(query) /\ Greenlight(query)' = Greenlight(query)
  BY <1>0, <1>a DEF LookedEnough, Greenlight
<1>1. ASSUME NEW update \in BOOLEAN, NEW wait_for_db \in BOOLEAN, Call(update, wait_for_db)
      PROVE  VerdictInv'
  <2>1. query'.pc = "open" /\ ~query'.is_processed
    BY <1>1, IdleState DEF Call, Idle
  <2>2. QED
    BY <2>1 DEF VerdictInv
<1>2. CASE SqliteFails
  <2>1. /\ query'.pc = "answered" /\ query'.failed /\ query'.is_processed = query.is_processed
        /\ query'.thumbnail = query.thumbnail /\ query'.thumbnails_count = query.thumbnails_count
        /\ UNCHANGED <<seen, missed>>
    BY <1>0, <1>2 DEF SqliteFails, OnlyTheQuery, history, QueryStates
  <2>2. QED
    BY <1>0, <1>a, <2>1 DEF VerdictInv
<1>3. CASE OpenDb \/ LookAtJournal \/ CloseDb
  <2>1. /\ query'.failed = query.failed /\ query'.is_processed = query.is_processed
        /\ query'.thumbnail = query.thumbnail /\ query'.thumbnails_count = query.thumbnails_count
        /\ UNCHANGED <<seen, missed>>
        /\ \/ query.pc = "open" /\ query'.pc = "exists"
           \/ query.pc = "journal" /\ query'.pc \in {"journal", "close"}
           \/ query.pc = "close" /\ query'.pc = "answered"
    BY <1>0, <1>3 DEF OpenDb, LookAtJournal, CloseDb, OnlyTheQuery, history, QueryStates
  <2>2. QED
    BY <1>0, <1>a, <2>1 DEF VerdictInv
<1>4. CASE SelectExists \/ SelectImageID \/ SelectTitle
  <2>1. /\ query.pc \in {"exists", "image_id"} => ~query.is_processed
        /\ query.pc = "title" => query.is_processed
        /\ query.is_processed => "row" \in seen /\ Greenlight(query)
        /\ SelectExists => query.pc = "exists"
        /\ SelectImageID => query.pc = "image_id"
        /\ SelectTitle => query.pc = "title"
    BY <1>0 DEF VerdictInv, SelectExists, SelectImageID, SelectTitle, Select
  <2>2. Greenlight(query)' = Greenlight(query)
    BY <1>4, <1>a, SelectFacts
  <2>3. CASE query' = Finish(query) \/ query' = Finish([query EXCEPT !.failed = TRUE])
    <3>1. query'.pc = IF query.is_processed /\ query.wait_for_db THEN "journal" ELSE "close"
      BY <1>0, <2>3, FinishFacts, FailedFacts
    <3>2. ~query.is_processed => query'.failed \/ "row" \in missed
      BY <1>4, <2>1, <3>1, SelectFacts
    <3>3. QED
      BY <1>4, <2>1, <2>2, <3>1, <3>2, SelectFacts DEF VerdictInv
  <2>4. CASE /\ "row" \in seen
             /\ \/ SelectExists /\ query'.pc = "image_id"
                \/ SelectImageID /\ query'.pc = "thumbnails"
                \/ SelectTitle /\ query'.pc = "update"
    BY <1>4, <2>1, <2>2, <2>4, SelectFacts DEF VerdictInv
  <2>5. QED
    BY <1>4, <2>3, <2>4, SelectFacts
<1>5. CASE CheckThumbnail
  <2>1. "row" \in seen
    BY <1>0, <1>5, CheckFacts DEF VerdictInv
  <2>2. QED
    BY <1>5, <2>1, CheckFacts DEF VerdictInv
<1>6. CASE Update
  <2>1. /\ query.pc = "update" /\ seen \subseteq seen'
        /\ query' = Finish(query) \/ query' = Finish([query EXCEPT !.failed = TRUE])
    BY <1>6 DEF Update
  <2>2. /\ query'.pc \in {"journal", "close"} /\ query'.is_processed = query.is_processed
        /\ query'.thumbnail = query.thumbnail /\ query'.thumbnails_count = query.thumbnails_count
    BY <1>0, <2>1, FinishFacts, FailedFacts
  <2>3. QED
    BY <1>0, <1>a, <2>1, <2>2 DEF VerdictInv
<1>7. CASE Return
  BY <1>7, IdleState DEF Return, VerdictInv
<1>8. CASE NickelStep
  BY <1>0, <1>8, <1>a, NickelStepFacts DEF VerdictInv
<1>9. CASE UNCHANGED vars
  BY <1>0, <1>9, <1>a DEF vars, VerdictInv
<1>10. QED
  BY <1>1, <1>2, <1>3, <1>4, <1>5, <1>6, <1>7, <1>8, <1>9 DEF Next, QueryStep

\* What is true once the verdict is given stays true until the answer.
LEMMA AfterNext == QueryInv /\ [Next]_vars => AfterInv'
<1> SUFFICES ASSUME QueryInv, [Next]_vars PROVE AfterInv'
  OBVIOUS
<1>0. UNCHANGED device /\ query \in QueryStates /\ AfterInv /\ VerdictInv /\ LOOKS \in Nat \ {0}
  BY NextKeepsDevice, LooksAssumption DEF QueryInv, TypeOK
<1>1. ASSUME NEW update \in BOOLEAN, NEW wait_for_db \in BOOLEAN, Call(update, wait_for_db)
      PROVE  AfterInv'
  <2>1. query'.pc = "open" /\ ~query'.is_processed /\ query'.count = 0 /\ ~query'.closed
    BY <1>1, IdleState DEF Call, Idle
  <2>2. QED
    BY <2>1 DEF AfterInv
<1>2. CASE SqliteFails
  <2>1. /\ query'.pc = "answered" /\ query'.failed /\ query'.is_processed = query.is_processed
        /\ query'.closed = query.closed /\ query.pc # "answered"
        /\ UNCHANGED <<transaction, quiet>>
    BY <1>0, <1>2 DEF SqliteFails, OnlyTheQuery, history, QueryStates
  <2>2. QED
    BY <1>0, <2>1 DEF AfterInv
<1>3. CASE OpenDb \/ CloseDb
  <2>1. /\ query'.failed = query.failed /\ query'.is_processed = query.is_processed
        /\ query'.update = query.update /\ query'.wait_for_db = query.wait_for_db
        /\ query'.count = query.count
        /\ UNCHANGED <<transaction, seen, missed, quiet>>
        /\ \/ query.pc = "open" /\ query'.pc = "exists" /\ query'.closed = query.closed
           \/ query.pc = "close" /\ query'.pc = "answered" /\ query'.closed
    BY <1>0, <1>3 DEF OpenDb, CloseDb, OnlyTheQuery, history, QueryStates
  <2>2. QED
    BY <1>0, <2>1 DEF AfterInv, VerdictInv
<1>4. CASE LookAtJournal
  <2>1. /\ query'.failed = query.failed /\ query'.is_processed = query.is_processed
        /\ query'.update = query.update /\ query'.wait_for_db = query.wait_for_db
        /\ query'.closed = query.closed
        /\ UNCHANGED <<transaction, seen, missed, quiet>>
        /\ query.pc = "journal" /\ query.count \in 0 .. LOOKS
        /\ \/ ~Journal /\ query'.pc = "close" /\ query'.count = query.count
           \/ query'.pc = "close" /\ query'.count = query.count + 1 /\ query.count + 1 >= LOOKS
           \/ query'.pc = "journal" /\ query'.count = query.count + 1 /\ ~(query.count + 1 >= LOOKS)
    BY <1>0, <1>4 DEF LookAtJournal, OnlyTheQuery, history, QueryStates
  <2>2. query.is_processed /\ query.count < LOOKS /\ (quiet \/ transaction)
    BY <1>0, <2>1 DEF AfterInv, VerdictInv
  <2>3. query'.pc = "close" /\ ~device.wal => quiet' \/ query'.count = LOOKS
    BY <1>0, <2>1, <2>2 DEF Journal
  <2>4. query'.pc = "journal" => query'.count < LOOKS
    BY <1>0, <2>1, <2>2
  <2>5. QED
    BY <1>0, <2>1, <2>2, <2>3, <2>4 DEF AfterInv
<1>5. CASE SelectExists \/ SelectImageID \/ SelectTitle
  <2>1. /\ query.count = 0 /\ query'.count = 0 /\ UNCHANGED <<transaction, seen, missed, quiet>>
        /\ query'.is_processed = query.is_processed /\ query'.update = query.update
        /\ query'.wait_for_db = query.wait_for_db /\ query'.closed = query.closed
        /\ query.pc # "answered"
        /\ query.is_processed => quiet \/ transaction
    BY <1>0, <1>5, SelectFacts DEF AfterInv, SelectExists, SelectImageID, SelectTitle, Select
  <2>2. CASE query' = Finish(query) \/ query' = Finish([query EXCEPT !.failed = TRUE])
    <3>1. query'.pc = IF query.is_processed /\ query.wait_for_db THEN "journal" ELSE "close"
      BY <1>0, <2>2, FinishFacts, FailedFacts
    <3>2. query'.is_processed => query'.failed \/ "title" \in seen \/ "row" \in missed
      <4>1. SelectTitle \/ ~query.is_processed
        BY <1>0, <1>5 DEF VerdictInv, SelectExists, SelectImageID, Select
      <4>2. QED
        BY <1>5, <2>1, <3>1, <4>1, SelectFacts
    <3>3. QED
      BY <1>0, <2>1, <3>1, <3>2 DEF AfterInv
  <2>3. CASE query'.pc \in {"image_id", "thumbnails", "update"}
    BY <1>0, <2>1, <2>3 DEF AfterInv
  <2>4. QED
    BY <1>5, <2>2, <2>3, SelectFacts
<1>6. CASE CheckThumbnail
  <2>1. query.count = 0
    BY <1>0, <1>6, CheckFacts DEF AfterInv
  <2>2. ~query.is_processed
    BY <1>0, <1>6, CheckFacts DEF VerdictInv
  <2>3. QED
    <3>1. /\ query'.count = 0 /\ query'.update = query.update /\ query'.wait_for_db = query.wait_for_db
          /\ query'.pc # "answered" /\ ~query'.closed
          /\ query'.is_processed => /\ quiet' \/ transaction'
                                    /\ query'.pc = "title" \/ ~query.update
                                    /\ query'.pc = "close" => ~query.wait_for_db
      BY <1>0, <1>6, <2>1, CheckFacts DEF AfterInv
    <3>2. query'.pc = "journal" => query'.is_processed
      BY <1>6, CheckFacts
    <3>3. QED
      BY <1>0, <3>1, <3>2 DEF AfterInv
<1>7. CASE Update
  <2>1. /\ query.pc = "update" /\ query.count = 0 /\ query.is_processed /\ ~query.closed
        /\ quiet \/ transaction
        /\ UNCHANGED <<transaction, quiet, missed>>
    BY <1>0, <1>7 DEF Update, AfterInv, VerdictInv
  <2>2. /\ query' = Finish(query) \/ query' = Finish([query EXCEPT !.failed = TRUE])
        /\ query' = Finish(query) => "title" \in seen' \/ "row" \in missed \/ query'.failed
    <3>1. "row" \notin content => "row" \in missed
      BY <2>1 DEF QueryInv, HistoryInv, Things
    <3>2. ASSUME query' = Finish([query EXCEPT !.failed = TRUE]) PROVE query'.failed
      BY <1>0, <3>2, FailedFacts
    <3>3. QED
      BY <1>7, <3>1, <3>2 DEF Update
  <2>3. /\ query'.is_processed = query.is_processed /\ query'.count = query.count
        /\ query'.update = query.update /\ query'.wait_for_db = query.wait_for_db
        /\ ~query'.closed
        /\ query'.pc = IF query.wait_for_db THEN "journal" ELSE "close"
        /\ query'.failed \/ "title" \in seen' \/ "row" \in missed
    <3>1. CASE query' = Finish(query)
      BY <1>0, <2>1, <2>2, <3>1, FinishFacts
    <3>2. CASE query' = Finish([query EXCEPT !.failed = TRUE])
      BY <1>0, <2>1, <3>2, FailedFacts, ZenonT(60)
    <3>3. QED
      BY <2>2, <3>1, <3>2
  <2>4. QED
    BY <1>0, <2>1, <2>3 DEF AfterInv
<1>8. CASE Return
  BY <1>8, IdleState DEF Return, AfterInv, Idle
<1>9. CASE NickelStep
  <2>1. query' = query /\ seen \subseteq seen' /\ missed \subseteq missed'
    BY <1>9, NickelStepFacts
  <2>2. query.is_processed => quiet' \/ transaction'
    <3>1. CASE BeginTransaction
      BY <1>0, <3>1 DEF BeginTransaction, AfterInv, history
    <3>2. CASE EndTransaction
      BY <1>0, <3>2 DEF EndTransaction, VerdictInv
    <3>3. CASE \E thumbnail \in ThumbnailSet : ChangeThumbnail(thumbnail)
      BY <1>0, <3>3 DEF ChangeThumbnail, AfterInv
    <3>4. QED
      BY <1>9, <3>1, <3>2, <3>3 DEF NickelStep
  <2>3. query.is_processed => (quiet => quiet')
    BY <1>0, <1>9 DEF NickelStep, BeginTransaction, EndTransaction, ChangeThumbnail, VerdictInv, history
  <2>4. QED
    BY <1>0, <2>1, <2>2, <2>3 DEF AfterInv
<1>10. CASE UNCHANGED vars
  BY <1>0, <1>10 DEF vars, AfterInv
<1>11. QED
  BY <1>1, <1>2, <1>3, <1>4, <1>5, <1>6, <1>7, <1>8, <1>9, <1>10 DEF Next, QueryStep

LEMMA QueryInvNext == QueryInv /\ [Next]_vars => QueryInv'
  BY TypeNext, HistoryNext, ThumbnailNext, VerdictNext, AfterNext DEF QueryInv

LEMMA QueryInvariant == Spec => []QueryInv
  BY QueryInvInit, QueryInvNext, PTL DEF Spec

(* The theorems.                                                           *)

\* No query is ever outside its types: it counts no fourth file, looks at the
\* journal no LOOKS + 1st time and finds nothing that there cannot be.
THEOREM TypesOfTheQuery == Spec => []TypeOK
<1>1. QueryInv => TypeOK
  BY DEF QueryInv
<1>2. QED
  BY <1>1, QueryInvariant, PTL

\* An icon passes for processed only if its row and the thumbnails it needs were all
\* there at some moment of the query, whatever Nickel did in between.
THEOREM ProcessedIsTrue == Spec => []TrueAnswers
<1>1. QueryInv => TrueAnswers
  <2> SUFFICES ASSUME QueryInv, Answered, query.is_processed
               PROVE  /\ "row" \in seen
                      /\ IF IsV4 THEN ThumbnailSet \subseteq seen ELSE ThumbnailSet \cap seen # {}
    BY DEF TrueAnswers
  <2>1. "row" \in seen /\ Greenlight(query)
    BY DEF QueryInv, VerdictInv
  <2>2. /\ query.thumbnail \in 1 .. 4 /\ query.thumbnail - 1 <= Len(Thumbnails)
        /\ query.thumbnails_count <= query.thumbnail - 1
    BY DEF QueryInv, TypeOK, QueryStates, ThumbnailInv
  <2>3. CASE IsV4
    <3>1. query.thumbnails_count = 3 /\ query.thumbnail - 1 = 3 /\ Len(Thumbnails) = 3
      BY <2>1, <2>2, <2>3, ThumbnailFacts DEF Greenlight
    <3>2. Looked = ThumbnailSet
      BY <3>1, ThumbnailFacts DEF Looked
    <3>3. QED
      BY <2>1, <2>3, <3>1, <3>2 DEF QueryInv, ThumbnailInv
  <2>4. CASE ~IsV4
    <3>1. query.thumbnails_count = 1
      BY <2>1, <2>4 DEF Greenlight
    <3>2. Looked \subseteq ThumbnailSet
      BY <2>2, ThumbnailFacts DEF Looked
    <3>3. QED
      BY <2>1, <2>4, <3>1, <3>2 DEF QueryInv, ThumbnailInv
  <2>5. QED
    BY <2>3, <2>4
<1>2. QED
  BY <1>1, QueryInvariant, PTL

\* An icon is refused only if something of it was missing, or the database failed.
THEOREM UnprocessedIsTrue == Spec => []FalseAnswers
<1>1. QueryInv => FalseAnswers
  <2> SUFFICES ASSUME QueryInv, Answered, ~query.is_processed, ~query.failed, "row" \notin missed
               PROVE  IF IsV4 THEN ThumbnailSet \cap missed # {} ELSE ThumbnailSet \subseteq missed
    BY DEF FalseAnswers
  <2>1. LookedEnough(query) /\ ~Greenlight(query)
    BY DEF QueryInv, VerdictInv, Answered
  <2>2. /\ query.thumbnail \in 1 .. 4 /\ query.thumbnail - 1 <= Len(Thumbnails)
        /\ query.thumbnails_count \in 0 .. 3
        /\ query.thumbnails_count <= query.thumbnail - 1 /\ (~IsV4 => query.thumbnails_count <= 1)
    BY DEF QueryInv, TypeOK, QueryStates, ThumbnailInv
  <2>3. query.thumbnail - 1 = Len(Thumbnails)
    BY <2>1, <2>2, ThumbnailFacts DEF LookedEnough, Greenlight
  <2>4. Looked = ThumbnailSet
    BY <2>3, ThumbnailFacts DEF Looked
  <2>5. CASE IsV4
    <3>1. query.thumbnails_count # query.thumbnail - 1
      BY <2>1, <2>3, <2>5, ThumbnailFacts DEF Greenlight
    <3>2. QED
      BY <2>4, <2>5, <3>1 DEF QueryInv, ThumbnailInv
  <2>6. CASE ~IsV4
    <3>1. query.thumbnails_count = 0
      BY <2>1, <2>2, <2>6 DEF Greenlight
    <3>2. QED
      BY <2>4, <2>6, <3>1 DEF QueryInv, ThumbnailInv
  <2>7. QED
    BY <2>5, <2>6
<1>2. QED
  BY <1>1, QueryInvariant, PTL

\* Where the database has a rollback journal, a query on IN_CLOSE that gets as far as to
\* close it lets an icon pass only after a moment without a transaction of Nickel's, or
\* after LOOKS looks at the journal, whether or not the title was read and written.
THEOREM PendingChangesAwaited == Spec => []CommitAwaited
<1>1. QueryInv => CommitAwaited
  BY DEF QueryInv, AfterInv, CommitAwaited, Answered
<1>2. QED
  BY <1>1, QueryInvariant, PTL

\* The title is set before a processed icon passes, unless the icon went away.
THEOREM TitleSetInTime == Spec => []TitleIsSet
<1>1. QueryInv => TitleIsSet
  BY DEF QueryInv, AfterInv, TitleIsSet, Answered
<1>2. QED
  BY <1>1, QueryInvariant, PTL
=============================================================================
