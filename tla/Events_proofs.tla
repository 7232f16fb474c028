---------------------------- MODULE Events_proofs ----------------------------
(***************************************************************************)
(* Theorems about Events, for any number of slots and any environment.     *)
(*                                                                         *)
(* IInv holds whatever happens; OrderlyInv in the environments in which    *)
(* KFMon keeps up with what happens and nothing is lost.                   *)
(***************************************************************************)
EXTENDS Events, FiniteSetTheorems, WellFoundedInduction, TLAPS

\* Active slots share no descriptor; the others have none.
DescriptorsDistinct ==
    /\ \A v, w \in Active : inotify_wd[v] = inotify_wd[w] /\ inotify_wd[v] # NoWd => v = w
    /\ \A w \in Slots \ Active : inotify_wd[w] = NoWd

\* The slot an open or a close is about still has the descriptor in the event.
Matches(e) ==
    e.mask \in {"open", "close"} =>
        e.slot \in Active /\ e.wd # NoWd /\ inotify_wd[e.slot] = e.wd

\* What is queued matches, unless it will be thrown away at the end of the batch.
EventsMatch ==
    /\ \A n \in 1 .. Len(main.buf) : Matches(main.buf[n])
    /\ main.destroyed_wd \/ \A n \in 1 .. Len(queue) : Matches(queue[n])

\* Only an overflow comes after queue_max events, and nothing comes after it.
OverflowComesLast(q) ==
    \A n \in 1 .. Len(q) : /\ q[n] = Overflow <=> n = env.queue_max + 1
                           /\ q[n].mask = "overflow" => q[n] = Overflow

QueuesEnd ==
    /\ OverflowComesLast(queue)
    /\ \A n \in 1 .. Len(main.buf) : main.buf[n].mask = "overflow" => n = Len(main.buf)

\* A batch that destroyed a watch ends in a rebuild, and flags are raised by such a
\* batch only.
FlagsInv ==
    /\ main.destroyed_wd => main.pc \in {"event", "open", "close"}
    /\ ~main.destroyed_wd => \A w \in Active : ~wd_was_destroyed[w]
    /\ main.pc = "reinit" => queue = <<>> /\ main.buf = <<>>

\* A batch has at least one event while one is being handled.
HasEvent == main.pc \in {"open", "close"} => main.buf # <<>>

IInv ==
    /\ TypeOK
    /\ HasEvent
    /\ DescriptorsDistinct
    /\ EventsMatch
    /\ QueuesEnd
    /\ FlagsInv

-----------------------------------------------------------------------------
(* Facts about natural numbers, the environment and slots.                 *)

LEMMA NatHasLeast ==
    ASSUME NEW S \in SUBSET Nat, S # {}
    PROVE  \E m \in S : \A k \in S : m <= k
<1>1. IsWellFoundedOn(OpToRel(<, Nat), Nat)
  BY NatLessThanWellFounded
<1>2. PICK m \in S : \A k \in S : ~(<<k, m>> \in OpToRel(<, Nat))
  BY <1>1, WFMin
<1>3. \A k \in S : ~(k < m)
  BY <1>2 DEF OpToRel
<1>4. QED
  BY <1>3

LEMMA SlotFacts ==
    /\ WATCH_MAX \in Nat /\ WATCH_MAX > 0
    /\ \A w \in Active : w \in Slots
    /\ \A w \in Slots : w \in Nat /\ w <= WATCH_MAX - 1
    /\ WATCH_MAX - 1 \in Slots /\ 0 \in Slots
  BY SizesAssumption, ActiveAssumption DEF Slots

LEMMA EnvFacts ==
    ASSUME TypeOK
    PROVE  /\ env.window \in Nat /\ env.window > 0
           /\ env.queue_max \in Nat /\ env.queue_max > 0
           /\ env.readers \subseteq {"nickel", "extra", "user"}
  BY EnvironmentsAssumption DEF TypeOK

\* Nobody changes the environment.
LEMMA EnvConstant ==
    ASSUME [Next]_vars
    PROVE  env' = env /\ Events' = Events /\ Icons' = Icons /\ Ages' = Ages
<1>1. env' = env
  BY DEF Next, Handling, vars, watch, world, Read, ReadNothing, TakeOpen, QueryOnOpen, TakeClose,
     QueryOnClose, TakeUnmount, TakeIgnored, TakeOverflow, EndBatch, Reinit, OpenIcon, StoreIcon,
     CloseIcon, DeleteIcon, RestoreIcon, ProgramEnds, Unmount, ToggleInhibition, Tick
<1>2. QED
  BY <1>1 DEF Events, Icons, Ages, Anyone, WINDOW

\* An event is matched to a slot, to one with its descriptor if there is any.
LEMMA MatchedSlotFacts ==
    ASSUME NEW e
    PROVE  /\ MatchedSlot(e) \in Slots
           /\ \A w \in Active : inotify_wd[w] = e.wd =>
                 MatchedSlot(e) \in Active /\ inotify_wd[MatchedSlot(e)] = e.wd
<1> DEFINE candidates == {w \in Active : inotify_wd[w] = e.wd}
<1>1. CASE candidates = {}
  BY <1>1, SlotFacts DEF MatchedSlot
<1>2. CASE candidates # {}
  <2>1. candidates \subseteq Nat
    BY SlotFacts
  <2>2. \E w \in candidates : \A v \in candidates : w <= v
    BY <1>2, <2>1, NatHasLeast
  <2>3. MatchedSlot(e) = CHOOSE w \in candidates : \A v \in candidates : w <= v
    BY <1>2 DEF MatchedSlot
  <2>4. MatchedSlot(e) \in candidates
    BY <2>2, <2>3
  <2>5. QED
    BY <2>4, SlotFacts
<1>3. QED
  BY <1>1, <1>2

\* An event that matches is matched to the slot it is about.
LEMMA MatchedRight ==
    ASSUME DescriptorsDistinct, NEW e, Matches(e), e.mask \in {"open", "close"}
    PROVE  MatchedSlot(e) = e.slot
  BY MatchedSlotFacts DEF Matches, DescriptorsDistinct

\* inotify_add_watch gives an existing icon of an active slot a descriptor of its own.
LEMMA WatchedWdFacts ==
    ASSUME NEW w \in Slots
    PROVE  /\ WatchedWd(w) \in Wds \cup {NoWd}
           /\ WatchedWd(w) # NoWd <=> w \in Active /\ Exists(w)
           /\ \A v \in Slots : WatchedWd(v) = WatchedWd(w) /\ WatchedWd(v) # NoWd => v = w
<1> DEFINE upTo(x) == {v \in Active : v <= x /\ Exists(v)}
<1>1. IsFiniteSet(Slots) /\ Cardinality(Slots) = WATCH_MAX
  BY SlotFacts, FS_Interval DEF Slots
<1>2. ASSUME NEW x \in Active, Exists(x)
      PROVE  /\ IsFiniteSet(upTo(x)) /\ Cardinality(upTo(x)) \in Nat
             /\ Cardinality(upTo(x)) <= WATCH_MAX /\ Cardinality(upTo(x)) >= 1
             /\ WatchedWd(x) = Cardinality(upTo(x))
  <2>1. upTo(x) \in SUBSET Slots /\ x \in upTo(x)
    BY <1>2, SlotFacts
  <2>2. IsFiniteSet(upTo(x)) /\ Cardinality(upTo(x)) <= WATCH_MAX /\ Cardinality(upTo(x)) \in Nat
    BY <1>1, <2>1, FS_Subset, FS_CardinalityType
  <2>3. Cardinality(upTo(x)) # 0
    BY <2>1, <2>2, FS_EmptySet
  <2>4. WatchedWd(x) = Cardinality(upTo(x))
    BY <1>2 DEF WatchedWd
  <2>5. QED
    BY <2>2, <2>3, <2>4
<1>3. ASSUME NEW x \in Active, NEW y \in Active, Exists(x), Exists(y), x < y
      PROVE  WatchedWd(x) # WatchedWd(y)
  <2>1. upTo(x) \in SUBSET upTo(y) /\ y \in upTo(y) /\ y \notin upTo(x)
    BY <1>3, SlotFacts
  <2>2. Cardinality(upTo(x)) # Cardinality(upTo(y))
    BY <1>2, <1>3, <2>1, FS_Subset
  <2>3. QED
    BY <1>2, <1>3, <2>2
<1>4. \A x \in Slots : ~(x \in Active /\ Exists(x)) => WatchedWd(x) = NoWd
  BY DEF WatchedWd
<1>5. ASSUME NEW x \in Active, Exists(x) PROVE WatchedWd(x) \in Wds /\ WatchedWd(x) # NoWd
  <2> DEFINE n == Cardinality(upTo(x))
  <2>1. n \in Nat /\ n <= WATCH_MAX /\ n >= 1 /\ WatchedWd(x) = n
    BY <1>2, <1>5
  <2> HIDE DEF n
  <2>2. QED
    BY <2>1, SlotFacts DEF Wds, NoWd
<1>6. ASSUME NEW v \in Slots, WatchedWd(v) = WatchedWd(w), WatchedWd(v) # NoWd PROVE v = w
  <2>1. v \in Active /\ Exists(v) /\ w \in Active /\ Exists(w)
    BY <1>4, <1>6
  <2>2. v < w \/ w < v \/ v = w
    BY SlotFacts
  <2>3. QED
    BY <1>3, <1>6, <2>1, <2>2
<1>7. QED
  BY <1>4, <1>5, <1>6

-----------------------------------------------------------------------------
(* The queue.                                                              *)

LEMMA OverflowType == Overflow \in Events /\ Overflow.mask = "overflow"
  BY SlotFacts DEF Overflow, Events, Anyone

\* An event is appended, merged or lost; the queue is never longer than one event
\* past its limit.
LEMMA QueuedFacts ==
    ASSUME env.queue_max \in Nat, NEW q \in Seq(Events), Len(q) <= env.queue_max + 1,
           OverflowComesLast(q), NEW e \in Events, e.mask # "overflow"
    PROVE  LET r == Queued(q, e) IN
           /\ r \in Seq(Events) /\ Len(r) <= env.queue_max + 1
           /\ OverflowComesLast(r)
           /\ \A n \in 1 .. Len(r) : \/ r[n] = e \/ r[n] = Overflow
                                     \/ \E m \in 1 .. Len(q) : r[n] = q[m]
<1> DEFINE r == Queued(q, e)
           len == Len(q)
           limit == env.queue_max
<1>0. len \in Nat /\ limit \in Nat /\ len <= limit + 1
  OBVIOUS
<1>1. CASE r = q
  BY <1>1
<1>2. CASE len < limit /\ r = Append(q, e)
  <2>1. r \in Seq(Events) /\ Len(r) = len + 1 /\ r[len + 1] = e
        /\ \A n \in 1 .. len : r[n] = q[n]
    BY <1>2
  <2> HIDE DEF r, len, limit
  <2>2. \A n \in 1 .. Len(r) : n = len + 1 \/ n \in 1 .. len
    BY <1>0, <2>1
  <2>3. e # Overflow
    BY OverflowType
  <2>4. \A n \in 1 .. Len(r) : n # limit + 1
    BY <1>0, <1>2, <2>1
  <2>5. \A n \in 1 .. len : q[n] # Overflow /\ q[n].mask # "overflow"
    BY <1>0, <1>2 DEF OverflowComesLast, len, limit
  <2>6. OverflowComesLast(r)
    BY <2>1, <2>2, <2>3, <2>4, <2>5 DEF OverflowComesLast, limit
  <2>7. Len(r) <= limit + 1
    BY <1>0, <1>2, <2>1
  <2>8. QED
    BY <2>1, <2>2, <2>6, <2>7 DEF r, len, limit
<1>3. CASE ~(len < limit) /\ (\A n \in 1 .. len : q[n] # Overflow) /\ r = Append(q, Overflow)
  <2>1. r \in Seq(Events) /\ Len(r) = len + 1 /\ r[len + 1] = Overflow
        /\ \A n \in 1 .. len : r[n] = q[n]
    BY <1>3, OverflowType
  <2>2. len # limit + 1
    BY <1>0, <1>3 DEF OverflowComesLast
  <2> HIDE DEF r, len, limit
  <2>3. len = limit
    BY <1>0, <1>3, <2>2
  <2>4. \A n \in 1 .. Len(r) : (n = len + 1 /\ n = limit + 1) \/ (n \in 1 .. len /\ n # limit + 1)
    BY <1>0, <2>1, <2>3
  <2>5. \A n \in 1 .. len : q[n].mask # "overflow"
    BY <1>3 DEF OverflowComesLast, len
  <2>6. OverflowComesLast(r)
    BY <1>3, <2>1, <2>4, <2>5 DEF OverflowComesLast, limit
  <2>7. Len(r) <= limit + 1
    BY <1>0, <2>1, <2>3
  <2>8. QED
    BY <2>1, <2>4, <2>6, <2>7 DEF r, len, limit
<1>4. QED
  BY <1>1, <1>2, <1>3 DEF Queued

\* What a notification does to the queue.
LEMMA NotifyFacts ==
    ASSUME TypeOK, OverflowComesLast(queue), env' = env,
           NEW w \in Slots, NEW mask \in {"open", "close", "ignored", "unmount"}, NEW reader \in Anyone,
           Notify(w, mask, reader)
    PROVE  /\ queue' \in Seq(Events) /\ Len(queue') <= env.queue_max + 1
           /\ OverflowComesLast(queue')
           /\ \A n \in 1 .. Len(queue') :
                 \/ queue'[n] = Overflow
                 \/ queue'[n] = EventFor(w, mask, reader) /\ inotify_wd[w] # NoWd
                 \/ \E m \in 1 .. Len(queue) : queue'[n] = queue[m]
           /\ main.pc = "reinit" => queue' = queue
<1>1. EventFor(w, mask, reader) \in Events /\ EventFor(w, mask, reader).mask # "overflow"
  BY DEF EventFor, Events, TypeOK
<1>2. queue \in Seq(Events) /\ Len(queue) <= env.queue_max + 1
  BY DEF TypeOK
<1>3. CASE IsWatched(w)
  <2>1. queue' = Queued(queue, EventFor(w, mask, reader)) /\ inotify_wd[w] # NoWd /\ main.pc # "reinit"
    BY <1>3 DEF Notify, IsWatched
  <2>2. QED
    BY <1>1, <1>2, <2>1, EnvFacts, QueuedFacts
<1>4. CASE ~IsWatched(w)
  BY <1>2, <1>4 DEF Notify
<1>5. QED
  BY <1>3, <1>4

\* An unmount queues removals only, and no more than fit.
LEMMA UnmountFacts ==
    ASSUME TypeOK, NEW announced \in BOOLEAN, Unmount(announced)
    PROVE  /\ queue' \in Seq(Events) /\ Len(queue') <= env.queue_max
           /\ \A n \in 1 .. Len(queue') : queue'[n].mask \in {"unmount", "ignored"}
<1> DEFINE gone == {w \in Active : IsWatched(w)}
           many == Cardinality(gone)
           masks == IF announced THEN <<"unmount", "ignored">> ELSE <<"ignored">>
           size == Len(masks) * many
<1>1. gone \subseteq Slots
  BY SlotFacts
<1>2. IsFiniteSet(Slots)
  BY SlotFacts, FS_Interval DEF Slots
<1>3. many \in Nat
  BY <1>1, <1>2, FS_Subset, FS_CardinalityType
<1>4. PICK order \in [1 .. many -> gone] :
        /\ size <= env.queue_max
        /\ queue' = [n \in 1 .. size |->
                       EventFor(order[1 + ((n - 1) \div Len(masks))],
                                masks[1 + ((n - 1) % Len(masks))], "nobody")]
  BY DEF Unmount
<1>5. /\ size \in Nat
      /\ \A n \in 1 .. size : /\ 1 + ((n - 1) \div Len(masks)) \in 1 .. many
                              /\ 1 + ((n - 1) % Len(masks)) \in 1 .. Len(masks)
      /\ \A k \in 1 .. Len(masks) : masks[k] \in {"unmount", "ignored"}
  <2>1. CASE announced
    <3>1. Len(masks) = 2 /\ masks = <<"unmount", "ignored">> /\ size = 2 * many
      BY <2>1
    <3> HIDE DEF many, masks, size
    <3>2. \A n \in 1 .. size : 1 + ((n - 1) \div 2) \in 1 .. many /\ 1 + ((n - 1) % 2) \in 1 .. 2
      BY <1>3, <3>1
    <3>3. \A k \in 1 .. 2 : masks[k] \in {"unmount", "ignored"}
      BY <3>1
    <3>4. QED
      BY <1>3, <3>1, <3>2, <3>3
  <2>2. CASE ~announced
    <3>1. Len(masks) = 1 /\ masks = <<"ignored">> /\ size = many
      BY <1>3, <2>2
    <3> HIDE DEF many, masks, size
    <3>2. \A n \in 1 .. size : 1 + ((n - 1) \div 1) \in 1 .. many /\ 1 + ((n - 1) % 1) \in 1 .. 1
      BY <1>3, <3>1
    <3>3. \A k \in 1 .. 1 : masks[k] \in {"unmount", "ignored"}
      BY <3>1
    <3>4. QED
      BY <1>3, <3>1, <3>2, <3>3
  <2>3. QED
    BY <2>1, <2>2
<1> HIDE DEF many, masks, size
<1>6. \A w \in gone, mask \in {"unmount", "ignored"} :
        /\ EventFor(w, mask, "nobody") \in Events
        /\ EventFor(w, mask, "nobody").mask = mask
  BY <1>1 DEF EventFor, Events, TypeOK, Anyone
<1>7. ASSUME NEW n \in 1 .. size
      PROVE  queue'[n] \in Events /\ queue'[n].mask \in {"unmount", "ignored"}
  <2>1. order[1 + ((n - 1) \div Len(masks))] \in gone
    BY <1>4, <1>5
  <2>2. masks[1 + ((n - 1) % Len(masks))] \in {"unmount", "ignored"}
    BY <1>5
  <2>3. queue'[n] = EventFor(order[1 + ((n - 1) \div Len(masks))],
                             masks[1 + ((n - 1) % Len(masks))], "nobody")
    BY <1>4
  <2>4. QED
    BY <1>6, <2>1, <2>2, <2>3
<1>8. queue' \in [1 .. size -> Events]
  BY <1>4, <1>7
<1>9. queue' \in Seq(Events) /\ Len(queue') = size
  BY <1>5, <1>8
<1>10. QED
  BY <1>4, <1>7, <1>9

-----------------------------------------------------------------------------
(* Types.                                                                  *)

MainStates == [pc : {"poll", "read", "event", "open", "close", "reinit"}, buf : Seq(Events),
               w : Slots, destroyed_wd : BOOLEAN, was_unmounted : BOOLEAN]

LEMMA PollingFacts ==
    /\ Polling \in MainStates
    /\ Polling.pc = "poll" /\ Polling.buf = <<>> /\ ~Polling.destroyed_wd
  BY SlotFacts DEF Polling, MainStates

\* The main thread's locals once it is done with an event.
LEMMA NextEventFacts ==
    ASSUME TypeOK, main.buf # <<>>
    PROVE  /\ NextEvent \in MainStates
           /\ NextEvent.pc = "event" /\ NextEvent.buf = Tail(main.buf)
           /\ NextEvent.destroyed_wd = main.destroyed_wd
<1>1. main \in MainStates
  BY DEF TypeOK, MainStates
<1>2. Tail(main.buf) \in Seq(Events)
  BY <1>1 DEF MainStates
<1>3. QED
  BY <1>1, <1>2, SlotFacts DEF NextEvent, MainStates

LEMMA TypeInit == Init => TypeOK
<1> SUFFICES ASSUME Init PROVE TypeOK
  OBVIOUS
<1>1. env.window \in Nat /\ env.queue_max \in Nat /\ env \in Environments
  BY EnvironmentsAssumption DEF Init
<1>2. icon \in [Slots -> Icons]
  <2>1. \A s \in {"missing", "new", "stored"} :
          [state |-> s, age |-> WINDOW + 1, reader |-> "nobody"] \in Icons
    BY <1>1 DEF Icons, WINDOW, Anyone
  <2>2. QED
    BY <2>1 DEF Init
<1>3. inotify_wd \in [Slots -> Wds \cup {NoWd}]
  BY WatchedWdFacts DEF Init
<1>4. queue \in Seq(Events) /\ Len(queue) <= env.queue_max + 1
  BY <1>1 DEF Init
<1>5. main \in MainStates
  BY PollingFacts DEF Init
<1>6. QED
  BY <1>1, <1>2, <1>3, <1>4, <1>5 DEF Init, TypeOK, MainStates, Ages

LEMMA TypeNext == TypeOK /\ OverflowComesLast(queue) /\ HasEvent /\ [Next]_vars => TypeOK'
<1> SUFFICES ASSUME TypeOK, OverflowComesLast(queue), HasEvent, [Next]_vars PROVE TypeOK'
  OBVIOUS
<1>0. /\ env' = env /\ Events' = Events /\ Icons' = Icons /\ Ages' = Ages /\ MainStates' = MainStates
      /\ env \in Environments /\ env.window \in Nat /\ WINDOW = env.window
  BY EnvConstant, EnvFacts DEF MainStates, TypeOK, WINDOW
<1>1. /\ queue \in Seq(Events) /\ Len(queue) <= env.queue_max + 1
      /\ inotify_wd \in [Slots -> Wds \cup {NoWd}]
      /\ pending_processing \in [Slots -> BOOLEAN]
      /\ processing_ts \in [Slots -> Ages]
      /\ wd_was_destroyed \in [Slots -> BOOLEAN]
      /\ main \in MainStates
      /\ icon \in [Slots -> Icons]
      /\ running \in SUBSET Slots
      /\ inhibited \in BOOLEAN
  BY DEF TypeOK, MainStates
<1>2. ASSUME queue' \in Seq(Events) /\ Len(queue') <= env.queue_max + 1,
             inotify_wd' \in [Slots -> Wds \cup {NoWd}],
             pending_processing' \in [Slots -> BOOLEAN],
             processing_ts' \in [Slots -> Ages],
             wd_was_destroyed' \in [Slots -> BOOLEAN],
             main' \in MainStates,
             icon' \in [Slots -> Icons],
             running' \in SUBSET Slots,
             inhibited' \in BOOLEAN
      PROVE  TypeOK'
  BY <1>0, <1>2 DEF TypeOK, MainStates
<1>3. main.w \in Slots /\ main.buf \in Seq(Events)
  BY <1>1 DEF MainStates
<1>4. \A w \in Slots : RemovedWd(w) \in Wds \cup {NoWd}
  BY <1>1 DEF RemovedWd
<1>5. 0 \in Ages /\ Never \in Ages
  BY <1>0 DEF Ages
<1>6. <<>> \in Seq(Events) /\ Len(<<>>) <= env.queue_max + 1
  BY EnvFacts
<1>7. CASE Read
  <2>1. [main EXCEPT !.pc = "event", !.buf = queue] \in MainStates
    BY <1>1 DEF MainStates
  <2>2. QED
    BY <1>1, <1>2, <1>6, <1>7, <2>1 DEF Read, watch, world
<1>8. CASE ReadNothing
  BY <1>1, <1>2, <1>8, PollingFacts DEF ReadNothing, watch, world
<1>9. CASE TakeOpen
  <2>1. \A w \in Slots : [main EXCEPT !.pc = "open", !.w = w] \in MainStates
    BY <1>1 DEF MainStates
  <2>2. main' \in MainStates
    BY <1>9, <2>1, MatchedSlotFacts, NextEventFacts DEF TakeOpen, Taking
  <2>3. QED
    BY <1>1, <1>2, <1>9, <2>2 DEF TakeOpen, watch, world
<1>10. CASE QueryOnOpen
  <2>1. main' \in MainStates
    BY <1>10, NextEventFacts DEF QueryOnOpen, HasEvent
  <2>2. pending_processing' \in [Slots -> BOOLEAN]
    BY <1>1, <1>10 DEF QueryOnOpen
  <2>3. QED
    BY <1>1, <1>2, <1>10, <2>1, <2>2 DEF QueryOnOpen, world
<1>11. ASSUME NEW w \in Slots, Refuse(w) PROVE processing_ts' \in [Slots -> Ages] /\ running' = running
  BY <1>1, <1>5, <1>11 DEF Refuse
<1>12. CASE TakeClose
  <2>1. \A w \in Slots : [main EXCEPT !.pc = "close", !.w = w] \in MainStates
    BY <1>1 DEF MainStates
  <2>2. main' \in MainStates
    BY <1>12, <2>1, MatchedSlotFacts, NextEventFacts DEF TakeClose, Taking
  <2>3. processing_ts' \in [Slots -> Ages] /\ running' = running
    BY <1>1, <1>11, <1>12, MatchedSlotFacts DEF TakeClose
  <2>4. QED
    BY <1>1, <1>2, <1>12, <2>2, <2>3 DEF TakeClose
<1>13. CASE QueryOnClose
  <2>1. main' \in MainStates
    BY <1>13, NextEventFacts DEF QueryOnClose, HasEvent
  <2>2. processing_ts' \in [Slots -> Ages] /\ running' \in SUBSET Slots
    BY <1>1, <1>3, <1>5, <1>11, <1>13 DEF QueryOnClose
  <2>3. QED
    BY <1>1, <1>2, <1>13, <2>1, <2>2 DEF QueryOnClose
<1>14. CASE TakeUnmount
  <2>1. NextEvent \in MainStates /\ main' = [NextEvent EXCEPT !.was_unmounted = TRUE]
    BY <1>14, NextEventFacts DEF TakeUnmount, Taking
  <2>2. main' \in MainStates
    BY <2>1 DEF MainStates
  <2>3. QED
    BY <1>1, <1>2, <1>14, <2>2 DEF TakeUnmount, watch, world
<1>15. CASE TakeIgnored
  <2>1. NextEvent \in MainStates /\ main' = [NextEvent EXCEPT !.destroyed_wd = TRUE]
    BY <1>15, NextEventFacts DEF TakeIgnored, Taking
  <2>2. main' \in MainStates
    BY <2>1 DEF MainStates
  <2>3. QED
    BY <1>1, <1>2, <1>15, <2>2 DEF TakeIgnored, world
<1>16. CASE TakeOverflow
  <2>1. NextEvent \in MainStates /\ main' = [NextEvent EXCEPT !.destroyed_wd = TRUE]
    BY <1>16, NextEventFacts DEF TakeOverflow, Taking
  <2>2. main' \in MainStates
    BY <2>1 DEF MainStates
  <2>3. inotify_wd' \in [Slots -> Wds \cup {NoWd}] /\ wd_was_destroyed' \in [Slots -> BOOLEAN]
    BY <1>1, <1>4, <1>16, MatchedSlotFacts DEF TakeOverflow
  <2>4. QED
    BY <1>1, <1>2, <1>16, <2>2, <2>3 DEF TakeOverflow, world
<1>17. CASE EndBatch
  <2>1. [main EXCEPT !.pc = "read"] \in MainStates /\ [Polling EXCEPT !.pc = "reinit"] \in MainStates
    BY <1>1, PollingFacts DEF MainStates
  <2>2. main' \in MainStates /\ queue' \in Seq(Events) /\ Len(queue') <= env.queue_max + 1
    BY <1>1, <1>6, <1>17, <2>1 DEF EndBatch
  <2>3. inotify_wd' \in [Slots -> Wds \cup {NoWd}]
    BY <1>1, <1>4, <1>17 DEF EndBatch
  <2>4. wd_was_destroyed' \in [Slots -> BOOLEAN]
    BY <1>1, <1>17 DEF EndBatch
  <2>5. QED
    BY <1>1, <1>2, <1>17, <2>2, <2>3, <2>4 DEF EndBatch, world
<1>18. CASE Reinit
  <2>1. inotify_wd' \in [Slots -> Wds \cup {NoWd}]
    BY <1>1, <1>18, WatchedWdFacts DEF Reinit
  <2>2. QED
    BY <1>1, <1>2, <1>18, <2>1, PollingFacts DEF Reinit, world
<1>19. ASSUME NEW w \in Slots, NEW reader \in env.readers, OpenIcon(w, reader) PROVE TypeOK'
  <2>1. reader \in Anyone
    BY DEF Anyone
  <2>2. icon' \in [Slots -> Icons]
    BY <1>1, <1>19, <2>1 DEF OpenIcon, Icons
  <2>3. queue' \in Seq(Events) /\ Len(queue') <= env.queue_max + 1
    BY <1>0, <1>19, <2>1, NotifyFacts DEF OpenIcon
  <2>4. QED
    BY <1>1, <1>2, <1>19, <2>2, <2>3 DEF OpenIcon, watch
<1>20. ASSUME NEW w \in Slots, StoreIcon(w) PROVE TypeOK'
  <2>1. icon' \in [Slots -> Icons]
    BY <1>1, <1>20 DEF StoreIcon, Icons
  <2>2. QED
    BY <1>1, <1>2, <1>20, <2>1 DEF StoreIcon, watch
<1>21. ASSUME NEW w \in Slots, CloseIcon(w) PROVE TypeOK'
  <2>1. icon[w].reader \in Anyone /\ icon[w].age \in 0 .. WINDOW + 1 /\ 0 \in 0 .. WINDOW + 1
    BY <1>0, <1>1 DEF Icons
  <2>2. icon' \in [Slots -> Icons]
    BY <1>1, <1>21, <2>1, ZenonT(60) DEF CloseIcon, Icons, Anyone
  <2>3. queue' \in Seq(Events) /\ Len(queue') <= env.queue_max + 1
    BY <1>0, <1>21, <2>1, NotifyFacts DEF CloseIcon
  <2>4. QED
    BY <1>1, <1>2, <1>21, <2>2, <2>3 DEF CloseIcon, watch
<1>22. ASSUME NEW w \in Slots, DeleteIcon(w) PROVE TypeOK'
  <2>1. icon' \in [Slots -> Icons]
    BY <1>1, <1>22 DEF DeleteIcon, Icons
  <2>2. queue' \in Seq(Events) /\ Len(queue') <= env.queue_max + 1
    BY <1>0, <1>22, NotifyFacts DEF DeleteIcon, Anyone
  <2>3. QED
    BY <1>1, <1>2, <1>22, <2>1, <2>2 DEF DeleteIcon, watch
<1>23. ASSUME NEW w \in Slots, RestoreIcon(w) PROVE TypeOK'
  <2>1. icon[w].state \in {"missing", "deleted"}
    BY <1>1, <1>23 DEF RestoreIcon, Exists, Icons
  <2>2. \E s \in {"new", "stored"} : icon' = [icon EXCEPT ![w].state = s]
    BY <1>23, <2>1 DEF RestoreIcon
  <2>3. icon' \in [Slots -> Icons]
    BY <1>1, <2>2, ZenonT(60) DEF Icons
  <2>4. QED
    BY <1>1, <1>2, <1>23, <2>3 DEF RestoreIcon, watch
<1>24. ASSUME NEW w \in Slots, ProgramEnds(w) PROVE TypeOK'
  BY <1>1, <1>2, <1>24 DEF ProgramEnds, watch
<1>25. ASSUME NEW announced \in BOOLEAN, Unmount(announced) PROVE TypeOK'
  <2>1. queue' \in Seq(Events) /\ Len(queue') <= env.queue_max + 1
    BY <1>25, UnmountFacts, EnvFacts
  <2>2. QED
    BY <1>1, <1>2, <1>25, <2>1 DEF Unmount, watch, world
<1>26. CASE ToggleInhibition
  BY <1>1, <1>2, <1>26 DEF ToggleInhibition, watch
<1>27. CASE Tick
  <2>1. \A age \in Ages : Older(age) \in Ages /\ (age # Never => Older(age) # Never)
    BY <1>0 DEF Ages, Older, Never
  <2>2. \A age \in 0 .. WINDOW + 1 : Older(age) \in 0 .. WINDOW + 1
    BY <1>0 DEF Older, Never
  <2>3. processing_ts' \in [Slots -> Ages]
    BY <1>1, <1>27, <2>1 DEF Tick
  <2>4. icon' \in [Slots -> Icons]
    BY <1>1, <1>27, <2>2 DEF Tick, Icons
  <2>5. QED
    BY <1>1, <1>2, <1>27, <2>3, <2>4 DEF Tick
<1>28. CASE UNCHANGED vars
  BY <1>1, <1>2, <1>28 DEF vars, watch, world
<1>29. QED
  BY <1>7, <1>8, <1>9, <1>10, <1>12, <1>13, <1>14, <1>15, <1>16, <1>17, <1>18, <1>19, <1>20,
     <1>21, <1>22, <1>23, <1>24, <1>25, <1>26, <1>27, <1>28 DEF Next, Handling

-----------------------------------------------------------------------------
(* Descriptors, queues and flags.                                          *)

\* Steps of Nickel, the user and the clock leave the main thread's state alone; they
\* queue events about watched slots, or removals.
LEMMA WorldSteps ==
    ASSUME TypeOK, OverflowComesLast(queue), [Next]_vars, ~Handling
    PROVE  /\ UNCHANGED <<main, inotify_wd, wd_was_destroyed, pending_processing>>
           /\ \/ queue' = queue
              \/ /\ main.pc # "reinit" /\ OverflowComesLast(queue')
                 /\ \A n \in 1 .. Len(queue') :
                       \/ queue'[n] = Overflow
                       \/ queue'[n].mask \in {"unmount", "ignored"}
                       \/ \E w \in Slots, mask \in {"open", "close", "ignored"}, reader \in Anyone :
                             queue'[n] = EventFor(w, mask, reader) /\ inotify_wd[w] # NoWd
                       \/ \E m \in 1 .. Len(queue) : queue'[n] = queue[m]
<1>0. env' = env /\ env.readers \subseteq Anyone /\ "nobody" \in Anyone
  BY EnvConstant DEF Anyone
<1>1. ASSUME NEW w \in Slots, NEW mask \in {"open", "close", "ignored"}, NEW reader \in Anyone,
             Notify(w, mask, reader)
      PROVE  \/ queue' = queue
             \/ /\ main.pc # "reinit" /\ OverflowComesLast(queue')
                /\ \A n \in 1 .. Len(queue') :
                      \/ queue'[n] = Overflow
                      \/ queue'[n] = EventFor(w, mask, reader) /\ inotify_wd[w] # NoWd
                      \/ \E m \in 1 .. Len(queue) : queue'[n] = queue[m]
  BY <1>0, <1>1, NotifyFacts
<1>2. ASSUME NEW w \in Slots, NEW reader \in env.readers, OpenIcon(w, reader)
      PROVE  Notify(w, "open", reader) /\ UNCHANGED <<main, watch>>
  BY <1>2 DEF OpenIcon
<1>3. ASSUME NEW w \in Slots, CloseIcon(w)
      PROVE  Notify(w, "close", icon[w].reader) /\ UNCHANGED <<main, watch>> /\ icon[w].reader \in Anyone
  BY <1>3 DEF CloseIcon, TypeOK, Icons
<1>4. ASSUME NEW w \in Slots, DeleteIcon(w)
      PROVE  Notify(w, "ignored", "nobody") /\ UNCHANGED <<main, watch>>
  BY <1>4 DEF DeleteIcon
<1>5. ASSUME NEW announced \in BOOLEAN, Unmount(announced)
      PROVE  /\ UNCHANGED <<main, watch>> /\ main.pc # "reinit"
             /\ OverflowComesLast(queue')
             /\ \A n \in 1 .. Len(queue') : queue'[n].mask \in {"unmount", "ignored"}
  <2>1. /\ queue' \in Seq(Events) /\ Len(queue') <= env.queue_max
        /\ \A n \in 1 .. Len(queue') : queue'[n].mask \in {"unmount", "ignored"}
    BY <1>5, UnmountFacts
  <2>2. \A n \in 1 .. Len(queue') : n # env.queue_max + 1
    BY <2>1, EnvFacts
  <2>3. OverflowComesLast(queue')
    BY <2>1, <2>2, OverflowType DEF OverflowComesLast
  <2>4. QED
    BY <1>5, <2>1, <2>3 DEF Unmount
<1>6. ASSUME \/ \E w \in Slots : StoreIcon(w) \/ RestoreIcon(w) \/ ProgramEnds(w)
             \/ ToggleInhibition \/ UNCHANGED vars
      PROVE  UNCHANGED <<queue, main, watch>>
  BY <1>6 DEF StoreIcon, RestoreIcon, ProgramEnds, ToggleInhibition, vars
<1>7. ASSUME Tick
      PROVE  UNCHANGED <<queue, main, inotify_wd, wd_was_destroyed, pending_processing>>
  BY <1>7 DEF Tick
<1>8. QED
  BY <1>0, <1>1, <1>2, <1>3, <1>4, <1>5, <1>6, <1>7 DEF Next, watch

\* The events still in a batch.
LEMMA TailFacts ==
    ASSUME NEW S, NEW s \in Seq(S), s # <<>>
    PROVE  /\ Len(Tail(s)) = Len(s) - 1 /\ Len(s) \in Nat /\ Len(s) >= 1
           /\ Head(s) = s[1]
           /\ \A n \in 1 .. Len(Tail(s)) : n + 1 \in 1 .. Len(s) /\ Tail(s)[n] = s[n + 1]
  OBVIOUS

\* Going on to the next event of the batch, while no descriptor changes.
LEMMA TailInv ==
    ASSUME IInv, main.buf # <<>>, main'.buf = Tail(main.buf), UNCHANGED <<queue, inotify_wd, env>>,
           main.destroyed_wd => main'.destroyed_wd
    PROVE  DescriptorsDistinct' /\ EventsMatch' /\ QueuesEnd'
<1>1. main.buf \in Seq(Events)
  BY DEF IInv, TypeOK
<1> DEFINE len == Len(main.buf)
<1>2. /\ Len(Tail(main.buf)) = len - 1 /\ len \in Nat
      /\ \A n \in 1 .. len - 1 : n + 1 \in 1 .. len /\ Tail(main.buf)[n] = main.buf[n + 1]
  BY <1>1, TailFacts
<1>3. DescriptorsDistinct'
  BY DEF IInv, DescriptorsDistinct
<1>4. EventsMatch'
  BY <1>2 DEF IInv, EventsMatch, Matches
<1>5. QueuesEnd'
  <2>1. \A n \in 1 .. len : main.buf[n].mask = "overflow" => n = len
    BY DEF IInv, QueuesEnd
  <2>2. OverflowComesLast(queue)'
    BY DEF IInv, QueuesEnd, OverflowComesLast, Overflow
  <2> HIDE DEF len
  <2>3. \A n \in 1 .. len - 1 : Tail(main.buf)[n].mask = "overflow" => n = len - 1
    BY <1>2, <2>1
  <2>4. QED
    BY <1>2, <2>2, <2>3 DEF QueuesEnd
<1>6. QED
  BY <1>3, <1>4, <1>5

QueueInv == HasEvent /\ DescriptorsDistinct /\ EventsMatch /\ QueuesEnd /\ FlagsInv

LEMMA QueueInvInit == Init => QueueInv
<1> SUFFICES ASSUME Init PROVE QueueInv
  OBVIOUS
<1>1. DescriptorsDistinct
  BY WatchedWdFacts, SlotFacts DEF Init, DescriptorsDistinct
<1>2. queue = <<>> /\ main.buf = <<>> /\ main.pc = "poll" /\ ~main.destroyed_wd
      /\ \A w \in Active : ~wd_was_destroyed[w]
  BY PollingFacts, SlotFacts DEF Init
<1>3. QED
  BY <1>1, <1>2 DEF QueueInv, HasEvent, EventsMatch, QueuesEnd, OverflowComesLast, FlagsInv

LEMMA QueueInvNext == TypeOK /\ QueueInv /\ [Next]_vars => QueueInv'
<1> SUFFICES ASSUME TypeOK, QueueInv, [Next]_vars PROVE QueueInv'
  OBVIOUS
<1> USE DEF QueueInv
<1>0. /\ env' = env /\ main \in MainStates /\ main.buf \in Seq(Events) /\ Overflow' = Overflow
      /\ IInv
  BY EnvConstant DEF TypeOK, MainStates, IInv, Overflow
<1>1. ASSUME Taking("open") \/ Taking("close") \/ main.pc \in {"open", "close"},
             UNCHANGED <<queue, inotify_wd, wd_was_destroyed>>, main' = NextEvent
      PROVE  QueueInv'
  <2>1. main.buf # <<>>
    BY <1>1 DEF Taking, HasEvent
  <2>2. main'.pc = "event" /\ main'.buf = Tail(main.buf) /\ main'.destroyed_wd = main.destroyed_wd
    BY <1>1, <2>1, NextEventFacts
  <2>3. HasEvent' /\ FlagsInv'
    BY <1>1, <2>2 DEF HasEvent, FlagsInv
  <2>4. QED
    BY <1>0, <1>1, <2>1, <2>2, <2>3, TailInv
<1>2. ASSUME NEW w \in Slots, NEW pc \in {"open", "close"}, Taking(pc),
             UNCHANGED <<queue, inotify_wd, wd_was_destroyed>>, main' = [main EXCEPT !.pc = pc, !.w = w]
      PROVE  QueueInv'
  <2>1. main'.pc = pc /\ main'.buf = main.buf /\ main'.destroyed_wd = main.destroyed_wd
    BY <1>0, <1>2 DEF MainStates
  <2>2. QED
    BY <1>0, <1>2, <2>1 DEF Taking, HasEvent, DescriptorsDistinct, EventsMatch, Matches, QueuesEnd,
       OverflowComesLast, FlagsInv
<1>3. CASE Read
  <2>1. main' = [main EXCEPT !.pc = "event", !.buf = queue] /\ queue' = <<>>
        /\ inotify_wd' = inotify_wd /\ wd_was_destroyed' = wd_was_destroyed
        /\ main.pc \in {"poll", "read"}
    BY <1>3 DEF Read, watch
  <2>2. main'.pc = "event" /\ main'.buf = queue /\ main'.destroyed_wd = main.destroyed_wd
        /\ ~main.destroyed_wd
    BY <1>0, <2>1 DEF MainStates, FlagsInv
  <2>3. queue \in Seq(Events) /\ Len(queue) <= env.queue_max + 1 /\ env.queue_max \in Nat
        /\ Len(queue) \in Nat
    BY EnvFacts DEF TypeOK
  <2>4. \A n \in 1 .. Len(queue) : queue[n].mask = "overflow" => n = Len(queue)
    <3> DEFINE len == Len(queue)
    <3>1. \A n \in 1 .. len : queue[n].mask = "overflow" => n = env.queue_max + 1
      BY DEF QueuesEnd, OverflowComesLast
    <3>2. len \in Nat /\ len <= env.queue_max + 1 /\ env.queue_max \in Nat
      BY <2>3
    <3> HIDE DEF len
    <3>3. QED
      BY <3>1, <3>2 DEF len
  <2>5. QED
    BY <1>0, <2>1, <2>2, <2>4 DEF HasEvent, DescriptorsDistinct, EventsMatch, Matches, QueuesEnd,
       OverflowComesLast, FlagsInv
<1>4. CASE ReadNothing
  BY <1>0, <1>4, PollingFacts DEF ReadNothing, watch, HasEvent, DescriptorsDistinct, EventsMatch, Matches,
     QueuesEnd, OverflowComesLast, FlagsInv
<1>5. CASE TakeOpen
  BY <1>1, <1>2, <1>5, MatchedSlotFacts DEF TakeOpen, watch
<1>6. CASE QueryOnOpen
  BY <1>1, <1>6 DEF QueryOnOpen
<1>7. CASE TakeClose
  BY <1>1, <1>2, <1>7, MatchedSlotFacts DEF TakeClose
<1>8. CASE QueryOnClose
  BY <1>1, <1>8 DEF QueryOnClose
<1>9. CASE TakeUnmount
  <2>1. main.buf # <<>> /\ main.pc = "event" /\ main' = [NextEvent EXCEPT !.was_unmounted = TRUE]
        /\ UNCHANGED <<queue, inotify_wd, wd_was_destroyed>>
    BY <1>9 DEF TakeUnmount, Taking, watch
  <2>2. main'.pc = "event" /\ main'.buf = Tail(main.buf) /\ main'.destroyed_wd = main.destroyed_wd
    BY <2>1, NextEventFacts DEF MainStates
  <2>3. HasEvent' /\ FlagsInv'
    BY <2>1, <2>2 DEF HasEvent, FlagsInv
  <2>4. QED
    BY <1>0, <2>1, <2>2, <2>3, TailInv
<1>10. CASE TakeIgnored
  <2>1. main.buf # <<>> /\ main' = [NextEvent EXCEPT !.destroyed_wd = TRUE]
        /\ UNCHANGED <<queue, inotify_wd>>
    BY <1>10 DEF TakeIgnored, Taking
  <2>2. main'.pc = "event" /\ main'.buf = Tail(main.buf) /\ main'.destroyed_wd
    BY <2>1, NextEventFacts DEF MainStates
  <2>3. HasEvent' /\ FlagsInv'
    BY <2>2 DEF HasEvent, FlagsInv
  <2>4. QED
    BY <1>0, <2>1, <2>2, <2>3, TailInv
<1>11. CASE TakeOverflow
  <2>1. main.buf # <<>> /\ main' = [NextEvent EXCEPT !.destroyed_wd = TRUE] /\ queue' = queue
        /\ Head(main.buf).mask = "overflow"
    BY <1>11 DEF TakeOverflow, Taking
  <2>2. main'.pc = "event" /\ main'.buf = Tail(main.buf) /\ main'.destroyed_wd
    BY <2>1, NextEventFacts DEF MainStates
  <2>3. HasEvent' /\ FlagsInv'
    BY <2>2 DEF HasEvent, FlagsInv
  <2>4. Len(main'.buf) = 0
    <3> DEFINE len == Len(main.buf)
    <3>1. len \in Nat /\ len >= 1 /\ Head(main.buf) = main.buf[1] /\ Len(Tail(main.buf)) = len - 1
      BY <1>0, <2>1, TailFacts
    <3>2. \A n \in 1 .. len : main.buf[n].mask = "overflow" => n = len
      BY DEF QueuesEnd
    <3>3. main.buf[1].mask = "overflow" /\ Len(main'.buf) = len - 1
      BY <2>1, <2>2, <3>1
    <3> HIDE DEF len
    <3>4. QED
      BY <3>1, <3>2, <3>3
  <2>5. EventsMatch' /\ QueuesEnd'
    BY <1>0, <2>1, <2>2, <2>4 DEF EventsMatch, QueuesEnd, OverflowComesLast
  <2>6. \A v \in Slots : inotify_wd'[v] = inotify_wd[v] \/ inotify_wd'[v] = NoWd
    BY <1>11, MatchedSlotFacts DEF TakeOverflow, TypeOK, RemovedWd
  <2>7. DescriptorsDistinct'
    BY <2>6, SlotFacts DEF DescriptorsDistinct
  <2>8. QED
    BY <2>3, <2>5, <2>7
<1>12. CASE EndBatch
  <2>1. CASE main.destroyed_wd
    <3>1. /\ main' = [Polling EXCEPT !.pc = "reinit"] /\ queue' = <<>>
          /\ \A w \in Active : ~wd_was_destroyed'[w]
          /\ \A w \in Slots : inotify_wd'[w] \in {inotify_wd[w], RemovedWd(w)}
      BY <1>12, <2>1, SlotFacts DEF EndBatch
    <3>2. main'.pc = "reinit" /\ main'.buf = <<>> /\ ~main'.destroyed_wd
      BY <3>1, PollingFacts DEF MainStates
    <3>3. ASSUME NEW w \in Slots PROVE inotify_wd'[w] = inotify_wd[w] \/ inotify_wd'[w] = NoWd
      <4>1. RemovedWd(w) = inotify_wd[w] \/ RemovedWd(w) = NoWd
        BY DEF RemovedWd
      <4>2. QED
        BY <3>1, <4>1
    <3>4. DescriptorsDistinct'
      BY <3>3, SlotFacts DEF DescriptorsDistinct
    <3>5. QED
      BY <3>1, <3>2, <3>4 DEF HasEvent, EventsMatch, QueuesEnd, OverflowComesLast, FlagsInv
  <2>2. CASE ~main.destroyed_wd
    <3>1. main' = [main EXCEPT !.pc = "read"] /\ UNCHANGED <<queue, inotify_wd, wd_was_destroyed>>
      BY <1>12, <2>2 DEF EndBatch
    <3>2. main'.pc = "read" /\ main'.buf = main.buf /\ ~main'.destroyed_wd
      BY <1>0, <2>2, <3>1 DEF MainStates
    <3>3. QED
      BY <1>0, <2>2, <3>1, <3>2 DEF HasEvent, DescriptorsDistinct, EventsMatch, Matches, QueuesEnd,
         OverflowComesLast, FlagsInv
  <2>3. QED
    BY <2>1, <2>2
<1>13. CASE Reinit
  <2>1. queue' = <<>> /\ main' = Polling /\ wd_was_destroyed' = wd_was_destroyed
    BY <1>13 DEF Reinit, FlagsInv
  <2>2. ~main.destroyed_wd
    BY <1>13 DEF Reinit, FlagsInv
  <2>3. DescriptorsDistinct'
    <3>1. \A w \in Slots : inotify_wd'[w] = IF w \in Active THEN WatchedWd(w) ELSE inotify_wd[w]
      BY <1>13 DEF Reinit
    <3>2. QED
      BY <3>1, WatchedWdFacts, SlotFacts DEF DescriptorsDistinct
  <2>4. QED
    BY <2>1, <2>2, <2>3, PollingFacts DEF HasEvent, EventsMatch, QueuesEnd, OverflowComesLast, FlagsInv
<1>14. CASE ~Handling
  <2>1. UNCHANGED <<main, inotify_wd, wd_was_destroyed>>
    BY <1>14, WorldSteps DEF QueuesEnd
  <2>2. main.pc = "reinit" => queue' = queue
    BY <1>14, WorldSteps DEF QueuesEnd
  <2>3. HasEvent' /\ DescriptorsDistinct' /\ FlagsInv'
    BY <2>1, <2>2 DEF HasEvent, DescriptorsDistinct, FlagsInv
  <2>4. CASE queue' = queue
    BY <1>0, <2>1, <2>3, <2>4 DEF EventsMatch, Matches, QueuesEnd, OverflowComesLast
  <2>5. CASE queue' # queue
    <3>1. /\ OverflowComesLast(queue')
          /\ \A n \in 1 .. Len(queue') :
                 \/ queue'[n] = Overflow
                 \/ queue'[n].mask \in {"unmount", "ignored"}
                 \/ \E w \in Slots, mask \in {"open", "close", "ignored"}, reader \in Anyone :
                       queue'[n] = EventFor(w, mask, reader) /\ inotify_wd[w] # NoWd
                 \/ \E m \in 1 .. Len(queue) : queue'[n] = queue[m]
      BY <1>14, <2>5, WorldSteps DEF QueuesEnd
    <3>2. QueuesEnd'
      BY <1>0, <2>1, <3>1 DEF QueuesEnd, OverflowComesLast
    <3>3. Matches(Overflow)
      BY OverflowType DEF Matches
    <3>4. ASSUME NEW w \in Slots, NEW mask, NEW reader, inotify_wd[w] # NoWd
          PROVE  Matches(EventFor(w, mask, reader))
      BY <3>4 DEF Matches, EventFor, DescriptorsDistinct
    <3>5. ASSUME NEW n \in 1 .. Len(queue'), ~main.destroyed_wd PROVE Matches(queue'[n])
      <4>1. CASE queue'[n].mask \in {"unmount", "ignored"}
        BY <4>1 DEF Matches
      <4>2. QED
        BY <3>1, <3>3, <3>4, <3>5, <4>1 DEF EventsMatch
    <3>6. EventsMatch'
      BY <2>1, <3>5 DEF EventsMatch, Matches
    <3>7. QED
      BY <2>3, <3>2, <3>6
  <2>6. QED
    BY <2>4, <2>5
<1>15. QED
  BY <1>3, <1>4, <1>5, <1>6, <1>7, <1>8, <1>9, <1>10, <1>11, <1>12, <1>13, <1>14 DEF Handling

-----------------------------------------------------------------------------
(* The inductive invariant, and the properties.                            *)

LEMMA Invariance == Spec => []IInv
<1>1. Init => IInv
  BY TypeInit, QueueInvInit DEF IInv, QueueInv
<1>2. IInv /\ [Next]_vars => IInv'
  <2>1. IInv /\ [Next]_vars => TypeOK'
    BY TypeNext DEF IInv, QueuesEnd
  <2>2. IInv /\ [Next]_vars => QueueInv'
    BY QueueInvNext DEF IInv, QueueInv
  <2>3. TypeOK' /\ QueueInv' => IInv'
    BY DEF IInv, QueueInv
  <2>4. QED
    BY <2>1, <2>2, <2>3
<1>3. QED
  BY <1>1, <1>2, PTL DEF Spec

\* Descriptors and time stamps are within their ranges, and so is the slot any event
\* is matched to; the kernel's queue grows to one event past its limit, no further.
THEOREM TypeCorrect == Spec => []TypeOK
  BY Invariance, PTL DEF IInv

\* The search for the watch an open or a close belongs to always finds the watch of
\* that icon: descriptors removed by an overflow in mid-batch, or numbered afresh
\* after a rebuild, never make it find another.
THEOREM EventsAreMatched == Spec => []EventsReachTheirWatch
<1>1. IInv => EventsReachTheirWatch
  <2> SUFFICES ASSUME IInv, main.buf # <<>>, Head(main.buf).mask \in {"open", "close"}
               PROVE  MatchedSlot(Head(main.buf)) = Head(main.buf).slot
    BY DEF EventsReachTheirWatch
  <2>1. main.buf \in Seq(Events)
    BY DEF IInv, TypeOK
  <2>2. Head(main.buf) = main.buf[1] /\ 1 \in 1 .. Len(main.buf)
    BY <2>1, TailFacts
  <2>3. Matches(Head(main.buf))
    BY <2>2 DEF IInv, EventsMatch
  <2>4. QED
    BY <2>3, MatchedRight DEF IInv
<1>2. QED
  BY <1>1, Invariance, PTL

\* No destruction flag of an active watch outlives the batch that raised it.
THEOREM FlagsAreReset == Spec => []FlagsReset
<1>1. IInv => FlagsReset
  BY DEF IInv, FlagsInv, FlagsReset
<1>2. QED
  BY <1>1, Invariance, PTL

-----------------------------------------------------------------------------
(* When KFMon keeps up and nothing is lost, opens and closes come one by   *)
(* one, and every one of them is handled before anything else happens.     *)

\* The one open or close that is still to be handled, if there is one.
Awaits(e) == \/ queue = <<e>> /\ main.buf = <<>>
             \/ queue = <<>> /\ main.buf = <<e>>
Touches == {e \in Events : e.mask \in {"open", "close"} /\ Awaits(e)}

Removals(q) == \A n \in 1 .. Len(q) : q[n].mask \in {"unmount", "ignored"}

OneByOne ==
    /\ main.pc # "poll" => queue = <<>>
    /\ main.pc \in {"poll", "read", "reinit"} => main.buf = <<>>
    /\ Touches = {} => Removals(queue) /\ Removals(main.buf)

\* Every icon that exists is watched, but for the time of a rebuild.
AllWatched == main.pc # "reinit" => \A w \in Active : Exists(w) => inotify_wd[w] # NoWd

\* KFMon asks the database about the icon of the open or close it handles.
Asking ==
    /\ main.pc \in {"open", "close"} =>
          \E e \in Touches : main.buf = <<e>> /\ e.mask = main.pc /\ main.w = e.slot /\ MayLaunch(main.w)
    /\ main.pc = "close" => ~pending_processing[main.w]

\* What handling a reader's open leaves behind for its close.
Noted(w, reader) ==
    /\ reader = "nickel" => pending_processing[w] \/ ~MayLaunch(w)
    /\ reader = "user" /\ ~env.busy => ~pending_processing[w] \/ ~MayLaunch(w)

\* An icon that is being read is there, and once its open is handled that is noted.
ReaderInv(w) ==
    /\ icon[w].reader = "nickel" => icon[w].state \in {"new", "stored"}
    /\ icon[w].reader \in {"extra", "user"} => icon[w].state = "stored"
    /\ icon[w].reader = "extra" => icon[w].age <= WINDOW
    /\ (\A e \in Touches : e.slot = w => e.mask # "open") => Noted(w, icon[w].reader)

\* Nothing happened to an icon since its reader opened or closed it.
TouchInv(e) ==
    /\ e.slot \in Active
    /\ e.mask = "open" => /\ icon[e.slot].reader = e.reader /\ e.reader # "nobody"
                          /\ e.reader = "nickel" => icon[e.slot].state = "new"
    /\ e.mask = "close" => /\ icon[e.slot].reader = "nobody" /\ e.reader # "nobody"
                           /\ Noted(e.slot, e.reader)
                           /\ e.reader \in {"extra", "user"} => icon[e.slot].state = "stored"
                           /\ e.reader = "extra" => icon[e.slot].age <= WINDOW

\* While an icon is younger than WINDOW its refusal is as old as itself, unless
\* nothing was refused because nothing may be launched, or its refusal is about to come.
WindowInv(w) ==
    /\ icon[w].state \in {"new", "missing"} \/ icon[w].reader = "nickel" =>
          processing_ts[w] = Never /\ icon[w].age = WINDOW + 1
    /\ \A e \in Touches :
          e.slot = w /\ e.mask = "close" /\ e.reader = "nickel" =>
             icon[w].state = "stored" /\ processing_ts[w] = Never /\ icon[w].age = 0
    /\ icon[w].age <= WINDOW =>
          \/ processing_ts[w] = icon[w].age
          \/ ~MayLaunch(w)
          \/ \E e \in Touches : e.slot = w /\ e.mask = "close" /\ e.reader = "nickel"

TouchesInv ==
    /\ \A w \in Active : ReaderInv(w)
    /\ \A e \in Touches : TouchInv(e)
    /\ env.one_pass => \A w \in Active : WindowInv(w)

OrderlyInv == OneByOne /\ AllWatched /\ Asking /\ TouchesInv

LEMMA OneElement ==
    ASSUME NEW S, NEW e \in S
    PROVE  /\ <<e>> # <<>> /\ Head(<<e>>) = e /\ Tail(<<e>>) = <<>> /\ Len(<<e>>) = 1 /\ <<e>>[1] = e
           /\ \A d \in S : <<d>> = <<e>> => d = e
  OBVIOUS

\* There is one at most.
LEMMA TouchFacts ==
    ASSUME NEW e \in Touches
    PROVE  /\ e \in Events /\ e.mask \in {"open", "close"} /\ Touches = {e}
           /\ \/ queue = <<e>> /\ main.buf = <<>>
              \/ queue = <<>> /\ main.buf = <<e>>
<1>1. e \in Events /\ e.mask \in {"open", "close"} /\ Awaits(e)
  BY DEF Touches
<1>2. ASSUME NEW d \in Events, Awaits(d) PROVE d = e
  BY <1>1, <1>2, OneElement DEF Awaits
<1>3. QED
  BY <1>1, <1>2 DEF Touches, Awaits

\* How a step changes what is to be handled.
LEMMA TouchesAfter ==
    ASSUME env' = env
    PROVE  /\ queue' = queue /\ main'.buf = main.buf => Touches' = Touches
           /\ queue' = <<>> /\ main'.buf = queue /\ main.buf = <<>> => Touches' = Touches
           /\ Removals(queue') /\ Removals(main'.buf) => Touches' = {}
           /\ \A e \in Events : e.mask \in {"open", "close"} /\ queue' = <<e>> /\ main'.buf = <<>> =>
                 Touches' = {e}
<1>1. Events' = Events
  BY DEF Events, Anyone
<1>2. Touches' = {e \in Events : /\ e.mask \in {"open", "close"}
                                 /\ \/ queue' = <<e>> /\ main'.buf = <<>>
                                    \/ queue' = <<>> /\ main'.buf = <<e>>}
  BY <1>1 DEF Touches, Awaits
<1>3. queue' = queue /\ main'.buf = main.buf => Touches' = Touches
  BY <1>2 DEF Touches, Awaits
<1>4. queue' = <<>> /\ main'.buf = queue /\ main.buf = <<>> => Touches' = Touches
  BY <1>2 DEF Touches, Awaits
<1>5. ASSUME Removals(queue'), Removals(main'.buf) PROVE Touches' = {}
  <2>1. ASSUME NEW e \in Events, e.mask \in {"open", "close"}
        PROVE  queue' # <<e>> /\ main'.buf # <<e>>
    <3>1. ~Removals(<<e>>)
      BY <2>1, OneElement DEF Removals
    <3>2. QED
      BY <1>5, <3>1
  <2>2. QED
    BY <1>2, <2>1
<1>6. ASSUME NEW e \in Events, e.mask \in {"open", "close"}, queue' = <<e>>, main'.buf = <<>>
      PROVE  Touches' = {e}
  BY <1>2, <1>6, OneElement
<1>7. QED
  BY <1>3, <1>4, <1>5, <1>6

LEMMA NoRemovals == Removals(<<>>)
  BY DEF Removals

\* The main thread's next event is the open or close to be handled, and the last of
\* its batch, or a removal among removals.
LEMMA HeadFacts ==
    ASSUME IInv, OneByOne, main.buf # <<>>
    PROVE  /\ Head(main.buf) \in Events /\ queue = <<>>
           /\ Head(main.buf).mask \in {"open", "close"} =>
                 /\ Head(main.buf) \in Touches /\ Touches = {Head(main.buf)}
                 /\ main.buf = <<Head(main.buf)>> /\ Tail(main.buf) = <<>>
                 /\ MatchedSlot(Head(main.buf)) = Head(main.buf).slot
           /\ Head(main.buf).mask \notin {"open", "close"} =>
                 /\ Touches = {} /\ Head(main.buf).mask \in {"unmount", "ignored"}
                 /\ Removals(Tail(main.buf))
<1>1. main.buf \in Seq(Events)
  BY DEF IInv, TypeOK
<1>2. /\ Head(main.buf) = main.buf[1] /\ 1 \in 1 .. Len(main.buf)
      /\ \A n \in 1 .. Len(Tail(main.buf)) : n + 1 \in 1 .. Len(main.buf)
                                             /\ Tail(main.buf)[n] = main.buf[n + 1]
  BY <1>1, TailFacts
<1>0. queue = <<>>
  BY DEF OneByOne
<1>3. CASE Touches = {}
  BY <1>0, <1>1, <1>2, <1>3 DEF OneByOne, Removals
<1>4. CASE Touches # {}
  <2>1. PICK e \in Touches : TRUE
    BY <1>4
  <2>2. e \in Events /\ e.mask \in {"open", "close"} /\ Touches = {e} /\ queue = <<>> /\ main.buf = <<e>>
    BY <2>1, TouchFacts
  <2>3. Head(main.buf) = e /\ Tail(main.buf) = <<>>
    BY <2>2, OneElement
  <2>4. Matches(e)
    BY <1>2, <2>3 DEF IInv, EventsMatch
  <2>5. MatchedSlot(e) = e.slot
    BY <2>2, <2>4, MatchedRight DEF IInv
  <2>6. QED
    BY <2>2, <2>3, <2>5
<1>5. QED
  BY <1>3, <1>4

\* A slot neither whose icon nor whose flags change.
LEMMA SlotKept ==
    ASSUME NEW w \in Active, ReaderInv(w), env' = env,
           \/ Touches' = Touches
           \/ /\ \A e \in Touches : e.slot # w
              /\ \A e \in Touches' : e.slot # w,
           icon'[w] = icon[w], pending_processing'[w] = pending_processing[w],
           processing_ts'[w] = processing_ts[w],
           w \in running' <=> w \in running, inhibited' = inhibited
    PROVE  ReaderInv(w)' /\ (WindowInv(w) => WindowInv(w)')
<1>1. \A reader : Noted(w, reader)' <=> Noted(w, reader)
  BY DEF Noted, MayLaunch
<1>2. WINDOW' = WINDOW /\ (MayLaunch(w)' <=> MayLaunch(w))
  BY DEF WINDOW, MayLaunch
<1>3. ReaderInv(w)'
  BY <1>1, <1>2 DEF ReaderInv
<1>4. WindowInv(w) => WindowInv(w)'
  BY <1>2 DEF WindowInv
<1>5. QED
  BY <1>3, <1>4

\* A step of the main thread that changes neither flags nor what is to be handled.
LEMMA AllKept ==
    ASSUME TouchesInv, Touches' = Touches, env' = env,
           UNCHANGED <<icon, pending_processing, processing_ts, running, inhibited>>
    PROVE  TouchesInv'
<1>1. ASSUME NEW w \in Active
      PROVE  ReaderInv(w)' /\ (WindowInv(w) => WindowInv(w)')
  BY SlotKept DEF TouchesInv
<1>2. ASSUME NEW e \in Touches PROVE TouchInv(e)'
  BY DEF TouchesInv, TouchInv, Noted, MayLaunch, WINDOW
<1>3. QED
  BY <1>1, <1>2 DEF TouchesInv

\* The end of the handling of an open or a close.
LEMMA Handled ==
    ASSUME TouchesInv, NEW e \in Touches, Touches' = {}, env' = env,
           UNCHANGED <<icon, inhibited>>,
           \A v \in Active \ {e.slot} : /\ pending_processing'[v] = pending_processing[v]
                                        /\ processing_ts'[v] = processing_ts[v]
                                        /\ v \in running' <=> v \in running,
           ReaderInv(e.slot)', env.one_pass => WindowInv(e.slot)'
    PROVE  TouchesInv'
<1>1. Touches = {e}
  BY TouchFacts
<1>2. ASSUME NEW w \in Active, w # e.slot
      PROVE  ReaderInv(w)' /\ (WindowInv(w) => WindowInv(w)')
  BY <1>1, <1>2, SlotKept DEF TouchesInv
<1>3. QED
  BY <1>2 DEF TouchesInv

LEMMA OneByOneAfter ==
    ASSUME main'.pc # "poll" => queue' = <<>>,
           main'.pc \in {"poll", "read", "reinit"} => main'.buf = <<>>,
           Touches' = {} => Removals(queue') /\ Removals(main'.buf)
    PROVE  OneByOne'
  BY DEF OneByOne, Removals

\* The main thread at work.
LEMMA HandlingOrderly ==
    ASSUME IInv, OrderlyInv, Handling
    PROVE  OrderlyInv'
<1>0. /\ main \in MainStates /\ main.buf \in Seq(Events) /\ env' = env
      /\ OneByOne /\ AllWatched /\ Asking /\ TouchesInv
      /\ processing_ts \in [Slots -> Ages] /\ pending_processing \in [Slots -> BOOLEAN]
      /\ \A w \in Active : w \in Slots
  BY EnvConstant, SlotFacts DEF IInv, TypeOK, MainStates, OrderlyInv, Next
<1>1. ASSUME UNCHANGED <<icon, inotify_wd>>, main.pc # "reinit"
      PROVE  AllWatched'
  BY <1>0, <1>1 DEF AllWatched, Exists
<1>2. ASSUME main'.pc \notin {"open", "close"}
      PROVE  Asking'
  BY <1>2 DEF Asking
<1>3. CASE Read
  <2>1. main.pc = "poll" /\ main.buf = <<>>
    BY <1>0, <1>3 DEF Read, OneByOne
  <2>2. main'.pc = "event" /\ main'.buf = queue /\ queue' = <<>> /\ UNCHANGED <<watch, world>>
    BY <1>0, <1>3 DEF Read, MainStates
  <2>3. Touches' = Touches
    BY <1>0, <2>1, <2>2, TouchesAfter
  <2>4. OneByOne'
    BY <1>0, <2>2, <2>3, NoRemovals, OneByOneAfter DEF OneByOne
  <2>5. TouchesInv'
    BY <1>0, <2>2, <2>3, AllKept DEF watch, world
  <2>6. QED
    BY <1>1, <1>2, <2>1, <2>2, <2>4, <2>5 DEF OrderlyInv, watch, world
<1>4. CASE ReadNothing
  <2>1. main.buf = <<>> /\ queue = <<>>
    BY <1>0, <1>4 DEF ReadNothing, OneByOne
  <2>2. main'.pc = "poll" /\ main'.buf = <<>> /\ queue' = <<>> /\ UNCHANGED <<watch, world>>
        /\ main.pc = "read"
    BY <1>4, <2>1, PollingFacts DEF ReadNothing
  <2>3. Touches' = Touches
    BY <1>0, <2>1, <2>2, TouchesAfter
  <2>4. OneByOne'
    BY <2>2, NoRemovals, OneByOneAfter
  <2>5. TouchesInv'
    BY <1>0, <2>2, <2>3, AllKept DEF watch, world
  <2>6. QED
    BY <1>1, <1>2, <2>2, <2>4, <2>5 DEF OrderlyInv, watch, world
<1>5. ASSUME NEW pc \in {"open", "close"}, Taking(pc), MayLaunch(MatchedSlot(Head(main.buf))),
             pc = "close" => ~pending_processing[MatchedSlot(Head(main.buf))],
             main' = [main EXCEPT !.pc = pc, !.w = MatchedSlot(Head(main.buf))],
             UNCHANGED <<queue, watch, world>>
      PROVE  OrderlyInv'
  <2>1. PICK e : e = Head(main.buf)
    OBVIOUS
  <2>2. e \in Touches /\ e.mask = pc /\ main.buf = <<e>> /\ MatchedSlot(e) = e.slot /\ queue = <<>>
    BY <1>0, <1>5, <2>1, HeadFacts DEF Taking
  <2>3. main'.pc = pc /\ main'.buf = main.buf /\ main'.w = e.slot
    BY <1>0, <1>5, <2>1, <2>2 DEF MainStates
  <2>4. Touches' = Touches
    BY <1>0, <1>5, <2>3, TouchesAfter
  <2>5. OneByOne'
    BY <1>5, <2>2, <2>3, <2>4, OneByOneAfter
  <2>6. TouchesInv'
    BY <1>0, <1>5, <2>4, AllKept DEF watch, world
  <2>7. AllWatched'
    BY <1>1, <1>5 DEF Taking, watch, world
  <2>8. Asking'
    BY <1>5, <2>1, <2>2, <2>3, <2>4 DEF Asking, MayLaunch, watch, world
  <2>9. QED
    BY <2>5, <2>6, <2>7, <2>8 DEF OrderlyInv
<1>6. ASSUME NEW e \in Touches, main.buf = <<e>>, queue = <<>>, main' = NextEvent, queue' = queue
      PROVE  main'.pc = "event" /\ main'.buf = <<>> /\ Touches' = {}
  <2>1. main.buf # <<>> /\ Tail(main.buf) = <<>>
    BY <1>6, TouchFacts, OneElement
  <2>2. main'.pc = "event" /\ main'.buf = <<>>
    BY <1>0, <1>6, <2>1, NextEventFacts DEF IInv
  <2>3. QED
    BY <1>0, <1>6, <2>2, NoRemovals, TouchesAfter
<1>7. ASSUME NEW e \in Touches, main.buf = <<e>>, queue = <<>>, main.pc # "reinit",
             main' = NextEvent, UNCHANGED <<queue, inotify_wd, icon, inhibited>>,
             \A v \in Active \ {e.slot} : /\ pending_processing'[v] = pending_processing[v]
                                          /\ processing_ts'[v] = processing_ts[v]
                                          /\ v \in running' <=> v \in running,
             ReaderInv(e.slot)', env.one_pass => WindowInv(e.slot)'
      PROVE  OrderlyInv'
  <2>1. main'.pc = "event" /\ main'.buf = <<>> /\ Touches' = {}
    BY <1>6, <1>7
  <2>2. OneByOne'
    BY <1>7, <2>1, NoRemovals, OneByOneAfter
  <2>3. TouchesInv'
    BY <1>0, <1>7, <2>1, Handled
  <2>4. QED
    BY <1>1, <1>2, <1>7, <2>1, <2>2, <2>3 DEF OrderlyInv
\* The open or close at the head of the batch, or the one asked about.
<1>8. ASSUME NEW mask \in {"open", "close"}, Taking(mask) \/ main.pc = mask
      PROVE  \E e \in Touches :
               /\ main.buf = <<e>> /\ Head(main.buf) = e /\ e.mask = mask /\ queue = <<>>
               /\ MatchedSlot(e) = e.slot /\ Touches = {e}
               /\ main.pc = mask => main.w = e.slot /\ MayLaunch(e.slot)
  <2>1. main.buf # <<>>
    BY <1>8 DEF Taking, IInv, HasEvent
  <2>2. Head(main.buf).mask = mask
    <3>1. CASE Taking(mask)
      BY <3>1 DEF Taking
    <3>2. CASE main.pc = mask
      <4>1. PICK e \in Touches : main.buf = <<e>> /\ e.mask = mask
        BY <1>0, <3>2 DEF Asking
      <4>2. Head(<<e>>) = e
        OBVIOUS
      <4>3. QED
        BY <4>1, <4>2
    <3>3. QED
      BY <1>8, <3>1, <3>2
  <2>3. PICK e : e = Head(main.buf)
    OBVIOUS
  <2>4. e \in Touches /\ Touches = {e} /\ main.buf = <<e>> /\ MatchedSlot(e) = e.slot /\ queue = <<>>
    BY <1>0, <2>1, <2>2, <2>3, HeadFacts
  <2>5. main.pc = mask => main.w = e.slot /\ MayLaunch(e.slot)
    BY <1>0, <2>4 DEF Asking
  <2>6. QED
    BY <2>2, <2>3, <2>4, <2>5
<1>9. ASSUME NEW e \in Touches
      PROVE  /\ e.slot \in Active /\ e.slot \in Slots /\ e.reader \in {"nickel", "extra", "user", "nobody"}
             /\ icon[e.slot].age \in 0 .. WINDOW + 1 /\ WINDOW \in Nat
             /\ processing_ts[e.slot] \in {Never} \cup 0 .. WINDOW + 1
             /\ ReaderInv(e.slot) /\ TouchInv(e) /\ (env.one_pass => WindowInv(e.slot))
  <2>1. e.slot \in Active /\ ReaderInv(e.slot) /\ TouchInv(e) /\ (env.one_pass => WindowInv(e.slot))
    BY <1>0 DEF TouchesInv, TouchInv
  <2>2. e \in Events /\ env.readers \subseteq {"nickel", "extra", "user"} /\ WINDOW \in Nat
    BY TouchFacts, EnvFacts DEF IInv, WINDOW
  <2>3. e.slot \in Slots /\ icon \in [Slots -> Icons]
    BY <1>0, <2>1 DEF IInv, TypeOK
  <2>4. QED
    BY <1>0, <2>1, <2>2, <2>3 DEF Events, Anyone, Icons, Ages
<1>10. CASE TakeOpen
  <2>1. PICK e \in Touches : /\ main.buf = <<e>> /\ Head(main.buf) = e /\ e.mask = "open"
                             /\ queue = <<>> /\ MatchedSlot(e) = e.slot /\ Touches = {e}
    BY <1>8, <1>10 DEF TakeOpen
  <2>2. CASE MayLaunch(e.slot)
    BY <1>5, <1>10, <2>1, <2>2 DEF TakeOpen
  <2>3. CASE ~MayLaunch(e.slot)
    <3>1. main' = NextEvent /\ UNCHANGED <<queue, watch, world>> /\ main.pc = "event"
      BY <1>10, <2>1, <2>3 DEF TakeOpen, Taking
    <3>2. Touches' = {}
      BY <1>6, <2>1, <3>1
    <3>3. ~MayLaunch(e.slot)' /\ WINDOW' = WINDOW
      BY <2>3, <3>1 DEF MayLaunch, WINDOW, world
    <3>4. ReaderInv(e.slot)'
      BY <1>9, <3>1, <3>3 DEF ReaderInv, Noted, world
    <3>5. env.one_pass => WindowInv(e.slot)'
      BY <1>9, <3>1, <3>2, <3>3 DEF WindowInv, watch, world
    <3>6. QED
      BY <1>7, <2>1, <3>1, <3>4, <3>5 DEF watch, world
  <2>4. QED
    BY <2>2, <2>3
<1>11. CASE QueryOnOpen
  <2>1. PICK e \in Touches : /\ main.buf = <<e>> /\ e.mask = "open" /\ queue = <<>> /\ Touches = {e}
                             /\ main.w = e.slot
    BY <1>8, <1>11 DEF QueryOnOpen
  <2>2. PICK processed \in BOOLEAN :
          /\ TargetProcessed(e.slot, processed)
          /\ pending_processing' = [pending_processing EXCEPT ![e.slot] = ~processed]
    BY <1>11, <2>1 DEF QueryOnOpen
  <2>3. main' = NextEvent /\ UNCHANGED <<queue, inotify_wd, processing_ts, world>> /\ main.pc = "open"
    BY <1>11 DEF QueryOnOpen
  <2>4. Touches' = {}
    BY <1>6, <2>1, <2>3
  <2>5. pending_processing'[e.slot] = ~processed
        /\ \A v \in Active \ {e.slot} : pending_processing'[v] = pending_processing[v]
    BY <1>0, <1>9, <2>2
  <2>6. icon[e.slot].reader = e.reader /\ (e.reader = "nickel" => icon[e.slot].state = "new")
    BY <1>9, <2>1 DEF TouchInv
  <2>7. /\ icon[e.slot].state = "new" => ~processed
        /\ icon[e.slot].state = "stored" /\ ~env.busy => processed
    BY <2>2 DEF TargetProcessed
  <2>8. Noted(e.slot, e.reader)'
    BY <1>9, <2>3, <2>5, <2>6, <2>7 DEF Noted, ReaderInv, world
  <2>9. ReaderInv(e.slot)'
    BY <1>9, <2>3, <2>6, <2>8 DEF ReaderInv, WINDOW, world
  <2>10. env.one_pass => WindowInv(e.slot)'
    BY <1>9, <2>1, <2>3, <2>4 DEF WindowInv, WINDOW, MayLaunch, world
  <2>11. QED
    BY <1>7, <2>1, <2>3, <2>5, <2>9, <2>10 DEF world
\* A refusal counts from the first.
<1>12. ASSUME NEW e \in Touches, e.mask = "close", Touches' = {}, UNCHANGED <<world, pending_processing>>,
              \/ /\ MayLaunch(e.slot) /\ Refuse(e.slot)
                 /\ e.reader = "nickel" => pending_processing[e.slot]
              \/ ~MayLaunch(e.slot) /\ UNCHANGED <<processing_ts, running>>
       PROVE  /\ ReaderInv(e.slot)' /\ (env.one_pass => WindowInv(e.slot)')
              /\ \A v \in Active \ {e.slot} : processing_ts'[v] = processing_ts[v]
  <2>1. \A v \in Active \ {e.slot} : processing_ts'[v] = processing_ts[v]
    BY <1>0, <1>12 DEF Refuse
  <2>2. icon[e.slot].reader = "nobody" /\ Touches = {e} /\ e.reader \in {"nickel", "extra", "user"}
    BY <1>9, <1>12, TouchFacts DEF TouchInv
  <2>3. ReaderInv(e.slot)'
    BY <1>12, <2>2 DEF ReaderInv, Noted, world
  <2>4. WINDOW' = WINDOW /\ (MayLaunch(e.slot)' <=> MayLaunch(e.slot))
    BY <1>12 DEF WINDOW, MayLaunch, world
  <2>5. ASSUME env.one_pass PROVE WindowInv(e.slot)'
    <3>1. icon[e.slot].state = "stored"
      BY <1>9, <1>12, <2>2, <2>5 DEF TouchInv, WindowInv
    <3>2. CASE ~MayLaunch(e.slot)
      BY <1>12, <2>2, <2>4, <3>1, <3>2 DEF WindowInv, world
    <3>3. CASE MayLaunch(e.slot)
      <4>1. processing_ts'[e.slot] = IF processing_ts[e.slot] = Never THEN 0 ELSE processing_ts[e.slot]
        BY <1>0, <1>9, <1>12, <3>3 DEF Refuse
      <4>2. icon[e.slot].age <= WINDOW =>
              \/ processing_ts[e.slot] = icon[e.slot].age
              \/ processing_ts[e.slot] = Never /\ icon[e.slot].age = 0
        BY <1>9, <2>2, <2>5, <3>3 DEF WindowInv
      <4>3. icon[e.slot].age # Never
        BY <1>9 DEF Never
      <4>4. icon[e.slot].age <= WINDOW => processing_ts'[e.slot] = icon[e.slot].age
        BY <4>1, <4>2, <4>3
      <4>5. QED
        BY <1>12, <2>2, <2>4, <3>1, <4>4 DEF WindowInv, world
    <3>4. QED
      BY <3>2, <3>3
  <2>6. QED
    BY <2>1, <2>3, <2>5
<1>13. CASE TakeClose
  <2>1. PICK e \in Touches : /\ main.buf = <<e>> /\ Head(main.buf) = e /\ e.mask = "close"
                             /\ queue = <<>> /\ MatchedSlot(e) = e.slot /\ Touches = {e}
    BY <1>8, <1>13 DEF TakeClose
  <2>2. CASE MayLaunch(e.slot) /\ ~pending_processing[e.slot]
    BY <1>5, <1>13, <2>1, <2>2 DEF TakeClose, watch, world
  <2>3. CASE ~(MayLaunch(e.slot) /\ ~pending_processing[e.slot])
    <3>1. /\ main' = NextEvent /\ main.pc = "event"
          /\ UNCHANGED <<queue, inotify_wd, pending_processing, icon, inhibited, env>>
          /\ IF MayLaunch(e.slot) THEN Refuse(e.slot) ELSE UNCHANGED <<processing_ts, running>>
      BY <1>13, <2>1, <2>3 DEF TakeClose, Taking
    <3>2. UNCHANGED world
      BY <3>1 DEF Refuse, world
    <3>3. Touches' = {}
      BY <1>6, <2>1, <3>1
    <3>4. /\ ReaderInv(e.slot)' /\ (env.one_pass => WindowInv(e.slot)')
          /\ \A v \in Active \ {e.slot} : processing_ts'[v] = processing_ts[v]
      BY <1>12, <2>1, <2>3, <3>1, <3>2, <3>3
    <3>5. QED
      BY <1>7, <2>1, <3>1, <3>2, <3>4 DEF world
  <2>4. QED
    BY <2>2, <2>3
<1>14. CASE QueryOnClose
  <2>1. PICK e \in Touches : /\ main.buf = <<e>> /\ e.mask = "close" /\ queue = <<>> /\ Touches = {e}
                             /\ main.w = e.slot /\ MayLaunch(e.slot)
    BY <1>8, <1>14 DEF QueryOnClose
  <2>2. PICK processed \in BOOLEAN :
          /\ TargetProcessed(e.slot, processed)
          /\ IF processed /\ processing_ts[e.slot] \in {Never, WINDOW + 1}
             THEN /\ running' = running \cup {e.slot}
                  /\ processing_ts' = [processing_ts EXCEPT ![e.slot] = Never]
             ELSE Refuse(e.slot)
    BY <1>14, <2>1 DEF QueryOnClose
  <2>3. main' = NextEvent /\ main.pc = "close" /\ ~pending_processing[e.slot]
        /\ UNCHANGED <<queue, inotify_wd, pending_processing, icon, inhibited, env>>
    BY <1>0, <1>14, <2>1 DEF QueryOnClose, Asking
  <2>4. Touches' = {}
    BY <1>6, <2>1, <2>3
  <2>5. e.reader # "nickel"
    BY <1>9, <2>1, <2>3 DEF TouchInv, Noted
  <2>6. CASE Refuse(e.slot)
    <3>1. UNCHANGED world
      BY <2>3, <2>6 DEF Refuse, world
    <3>2. /\ ReaderInv(e.slot)' /\ (env.one_pass => WindowInv(e.slot)')
          /\ \A v \in Active \ {e.slot} : processing_ts'[v] = processing_ts[v]
      BY <1>12, <2>1, <2>3, <2>4, <2>5, <2>6, <3>1
    <3>3. QED
      BY <1>7, <2>1, <2>3, <3>1, <3>2 DEF world
  <2>7. CASE /\ processing_ts[e.slot] \in {Never, WINDOW + 1}
             /\ running' = running \cup {e.slot}
             /\ processing_ts' = [processing_ts EXCEPT ![e.slot] = Never]
    <3>1. icon[e.slot].reader = "nobody" /\ e.reader \in {"extra", "user"} /\ icon[e.slot].state = "stored"
      BY <1>9, <2>1, <2>5 DEF TouchInv
    <3>2. ReaderInv(e.slot)'
      BY <2>3, <3>1 DEF ReaderInv, Noted
    <3>3. ASSUME env.one_pass PROVE WindowInv(e.slot)'
      <4>1. ~(icon[e.slot].age <= WINDOW)
        BY <1>9, <2>1, <2>5, <2>7, <3>3 DEF WindowInv, Never
      <4>2. WINDOW' = WINDOW
        BY <2>3 DEF WINDOW
      <4>3. QED
        BY <2>3, <2>4, <3>1, <4>1, <4>2 DEF WindowInv
    <3>4. \A v \in Active \ {e.slot} : /\ processing_ts'[v] = processing_ts[v]
                                       /\ v \in running' <=> v \in running
      BY <1>0, <2>7
    <3>5. QED
      BY <1>7, <2>1, <2>3, <3>2, <3>3, <3>4
  <2>8. QED
    BY <2>2, <2>6, <2>7
<1>15. ASSUME \/ TakeUnmount \/ TakeIgnored \/ TakeOverflow
       PROVE  OrderlyInv'
  <2>1. main.buf # <<>> /\ Head(main.buf).mask \notin {"open", "close"} /\ main.pc = "event"
    BY <1>15 DEF TakeUnmount, TakeIgnored, TakeOverflow, Taking
  <2>2. Touches = {} /\ Head(main.buf).mask \in {"unmount", "ignored"} /\ Removals(Tail(main.buf))
        /\ queue = <<>>
    BY <1>0, <2>1, HeadFacts
  <2>3. /\ main' = [NextEvent EXCEPT !.was_unmounted = TRUE] \/ main' = [NextEvent EXCEPT !.destroyed_wd = TRUE]
        /\ UNCHANGED <<queue, inotify_wd, pending_processing, processing_ts, world>>
    BY <1>15, <2>2 DEF TakeUnmount, TakeIgnored, TakeOverflow, Taking, watch
  <2>4. main'.pc = "event" /\ main'.buf = Tail(main.buf)
    BY <2>1, <2>3, NextEventFacts DEF MainStates, IInv
  <2>5. Touches' = Touches
    BY <1>0, <2>2, <2>3, <2>4, NoRemovals, TouchesAfter
  <2>6. OneByOne'
    BY <2>2, <2>3, <2>4, NoRemovals, OneByOneAfter
  <2>7. TouchesInv'
    BY <1>0, <2>3, <2>5, AllKept DEF world
  <2>8. QED
    BY <1>1, <1>2, <2>1, <2>3, <2>4, <2>6, <2>7 DEF OrderlyInv, world
<1>16. CASE EndBatch
  <2>1. main.pc = "event" /\ main.buf = <<>> /\ queue = <<>>
    BY <1>0, <1>16 DEF EndBatch, OneByOne
  <2>2. \/ main' = [Polling EXCEPT !.pc = "reinit"]
        \/ main' = [main EXCEPT !.pc = "read"] /\ UNCHANGED inotify_wd
    BY <1>16 DEF EndBatch
  <2>3. queue' = <<>> /\ UNCHANGED <<pending_processing, processing_ts, world>>
    BY <1>16, <2>1 DEF EndBatch
  <2>4. /\ main'.buf = <<>>
        /\ \/ main'.pc = "reinit"
           \/ main'.pc = "read" /\ UNCHANGED inotify_wd
    <3>1. CASE main' = [Polling EXCEPT !.pc = "reinit"]
      BY <3>1 DEF Polling
    <3>2. CASE main' = [main EXCEPT !.pc = "read"] /\ UNCHANGED inotify_wd
      BY <1>0, <2>1, <3>2 DEF MainStates
    <3>3. QED
      BY <2>2, <3>1, <3>2
  <2>5. Touches' = Touches
    BY <1>0, <2>1, <2>3, <2>4, TouchesAfter
  <2>6. OneByOne'
    BY <2>3, <2>4, NoRemovals, OneByOneAfter
  <2>7. TouchesInv'
    BY <1>0, <2>3, <2>5, AllKept DEF world
  <2>8. AllWatched'
    BY <1>1, <2>1, <2>3, <2>4 DEF AllWatched, world
  <2>9. QED
    BY <1>2, <2>4, <2>6, <2>7, <2>8 DEF OrderlyInv
<1>17. CASE Reinit
  <2>1. main.buf = <<>> /\ queue = <<>>
    BY <1>0, <1>17 DEF Reinit, OneByOne
  <2>2. main'.pc = "poll" /\ main'.buf = <<>> /\ queue' = <<>>
        /\ UNCHANGED <<pending_processing, processing_ts, world>>
    BY <1>17, <2>1, PollingFacts DEF Reinit
  <2>3. Touches' = Touches
    BY <1>0, <2>1, <2>2, TouchesAfter
  <2>4. OneByOne'
    BY <2>2, NoRemovals, OneByOneAfter
  <2>5. TouchesInv'
    BY <1>0, <2>2, <2>3, AllKept DEF world
  <2>6. AllWatched'
    <3>1. \A w \in Active : inotify_wd'[w] = WatchedWd(w)
      BY <1>0, <1>17 DEF Reinit
    <3>2. \A w \in Active : Exists(w) => WatchedWd(w) # NoWd
      BY <1>0, WatchedWdFacts
    <3>3. QED
      BY <2>2, <3>1, <3>2 DEF AllWatched, Exists, world
  <2>7. QED
    BY <1>2, <2>2, <2>4, <2>5, <2>6 DEF OrderlyInv
<1>18. QED
  BY <1>3, <1>4, <1>10, <1>11, <1>13, <1>14, <1>15, <1>16, <1>17 DEF Handling

\* A step of the world about one icon, when the main thread has nothing to handle.
LEMMA IconTouched ==
    ASSUME IInv, OrderlyInv, Touches = {}, NEW w \in Slots,
           UNCHANGED <<main, inotify_wd, pending_processing, processing_ts, running, inhibited, env>>,
           \A v \in Slots \ {w} : icon'[v] = icon[v],
           main.pc # "poll" => queue' = <<>>,
           Touches' = {} => Removals(queue'),
           \A e \in Touches' : w \in Active /\ e.slot = w /\ TouchInv(e)',
           w \in Active => /\ ReaderInv(w)' /\ (env.one_pass => WindowInv(w)')
                           /\ main.pc # "reinit" /\ Exists(w)' => inotify_wd[w] # NoWd
    PROVE  OrderlyInv'
<1>1. OneByOne'
  BY OneByOneAfter DEF OrderlyInv, OneByOne
<1>2. \A v \in Slots \ {w} : Exists(v)' <=> Exists(v)
  BY DEF Exists
<1>3. AllWatched'
  BY <1>2, SlotFacts DEF OrderlyInv, AllWatched
<1>4. Asking'
  BY DEF OrderlyInv, Asking
<1>5. ASSUME NEW v \in Active, v # w
      PROVE  ReaderInv(v)' /\ (env.one_pass => WindowInv(v)')
  <2>1. ReaderInv(v) /\ (env.one_pass => WindowInv(v))
    BY DEF OrderlyInv, TouchesInv
  <2>2. (\A e \in Touches : e.slot # v) /\ (\A e \in Touches' : e.slot # v) /\ icon'[v] = icon[v]
    BY <1>5, SlotFacts
  <2>3. QED
    BY <2>1, <2>2, SlotKept
<1>6. TouchesInv'
  BY <1>5 DEF TouchesInv
<1>7. QED
  BY <1>1, <1>3, <1>4, <1>6 DEF OrderlyInv

\* A step of the world that leaves every icon as it is, when nobody reads one that
\* was processed lately.
LEMMA LaunchingChanged ==
    ASSUME IInv, OrderlyInv, Settled,
           UNCHANGED <<main, queue, watch, icon, env>>
    PROVE  OrderlyInv'
<1>1. main.pc = "poll" /\ queue = <<>> /\ main.buf = <<>> /\ UNCHANGED <<pending_processing, processing_ts, inotify_wd>>
  BY DEF Settled, Quiet, Idle, OrderlyInv, OneByOne, watch
<1>2. Touches = {} /\ Touches' = {}
  BY <1>1, NoRemovals, OneElement, TouchesAfter DEF Touches, Awaits
<1>3. OneByOne' /\ AllWatched' /\ Asking'
  BY <1>1, NoRemovals, OneByOneAfter DEF OrderlyInv, AllWatched, Asking, Exists
<1>4. ASSUME NEW v \in Active
      PROVE  ReaderInv(v)' /\ (env.one_pass => WindowInv(v)')
  <2>1. icon[v].reader = "nobody" /\ ~(icon[v].age <= WINDOW)
    <3>1. v \in Slots /\ icon[v].age > WINDOW /\ icon[v].reader = "nobody"
      BY SlotFacts DEF Settled, Quiet
    <3>2. icon[v].age \in 0 .. WINDOW + 1 /\ WINDOW \in Nat
      BY <3>1, EnvFacts DEF IInv, TypeOK, Icons, WINDOW
    <3>3. QED
      BY <3>1, <3>2
  <2>2. env.one_pass => WindowInv(v)
    BY DEF OrderlyInv, TouchesInv
  <2>3. ReaderInv(v)'
    BY <2>1 DEF ReaderInv, Noted
  <2>4. WINDOW' = WINDOW
    BY DEF WINDOW
  <2>5. env.one_pass => WindowInv(v)'
    BY <1>1, <1>2, <2>1, <2>2, <2>4 DEF WindowInv
  <2>6. QED
    BY <2>3, <2>5
<1>5. QED
  BY <1>2, <1>3, <1>4 DEF OrderlyInv, TouchesInv

\* What an open, a close or a removal queues when the main thread is idle.
LEMMA NotifyIdle ==
    ASSUME IInv, OrderlyInv, Idle, env' = env, main' = main, NEW w \in Slots, Exists(w),
           NEW mask \in {"open", "close", "ignored"}, NEW reader \in Anyone, Notify(w, mask, reader)
    PROVE  /\ Touches = {} /\ main.pc = "poll" /\ main.buf = <<>>
           /\ w \in Active => queue' = <<EventFor(w, mask, reader)>> /\ inotify_wd[w] # NoWd
           /\ w \notin Active => queue' = <<>>
           /\ EventFor(w, mask, reader) \in Events
           /\ Touches' = IF w \in Active /\ mask # "ignored" THEN {EventFor(w, mask, reader)} ELSE {}
           /\ Touches' = {} => Removals(queue')
<1>1. main.pc = "poll" /\ main.buf = <<>> /\ queue = <<>>
  BY DEF Idle, OrderlyInv, OneByOne
<1>2. Touches = {}
  BY <1>1, OneElement DEF Touches, Awaits
<1> DEFINE e == EventFor(w, mask, reader)
<1>3. e \in Events /\ e.mask = mask
  BY DEF EventFor, Events, IInv, TypeOK
<1>4. ASSUME w \in Active PROVE queue' = <<e>> /\ inotify_wd[w] # NoWd
  <2>1. inotify_wd[w] # NoWd
    BY <1>1, <1>4 DEF OrderlyInv, AllWatched
  <2>2. IsWatched(w)
    BY <1>1, <2>1 DEF IsWatched
  <2>3. env.queue_max > 0 /\ env.queue_max \in Nat
    BY EnvFacts DEF IInv
  <2>4. Queued(<<>>, e) = <<e>>
    BY <2>3 DEF Queued
  <2>5. QED
    BY <1>1, <2>1, <2>2, <2>4 DEF Notify
<1>5. ASSUME w \notin Active PROVE queue' = <<>>
  BY <1>1, <1>5 DEF Notify, IsWatched, IInv, DescriptorsDistinct
<1>6. CASE w \in Active /\ mask # "ignored"
  <2>1. Touches' = {e}
    BY <1>1, <1>3, <1>4, <1>6, TouchesAfter
  <2>2. QED
    BY <1>1, <1>2, <1>3, <1>4, <1>6, <2>1
<1>7. CASE w \notin Active
  BY <1>1, <1>2, <1>3, <1>5, <1>7, NoRemovals, TouchesAfter
<1>8. CASE w \in Active /\ mask = "ignored"
  <2> HIDE DEF e
  <2>1. \A n \in 1 .. Len(<<e>>) : <<e>>[n] = e
    OBVIOUS
  <2>2. Removals(queue')
    BY <1>3, <1>4, <1>8, <2>1 DEF Removals
  <2>3. Touches' = {}
    BY <1>1, <2>2, NoRemovals, TouchesAfter
  <2>4. QED
    BY <1>1, <1>2, <1>3, <1>4, <1>8, <2>2, <2>3 DEF e
<1>9. QED
  BY <1>6, <1>7, <1>8

\* Nickel, the user and the clock.
LEMMA WorldOrderly ==
    ASSUME IInv, Orderly, OrderlyInv, [Next]_vars, ~Handling
    PROVE  OrderlyInv'
<1>0. /\ env' = env /\ WINDOW' = WINDOW /\ env.readers \subseteq {"nickel", "extra", "user"}
      /\ WINDOW \in Nat /\ WINDOW > 0
      /\ main' = main /\ main.buf' = main.buf
      /\ UNCHANGED <<inotify_wd, pending_processing>> /\ env.prompt /\ env.steady
  BY EnvConstant, EnvFacts, WorldSteps DEF IInv, QueuesEnd, WINDOW, Orderly
<1>1. ASSUME NEW w \in Slots
      PROVE  /\ icon[w] \in Icons /\ icon[w].age \in 0 .. WINDOW + 1 /\ icon[w].reader \in Anyone
             /\ icon[w].reader \in {"nickel", "extra", "user", "nobody"}
             /\ icon[w].state \in {"missing", "new", "stored", "deleted"}
             /\ w \in Active => ReaderInv(w) /\ (env.one_pass => WindowInv(w))
  BY <1>0 DEF IInv, TypeOK, Icons, Anyone, OrderlyInv, TouchesInv
<1>2. icon \in [Slots -> Icons] /\ processing_ts \in [Slots -> Ages]
  BY DEF IInv, TypeOK
<1>3. ASSUME main.buf = <<>>, queue = <<>>
      PROVE  /\ Touches = {} /\ (queue' = <<>> => Touches' = {} /\ Removals(queue'))
  BY <1>0, <1>3, OneElement, NoRemovals, TouchesAfter DEF Touches, Awaits
<1>4. Idle => main.buf = <<>> /\ queue = <<>> /\ main.pc = "poll"
  BY DEF Idle, OrderlyInv, OneByOne
<1>5. ASSUME NEW w \in Slots, NEW reader \in env.readers, OpenIcon(w, reader)
      PROVE  OrderlyInv'
  <2> DEFINE e == EventFor(w, "open", reader)
  <2>1. /\ Idle /\ icon' = [icon EXCEPT ![w].reader = reader] /\ Notify(w, "open", reader)
        /\ UNCHANGED <<watch, main, running, inhibited, env>> /\ icon[w].reader = "nobody"
        /\ reader = "nickel" => icon[w].state = "new"
        /\ reader = "extra" => icon[w].state = "stored" /\ icon[w].age <= WINDOW
        /\ reader = "user" => icon[w].state = "stored"
    BY <1>0, <1>5 DEF OpenIcon
  <2>2. Exists(w) /\ reader \in Anyone
    BY <1>0, <2>1 DEF Exists, Anyone
  <2>3. /\ Touches = {} /\ main.pc = "poll" /\ main.buf = <<>>
        /\ w \in Active => inotify_wd[w] # NoWd /\ Touches' = {e}
        /\ w \notin Active => Touches' = {}
        /\ Touches' = {} => Removals(queue')
    BY <1>0, <2>1, <2>2, NotifyIdle
  <2>4. /\ icon'[w] = [icon[w] EXCEPT !.reader = reader]
        /\ \A v \in Slots \ {w} : icon'[v] = icon[v]
    BY <1>2, <2>1
  <2>5. icon'[w].reader = reader /\ icon'[w].state = icon[w].state /\ icon'[w].age = icon[w].age
    BY <1>1, <2>4 DEF Icons
  <2>6. e.slot = w /\ e.mask = "open" /\ e.reader = reader
    BY DEF EventFor
  <2>7. ASSUME w \in Active 
        PROVE  ReaderInv(w)' /\ (\A d : d = e => TouchInv(d)') /\ (env.one_pass => WindowInv(w)')
    <3>1. ReaderInv(w)'
      BY <1>0, <2>1, <2>3, <2>5, <2>6, <2>7 DEF ReaderInv
    <3>2. \A d : d = e => TouchInv(d)'
      BY <1>0, <2>1, <2>3, <2>5, <2>6, <2>7 DEF TouchInv
    <3>3. env.one_pass => WindowInv(w)'
      BY <1>0, <1>1, <2>1, <2>3, <2>5, <2>6, <2>7 DEF WindowInv, watch, MayLaunch
    <3>4. QED
      BY <3>1, <3>2, <3>3
  <2>8. \A d \in Touches' : w \in Active /\ d.slot = w /\ TouchInv(d)'
    BY <2>3, <2>6, <2>7
  <2> HIDE DEF e
  <2>9. QED
    BY <2>1, <2>3, <2>4, <2>7, <2>8, IconTouched DEF watch
<1>6. ASSUME NEW w \in Slots, StoreIcon(w)
      PROVE  OrderlyInv'
  <2>1. /\ Idle /\ icon' = [icon EXCEPT ![w].state = "stored"]
        /\ UNCHANGED <<queue, watch, main, running, inhibited, env>>
        /\ icon[w].reader = "nickel" /\ icon[w].state = "new"
    BY <1>0, <1>6 DEF StoreIcon
  <2>2. Touches = {} /\ Touches' = {} /\ Removals(queue')
    BY <1>3, <1>4, <2>1
  <2>3. /\ icon'[w].reader = icon[w].reader /\ icon'[w].state = "stored" /\ icon'[w].age = icon[w].age
        /\ \A v \in Slots \ {w} : icon'[v] = icon[v]
    BY <1>1, <1>2, <2>1 DEF Icons
  <2>4. ASSUME w \in Active
        PROVE  /\ ReaderInv(w)' /\ (env.one_pass => WindowInv(w)')
               /\ main.pc # "reinit" /\ Exists(w)' => inotify_wd[w] # NoWd
    <3>1. ReaderInv(w)'
      BY <1>0, <1>1, <2>1, <2>2, <2>3, <2>4 DEF ReaderInv, Noted, MayLaunch, watch
    <3>2. env.one_pass => WindowInv(w)'
      BY <1>0, <1>1, <2>1, <2>2, <2>3, <2>4 DEF WindowInv, watch
    <3>3. main.pc # "reinit" => inotify_wd[w] # NoWd
      BY <2>1, <2>4 DEF OrderlyInv, AllWatched, Exists
    <3>4. QED
      BY <3>1, <3>2, <3>3
  <2>5. QED
    BY <1>4, <2>1, <2>2, <2>3, <2>4, IconTouched DEF watch
<1>7. ASSUME NEW w \in Slots, CloseIcon(w)
      PROVE  OrderlyInv'
  <2> DEFINE reader == icon[w].reader
             e == EventFor(w, "close", reader)
  <2>1. /\ Idle /\ Notify(w, "close", reader) /\ reader # "nobody"
        /\ icon' = [icon EXCEPT ![w].reader = "nobody",
                                ![w].age = IF icon[w].reader = "nickel" /\ icon[w].state = "stored"
                                           THEN 0 ELSE @]
        /\ UNCHANGED <<watch, main, running, inhibited, env>>
        /\ env.one_pass => icon[w].state # "new"
    BY <1>0, <1>7 DEF CloseIcon
  <2>2. /\ icon'[w].reader = "nobody" /\ icon'[w].state = icon[w].state
        /\ icon'[w].age = IF icon[w].reader = "nickel" /\ icon[w].state = "stored" THEN 0 ELSE icon[w].age
        /\ \A v \in Slots \ {w} : icon'[v] = icon[v]
    BY <1>1, <1>2, <2>1 DEF Icons
  <2>3. CASE w \in Active
    <3>1. Exists(w)
      BY <1>1, <2>1, <2>3 DEF ReaderInv, Exists
    <3>2. /\ Touches = {} /\ main.pc = "poll" /\ inotify_wd[w] # NoWd /\ Touches' = {e}
      BY <1>0, <1>1, <2>1, <2>3, <3>1, NotifyIdle
    <3>3. e.slot = w /\ e.mask = "close" /\ e.reader = reader
      BY DEF EventFor
    <3>4. ReaderInv(w)'
      BY <2>2 DEF ReaderInv, Noted
    <3>5. Noted(w, reader)
      BY <1>1, <2>3, <3>2 DEF ReaderInv
    <3>6. ASSUME NEW d, d = e PROVE TouchInv(d)'
      <4>1. d.slot = w /\ d.mask = "close" /\ d.reader = reader
        BY <3>3, <3>6
      <4>2. \A r : Noted(w, r) => Noted(w, r)'
        BY <1>0, <2>1 DEF Noted, MayLaunch, watch
      <4>3. Noted(d.slot, d.reader)'
        BY <3>5, <4>1, <4>2
      <4>4. /\ reader \in {"extra", "user"} => icon'[w].state = "stored"
            /\ reader = "extra" => icon'[w].age <= WINDOW'
        BY <1>0, <1>1, <2>2, <2>3 DEF ReaderInv
      <4>5. QED
        BY <2>1, <2>2, <2>3, <4>1, <4>3, <4>4 DEF TouchInv
    <3>7. env.one_pass => WindowInv(w)'
      <4> SUFFICES ASSUME env.one_pass PROVE WindowInv(w)'
        OBVIOUS
      <4>1. icon[w].state \notin {"new", "missing"}
        BY <2>1, <3>1 DEF Exists
      <4>2. reader = "nickel" => icon[w].state = "stored" /\ processing_ts[w] = Never /\ icon'[w].age = 0
        BY <1>1, <2>2, <2>3, <4>1 DEF ReaderInv, WindowInv
      <4>3. reader # "nickel" => icon'[w].age = icon[w].age
        BY <2>2
      <4>4. processing_ts' = processing_ts /\ (MayLaunch(w)' <=> MayLaunch(w))
        BY <2>1 DEF watch, MayLaunch
      <4>5. icon[w].age <= WINDOW => processing_ts[w] = icon[w].age \/ ~MayLaunch(w)
        BY <1>1, <2>3, <3>2 DEF WindowInv
      <4>6. QED
        BY <1>0, <2>2, <3>2, <3>3, <4>1, <4>2, <4>3, <4>4, <4>5 DEF WindowInv
    <3>8. \A d \in Touches' : w \in Active /\ d.slot = w /\ TouchInv(d)'
      BY <2>3, <3>2, <3>3, <3>6
    <3>9. Touches' # {} /\ (main.pc # "poll" => queue' = <<>>)
      BY <3>2
    <3> HIDE DEF e
    <3>10. QED
      BY <2>1, <2>2, <3>2, <3>4, <3>7, <3>8, <3>9, IconTouched DEF watch
  <2>4. CASE w \notin Active
    <3>1. queue' = <<>>
      BY <1>4, <2>1, <2>4 DEF Notify, IsWatched, IInv, DescriptorsDistinct
    <3>2. Touches = {} /\ Touches' = {} /\ Removals(queue')
      BY <1>3, <1>4, <2>1, <3>1
    <3>3. QED
      BY <2>1, <2>2, <2>4, <3>1, <3>2, IconTouched DEF watch
  <2>5. QED
    BY <2>3, <2>4
<1>8. ASSUME NEW w \in Slots, DeleteIcon(w)
      PROVE  OrderlyInv'
  <2>1. /\ Exists(w) /\ icon[w].reader = "nobody" /\ Idle
        /\ icon' = [icon EXCEPT ![w].state = IF @ = "new" THEN "missing" ELSE "deleted"]
        /\ Notify(w, "ignored", "nobody")
        /\ UNCHANGED <<watch, main, running, inhibited, env>>
    BY <1>0, <1>8 DEF DeleteIcon, Quiet
  <2>2. /\ icon'[w].reader = "nobody" /\ icon'[w].age = icon[w].age
        /\ icon'[w].state = IF icon[w].state = "new" THEN "missing" ELSE "deleted"
        /\ \A v \in Slots \ {w} : icon'[v] = icon[v]
    BY <1>1, <1>2, <2>1 DEF Icons
  <2>3. Touches = {} /\ Touches' = {} /\ Removals(queue') /\ main.pc = "poll"
    <3>1. "nobody" \in Anyone
      BY DEF Anyone
    <3>2. QED
      BY <1>0, <2>1, <3>1, NotifyIdle
  <2>4. ReaderInv(w)'
    BY <2>2 DEF ReaderInv, Noted
  <2>5. w \in Active /\ env.one_pass => WindowInv(w)'
    BY <1>0, <1>1, <2>1, <2>2, <2>3 DEF WindowInv, MayLaunch, watch
  <2>6. ~Exists(w)'
    BY <2>2 DEF Exists
  <2>7. QED
    BY <2>1, <2>2, <2>3, <2>4, <2>5, <2>6, IconTouched DEF watch
<1>9. ASSUME NEW announced \in BOOLEAN, Unmount(announced)
      PROVE  OrderlyInv'
  <2>1. Quiet /\ main.pc = "poll" /\ UNCHANGED <<watch, main, world>>
    BY <1>9 DEF Unmount
  <2>2. Removals(queue')
    BY <1>9, UnmountFacts DEF Removals, IInv
  <2>3. Touches = {} /\ Touches' = {}
    BY <1>0, <1>3, <1>4, <2>1, <2>2, NoRemovals, TouchesAfter DEF Quiet
  <2>4. OneByOne'
    BY <1>4, <2>1, <2>2, NoRemovals, OneByOneAfter DEF Quiet
  <2>5. TouchesInv'
    BY <1>0, <2>1, <2>3, AllKept DEF OrderlyInv, watch, world
  <2>6. AllWatched' /\ Asking'
    BY <2>1 DEF OrderlyInv, AllWatched, Asking, Exists, watch, world
  <2>7. QED
    BY <2>4, <2>5, <2>6 DEF OrderlyInv
<1>10. ASSUME NEW w \in Slots, RestoreIcon(w)
       PROVE  OrderlyInv'
  <2>1. main.pc = "reinit" /\ ~Exists(w) /\ UNCHANGED <<queue, watch, main, running, inhibited, env>>
    BY <1>10 DEF RestoreIcon
  <2>2. icon[w].state \in {"missing", "deleted"}
    BY <1>1, <2>1 DEF Exists
  <2>3. PICK s \in {"new", "stored"} :
          /\ icon' = [icon EXCEPT ![w].state = s]
          /\ icon[w].state = "missing" => s = "new"
          /\ icon[w].state = "deleted" /\ env.one_pass => s = "stored"
    BY <1>10, <2>2 DEF RestoreIcon
  <2>4. /\ icon'[w].reader = icon[w].reader /\ icon'[w].age = icon[w].age /\ icon'[w].state = s
        /\ \A v \in Slots \ {w} : icon'[v] = icon[v]
    BY <1>1, <1>2, <2>3 DEF Icons
  <2>5. main.buf = <<>> /\ queue = <<>>
    BY <2>1 DEF OrderlyInv, OneByOne
  <2>6. Touches = {} /\ Touches' = {} /\ Removals(queue')
    BY <1>3, <2>1, <2>5
  <2>7. ASSUME w \in Active
        PROVE  ReaderInv(w)' /\ (env.one_pass => WindowInv(w)')
    <3>1. icon[w].reader = "nobody"
      BY <1>1, <2>2, <2>7 DEF ReaderInv
    <3>2. ReaderInv(w)'
      BY <2>4, <3>1 DEF ReaderInv, Noted
    <3>3. env.one_pass => WindowInv(w)'
      BY <1>0, <1>1, <2>1, <2>2, <2>3, <2>4, <2>6, <2>7, <3>1 DEF WindowInv, MayLaunch, watch
    <3>4. QED
      BY <3>2, <3>3
  <2>8. QED
    BY <2>1, <2>4, <2>5, <2>6, <2>7, IconTouched DEF watch
<1>11. ASSUME NEW w \in Slots, ProgramEnds(w)
       PROVE  OrderlyInv'
  BY <1>0, <1>11, LaunchingChanged DEF ProgramEnds
<1>12. CASE ToggleInhibition
  BY <1>0, <1>12, LaunchingChanged DEF ToggleInhibition
<1>13. CASE Tick
  <2>1. /\ Idle /\ UNCHANGED <<queue, running, inhibited>>
        /\ \A v \in Slots : /\ icon[v].reader = "extra" => icon[v].age < WINDOW
                            /\ processing_ts'[v] = Older(processing_ts[v])
                            /\ icon'[v] = [icon[v] EXCEPT !.age = Older(@)]
    BY <1>0, <1>13 DEF Tick
  <2>2. Touches = {} /\ Touches' = {}
    BY <1>3, <1>4, <2>1
  <2>3. ASSUME NEW v \in Slots
        PROVE  icon'[v].reader = icon[v].reader /\ icon'[v].state = icon[v].state
               /\ icon'[v].age = Older(icon[v].age)
    BY <1>1, <2>1 DEF Icons
  <2>4. ASSUME NEW v \in Active
        PROVE  ReaderInv(v)' /\ (env.one_pass => WindowInv(v)')
    <3>1. v \in Slots
      BY SlotFacts
    <3>2. /\ Older(Never) = Never /\ Older(WINDOW + 1) = WINDOW + 1
          /\ \A age \in 0 .. WINDOW : Older(age) = age + 1
      BY <1>0 DEF Older, Never
    <3>3. icon[v].age \in 0 .. WINDOW + 1
      BY <1>1, <3>1
    <3>4. ASSUME icon[v].reader = "extra" PROVE icon'[v].age <= WINDOW
      <4>1. icon[v].age < WINDOW
        BY <2>1, <3>1, <3>4
      <4>2. icon'[v].age = icon[v].age + 1
        BY <1>0, <2>3, <3>1, <3>2, <3>3, <4>1
      <4>3. QED
        BY <1>0, <3>3, <4>1, <4>2
    <3>5. ReaderInv(v)'
      BY <1>0, <1>1, <2>1, <2>2, <2>3, <3>1, <3>4 DEF ReaderInv, Noted, MayLaunch
    <3>6. icon'[v].age <= WINDOW => icon[v].age <= WINDOW
      <4>1. CASE icon[v].age = WINDOW + 1
        BY <1>0, <2>3, <3>1, <3>2, <4>1
      <4>2. CASE icon[v].age # WINDOW + 1
        BY <1>0, <3>3, <4>2
      <4>3. QED
        BY <4>1, <4>2
    <3>7. ASSUME env.one_pass PROVE WindowInv(v)'
      <4>1. processing_ts'[v] = Older(processing_ts[v]) /\ WindowInv(v)
        BY <1>1, <2>1, <3>1, <3>7
      <4>2. icon'[v].age <= WINDOW' => processing_ts'[v] = icon'[v].age \/ ~MayLaunch(v)'
        BY <1>0, <2>1, <2>2, <2>3, <3>1, <3>6, <4>1 DEF WindowInv, MayLaunch
      <4>3. icon'[v].state \in {"new", "missing"} \/ icon'[v].reader = "nickel" =>
              processing_ts'[v] = Never /\ icon'[v].age = WINDOW' + 1
        BY <1>0, <2>3, <3>1, <3>2, <4>1 DEF WindowInv
      <4>4. QED
        BY <2>2, <4>2, <4>3 DEF WindowInv
    <3>8. QED
      BY <3>5, <3>7
  <2>5. OneByOne'
    BY <1>0, <1>4, <2>1, NoRemovals, OneByOneAfter
  <2>6. AllWatched' /\ Asking'
    BY <1>0, <1>4, <2>1, <2>3, SlotFacts DEF OrderlyInv, AllWatched, Asking, Exists
  <2>7. QED
    BY <1>0, <2>2, <2>4, <2>5, <2>6 DEF OrderlyInv, TouchesInv
<1>14. CASE UNCHANGED vars
  <2>1. UNCHANGED <<queue, watch, main, world>>
    BY <1>14 DEF vars
  <2>2. Touches' = Touches
    BY <1>0, <2>1, TouchesAfter
  <2>3. TouchesInv'
    BY <1>0, <2>1, <2>2, AllKept DEF OrderlyInv, watch, world
  <2>4. OneByOne'
    BY <2>1, <2>2 DEF OrderlyInv, OneByOne, Removals
  <2>5. AllWatched' /\ Asking'
    BY <2>1, <2>2 DEF OrderlyInv, AllWatched, Asking, Exists, MayLaunch, watch, world
  <2>6. QED
    BY <2>3, <2>4, <2>5 DEF OrderlyInv
<1>15. QED
  BY <1>5, <1>6, <1>7, <1>8, <1>9, <1>10, <1>11, <1>12, <1>13, <1>14 DEF Next

-----------------------------------------------------------------------------
(* What launches, and what does not.                                       *)

LEMMA OrderlyInit ==
    ASSUME Init, IInv
    PROVE  OrderlyInv
<1>1. queue = <<>> /\ main.buf = <<>> /\ main.pc = "poll"
  BY PollingFacts DEF Init
<1>2. Touches = {}
  BY <1>1, OneElement DEF Touches, Awaits
<1>3. OneByOne /\ Asking
  BY <1>1, NoRemovals DEF OneByOne, Asking
<1>4. AllWatched
  BY WatchedWdFacts, SlotFacts DEF Init, AllWatched
<1>5. ASSUME NEW w \in Active PROVE ReaderInv(w) /\ WindowInv(w)
  <2>1. icon[w].reader = "nobody" /\ icon[w].age = WINDOW + 1 /\ processing_ts[w] = Never
    BY SlotFacts DEF Init
  <2>2. ~(icon[w].age <= WINDOW)
    BY <2>1, EnvFacts DEF IInv, WINDOW
  <2>3. QED
    BY <1>2, <2>1, <2>2 DEF ReaderInv, WindowInv, Noted
<1>6. QED
  BY <1>2, <1>3, <1>4, <1>5 DEF OrderlyInv, TouchesInv

OrderedInv == IInv /\ (Orderly => OrderlyInv)

LEMMA OrderedInvariance == Spec => []OrderedInv
<1>1. Init => OrderedInv
  BY TypeInit, QueueInvInit, OrderlyInit DEF OrderedInv, IInv, QueueInv
<1>2. OrderedInv /\ [Next]_vars => OrderedInv'
  <2> SUFFICES ASSUME OrderedInv, [Next]_vars PROVE OrderedInv'
    OBVIOUS
  <2>1. IInv'
    BY TypeNext, QueueInvNext DEF OrderedInv, IInv, QueueInv, QueuesEnd
  <2>2. Orderly' => Orderly
    BY EnvConstant DEF Orderly
  <2>3. Orderly => OrderlyInv'
    BY HandlingOrderly, WorldOrderly DEF OrderedInv
  <2>4. QED
    BY <2>1, <2>2, <2>3 DEF OrderedInv
<1>3. QED
  BY <1>1, <1>2, PTL DEF Spec

\* The touch whose icon KFMon just asked the database about, or is about to.
LEMMA HeadTouch ==
    ASSUME OrderedInv, Orderly, main.pc \in {"open", "close"} \/ Taking("close")
    PROVE  \E e \in Touches :
             /\ Head(main.buf) = e /\ Touches = {e} /\ TouchInv(e) /\ e.slot \in Slots
             /\ e.reader \in {"nickel", "extra", "user"}
             /\ main.buf = <<e>> /\ MatchedSlot(e) = e.slot
             /\ main.pc \in {"open", "close"} => main.pc = e.mask /\ main.w = e.slot /\ MayLaunch(e.slot)
             /\ main.pc = "close" => ~pending_processing[e.slot]
             /\ env.one_pass => WindowInv(e.slot)
<1>1. IInv /\ OneByOne /\ Asking /\ TouchesInv /\ main.buf # <<>>
  BY DEF OrderedInv, OrderlyInv, IInv, HasEvent, Taking
<1>2. PICK e : e = Head(main.buf)
  OBVIOUS
<1>3. e.mask \in {"open", "close"} /\ (main.pc \in {"open", "close"} => main.pc = e.mask)
  <2>1. CASE Taking("close")
    BY <1>2, <2>1 DEF Taking
  <2>2. CASE main.pc \in {"open", "close"}
    <3>1. PICK d \in Touches : main.buf = <<d>> /\ d.mask = main.pc
      BY <1>1, <2>2 DEF Asking
    <3>2. Head(<<d>>) = d
      OBVIOUS
    <3>3. QED
      BY <1>2, <2>2, <3>1, <3>2
  <2>3. QED
    BY <2>1, <2>2
<1>4. /\ e \in Touches /\ Touches = {e} /\ main.buf = <<e>> /\ MatchedSlot(e) = e.slot
  BY <1>1, <1>2, <1>3, HeadFacts
<1>5. main.pc \in {"open", "close"} => main.w = e.slot /\ MayLaunch(e.slot)
  BY <1>1, <1>4 DEF Asking
<1>6. TouchInv(e) /\ e.slot \in Active
  BY <1>1, <1>4 DEF TouchesInv, TouchInv
<1>7. e.reader # "nobody"
  BY <1>3, <1>6 DEF TouchInv
<1>8. e.reader \in {"nickel", "extra", "user"} /\ e.slot \in Slots
  BY <1>1, <1>4, <1>6, <1>7, EnvFacts, SlotFacts DEF Touches, Events, Anyone, IInv
<1>9. QED
  BY <1>1, <1>2, <1>3, <1>4, <1>5, <1>6, <1>8 DEF Asking, TouchesInv

\* Only the answer to a close launches.
LEMMA Launches ==
    ASSUME IInv, [Next]_vars, NEW w \in Slots, w \notin running, w \in running'
    PROVE  QueryOnClose /\ w = main.w /\ processing_ts[w] \in {Never, WINDOW + 1}
  BY DEF Next, Handling, vars, watch, world, Read, ReadNothing, TakeOpen, QueryOnOpen, TakeClose,
     QueryOnClose, Refuse, TakeUnmount, TakeIgnored, TakeOverflow, EndBatch, Reinit, OpenIcon, StoreIcon,
     CloseIcon, DeleteIcon, RestoreIcon, ProgramEnds, Unmount, ToggleInhibition, Tick

\* A launch is a user's: neither the open and close by which Nickel processes a new
\* icon, refused because the icon was not processed when it was opened, nor the pair
\* right after it, refused because that refusal is not yet WINDOW seconds old.
THEOREM OnlyUsersLaunch == Spec => OnlyTapsLaunch
<1>1. ASSUME OrderedInv, [Next]_vars, Orderly, env.one_pass,
             NEW w \in Slots, w \notin running, w \in running'
      PROVE  Head(main.buf).reader = "user"
  <2>1. QueryOnClose /\ w = main.w /\ processing_ts[w] \in {Never, WINDOW + 1}
    BY <1>1, Launches DEF OrderedInv
  <2>2. main.pc = "close"
    BY <2>1 DEF QueryOnClose
  <2>3. PICK e \in Touches :
           /\ Head(main.buf) = e /\ Touches = {e} /\ TouchInv(e) /\ e.mask = "close"
           /\ e.reader \in {"nickel", "extra", "user"} /\ w = e.slot /\ MayLaunch(w)
           /\ ~pending_processing[w] /\ WindowInv(w)
    BY <1>1, <2>1, <2>2, HeadTouch
  <2>4. e.reader # "nickel"
    BY <2>3 DEF TouchInv, Noted
  <2>5. ASSUME e.reader = "extra" PROVE FALSE
    <3>1. icon[w].age <= WINDOW
      BY <2>3, <2>5 DEF TouchInv
    <3>2. processing_ts[w] = icon[w].age
      BY <2>3, <2>4, <3>1 DEF WindowInv
    <3>3. icon[w].age \in 0 .. WINDOW + 1 /\ WINDOW \in Nat
      BY <1>1, EnvFacts DEF OrderedInv, IInv, TypeOK, Icons, WINDOW
    <3>4. QED
      BY <2>1, <3>1, <3>2, <3>3 DEF Never
  <2>6. QED
    BY <2>3, <2>4, <2>5
<1>2. OrderedInv /\ [Next]_vars =>
        [Orderly /\ env.one_pass =>
           \A w \in Slots : w \notin running /\ w \in running' => Head(main.buf).reader = "user"]_vars
  BY <1>1
<1>3. QED
  BY <1>2, OrderedInvariance, PTL DEF Spec, OnlyTapsLaunch

\* A user's tap on an icon Nickel knows launches its program, whatever earlier opens,
\* closes and refusals of that icon left behind.
THEOREM UsersTapsLaunch == Spec => TapsLaunch
<1>1. ASSUME OrderedInv, [Next]_vars, NEW w \in Active, Orderly, ~env.busy,
             main.buf # <<>>, Head(main.buf) = EventFor(w, "close", "user"),
             main'.buf = Tail(main.buf), icon[w].state = "stored",
             processing_ts[w] \in {Never, WINDOW + 1}, MayLaunch(w)
      PROVE  w \in running'
  <2>1. main.buf \in Seq(Events) /\ main \in MainStates
    BY <1>1 DEF OrderedInv, IInv, TypeOK, MainStates
  <2>2. main'.buf # main.buf
    <3>1. Len(main'.buf) = Len(main.buf) - 1 /\ Len(main.buf) \in Nat
      BY <1>1, <2>1, TailFacts
    <3>2. Len(main'.buf) # Len(main.buf)
      BY <3>1
    <3>3. QED
      BY <3>2
  <2>3. Head(main.buf).mask = "close" /\ Head(main.buf).slot = w /\ Head(main.buf).reader = "user"
    BY <1>1 DEF EventFor
  <2>4. main.pc \notin {"poll", "read", "reinit"}
    BY <1>1 DEF OrderedInv, OrderlyInv, OneByOne
  <2>5. main' # main
    BY <2>2
  <2>6. Handling
    BY <1>1, <2>5, WorldSteps DEF OrderedInv, IInv, QueuesEnd
  <2>7. ~Taking("open") /\ ~Taking("unmount") /\ ~Taking("ignored") /\ ~Taking("overflow")
    BY <2>3 DEF Taking
  <2>8. main.pc # "open"
    BY <1>1, <2>3, HeadTouch
  <2>9. QueryOnOpen \/ TakeOpen \/ Read \/ ReadNothing \/ TakeUnmount \/ TakeIgnored \/ TakeOverflow
        \/ EndBatch \/ Reinit => FALSE
    BY <1>1, <2>4, <2>7, <2>8 DEF QueryOnOpen, TakeOpen, Read, ReadNothing, TakeUnmount, TakeIgnored,
       TakeOverflow, EndBatch, Reinit
  <2>10. ~TakeClose
    <3> SUFFICES ASSUME TakeClose PROVE FALSE
      OBVIOUS
    <3>1. Taking("close")
      BY DEF TakeClose
    <3>2. MatchedSlot(Head(main.buf)) = w /\ TouchInv(Head(main.buf))
      BY <1>1, <2>3, <3>1, HeadTouch
    <3>3. ~pending_processing[w]
      BY <1>1, <2>3, <3>2 DEF TouchInv, Noted
    <3>4. main' = [main EXCEPT !.pc = "close", !.w = w]
      BY <1>1, <3>2, <3>3 DEF TakeClose
    <3>5. QED
      BY <2>1, <2>2, <3>4 DEF MainStates
  <2>11. CASE QueryOnClose
    <3>1. main.w = w
      BY <1>1, <2>3, <2>11, HeadTouch DEF QueryOnClose
    <3>2. \A processed \in BOOLEAN : TargetProcessed(w, processed) => processed
      BY <1>1 DEF TargetProcessed
    <3>3. QED
      BY <1>1, <2>11, <3>1, <3>2 DEF QueryOnClose
  <2>12. QED
    BY <2>6, <2>9, <2>10, <2>11 DEF Handling
<1>2. OrderedInv /\ [Next]_vars =>
        [\A w \in Active :
           /\ Orderly /\ ~env.busy
           /\ main.buf # <<>> /\ Head(main.buf) = EventFor(w, "close", "user")
           /\ main'.buf = Tail(main.buf)
           /\ icon[w].state = "stored" /\ icon[w].age > WINDOW
           /\ processing_ts[w] \in {Never, WINDOW + 1}
           /\ MayLaunch(w)
           => w \in running']_vars
  BY <1>1
<1>3. QED
  BY <1>2, OrderedInvariance, PTL DEF Spec, TapsLaunch

=============================================================================
