------------------------------- MODULE Events -------------------------------
(***************************************************************************)
(* handle_events: the inotify queue, the batches KFMon reads from it, and  *)
(* what an IN_OPEN and an IN_CLOSE of a watched icon make it do, while     *)
(* Nickel processes new icons and the user taps known ones.                *)
(*                                                                         *)
(* Each slot has an icon of its own.  An icon is opened and closed by one  *)
(* reader at a time.  Time is counted in seconds, up to just past WINDOW.  *)
(***************************************************************************)
EXTENDS Integers, Sequences, FiniteSets

CONSTANTS
    WATCH_MAX,      \* number of watch slots
    Active,         \* the active ones
    Environments    \* what KFMon may find around it: see env below

ASSUME SizesAssumption == WATCH_MAX \in Nat \ {0}
ASSUME ActiveAssumption == Active \subseteq 0 .. WATCH_MAX - 1

\* window: seconds an icon that was just processed launches nothing (10 in the code).
\* queue_max: events the kernel queues before it reports an overflow.
\* readers: who opens icons: Nickel to process them ("nickel") and once more after
\*    that ("extra"), and the user, by tapping them ("user").
\* busy: Nickel's database may be locked for longer than db_timeout.
\* one_pass: Nickel processes an icon only once, and opens it once to do so.
\* prompt: KFMon handles an event before Nickel or the clock go on.
\* steady: no event is lost while an icon is open, and whether launches are
\*    inhibited does not change until Nickel is done with it.
ASSUME EnvironmentsAssumption ==
    Environments \subseteq [window : Nat \ {0}, queue_max : Nat \ {0},
                            readers : SUBSET {"nickel", "extra", "user"}, busy : BOOLEAN,
                            one_pass : BOOLEAN, prompt : BOOLEAN, steady : BOOLEAN]

Slots == 0 .. WATCH_MAX - 1
NoWd == -1
Wds == 1 .. WATCH_MAX
Never == -1
VARIABLES
    queue,              \* the kernel's queue of the inotify descriptor
    inotify_wd,         \* watchConfig[].inotify_wd
    pending_processing, \* watchConfig[].pending_processing
    processing_ts,      \* watchConfig[].processing_ts, as seconds since; Never is 0
    wd_was_destroyed,   \* watchConfig[].wd_was_destroyed
    main,               \* where the main thread is, with the locals of handle_events
    icon,               \* each slot's icon
    running,            \* slots with a process in the process table
    inhibited,          \* a spawn blocker runs or the BLOCK file is there
    env                 \* the environment, which never changes

watch == <<inotify_wd, pending_processing, processing_ts, wd_was_destroyed>>
world == <<icon, running, inhibited, env>>
vars == <<queue, watch, main, world>>

WINDOW == env.window
Ages == {Never} \cup 0 .. WINDOW + 1      \* WINDOW + 1 stands for longer
Anyone == env.readers \cup {"nobody"}

\* An event, with the slot whose icon it is about and the reader who caused it, if any.
Events == [wd : Wds \cup {NoWd}, mask : {"open", "close", "ignored", "unmount", "overflow"},
           slot : Slots, reader : Anyone]

\* stored: Nickel has the icon in its database and made its thumbnails; it closed
\* it age seconds ago.  deleted: such an icon is gone; missing: it never was there.
\* reader is who has it open.
Icons == [state : {"missing", "new", "stored", "deleted"}, age : 0 .. WINDOW + 1, reader : Anyone]

\* Descriptors, time stamps and the matched slot are within their ranges; the queue
\* holds at most one event more than its limit, the overflow.
TypeOK ==
    /\ queue \in Seq(Events) /\ Len(queue) <= env.queue_max + 1
    /\ inotify_wd \in [Slots -> Wds \cup {NoWd}]
    /\ pending_processing \in [Slots -> BOOLEAN]
    /\ processing_ts \in [Slots -> Ages]
    /\ wd_was_destroyed \in [Slots -> BOOLEAN]
    /\ main \in [pc : {"poll", "read", "event", "open", "close", "reinit"}, buf : Seq(Events),
                 w : Slots, destroyed_wd : BOOLEAN, was_unmounted : BOOLEAN]
    /\ icon \in [Slots -> Icons]
    /\ running \in SUBSET Slots
    /\ inhibited \in BOOLEAN
    /\ env \in Environments

-----------------------------------------------------------------------------
(* inotify, as the code uses it.                                           *)

Overflow == [wd |-> NoWd, mask |-> "overflow", slot |-> WATCH_MAX - 1, reader |-> "nobody"]

\* The kernel's descriptor for an icon is the one KFMon got for it.
EventFor(w, mask, reader) == [wd |-> inotify_wd[w], mask |-> mask, slot |-> w, reader |-> reader]

\* An event equal to the last one queued is merged with it; past queue_max
\* events are lost, and one overflow event says so.
Queued(q, e) ==
    IF q # <<>> /\ q[Len(q)].wd = e.wd /\ q[Len(q)].mask = e.mask THEN q
    ELSE IF Len(q) < env.queue_max THEN Append(q, e)
    ELSE IF \E n \in 1 .. Len(q) : q[n] = Overflow THEN q
    ELSE Append(q, Overflow)

Exists(w) == icon[w].state \in {"new", "stored"}

IsWatched(w) == main.pc # "reinit" /\ inotify_wd[w] # NoWd /\ Exists(w)

Notify(w, mask, reader) ==
    queue' = IF IsWatched(w) THEN Queued(queue, EventFor(w, mask, reader)) ELSE queue

\* The main thread has nothing left to handle.
Idle == main.pc = "poll" /\ queue = <<>>

-----------------------------------------------------------------------------
Polling == [pc |-> "poll", buf |-> <<>>, w |-> 0, destroyed_wd |-> FALSE, was_unmounted |-> FALSE]

\* inotify_add_watch numbers the icons that exist from 1, per inotify descriptor.
WatchedWd(w) ==
    IF w \in Active /\ Exists(w)
    THEN Cardinality({v \in Active : v <= w /\ Exists(v)})
    ELSE NoWd

\* What is left of a descriptor after inotify_rm_watch, which fails if the kernel
\* dropped the watch already.
RemovedWd(w) == IF IsWatched(w) THEN NoWd ELSE inotify_wd[w]

Init ==
    /\ env \in Environments
    /\ icon \in [Slots -> {[state |-> s, age |-> WINDOW + 1, reader |-> "nobody"]
                              : s \in {"missing", "new", "stored"}}]
    /\ queue = <<>>
    /\ inotify_wd = [w \in Slots |-> WatchedWd(w)]
    /\ pending_processing = [w \in Slots |-> FALSE]
    /\ processing_ts = [w \in Slots |-> Never]
    /\ wd_was_destroyed = [w \in Slots |-> FALSE]
    /\ main = Polling
    /\ running = {}
    /\ inhibited = FALSE

(* The loop of handle_events.                                              *)

\* poll, then read: the batch is all that is queued, as long as it fits the 4096 bytes
\* of the buffer, which are 256 events.
Read ==
    /\ main.pc \in {"poll", "read"}
    /\ queue # <<>>
    /\ main' = [main EXCEPT !.pc = "event", !.buf = queue]
    /\ queue' = <<>>
    /\ UNCHANGED <<watch, world>>

\* EAGAIN: nothing more to read.
ReadNothing ==
    /\ main.pc = "read"
    /\ queue = <<>>
    /\ main' = Polling
    /\ UNCHANGED <<queue, watch, world>>

\* Mutant: the search does not stop at the match.
MatchedSlotPastEnd(e) == WATCH_MAX

\* The slot an event is matched to: the first active one with its descriptor,
\* and for want of one the last slot.
MatchedSlot(e) ==
    LET candidates == {w \in Active : inotify_wd[w] = e.wd} IN
    IF candidates = {} THEN WATCH_MAX - 1
    ELSE CHOOSE w \in candidates : \A v \in candidates : w <= v

\* Nothing keeps slot w from launching: asked on every open and close.
MayLaunch(w) == w \notin running /\ ~inhibited

Taking(mask) == main.pc = "event" /\ main.buf # <<>> /\ Head(main.buf).mask = mask

NextEvent == [main EXCEPT !.pc = "event", !.buf = Tail(@), !.w = 0]

\* IN_OPEN: look the icon up, unless nothing may be launched anyway.
TakeOpen ==
    /\ Taking("open")
    /\ LET w == MatchedSlot(Head(main.buf)) IN
       main' = IF MayLaunch(w) THEN [main EXCEPT !.pc = "open", !.w = w] ELSE NextEvent
    /\ UNCHANGED <<queue, watch, world>>

\* is_target_processed: in the database, with its thumbnails.  A database that
\* stays busy counts as not processed.
TargetProcessed(w, processed) ==
    processed \in IF icon[w].state # "stored" THEN {FALSE}
                  ELSE IF env.busy THEN BOOLEAN ELSE {TRUE}

\* Mutant: the pending flag is raised, never lowered.
QueryOnOpenSticky ==
    /\ main.pc = "open"
    /\ \E processed \in BOOLEAN :
          /\ TargetProcessed(main.w, processed)
          /\ pending_processing' = [pending_processing EXCEPT ![main.w] = @ \/ ~processed]
    /\ main' = NextEvent
    /\ UNCHANGED <<queue, inotify_wd, processing_ts, wd_was_destroyed, world>>

QueryOnOpen ==
    /\ main.pc = "open"
    /\ \E processed \in BOOLEAN :
          /\ TargetProcessed(main.w, processed)
          /\ pending_processing' = [pending_processing EXCEPT ![main.w] = ~processed]
    /\ main' = NextEvent
    /\ UNCHANGED <<queue, inotify_wd, processing_ts, wd_was_destroyed, world>>

\* Mutant: a refusal leaves no time stamp.
RefuseUnstamped(w) == UNCHANGED <<processing_ts, running>>

\* Not launching: remember when that happened first.
Refuse(w) ==
    /\ processing_ts' = [processing_ts EXCEPT ![w] = IF @ = Never THEN 0 ELSE @]
    /\ UNCHANGED running

\* IN_CLOSE: a pending icon is refused without asking the database.
TakeClose ==
    /\ Taking("close")
    /\ LET w == MatchedSlot(Head(main.buf)) IN
       IF MayLaunch(w) /\ ~pending_processing[w]
       THEN main' = [main EXCEPT !.pc = "close", !.w = w] /\ UNCHANGED <<processing_ts, running>>
       ELSE /\ main' = NextEvent
            /\ IF MayLaunch(w) THEN Refuse(w) ELSE UNCHANGED <<processing_ts, running>>
    /\ UNCHANGED <<queue, inotify_wd, pending_processing, wd_was_destroyed, icon, inhibited, env>>

\* Launch if the icon is processed, and was not still refused WINDOW seconds ago.
QueryOnClose ==
    /\ main.pc = "close"
    /\ \E processed \in BOOLEAN :
          /\ TargetProcessed(main.w, processed)
          /\ IF processed /\ processing_ts[main.w] \in {Never, WINDOW + 1}
             THEN /\ running' = running \cup {main.w}
                  /\ processing_ts' = [processing_ts EXCEPT ![main.w] = Never]
             ELSE Refuse(main.w)
    /\ main' = NextEvent
    /\ UNCHANGED <<queue, inotify_wd, pending_processing, wd_was_destroyed, icon, inhibited, env>>

TakeUnmount ==
    /\ Taking("unmount")
    /\ main' = [NextEvent EXCEPT !.was_unmounted = TRUE]
    /\ UNCHANGED <<queue, watch, world>>

TakeIgnored ==
    /\ Taking("ignored")
    /\ main' = [NextEvent EXCEPT !.destroyed_wd = TRUE]
    /\ wd_was_destroyed' = [wd_was_destroyed EXCEPT ![MatchedSlot(Head(main.buf))] = TRUE]
    /\ UNCHANGED <<queue, inotify_wd, pending_processing, processing_ts, world>>

\* Mutant: an overflow is drained like any other event.
TakeOverflowDrained ==
    /\ Taking("overflow")
    /\ main' = NextEvent
    /\ UNCHANGED <<queue, watch, world>>

\* IN_Q_OVERFLOW has no descriptor, yet the watch it was matched to is removed.
TakeOverflow ==
    /\ Taking("overflow")
    /\ LET w == MatchedSlot(Head(main.buf)) IN
       /\ main' = [NextEvent EXCEPT !.destroyed_wd = TRUE]
       /\ wd_was_destroyed' = [wd_was_destroyed EXCEPT ![w] = TRUE]
       /\ inotify_wd' = [inotify_wd EXCEPT ![w] = RemovedWd(w)]
    /\ UNCHANGED <<queue, pending_processing, processing_ts, world>>

\* Mutant: the destruction flags are not reset.
EndBatchKeepingFlags ==
    /\ main.pc = "event"
    /\ main.buf = <<>>
    /\ IF main.destroyed_wd
       THEN /\ main' = [Polling EXCEPT !.pc = "reinit"]
            /\ queue' = <<>>
            /\ inotify_wd' = [w \in Slots |->
                  IF w \in Active /\ ~wd_was_destroyed[w] /\ ~main.was_unmounted
                  THEN RemovedWd(w) ELSE inotify_wd[w]]
       ELSE main' = [main EXCEPT !.pc = "read"] /\ UNCHANGED <<queue, inotify_wd>>
    /\ UNCHANGED <<wd_was_destroyed, pending_processing, processing_ts, world>>

\* The end of a batch: read on, or, if a watch is gone, remove the others and
\* leave for the top of the main loop, which closes the descriptor.
EndBatch ==
    /\ main.pc = "event"
    /\ main.buf = <<>>
    /\ IF main.destroyed_wd
       THEN /\ main' = [Polling EXCEPT !.pc = "reinit"]
            /\ queue' = <<>>
            /\ wd_was_destroyed' = [w \in Slots |-> w \notin Active /\ wd_was_destroyed[w]]
            /\ inotify_wd' = [w \in Slots |->
                  IF w \in Active /\ ~wd_was_destroyed[w] /\ ~main.was_unmounted
                  THEN RemovedWd(w) ELSE inotify_wd[w]]
       ELSE /\ main' = [main EXCEPT !.pc = "read"]
            /\ UNCHANGED <<queue, wd_was_destroyed, inotify_wd>>
    /\ UNCHANGED <<pending_processing, processing_ts, world>>

\* Mutant: a watch whose icon is gone keeps its old descriptor.
ReinitStale ==
    /\ main.pc = "reinit"
    /\ inotify_wd' = [w \in Slots |-> IF WatchedWd(w) # NoWd THEN WatchedWd(w) ELSE inotify_wd[w]]
    /\ main' = Polling
    /\ UNCHANGED <<queue, pending_processing, processing_ts, wd_was_destroyed, world>>

\* The main loop comes round: a new descriptor, and a watch for each icon that
\* exists; the others are IPC-only.
Reinit ==
    /\ main.pc = "reinit"
    /\ inotify_wd' = [w \in Slots |-> IF w \in Active THEN WatchedWd(w) ELSE inotify_wd[w]]
    /\ main' = Polling
    /\ UNCHANGED <<queue, pending_processing, processing_ts, wd_was_destroyed, world>>

-----------------------------------------------------------------------------
(* Nickel, the user and the clock.                                         *)

\* Nickel opens a new icon to process it, and opens it once more soon after; the
\* user opens icons Nickel knows, one at a time.
OpenIcon(w, reader) ==
    /\ icon[w].reader = "nobody"
    /\ CASE reader = "nickel" -> icon[w].state = "new"
         [] reader = "extra"  -> icon[w].state = "stored" /\ icon[w].age <= WINDOW
         [] reader = "user"   -> /\ icon[w].state = "stored"
                                 /\ \A v \in Slots : icon[v].reader # "user"
    /\ env.steady => main.pc # "reinit"
    /\ env.prompt => Idle
    /\ icon' = [icon EXCEPT ![w].reader = reader]
    /\ Notify(w, "open", reader)
    /\ UNCHANGED <<watch, main, running, inhibited, env>>

StoreIcon(w) ==
    /\ icon[w].reader = "nickel"
    /\ icon[w].state = "new"
    /\ env.prompt => Idle
    /\ icon' = [icon EXCEPT ![w].state = "stored"]
    /\ UNCHANGED <<queue, watch, main, running, inhibited, env>>

CloseIcon(w) ==
    /\ icon[w].reader # "nobody"
    /\ env.one_pass => icon[w].state # "new"
    /\ env.prompt => Idle
    /\ icon' = [icon EXCEPT
                  ![w].reader = "nobody",
                  ![w].age = IF icon[w].reader = "nickel" /\ icon[w].state = "stored"
                             THEN 0 ELSE @]
    /\ Notify(w, "close", icon[w].reader)
    /\ UNCHANGED <<watch, main, running, inhibited, env>>

Quiet == Idle /\ \A w \in Slots : icon[w].reader = "nobody"

\* Nor is an icon just processed, which Nickel may open once more.
Settled == Quiet /\ \A w \in Slots : icon[w].age > WINDOW

\* An icon is deleted, and with it its inotify watch.
DeleteIcon(w) ==
    /\ Exists(w)
    /\ icon[w].reader = "nobody"
    /\ env.steady => Quiet
    /\ icon' = [icon EXCEPT ![w].state = IF @ = "new" THEN "missing" ELSE "deleted"]
    /\ Notify(w, "ignored", "nobody")
    /\ UNCHANGED <<watch, main, running, inhibited, env>>

\* The partition is unmounted under its watches: each gets IN_IGNORED, and
\* IN_UNMOUNT or not (on Kobos it does not), in whichever order the kernel takes them.
Unmount(announced) ==
    /\ main.pc = "poll"
    /\ Quiet
    /\ LET gone == {w \in Active : IsWatched(w)}
           masks == IF announced THEN <<"unmount", "ignored">> ELSE <<"ignored">>
           size == Len(masks) * Cardinality(gone)
       IN  /\ gone # {} /\ size <= env.queue_max
           /\ \E order \in [1 .. Cardinality(gone) -> gone] :
                 /\ \A m, n \in DOMAIN order : m # n => order[m] # order[n]
                 /\ queue' = [n \in 1 .. size |->
                       EventFor(order[1 + ((n - 1) \div Len(masks))],
                                masks[1 + ((n - 1) % Len(masks))], "nobody")]
    /\ UNCHANGED <<watch, main, world>>

\* During the session that follows, the user copies an icon to the device; Nickel's
\* database may still know it.
RestoreIcon(w) ==
    /\ main.pc = "reinit"
    /\ ~Exists(w)
    /\ \E s \in CASE icon[w].state = "missing" -> {"new"}
                 [] icon[w].state = "deleted" -> IF env.one_pass THEN {"stored"} ELSE {"new", "stored"} :
          icon' = [icon EXCEPT ![w].state = s]
    /\ UNCHANGED <<queue, watch, main, running, inhibited, env>>

ProgramEnds(w) ==
    /\ w \in running
    /\ env.steady => Settled
    /\ running' = running \ {w}
    /\ UNCHANGED <<queue, watch, main, icon, inhibited, env>>

ToggleInhibition ==
    /\ env.steady => Settled
    /\ inhibited' = ~inhibited
    /\ UNCHANGED <<queue, watch, main, icon, running, env>>

Older(age) == IF age \in {Never, WINDOW + 1} THEN age ELSE age + 1

\* A second passes.  The extra pair does not take Nickel longer than WINDOW.
Tick ==
    /\ env.prompt => Idle
    /\ \A w \in Slots : icon[w].reader = "extra" => icon[w].age < WINDOW
    /\ processing_ts' = [w \in Slots |-> Older(processing_ts[w])]
    /\ icon' = [w \in Slots |-> [icon[w] EXCEPT !.age = Older(@)]]
    /\ UNCHANGED <<queue, inotify_wd, pending_processing, wd_was_destroyed, main, running,
                   inhibited, env>>

Handling ==
    \/ Read \/ ReadNothing \/ TakeOpen \/ QueryOnOpen \/ TakeClose \/ QueryOnClose
    \/ TakeUnmount \/ TakeIgnored \/ TakeOverflow \/ EndBatch \/ Reinit

Next ==
    \/ Handling
    \/ \E w \in Slots, reader \in env.readers : OpenIcon(w, reader)
    \/ \E w \in Slots : StoreIcon(w) \/ CloseIcon(w) \/ DeleteIcon(w) \/ RestoreIcon(w)
                        \/ ProgramEnds(w)
    \/ \E announced \in BOOLEAN : Unmount(announced)
    \/ ToggleInhibition
    \/ Tick

Spec == Init /\ [][Next]_vars

\* The main thread keeps handling what there is to handle.
FairSpec == Spec /\ WF_vars(Handling)

-----------------------------------------------------------------------------
(* Properties.                                                             *)

\* An open or a close is always matched to the watch whose icon it is about,
\* through overflows, unmounts and the removal of watches in mid-batch.
EventsReachTheirWatch ==
    main.pc = "event" /\ main.buf # <<>> /\ Head(main.buf).mask \in {"open", "close"} =>
        MatchedSlot(Head(main.buf)) = Head(main.buf).slot

\* No destruction flag outlives the batch that raised it on an active watch: a
\* stale flag would spare that watch from the next removal.
FlagsReset ==
    main.pc \in {"poll", "read", "reinit"} => \A w \in Active : ~wd_was_destroyed[w]

\* KFMon keeps up with what happens, and nothing is lost on the way.
Orderly == env.prompt /\ env.steady

\* Only the user's own open and close of an icon launch its program, not those
\* by which Nickel processes it in one pass, nor the pair that follows right after.
OnlyTapsLaunch ==
    [][Orderly /\ env.one_pass =>
         \A w \in Slots : w \notin running /\ w \in running' => Head(main.buf).reader = "user"]_vars

\* A tap on an icon Nickel has long known launches its program, unless it runs
\* already, launches are inhibited or the database is locked: what earlier refusals
\* left behind does not last.
TapsLaunch ==
    [][\A w \in Active :
         /\ Orderly /\ ~env.busy
         /\ main.buf # <<>> /\ Head(main.buf) = EventFor(w, "close", "user")
         /\ main'.buf = Tail(main.buf)
         /\ icon[w].state = "stored" /\ icon[w].age > WINDOW
         /\ processing_ts[w] \in {Never, WINDOW + 1}
         /\ MayLaunch(w)
         => w \in running']_vars

\* A watch the kernel dropped is noticed, even if the event that says so is
\* lost to an overflow: the watch ends up rebuilt or IPC-only.
LostWatchNoticed ==
    \A w \in Active : inotify_wd[w] # NoWd /\ ~Exists(w) ~> inotify_wd[w] = NoWd \/ Exists(w)
=============================================================================
