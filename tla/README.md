# KFMon: models, checks and proofs

TLA+ models of [KFMon](../src/README.md), the daemon that launches programs on a Kobo when their
icon is opened. They are translated from `src/kfmon.c`, `src/kfmon.h`, `src/utils/kfmon-ipc.c`,
`src/openssh/atomicio.c` and `src/str5/str5cpy.c`; `PROJECT.json` maps every definition to the lines
it stands for.

## The system

| Component | State | Operations | Talks to |
|---|---|---|---|
| Process table, spawning, reaping (`spawn`, `reaper_thread`, the `PT` helpers) | `PT`, the children, one detached thread per child | check, fork, find an entry, fill it, start a reaper; read the pid, `waitpid`, release the entry | called by events and IPC; reads `watchConfig`; read by the config update |
| Watch configs (`load_config`, `update_watch_configs`, the validations) | `watchConfig`, `new_watch_list` | load, walk one config, merge, add, drop, purge, set up the inotify watch | asks `PT` whether a watch runs; touches the IPC socket |
| Config parsing (the ini handlers, `strtoul_hu`, `strtobool`, `str5cpy`) | `daemonConfig`, the keys of each watch | take or refuse a value, discard a file | fills what the previous line keeps |
| Inotify events (`handle_events`) | the queue, `inotify_wd`, `pending_processing`, `processing_ts`, `wd_was_destroyed` | read a batch, IN_OPEN, IN_CLOSE, IN_UNMOUNT, IN_IGNORED, IN_Q_OVERFLOW, end of batch | Nickel, the query, the process table |
| Query (`is_target_processed`) | its locals | select, look for thumbnails, update the title, wait for the journal | Nickel's database and files |
| Mount monitoring and main loop (`is_target_mounted`, `wait_for_target_mountpoint`, `main`) | the mount table, the count of changes | check, wait, update, set up the watches, listen, start over | Nickel's USBMS sessions |
| IPC server (`handle_connection`, `handle_ipc`) | the connection, `retry`, the socket buffers | accept, poll, drop, read a command, answer | clients, the process table |
| IPC client (`kfmon-ipc.c`) | stdin, the connection | poll, send stdin, print replies, leave | the server |
| Transfers (`atomicio.c`) | position and result of a call | `xread`, `read_in_full`, `xwrite`, `write_in_full`, `send_in_full` | server and client |
| Startup, boot scripts | the pidfile | start once | |

The main thread does everything but reap: mount wait, config walk, events and IPC never overlap.
Each reaper thread overlaps with all of it, and shares `PT` with the main thread under `ptlock`. The
rest of the concurrency is with the world: Nickel reads icons, writes its database and mounts
partitions, the user taps, deletes and edits, programs end, pids are recycled, clients hang up.

What is hard here, and what must hold:

- Launching checks the table in one critical section, looks for an entry in a second, and fills it in
  a third, while reapers empty others. The table must stay free of duplicates and overflows, and
  agree with the kernel's children even when a pid is given again before its old entry is released.
- A config update runs while programs run and end, over files that clash with each other and with
  watches that are about to be dropped. It merges key by key, and a file is parsed right into a slot.
- Nickel opens and closes every icon it discovers, with no order between that and its database, and
  only a tap may launch anything; yet what such passes leave behind must not refuse taps for ever.
- A verdict on an icon rests on several statements and files, looked at one after the other while
  Nickel changes them, and on a wait that must end.
- A queue overflow or an unmount makes watches vanish; descriptor numbers are used again after that.
- While a connection is served nothing else is. Clients may be mute, slow, or gone by their turn.
- Bytes move in pieces, with signals in between, to ends that may go away.
- The mount table changes between a look and what is done about it.

`hazards` in `PROJECT.json` lists these at their lines, with the properties that watch over them.

## The modules

| Module | What it is |
|---|---|
| `Launcher` | What KFMon promises: one program per slot at most, and nothing unforced next to a spawn blocker. |
| `ProcessTable` | The launching in detail. Implements `Launcher` (`ImplementsLauncher`). |
| `ProcessTable_proofs` | Theorems about `ProcessTable`, and that it implements `Launcher`. |
| `WatchConfig`, `WatchConfig_proofs` | The config directory and the slots, one ini file at a time; theorems about it. |
| `Config` | The same key by key, and the daemon's own settings. Implements `WatchConfig` (`ImplementsWatchConfig`). |
| `Config_proofs` | Theorems about `Config`, and that it implements `WatchConfig`. |
| `Events`, `Events_proofs` | `handle_events`, with Nickel, the user and the clock; theorems about it. |
| `Query`, `Query_proofs` | `is_target_processed`, with Nickel; theorems about it. |
| `Ipc`, `Ipc_proofs` | Server and client, over a stream socket; theorems about it. |
| `Stream` | What a stream and the wrappers around it promise. |
| `Transfer`, `Transfer_proofs` | The wrappers over a kernel buffer. Implements `Stream` (`ImplementsStream`); theorems about it. |
| `MainLoop`, `MainLoop_proofs` | The outer loop of `main`, across sessions; theorems about it. |
| `MC*` | Values for TLC's runs; each `.cfg` is one run. |

The modules share state and each takes a coarse view of what another details:

- `ProcessTable` lets a slot change between two launches (`NewWatch`, `UpdateWatch`,
  `PurgeStaleWatch`). That `WatchConfig` changes slots in no other way is its property
  `SlotStepsAsInProcessTable`.
- `WatchConfig` takes the settings of a config as one value, and a file as something that parses or
  does not. `Config` has keys and values, and implements it step by step, so what holds of the slots
  in `WatchConfig` holds key by key.
- `WatchConfig` and `Ipc` know of the process table only which slots run. That a slot registered
  there has its child, and that the entry goes when the child does, is `ProcessTable`'s.
- `Events` takes an answer about an icon for one step, and a busy database for a negative answer.
  What an answer is worth is `Query`'s.
- `Ipc` reads and sends a command or a reply in one step, which is `Stream`'s promise.
- `MainLoop` takes a whole config walk as one step, and of events only the loss of a watch.
- `Events` takes the config walk out of `Reinit` and keeps the active slots as they are.

### How they correspond to the code

**ProcessTable.** A critical section under `ptlock` is one step, so the lock does not appear.
`CheckTable` is the block that asks `is_watch_already_spawned` and `is_blocker_running`, in
`handle_events` and `handle_ipc` alike; `Decide` the branches after it, with the look for the BLOCK
file, which happens outside the lock; `GiveUp` an icon that turns out not to be processed. `Fork`,
`FindEntry`, `AddEntry` and `StartReaper` are `spawn`, and `SpawnFails` its failures, which end the
daemon. The ones after `pthread_create` (the attributes, the name) end it along with the new reaper, so
they count as a failure just before. `ReadEntry`, `Reap` / `ReapFails` and `RemoveEntry` are `reaper_thread`. A child's record
holds which slot it was launched from and how, which the code does not keep: properties compare
it to the table. `auto_reap`, chosen at `Init`, is SIGCHLD ignored by whoever started KFMon, which
survives `exec` and makes every `waitpid` fail. `CONFIGS_STAY` says no config is deleted while its
program runs.

**WatchConfig.** Of a config there remain whether it parses, its filename, whether the mandatory
keys are there (`sane`), and `settings`, all an update may change. `LoadFile`
is one round of `load_config`; `SkipFile`, `NewFile`, `RunningFile` and `KnownFile` are the cases of
one round of `update_watch_configs`; `PurgeStale` its end; `SetupWatch` the loop of `main` around
`inotify_add_watch`. What happens after a store past the end of `new_watch_list` is undefined, and
the model stops there.

**Config.** A file is the sequence of the pairs inih finds in it; a missing file, or one that is gone
in the middle of the walk, has none. `IniParse` is inih's loop over the pairs, written as a recursive
function, and `Handle` the handler it was given. `StrtoulHu`, `Strtobool` and `Str5cpy` give the
new content of a destination and whether the value was taken, and `WatchHandler` and `DaemonHandler` the struct after a
pair: a bad pair leaves the struct as far as it got, which is what `LoadFile` must blank. `Merged` is
the merging part of `validate_and_merge_watch_config`, which takes over the `db_` keys only with
`do_db_update`. `LoadDaemon` is both daemon files, `kfmon.user.ini` last, `Aborted` the exit after a
bad one. Lengths, clamps and refusals are the code's; the numbers are smaller (`ULONG_MAX` and the
string sizes, `CFG_SZ_MAX` and `DB_SZ_MAX`). What the property `SettingsAsWritten` compares the slots
with is a reference definition (`Says`, `Holds`) that speaks of the text alone: a key has the value
of a line that is acceptable by itself. Where KFMon's README and code differ by one character on how
long a string may be, `SettingsAsWritten` allows both (`WellFormedAtTheLimit`, `HoldsAtTheLimit`), and
`LengthsAsDocumented` states the README's reading, which does not hold. Left out: the branch of the merge for a filename that changed
(`kfmon.c:571-616`), which cannot be reached, as a config is matched to its watch by that filename;
letter case; and the aborts after a failed `fts_open` or `fts_children`.

**Events.** Each icon has a slot. `Read` takes the whole queue as a batch (the code reads up to 4096 bytes,
room for 256 events of a watched file; the model's queue is far shorter, and more than that at once is
not modelled); `TakeOpen`,
`QueryOnOpen`, `TakeClose`, `QueryOnClose`, `TakeUnmount`, `TakeIgnored` and `TakeOverflow` are the
branches for one event, split where the database is asked so that the world may move in between;
`EndBatch` is the removal of the other watches and `Reinit` the next round of the main loop. The
kernel merges equal neighbours, queues the removals of an unmount in any order, and reports an
overflow without a descriptor, which `MatchedSlot` resolves as the code's loop does. Nickel's part is taken from the comments of
`handle_events`: it opens a new icon, stores it, closes it, and opens and closes it once more some time later. What the
code takes for granted of Nickel is in `env`, one of the constant's `Environments`, which a behaviour
keeps from start to end: `prompt` (KFMon is faster than Nickel), `one_pass` (one open and close per
icon to process), `steady` (no event is lost and no inhibition changes during such a pass), `busy`
(the database may be locked), who reads icons, and the sizes of the window and the queue. Properties
name what they rest on: `OnlyTapsLaunch` on `prompt`, `steady` and `one_pass`, `TapsLaunch` on
`prompt`, `steady` and a database that is not `busy`, the others on nothing.

**Query.** Each statement and each `access` is a step: `OpenDb`, `SelectExists`, `SelectImageID`,
`CheckThumbnail`, `SelectTitle`, `Update`, `LookAtJournal`, `CloseDb`. `SqliteFails` is the early
return of `CALL_SQLITE`, which hands out the verdict as it stands. Between them Nickel opens and
ends a transaction, and adds and removes the row, the title and the thumbnails. The histories `seen`
and `missed` record what was the case at some moment since the call, `quiet` that no transaction was
open at some moment since the thumbnails were found, and `closed` that the query went all the way to
`sqlite3_close`; the code has no such things, properties compare the verdict to them. What KFMon waits
for is the rollback journal (`Journal`, `kfmon.c:1619-1625`). On a device whose database has a WAL there
is none: it waits for nothing there, and `CommitAwaited` says nothing of such devices. Left out: how the thumbnails' names are made (qhash,
the replaced characters, the overflows of `snprintf`), a NULL title, the database handle that
`CALL_SQLITE` leaks, and `skip_db_checks`, with which nothing is asked.

**Ipc.** A command is what it asks for. `list`, `version` and malformed commands are all `Query`:
answered, with no effect. `trigger` looks up a basename and `start` an id; as basenames are unique
(`UniqueBasenames`) an id stands for both, and the id `WATCH_MAX` for an unknown name. `DataIn`,
`HungUp` and `Timeout` are the outcomes of `poll` in `handle_connection`, with the hang-up looked at
first; `HandleIpc` is `handle_ipc` up to its reply, `SendReply` the reply, which fails if the client
is gone. `Poll`, `HandleStdin` and `HandleReply` are the loop of `kfmon-ipc`, whose stdin may end as a
pipe does (`POLLHUP`) or as a terminal does (`POLLIN` and nothing to read). A list sent in several
pieces is one reply. Sends never block here.

**Transfer.** One call of a wrapper on one side, and calls of a wrapper on the other until the end of
the stream; a byte is its place in the message. `Send` and `Read` move any number of bytes that the
buffer, the request and `MAX_IO_BUFSIZ` allow; `SendBlocks` / `SendWakes` and `ReadBlocks` /
`ReadWakes` are EAGAIN and `poll`; `SendInterrupted` and `ReadInterrupted` are EINTR; `SendFails` is
EPIPE, or the SIGPIPE that only `send_in_full` suppresses. `xwrite` and `write_in_full` are there
because `atomicio.c` has them; KFMon calls `xread`, `read_in_full` and `send_in_full`. That
`write_in_full` takes a `write` of nothing for a full disk (`atomicio.c:163-167`) is left out: as
the comment there says, that is for regular files, and both ends here are sockets.

**MainLoop.** `Check`, `Open`, `Wake` and `Recheck` are the wait: a change of the mount table before
`/proc/mounts` is opened is not reported by a later poll. `Update`, `AddWatch`, `Listen` and
`StartOver` are the loop. A walk of an unmounted target finds no configs and drops all watches:
`fts_children` before the first `fts_read` returns the root, so the test for an empty directory
does not stop the update. `SEPARATE` says the mount table does not change between a look at it and
what follows; `ICON_STAYS` that some watched icon exists at any time.

## What the runs check

| Run | Question | Bounds |
|---|---|---|
| `MCProcessTable` | Does the table agree with the children, is a launch safe, does it end, does a dead program free its watch? With and without a failing `waitpid`. | 2 slots, 3 pids, 2 threads |
| `MCProcessTablePurge` | Does a spawn blocker block until it ends, if its config may vanish? *Violated.* | the same, 3 threads |
| `MCWatchConfig` | Are watches unique, current, announced, and left alone while they run? | 2 slots, 3 files, 3 paths of 2 basenames, 2 settings |
| `MCWatchConfigList` | Does the list of kept watches fit its array? *Violated.* | the same |
| `MCConfig` | Do slots and daemon hold what some file spells out, and does every step implement `WatchConfig`? | 2 slots, 3 files out of 13 texts, 44 pairs of daemon files |
| `MCEvents` | Do only taps launch, does a tap launch whatever happened before, do events reach their watch through overflow and unmount, is a lost watch noticed? | 2 icons; windows of 1 and 2 s, queues of 2 and 4 events, in 3 environments |
| `MCQuery` | What is an answer about an icon worth, has KFMon waited for a rollback journal before it gives it, and does it come? | 5 kinds of firmware with either journal, 20 looks |
| `MCIpc` | Are answers true, is an abandoned request dropped, does KFMon get back to work? | 1 client, 3 watches, 2 commands, 2 windows |
| `MCIpcPipeline` | Does a client at the end of a pipe get its answer? *Violated.* | 1 client, 1 command |
| `MCTransfer` | Do the wrappers transfer all, in order, once, and do they return? | 6 bytes, buffers of 1 to 4, a kernel buffer of 3, at most 5 a call, 2 signals |
| `MCMainLoop` | Does KFMon recover from sessions, and give up on the last change awaited and on none before? | 2 watches, 2 sessions, 2 other changes, 3 of the 6 changes awaited |
| `MCMainLoopRace` | Does a session's end always end the wait? *Violated.* | the same |

Why the bounds are enough, as far as they are:

- Three pids for two entries: one is always free to be recycled while a reaper still remembers an
  older use of it. A live reaper owns an entry, so two threads suffice.
- Three files in two slots: more configs than slots, two configs on one file, two files of one
  basename, and replacements. `Paths` has one pair that shares a basename and one that stands alone.
- The texts of `MCConfig` hold each kind of pair the handlers tell apart: strings that just
  fit and that just do not, numbers within and past each clamp, with a sign or trailing letters, booleans
  that are true, false and neither, unknown keys, and files that are good up to their last line. Watch files and daemon files
  vary in turn, as they share nothing.
- The window of 10 s shrinks to 1 or 2, with one value for "longer": code and properties only compare
  with its end.
- A queue of two overflows as soon as an icon is opened, closed and deleted; both slots'
  events meet in one batch.
- `MCQuery` has the code's own number of looks and thumbnails, and every class of firmware it tells
  apart.
- One client is enough for waiting and for hanging up before one's turn, as `Accept` comes at any time
  after `Connect`. `CMDS` limits how much a client writes: a client that writes for ever holds KFMon
  for ever, and `MainLoopResumes` is stated for one that stops.
- `RETRIES`, 4 in the code, is 2, and `MAX_CHANGES`, 6, is 3: one round before the last, and the last.
- A message of six bytes is longer than the kernel's buffer, than the reader's, and than a call
  transfers, so every kind of short transfer happens, and several in a row.

### Fairness

`ProcessTable`: the main thread in mid-launch and each reaper run when they can; requests, program
ends and failures are owed by nobody. A fork needs a free pid, and a reaper a dead child.
`Events`: the main thread handles what is queued. `Query`: it goes on with its query, and Nickel need
never end its transaction. `Ipc`: main thread and clients run when they can, `poll` with its timeout
included; users type or not. `Transfer`: writer and reader go on; the reader reads until the end of
the stream, as `kfmon-ipc` does, whose loop polls the socket as long as it lives, and may leave or die
at any time. `MainLoop`: the main thread runs, and a session that began ends. These are threads under
the kernel's scheduler, with no priorities; nothing is assumed to be strongly fair.

A client that neither reads nor leaves is the case `Transfer` excludes: `poll` in `send_in_full` has no
timeout, so a list longer than the socket's buffer would keep KFMon for as long (`kfmon.c:2394`).

### Where the code does something else than is said of it

Four runs end in a violation; each is an entry of `findings`.

1. `BlockerExcludes`: a config deleted during a session takes the slot of its running program with it,
   and `is_blocker_running` passes over inactive slots (`kfmon.c:1186`, `kfmon.c:1979`).
2. `NewWatchListFits`: every config that matches a watch is stored in `new_watch_list`, so three
   configs on two watched files overrun it (`kfmon.c:1118`).
3. `PipelineAnswered`: at the end of a pipe, `POLLHUP` on stdin ends `kfmon-ipc` before the reply
   comes (`kfmon-ipc.c:236`).
4. `WaitEnds`: a mount between `is_target_mounted` and the `open` of `/proc/mounts` goes unnoticed
   (`kfmon.c:204`).

The models show more of them. They are stated next to the properties above and can be checked with
the cfg named here, changed as said:

| Property | With | What happens |
|---|---|---|
| `WatchConfig!OneInstancePerWatch` | `MCWatchConfig.cfg` | A config that disappears and comes back while its program runs gets another slot, and may be launched again (README.md:19). |
| `WatchConfig!FirstParsedWins` | `MCWatchConfig.cfg` | Of two configs on one file the load takes the first; the update right after merges the last (kfmon.c:498). |
| `WatchConfig!ConfigsTakeEffect` | `MCWatchConfig.cfg`, `WATCH_ERRORS = FALSE` | A config that takes the basename or the slot of a removed one is refused until the next session: stale watches go last (kfmon.c:1161). |
| `Events!OnlyTapsLaunch` | `MCEvents.cfg`, without `env.one_pass` in the property | A second pass of Nickel does not refresh `processing_ts`, and the extra pair launches (kfmon.c:2204). |
| `Query!CommitAwaited` | `MCQuery.cfg`, without `query.closed` in the property | If a statement about the title cannot be prepared or bound, the verdict is already positive and is handed out with no look at the journal (kfmon.h:277). |
| `Query!CommitAwaited` | `MCQuery.cfg`, without `~device.wal` in the property | With a WAL there is no journal to find, and an icon passes in the middle of Nickel's transaction (kfmon.c:1619). |
| `Config!LengthsAsDocumented` | `MCConfig.cfg` | A filename or an action of exactly 128 characters discards its file, and titles are cut to 127: the array needs room for the NUL (kfmon.h:205, str5cpy.c:41). README.md:83 only discards what *exceeds* 128 characters, README.md:107 crops *at* 128. |
| `Ipc!ReadMeansAnswered` | `MCIpc.cfg` | Two commands in one read: only the first is handled (kfmon.c:2348). |
| `Ipc!OnlyInactiveDropped` | `MCIpc.cfg` | Silent windows add up over a connection that was active in between (kfmon.c:2892). |
| `Ipc!StartsWhatWasAsked` | `MCIpc.cfg`, id 256 among `Ids` | `%hhu` takes an id modulo 256 (kfmon.c:2445). |
| `MainLoop!Persists` | `MCMainLoop.cfg`, `SEPARATE = FALSE` | An unmount between the check and the set-up leaves KFMon with no watch, and so with no event to wake it (kfmon.c:3189). |
| `MainLoop!Persists` | `MCMainLoop.cfg`, `ICON_STAYS = FALSE` | Without any icon to watch, later sessions go unnoticed (kfmon.c:3238). |

## What is proved

Every invariant, every action property and every refinement the passing runs check is a theorem, for
all values of the constants the modules' assumptions allow. Those are sizes and ranges, that -1 is not
a pid, and in `Config` that strings are sequences of characters. What a theorem needs beyond them is
in its statement.

**`ProcessTable_proofs`**: `TypeCorrect` (`Spec => []TypeOK`), `WatchesAreUnique` (`UniqueWatch`),
`TableNeverFull` (`TableHasRoom`), `EntriesHaveOneReaper` (`OneReaperPerEntry`), `TableFitsChildren`
(`ChildInv`), `ReapersWaitForTheirChild` (`ReaperHasItsChild`), `ProgramsAreRegistered`
(`ChildRegistered`), `EntriesOutlivePrograms` (`EntryOutlivesProgram`), with and without `auto_reap`
and `CONFIGS_STAY`.

The first inductive invariant is `TableInv`. `TypeOK` is not inductive: that a launch stores a valid
watch needs `main.watch_idx` to be a slot while a launch is under way, and that a reaper releases a
valid entry needs it to have one; `TypeInv` adds both. `UniqueWatch` needs to know that what
`CheckTable` found (`spawned` is false) is still so when `AddEntry` fills the entry: only the main
thread adds watches, so reapers can only make it truer. `MainInv` says so for each step of a launch.
`OneReaperPerEntry` needs the found entry to be free until it is filled, and the filled one to belong
to no reaper until one is started for it. `TableHasRoom` rests on a count: in `forked`, the slot of
the launch is registered nowhere and no watch twice, so the used entries map injectively into the
other `WATCH_MAX - 1` slots, and one of the `WATCH_MAX` entries is free.

The second is `ChildInv`, on top of it: `KernelInv` (a child is one of a slot, and
is a zombie only without `auto_reap`), `LaunchedChildInv` (the pid in launch is the one of a child of
that slot), `ReaperChildInv` (a reaper's entry registers its child until that is reaped; from then on no
child is of that slot until the entry goes) and `ChildRegistered`. A recycled pid is the hard case: the
entry of the old child may still name it, and the new child must be told apart by its slot.

Also there is `LaunchesAsPromised` (`Spec => ImplementsLauncher`), assuming `CONFIGS_STAY`,
without which finding 1 contradicts it. A slot's running program is the one its children hold
(`RunningIn`); `LauncherInv` says that there is one running child per slot, that the slot of a running
blocker is still marked as one, and that what `CheckTable` said of blockers is still true at `Decide`
and at `Fork`, as only the main thread launches.

**`WatchConfig_proofs`**: `TypeCorrect`, `BasenamesAreUnique` (`UniqueBasenames`), `StaleWatchesGo`
(`NoStaleWatch`), `WatchesFollowConfigs` (`WatchesUpToDate`), `ChangesAreAnnounced`
(`ChangesAnnounced`), and of steps `SlotsChangeAsInProcessTable` (`SlotStepsAsInProcessTable`) and
`RunningWatchesAreKept` (`RunningWatchKept`), for any number of slots and files and any contents of
the files. Three of them speak of the end of an update, so `IInv` says how far the update has got after
each file (`UpdateInv`): a watch is in `kept` just if a file walked so far names its path
(`KeptIfWalked`), and, unless it was running, it is what the last of these says (`LastWalkedWins`). At
the end of the walk "so far" is all files, and `PurgeStale` drops what is not in `kept`. That a running
watch is left alone is then a matter of each step; `KeptIfWalked` is what keeps the purge off it.
`LoadFillsInOrder` says that a load writes to free slots only. `ListFitsDistinctConfigs` narrows
finding 2 down: `Spec /\ []DistinctFilenames => []NewWatchListFits`, so two configs on one file are the
only way to overrun the list. Without them a file is never matched to a watch that is in the list
already, so the list is as long as `kept` has members, all of them active slots.

**`Config_proofs`**: `TypeCorrect`, `DaemonTakesItsFiles` (`DaemonAsWritten`), `WatchesTakeTheirFiles`
(`SettingsAsWritten`) and `RefinesWatchConfig` (`Spec => ImplementsWatchConfig`), for files with any
number of pairs, any sizes and clamps. The argument has three layers. The lemmas on values
(`WatchHandlerStores`, `DaemonHandlerStores`) say of one pair that it is taken just if `Acceptable`,
and stored as its `Meaning`, cut or clamped to fit. `ParsesRight` says of a file that it is accepted just
if `WellFormed`, and that the struct then `Holds` what the last line of each key says: an induction
over the pairs, done by taking a least counterexample (`NatHasLeast`, `UpTo`), and for that reason
`IniParse` is a function whose existence is proved (`ParseExists`). The inductive invariant then
carries it through loads and updates: besides the types it says that free slots are blank
(`BlankInv`: without it a file would inherit what another one left in its slot) and that every watch
loaded, or kept so far by an update that did not find it running, is `Written` in some file but for its
stale keys (`WrittenInv`). In the refinement each step of `Config` is one of `WatchConfig` or, for the
daemon's files, none (`NextSeen`); it needs `Named`, as a config without a filename would match a
watch without one. What `WatchConfig_proofs` shows of slots and files thus holds of KFMon reading
them key by key.

**`Events_proofs`**: `TypeCorrect`, `EventsAreMatched` (`EventsReachTheirWatch`), `FlagsAreReset`
(`FlagsReset`), in any environment, and `OnlyUsersLaunch` (`OnlyTapsLaunch`) and `UsersTapsLaunch`
(`TapsLaunch`), whose properties name what they rest on. For the first three `IInv` says that no two slots
share a descriptor, that every open or close in the batch is for the descriptor its icon has now, and
so is every queued one unless a watch was destroyed, in which case the queue goes at the end of the
batch (`EventsMatch`); that an overflow comes last and that only a batch which destroyed a watch
leaves flags (`QueuesEnd`, `FlagsInv`). The other two are about orderly environments, where at most
one open or close awaits KFMon at a time (`OneByOne`). `ReaderInv` and `TouchInv` follow a reader of an
icon from its open to its close: what Nickel's first open finds unprocessed is pending at the close
and refused there, and what a user opens is not. `WindowInv` says that as long as an icon is younger
than the window its refusal is as old as the icon, so Nickel's second pair comes while it counts.

**`Ipc_proofs`**: `TypeCorrect`, `GoneClientsLaunchNothing` (`HungUpLaunchesNothing`),
`OneBlockerAtATime` (`OneBlockerRuns`) and `AnswersAgreeWithLaunches` (`AnswersAreTrue`), for any number
of clients, watches, lines and silent windows. That an answer is given once rests on the order of a
client's lines (`LinesInv`): what was answered or launched lies before anything in the socket, and that
before anything on stdin. `ToldInv` compares what a client was told, is about to be told, or finds in
its socket with what was launched for it, and `ConnectionInv` says that it connects and is served once,
and launches nothing before it is accepted.

**`MainLoop_proofs`**: `TypeCorrect`, `WatchesAreOnIcons` (`WatchesInv`) and, with `SEPARATE` and
`ICON_STAYS`, `ListensToWhatIsThere` (`[]Settled`): while KFMon listens and has been told of no loss,
it watches just the icons that are there. This is the safety half of `Persists`; the table of
counterexamples above shows what becomes of it without either assumption. `SetupInv` carries it
through the set-up, one watch at a time.

**`Query_proofs`**: `TypesOfTheQuery`, `ProcessedIsTrue` (`TrueAnswers`), `UnprocessedIsTrue`
(`FalseAnswers`), `PendingChangesAwaited` (`CommitAwaited`) and `TitleSetInTime` (`TitleIsSet`), on
any devices and for any number of looks. `QueryInv` relates the place in the query to the histories:
what is there now has been seen (`HistoryInv`), as many thumbnails were seen as were counted
(`ThumbnailInv`), what a verdict rests on (`VerdictInv`), and what is true of transaction, looks and title
after it (`AfterInv`): while no moment without a transaction has been seen, one is open, so on a rollback
journal a look that finds none is such a moment. `PendingChangesAwaited` covers queries that failed to
read or write the title, and leaves out the early returns of `CALL_SQLITE` and devices with a WAL, where
the table above shows it false.

**`Transfer_proofs`**: `ReturnsAreTrue` (`InFullMeansAll`), `StreamStaysWhole`
(`NothingLostOrRepeated`) and `TransfersAsPromised` (`Spec => ImplementsStream`), for messages, buffers
and short transfers of any size. `ContentInv` says where each byte is, the reader's share first:
`After(a, bytes)` is kept when such a sequence is cut in two or two of them are joined, and determines
it. `WriterInv` and `ReaderInv` tie positions to results. In the refinement a byte arrives when the
reader uses it, and the writer's answer is the moment its wrapper returns.

## What is only model-checked

- Liveness (`MainReturns`, `SlotReleased`, `LostWatchNoticed`, `AnswerComes`, `MainLoopResumes`,
  `SendReturns`, `SentIsReceived`, `Persists`): the proof system does not reason about `ENABLED`, on which fairness rests.
- The violations: `BlockerExcludes`, `NewWatchListFits`, `PipelineAnswered` and `WaitEnds` are false,
  and of the table below them only TLC's counterexamples speak.
- The way from one module's view to another's, where "The modules" relies on a promise that is
  proved in another module, is not itself a theorem, `Config` and `WatchConfig` aside.
- The library's induction over naturals takes an operator as a parameter, which the installed provers
  cannot instantiate; inductions here go over least counterexamples or over the finite sets of the
  library's counting lemmas instead.

## What is not modelled

- FBInk (messages on screen), inih (the ini parser) and SQLite: libraries. inih is the sequence of
  pairs it finds, SQLite a statement that answers or fails.
- Startup: `daemonize`, signal handling, version checks and the pidfile are a straight line of calls
  that exits at the first failure, before any state of the other modules exists. That KFMon runs only
  once is a matter of boot scripts and `pkill`; KFMon writes its pidfile and never reads it.
- `sock_utils.c` and `str5cat.c`: nothing calls them.
- The names of thumbnail files, and texts of commands and replies.
- Logging, installers, packaging, maintenance scripts and the debugging shim: no lasting state.

## Plan

1. Done: `ProcessTable` with `Launcher`, `WatchConfig`, `Events`, `Ipc`, `MainLoop`, `Transfer` with
   `Stream`, `Config`, `Query`; the theorems above.
2. Done: the theorems about `WatchConfig`, `Config`, `Events`, `Ipc` and `MainLoop`.
3. The composition of `WatchConfig` with `ProcessTable`, in place of `SlotStepsAsInProcessTable`, and of
   `Events` with `Query`; the theorems of `WatchConfig` restated for the slots of `Config`.
