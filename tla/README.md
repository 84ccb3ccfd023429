# Sprite Cloud: a TLA+ model of the host, its emulator, its gateway and their peers

Sprite Cloud streams games from a machine at home (the *host*, `sc-server`) to
browsers. A web application (the *gateway*, `sc-web`) holds the database,
authenticates users and carries signalling; media, input and uploads then flow
directly between browser and host over WebRTC. The gateway cannot call the host:
it queues commands, which the host fetches by polling and answers with reports.
On the host each game runs in a child process (`sc-core`), which shares memory
with the daemon.

Most of what can go wrong here lives between those parties: a command delivered
twice or answered late, a host process that was replaced while its successor was
already polling, a browser that reconnects while the callbacks of its previous
connection are still running, an upload that loses its channel half-way through
publication, an emulator that dies between a frame and its acknowledgement, a
daemon that is killed between two renames. This directory models these parts,
checks them with TLC on small instances, and proves every safety property that a
passing run checks, a refinement among them, with TLAPS for instances of any size.

Contents: [inventory](#inventory), [the modules](#the-modules),
[the runs](#the-runs), [what is proved](#what-is-proved),
[disagreements found](#disagreements-between-code-and-documentation),
[not modelled](#what-is-not-modelled).

Paths below are relative to `src/`, and to `src/sc-server/src/` for Rust files
without a directory.

## Inventory

### How the parts interact

```
 browser --HTTPS--> gateway (sc-web, PostgreSQL) <--HTTPS poll/notify/result-- host (sc-server)
    |                                                                            |  |
    +---------- WebRTC: media, input, save/load, rom-transfer-v1 ----------------+  +-- sc-core child
    +---------- HTTP on the local network: /api/launch, /api/stop ---------------+      (shared memory)
```

* browser to gateway: `POST /api/server/command` inserts a command (and for a
  launch a session); the browser then polls the session for the SDP answer.
* host to gateway: `GET /api/server/poll` leases commands; `POST notify` (answers
  and stops) and `POST result` (everything else) settle them; `sync-games` replaces
  the list of games.
* host, internally: one serial command loop, WebRTC callbacks and ICE watchers as
  tokio tasks, and per game a stream task, a bridge thread and an `sc-core`
  process. The loop takes prebuilt connections from a pool that other tasks refill.
* host and disk: the library, one stack of save states per account and game,
  `battery.srm`, and the two installed binaries.

### Components

| component | state | operations | what is hard | what makes it correct |
|---|---|---|---|---|
| **ROM transfer** (`rom_transfer/`) | protocol state, staged file, received bytes, event lock | authorize, open, auth, chunk, complete, cancel, abort, cleanup of partials | two uploads to one name; a close during completion; cleanup of a slow upload; a crash between publish and push | only whole, verified files are published, none is overwritten, staging does not leak, completion ends |
| **Game deletion, catalog sync** (`commands/mod.rs`, `sync-games/route.ts`) | library, local game list, catalog lock, gateway rows | delete_game, scan, push | scan and push are separate steps | an acknowledged push is the library |
| **Command queue and sessions** (`sc-web/app/api/server/*`, `lib/db/cleanup.ts`) | commands, sessions, `runtime_boot_id`, `always_on` | insert, launch, reconnect, stop, poll, notify, result, cleanup | redelivery, late reports, replaced processes, read-then-write handlers, retry budget | settled once and by the holder; sessions move forward; one launch per user; one resident per game; every command settles |
| **Host command loop and runtimes** (`commands/`, `sc_web.rs`, `retry.rs`) | runtime map, children, command in hand | start, stop, offer, report, reap | a crash at each point; lost requests and replies; a dead core seen late | one core per game, none untracked; a reported stop is true; a dead core is reported |
| **Session peers** (`commands/game.rs`, `commands/dc_handler.rs`) | host connection and channel, guests, claim, watchers, lifecycle locks | offer, swap, admit, replace, close, watch, claim | stale callbacks and watchers of replaced connections | nothing leaks, the session is not cancelled under its host, a claim is not stolen |
| **Core bridge** (`core_bridge.rs`) and **core process** (`sc-core/`) | shared memory, one command slot, two channels, `battery.srm`, shutdown registry | load, forward, answer, snapshot, terminate, shut down | two processes and a kill; answers read by the wrong asker; a hung core | who is told that the core is gone is told the truth; only fresh battery memory is saved; every cancel ends |
| **Streaming** (`streaming.rs`) | frame slot, cancel token, encoder size | tick, crash, cancel | a sentinel in a channel of one frame; a lock taken twice | a crash is told with its reason; a dead emulator ends the session |
| **libretro runner** (`libretro-runner/`) | pixel format, geometry, captured frame, published size | environment and video callbacks, conversion, publication | size and pixels published separately; formats that change | pictures fit their buffers |
| **LAN player** (`player_server.rs`, `player_static/`) | sessions, cancellations, cleanup tasks, core downloads | launch, answer, stop, leave | handlers dropped at any await; a download nobody runs any more | a running core can be stopped; every launch ends; a left game ends |
| **Saves** (`saves.rs`, `save_handlers.rs`) | `stack.json` and one file per entry | push, load the latest | a crash or failure between six file operations; two writers | an acknowledged save stays; each listed entry can be loaded |
| **WebRTC pool** (`webrtc.rs`, ICE part of `config.rs`) | stacks, one stored wake-up, tasks | acquire, refill | lost wake-ups, failed builds | stock is conserved; nobody waits beside a stack; an empty pool fills up |
| **Self-upgrade** (`upgrade.rs`) | two binaries, backups, staged files, signal guard | deliver, stage, back up, rename, roll back, report, leave | signals, kills and failures between renames; a report whose reply is lost | the two binaries match; what was reported is installed, and runs in the end once the host knows that it was heard |
| Scan, DAT matching, verification, preferences | none shared, or one mutex | sequential | case and extension edges | outside this project |
| Configuration, platform, NAT, setup, telemetry, covers | files | sequential I/O | nothing concurrent | outside this project |
| Rooms, invites, pairing, accounts, rate limiting (`sc-web`) | database rows | one transaction per request | joins racing for a seat | outside this project |
| Browser player, upload client, downloads, wall, user interface | timers, attempt counters | connect, reconnect, send | timers that fire after success | their outside effect is in the host's models |

`PROJECT.json` lists the same components with their files, and under `hazards`
each place where one of the behaviours above bites, with the properties that
would catch it.

## The modules

| module | what it is |
|---|---|
| `RomLibrary` | abstract: a library in which an upload publishes a whole file once or drops it |
| `RomTransfer` | uploads, staging, publication, catalog and deletion; refines `RomLibrary` |
| `CommandQueue` | the gateway's commands and sessions, with the host as environment |
| `HostRuntime` | the host's command loop, composed with `CommandQueue` (EXTENDS it) |
| `SessionPeers` | the peers of one running session on the host |
| `CoreBridge` | one game: loader, `sc-core`, shared memory, bridge thread, save handlers, shutdown |
| `MediaStream` | frames and the news of a crash, from shared memory to the player |
| `LibretroRunner` | `sc-core` from `dlopen` to a published picture |
| `MediaPipeline` | `LibretroRunner` composed with `MediaStream` |
| `LanPlayer` | launches of a page on the local network, downloads, stops, cleanup tasks |
| `PcPool` | the stock of prebuilt connections and the ICE configuration they are built from |
| `SaveStack` | the save directory and the pushes and loads on it |
| `Upgrade` | installation of a new pair of binaries |
| `HostDaemon` | `PcPool`, `SaveStack` and `Upgrade` composed in one process that may die anywhere |
| `*_proofs` | the theorems of the module they are named after; `HostDaemon_proofs` also has those of `PcPool`, `SaveStack` and `Upgrade`, `MediaPipeline_proofs` those of `MediaStream` |
| `MC*` | constants for TLC |

Definitions keep the names of the code where they have one; `map` in
`PROJECT.json` gives the lines of each. Definitions whose comment begins with
"Mutant of" are deliberately wrong variants: each property of a passing run is
shown to fail when one of them takes the place of the original. The type
invariants that no run lists (`PoolTypeOK`, `HostTypeOK` and the like) document
the variables; those of the modules with theorems are proved.

### RomTransfer

One action per frame, because `on_message`, `on_close` and `on_error` of one
transfer run under its `event_lock`. Completion is the exception: it holds the
event lock while it waits for `catalog_sync_lock` and for the gateway, so it is
three actions (`Complete`, `CommitSyncStart`, `CommitSyncEnd`), and a close that
arrives meanwhile is remembered in `closing` until `Abort` can run. Bytes are
counted and not represented; the digest is a choice of whether it matches.
`Restart` forgets everything in memory and runs the start-up scan and push. A
file whose hard link succeeded but whose staging name could not be unlinked is
`"kept"`. Removing a staged file may fail and is not repeated (`DiscardSink`): the file
then outlives its transfer as a partial without a sink, until the cleanup at the next
start. A push that was under way when the process died may still be applied (`late`).
`RomLibrary` has two variables (the shelf, and the uploads whose
outcome is open) and three steps (publish onto a free name, drop, remove); the
mapping is `shelf <- final`, `open <- Open`.

### CommandQueue

Each database transaction is one action: `poll` locks the server's row and the
rows it leases, a launch takes an advisory lock, and reports are compare-and-set
on status and lease. A handler that reads in one statement and writes in another
is two actions (`ReadTarget`/`InsertTargeted`; `InsertStart`/`ReadReusable`/
`PublishLaunch` or `PublishReconnect`). A poll is two transactions
(`ResetStaleRuntime`, the boot fence, then `Poll`: resident convergence, sweep,
exhaustion, leasing) between which everything else may happen. A lease token is
modelled by the attempt that created it, so "the host presents any lease it ever
had" is a choice of `k \in 1..attempts`. Reports (`ReportStep`) are unconstrained:
late, twice, never, in any order. With `MachineReboots` a new process may have a
smaller boot id, as happens when the tick counter restarts.

### HostRuntime

Replaces the free environment by the real loop: `job` is the command in hand and
the phase it is in, `rt` the runtime map, `cores` the children that exist.
`start_game` is `StartBegin`, `Replaced` or `ReplaceTimeout`, `Spawn`, `NotifyTry`,
`CleanupFailedStart`; each call to the gateway has a fate (`ok`, `request_lost`,
`reply_lost`) and is repeated as `with_retry` does. Beside the loop, cores crash or
are cancelled, bridges reap them, the process is replaced, and polls of a replaced
process that are still under way arrive (`GhostPoll`).
What a host step does to the gateway is written as the gateway's own action, so the host
can only do there what `CommandQueue` offers it, and what is proved there holds of the
composition (`QueueKeepsItsPromises`); nothing is claimed beyond that. `Reboot` ends the
cores with the process, which is what stopping or killing the generated systemd unit does
(its control group is killed); cores of a foreground run that is killed are not followed.

### SessionPeers

One session, with any number of connections built over time. Sections under
`host_lifecycle` and `guest_lifecycle` are one action, and one action ends at each
await: a reconnect is `HostOffer`, `Exchange`, `SwapHost`, `Notify`, with the slow
path through `PoolEmpty` and `Acquired`. A watcher reads the state (`WatchRead`)
and acts on it in a later step (`HostWatch`, `GuestWatch`), so that what it read
may be stale, and it holds `host_lifecycle` between deciding to cancel and doing
it (`doomed`, `HostWatchCancel`). The watcher of the last guest has no such lock: its look
at `host_connected` and its cancel are two steps (`GuestWatch`, `GuestWatchCancel`, with
`leaving` between them), and so are the two stores of an authentication (`Auth`,
`AuthConnected`, with `authing`). A press of a player button is two steps as well
(`Press`, `Claim`). Callbacks of one channel run in order (the webrtc crate's);
`close_session_peers` is one action.

### CoreBridge

| variable | code |
|---|---|
| `load` | progress of `load_core_into_session`: files mapped, child spawned (`KillOnDrop`), geometry seen, `battery.srm` offered |
| `core`, `took`, `geom`, `cmd`, `ok`, `data` | the child's loop and the fields of `InputShm` and `OutputShm` |
| `cmds`, `resps`, `handler`, `lates` | the two bounded channels and the save/load handler with its timeout |
| `bridge`, `cancel`, `stopped` | the thread's program counter, the session's token, `core_stopped` |
| `ram`, `disk`, `asked` | whose progress is in the core, in `battery.srm`, and was in the core when the bridge last asked |
| `daemon` | `shutdown_all_core_bridges` |

One action per command type on each side, so that the child may die or hang
between any two writes of shared memory. The battery memory is the set of launches whose
progress it holds: a snapshot that loses progress is a smaller set. `prompt` is
chosen once: whether the core takes its commands before the server's sleeps end
(`BatteryKept` is stated for such machines only; `SnapshotIsFresh` for all).
`BridgePanics` unwinds the bridge thread.

### MediaStream, LibretroRunner, MediaPipeline

In `MediaStream` a frame is its resolution. The bridge thread forwards it into a
slot of one (`ForwardFrame`), sees the death of the child (`SeeDeath`), pushes the
sentinel for up to a second (`DeliverSentinel`) and cancels (`CancelSession`);
`run_stream` is a select over `Tick`, `TickCrash` and `Cancelled`. In
`LibretroRunner` the core calls back in any order its API allows (`SetPixelFormat`,
`SetGeometry`, `VideoRefresh`), a frame carries the format it was stored for, and
`Publish` copies what the conversion makes of it, line doubling included.
`MediaPipeline` joins them at the shared memory: `sc-core` stores width and height
one after the other, the bridge loads them one after the other, and may get one
of each picture (`Torn`). `Tick` drains the slot and pushes the frame in one step: what
arrives between the two waits for the next tick. A frame that does not fit the current
format makes the conversion panic (`ConversionPanics`), which ends the emulator.

### LanPlayer

A page (`current`, `active`, `fetch`), the handler of each launch (`req`), the tasks
beside it (`stop`, `cleanup`), and what they share (`sessions`, `core`,
`DOWNLOADING` as `inflight`). `DropHandler` ends a handler at any await, as hyper
does when the connection of its request closes; `LoadCore` runs in a task of its
own and is not ended by that.

### PcPool, SaveStack, Upgrade, HostDaemon

`PcPool`: `acquire` is `AcquireFast`, or `AcquireDry` (the queue is looked at, the lock
released), `Listen` (the first poll of `notified()`) and `AcquireWoken` or
`AcquireTimeout`; each stack taken spawns a task (`StartBuild`, `BuildDone`,
`BuildFails`). A timeout may win the select although the wake-up has come
(`"notified"`); `Notify` then keeps the permit. A permit whose stack is then taken by the
next launch at once wakes the launch after it beside an empty queue, which answers "this
is a bug" (`want = "bug"`, `webrtc.rs:630`): that state is reachable, and costs that one
launch. The ICE settings decide whether a build can succeed.

`SaveStack`: `save_stack_push` with `write_atomic` is six file operations
(`CutState` to `RenameStack`); each may fail, and the process may end at each.
Opening a file truncates it, a second writer of one temporary file leaves a
mixture (`Torn`), a rename takes the name with it. A player is a session: the saves of
one session, also of its channels before and after a reconnect, are serialized by
`host_lifecycle`. With `Alone = FALSE` the pushes of two sessions into one directory run
beside each other.

`Upgrade`: both binaries are staged, backed up and renamed, core first
(`RenameCore`, `RenameServer`); a failure of the second rename rolls the first back
(`Undo`), which can fail too (`unrolled`); where there was no `sc-core` before, the
rollback removes the new one. The guard defers signals, SIGKILL cannot be
deferred. `litter` is what tells of an interrupted installation. The report of the
result (`Report`) has three fates: it is answered, it is not taken, or the gateway takes
it and the reply is lost (`told = "unheard"`). Only the first lets the process leave.
`unit` is whether the process is the main process of a systemd unit with
`Restart=on-failure`. A signal during the second before the exit ends the process as a
signal does at any other time; what the shutdown handlers do in between is left out.

`HostDaemon` EXTENDS the three: the command loop starts games from the pool, a push
starts while a game is played, an upgrade is taken when no launch waits, and every
end of the process stops all of them at once while the disk stays. `StartDirect` is the
command loop's launch for a player on the host's own network, past the pool; `LanGame` is
the LAN player, whose games begin and end at any time, updates included, since neither
side looks at the other. The run uses `Alone = TRUE`.

## The runs

Deadlock is not checked, because each system may rest: browsers and users owe it
nothing, and the bounds stop the counters.

| run | instance | distinct states | checks |
|---|---|---|---|
| `rom_transfer` | two uploads to one name, sizes 2 and 0, chunks up to 1, one delete at a time | 96 625 | `PublishedIsWhole` `NothingLeaks` `CatalogAgrees` `ImplementsLibrary` `ClosedIsReleased` `CommitEnds` |
| `queue_leases` | 1 user, 1 game, 3 commands (1 may be a task), 2 sessions, 2 processes, 2 attempts, scan of 2, 1 handler between read and write | 2 487 075 | `TypeOK` `LeasesHold` `CancelledMeansOver` `OneLaunchPerUser` `PromotionByCurrentBoot` `NothingRevives` |
| `queue_residents` | 2 games, one with a flag that is toggled, 2 commands, 2 sessions, 2 processes, 2 attempts, scan of 1 | 91 994 | `OneResidentPerGame` `CurrentProcessIsHeard` `CommandSettles` |
| `host_launch` | 3 commands, 2 sessions, 1 process, 2 tries per call, requests and replies may be lost | 1 321 450 | `StoppedMeansGone` |
| `host_restart` | 2 commands (1 may be a task), 1 session, 2 processes, 2 attempts, 2 tries per call, requests may be lost | 194 730 | `PromotedHasRuntime` `CoresAccounted` `DeathIsReported` |
| `peers` | host browser, a viewer and a player, 3 connections, limit of 3 guests | 6 439 359 | `PeersTracked` `NoCancelUnderHost` `ClaimKept` |
| `core_bridge` | 2 launches (1 on a slow machine), channels of 1 and 1, 2 late answers | 505 241 | `GoneIsGone` `AnswersFit` `SnapshotIsFresh` `BatteryKept` `BridgeEnds` |
| `media_pipeline` | a buffer of 1 x 2 pixels, four kinds of frame, geometry known early, late or never | 520 561 | `CrashIsToldWithReason` `PicturesHold` `DeathEndsSession` |
| `lan_player` | 2 launches of one page | 36 215 | `TypeOK` `LaunchesTracked` `LaunchEnds` `GoesAway` |
| `host_daemon` | pool of 1, two ICE configurations, 1 session that saves, 2 saves, 1 upgrade | 1 171 594 | `PoolSound` `SavesKept` `UpdateHolds` `Restocked` `UpdateIsTold` |

Two more runs (`media_stream_deadlock`, `save_overlap`) end in a violation on
purpose; see [below](#disagreements-between-code-and-documentation).

**Why these bounds.** Uploads interact only through a name and through the
catalog lock, and the lock has one holder, so two uploads and one delete give
each pair of interacting parties; size 2 with chunks of 1 has a first, a last
and an excess chunk, size 0 has none. In the queue, three commands are a launch, a
second launch or reconnect and the stop it causes; two attempts are a first
delivery, a redelivery and an exhausted budget; two processes are a current and a
replaced one. On the host, supersession with lost replies and restarts with
redelivery are separate instances, because together they exceed what TLC explores
in minutes; `host_launch` has the second session, `host_restart` the second process
and the second attempt. Three connections are a host generation, its replacement
and a guest, or a guest, its replacement and the host; the theorems of
`SessionPeers_proofs` cover the rest. With a scan of one command per poll, an exhausted
row of `queue_residents` fills the whole window. Supersession needs a third command, so
the launches that race are those of `queue_leases`. In `core_bridge` a second launch finds
what the first one left in `battery.srm`, an answer channel of one with two late answers
fills up and blocks the bridge thread, and one late answer is what a following request can
mistake for its own. A buffer of 1 x 2 has pictures
that are too wide, too high, padded and doubled. In `lan_player` the second launch
meets the first one's handler, session and download. In `host_daemon` a pool of
one is empty after one launch, two saves are an entry and its successor, one
upgrade has every file operation fail once, and of the ICE configurations one can be built
and one is what the startup log calls invalid; the theorems lift all of these bounds.

**Fairness.**

* `RomTransfer`: callbacks that were started go on (`Abort`, the ends of syncs:
  weak), and one that waits for the catalog lock gets it (strong, because tokio's
  mutex queues its waiters). Nothing is assumed of browsers.
* `CommandQueue`: the running process keeps polling and leases run out. Nothing
  is assumed of users, of reports, or of the cleanup.
* `HostRuntime`: the loop runs, a cancelled core is reaped by its bridge, and a
  call that is made over and over gets through at some point (strong, for polls
  and for `worker_dead` reports, which are retried for as long as the tombstone is
  there).
* `SessionPeers`: none; only safety is stated.
* `CoreBridge`: the operating system runs the loader, the bridge thread, a live core
  and a handler whose answer is there, for as long as the process exists (`Exists`): after a
  shutdown that ran out of its 2 s (`daemon = "late"`) nothing runs, and `BridgeEnds` names
  that case. A core may hang or crash at any step and owes nothing from then on.
* `MediaStream`, `MediaPipeline`: the bridge thread and the stream task run. Nothing
  is assumed of the emulator.
* `LanPlayer`: tasks run, a download or exchange ends one way or the other (they have
  timeouts), an open page handles its answers, and the connection of a page that
  left fails in the end.
* `HostDaemon`: spawned tasks and the command loop run while the process does, the exit
  timer fires, and systemd starts a unit again whose process exited with the timer's code
  or was killed. It does not do so after SIGTERM or SIGINT, and nobody has to start a
  daemon that was stopped. Nothing is assumed of players.

**What the runs show.** An upload publishes a whole file, once, onto a free name,
whatever happens around it, and its completion always ends. The lease makes
settlement exactly-once even though delivery is not, the two boot checks keep a
replaced process from promoting anything, and sessions never go back. The host
keeps one core per game through crashes and redelivery, and reports the dead. A
reconnecting browser does not leak its previous connection, and loses its session only to
the watcher of a last guest that looked before its authentication was complete. Whoever waits for an emulator's end gets it, and only when the process is
reaped; no late answer ever reaches the battery file. A dead or silent emulator ends its
session even when the stream is stuck. On the local network no dropped request
leaves a core or a download behind that nobody can stop. One push at a time never
loses an acknowledged save, and no end of the daemon mixes two releases unseen. An update
the gateway shows as done is on the disk.

## What is proved

TLAPS proves the following for all values of the constants: any number of users,
games, commands, sessions, processes, leases, transfers, connections, guests, launches,
late answers and resolutions. What is assumed of the constants are the named assumptions of
the modules (`TransferAssumption`, `QueueAssumption`, `HostAssumption`,
`PeersAssumption`, `BridgeAssumption`, `MediaAssumption`, `RunnerAssumption`,
`PipelineAssumption`, `LaunchesAssumption`, `PoolAssumption`, `SaveAssumption`,
`UpgradeAssumption`), which TLC evaluates on each run. Most only say which constants
are numbers. Two say more: `QueueAssumption` wants at least one game, since a row
names one, and `PipelineAssumption` wants the set of resolutions closed under mixing
the sides of two of them, since a torn read does that. The theorems about saves and
`ShownHasRuntime` have a hypothesis of their own, `Alone` and `~LostReplies`; the
paragraphs below say why.

| module | theorem | establishes |
|---|---|---|
| `RomTransfer_proofs` | `TypeCorrect` | type invariant |
| | `PublishedWhole` | `PublishedIsWhole`: the name and the exact length that were authorized, from a transfer past its data phase |
| | `StagingSafe` | `NothingLeaks`: what may stay behind in the staging area, and why |
| | `NeverOverwritten` | no upload replaces a file of the library |
| | `Refinement` | `ImplementsLibrary`: initial states map to initial states, each step to a step or a stutter |
| | `LockAlwaysOwned` | `LockIsOwned`, part of `NothingLeaks`: no upload ends with the catalog lock in its hands |
| | `CatalogCorrect` | `CatalogAgrees` |
| `SessionPeers_proofs` | `PeersTypeCorrect` | type invariant: the host slots hold host connections, the guest list guests |
| | `GuestsDistinct`, `NoLeakedConnection`, `PeersInBooks` | `OneEntryPerToken`, `SupersededIsClosed`, and both as `PeersTracked` |
| | `GuestLimit` | `GuestsBounded`: admission is decided before an await, the list written after it, and the limit holds |
| | `HostKeepsSession` | `NoCancelUnderHost`, whose one exception is the window of the last guest's watcher |
| | `ClaimIsKept` | `ClaimKept` |
| `CoreBridge_proofs` | `TypeCorrect` | type invariant, channel capacities included |
| | `StoppedBarrier`, `CleanShutdown`, `CoreIsGone` | `StoppedIsClean`, `ShutdownLeavesNoCore`, and both as `GoneIsGone` |
| | `FreshSnapshot` | `SnapshotIsFresh` |
| | `ProgressKept` | `BatteryKept` |
| | `AnswersAreBounded`, `RepliesNeverBlock` | `AnswersFit`, and that the bridge's blocking send of an answer finds room while fewer requests timed out than the channel holds |
| `CommandQueue_proofs` | `QueueInvHolds`, `QueueTypeCorrect` | the inductive invariant; `TypeOK` with the retry budget |
| | `LeasesMeanSomething`, `NothingRunningIsCancelled` | `LeasesHold`, `CancelledMeansOver` |
| | `OneGamePerUser`, `OneResident` | `OneLaunchPerUser`, `OneResidentPerGame` |
| | `WhatIsOverStaysOver`, `OnlyTheCurrentBootPromotes` | `NothingRevives`, `PromotionByCurrentBoot` (action properties) |
| | `SuccessorIsNotRefused` | `CurrentNotRefused`: without a reboot of the machine no replaced process locks out its successor |
| `HostRuntime_proofs` | `HostInvHolds`, `HostTypeCorrect` | the inductive invariant; types and the budget of `with_retry` |
| | `QueueKeepsItsPromises` | the properties of `CommandQueue` with this host in the place of its environment |
| | `EveryCoreIsAccounted`, `StopsAreTrue` | `CoresAccounted`, `StoppedMeansGone` |
| | `ShownHasRuntime` | `PromotedHasRuntime`, if `~LostReplies` |
| `MediaPipeline_proofs` | `MediaTypeCorrect`, `CrashIsTold` | type invariant and `CrashIsToldWithReason` of `MediaStream` |
| | `PipelineImplementsStream` | the runner and its callbacks do to the stream what `MediaStream` allows a core |
| | `PipelineTellsCrashes`, `PipelinePictures` | `CrashIsToldWithReason` and `PicturesHold` of the whole pipeline, the latter until a hardware frame or a doubled field exceeds the buffer |
| | `PipelineEndsAreCancelled` | `EndIsCancelled`: what is gone or hangs left a cancelled session |
| `LanPlayer_proofs` | `LanPlayerTypes`, `LaunchesAreTracked` | type invariant, `LaunchesTracked` |
| | `NobodyStrands` | `NothingStrands`, part of `LaunchesTracked`: no task waits for what nobody does |
| `HostDaemon_proofs` | `PoolTypeCorrect`, `PoolAlwaysSound` | type invariant and `PoolSound` of `PcPool` |
| | `SaveTypeCorrect`, `SavesAreKept` | type invariant and `SavesKept` of `SaveStack`, if `Alone` |
| | `UpgradeTypeCorrect`, `PairAlwaysMatches` | type invariant and `PairMatches` of `Upgrade` |
| | `RestartAcknowledged` | `RestartIsKnown` and `ToldIsInstalled`: the process leaves for a new version only when the gateway knows, and what the gateway takes for done is on the disk |
| | `DaemonPoolSound`, `DaemonSavesKept`, `DaemonRestartAcknowledged` | the same of the composition (`DaemonSavesKept` if `Alone`) |
| | `DaemonUpdateHolds` | `UpdateHolds`: `PairMatches` beside games and saves, and no game or waiting launch of the command loop while binaries are replaced |

**RomTransfer.** `PublishedIsWhole` is not inductive: that the published bytes are
still whole after the next chunk needs that a published transfer no longer
accepts chunks, and that the staged file's length agrees with what was received.
The invariant `Safe` adds such links: an open transfer has sent no terminal
message and published nothing, the lock is held by a transfer in `Committing` or
by a delete in its sync, a pending close belongs to a transfer with a protocol
object, a sink exists exactly while frames are accepted. For the catalog,
`CatalogInv` adds that the local list is the library unless somebody who changed
the library still waits for the lock (`ListIsFresh`), and that it contains each
upload that was acknowledged or is being pushed (`ListHasPublished`). `LockIsOwned` takes
its first half from `Safe`; the second, that a delete holds the lock exactly during its
own sync, is inductive by itself (`DeleteOwnsLock`).

**CommandQueue.** `QueueInv` has two halves. `Tables` says what one row and its session
know of each other: identifiers are given in order (`RowsBelow`, `SessBelow`), a row's
session exists and is of its game, what was completed was completed by the last lease, a
cancelled row has a session that is over, a leased row of an active session is leased to
the current boot, and a request between its read and its write names a session that was
started. `Singles` says that a session names the start command that made it and that
command names the session, beside the two exclusions themselves. Without that link
neither exclusion is inductive: whether a session is a resident is written in its
command, so a command that changed its session would change who excludes whom.

Each action is proved to give `Good`: the invariant, `Evolves` (a table only moves
forward: identity, type and session of a row stay, its attempts grow, a settled row
stays as it is; the same for sessions) and `Promotes`. The two action properties then
follow without looking at the actions again. Polls and launches, which insert rows for
sets of games and sessions at once, go through `NumberedOnce`: the n-th element of the
set gets the n-th new row, and each new row has one element. The host needs two more
facts, that a step other than a report completes nothing (`Quiet`) and that a poll
leases nothing of a session that is over (`Gives`).

`CurrentNotRefused` is an induction of its own (`BootInv`): the gateway records only
boot ids of processes that ran, any of which may still be polling, and while the machine
is not rebooted the running process has the latest.

**HostRuntime.** `HostInv` joins `QueueInv` with what the map, the cores and the job
know of the rows they name (`Sound`): a runtime is named by the published start of its
game, a core is that of a runtime that has not stopped, the job's command is published
and its lease was given, and each phase knows what its handler checked before (after
`Replaced` the game has no runtime, a start that notifies still finds its own).
`StopsTrue` makes `StoppedMeansGone` inductive: no core runs for a session whose
`stop_game` was completed, and none is about to.

That a host step is a step of the queue (`QueueSteps`) follows from the way the two are
composed and is a lemma only, which lets the queue's theorems be cited.

All of it is written over a table, so that `Frame` can be stated once: what the host
knows about one table it knows about every later one in which no further stop was
completed. A step of the queue alone needs nothing else, and a step of the host only
what it changes itself. Each action is proved to give `Allowed`, a step of the queue and
the invariant after it, so that both are one induction.

`ShownHasRuntime` needs `Untold` in addition: a start that still notifies or cleans up
is not shown yet, which is what lets `CleanupFailedStart` destroy the runtime. A lost
reply falsifies exactly that (the gateway promoted, the host believes it did not), which
is why `~LostReplies` is a hypothesis here and a case of [its
own](#disagreements-between-code-and-documentation) below. Requests may be lost.

**SessionPeers.** `PeersInv` is `TypeOK`, the properties themselves and three more
parts. `Built`: nothing refers to a connection that was not built. `HostFlag`:
`host_connected` is true while an authenticated host channel is open, unless its
authentication is between its two stores (`authing`), and false while a watcher holds
`host_lifecycle` in order to cancel; the flag and the channel are written in different
callbacks, so this is the fact that makes the watcher's guard mean something. For the last
guest's watcher it shows no more than that its look found no authenticated channel. `GuestRoom`: what admission counted is still true when the guest is
installed, since other steps only remove guests meanwhile (`GuestsShrink`) and the loop
admits one at a time. `CloseEffect` states what closing a set of connections does and is
used by every action.

**CoreBridge.** The barrier needs to know what each phase of the bridge thread leaves:
past the kill the child is dead, past the reap it is `"reaped"`, and the files are
unlinked before the barrier. `SnapshotIsFresh` needs the invariant `Slot`: while the
bridge waits for its snapshot, the one command slot holds that command or nothing, a
command the core still works on is the same one or an older load of the battery, and
what lies in the response is nothing or battery memory at least as new as the question.
`BatteryKept` needs `Battery`: a prompt core holds the progress of the battery file when
its load is done, so that every later snapshot contains what the file holds.
`AnswersFit` is about a channel, and not inductive about the channel alone: `Requests`
counts a request where it is, in the command queue, in the hands of the bridge or
answered, and bounds all of them by the requests that timed out and the one that waits.
Nothing in the code bounds the timeouts themselves: once more requests timed out than the
channel holds answers, the bridge waits for the next request before it can go on
(`Blocked`), a cancelled session included. `BridgeEnds` excludes exactly that case, and the
run reaches it.

**MediaStream, MediaPipeline.** `Told` follows the news of a crash: the reason is stored
before the sentinel is pushed, and a sentinel in the slot of a running stream has its
news queued. `RunnerInv` bounds what is stored and shown by the size of the shared
buffer, until a hardware frame or a doubled field exceeded it (`beyond`). With it each
step of the runner is a step of `MediaStream`'s core, so its properties carry over.
`PicturesHold` then needs that whatever is on its way to the stream fits (`OnItsWay`),
torn pairs of sides included. `EndInv` is why a stream task that hangs in the second
lock does not keep its session: a sentinel is queued only by a bridge thread that
cancels next.

**LanPlayer.** `LaunchesTracked` needs that the task that loads has a core to load
(`LoaderHasCore`) and that a download under way is announced (`DownloadAnnounced`), also
when its handler was dropped. `NothingStrands` needs the way of a stop
(`EndsInOrder`): the page knows a launch only by its answer, so what it plays, stops or
cancels has loaded, and a session that has not been built yet is not cancelled.

**SaveStack.** `SavesKept` is not inductive either. `SaveInv` adds that the indices of
`stack.json` have no gaps (`Disk`), so that the index a push takes is one no entry has;
that a push has read the stack that is still there (`Progress`, which needs that it is
alone: `OneWriter`); that each step has left what the next one relies on in the
temporary files; and that an index that was looked up stays in the stack (`Loading`).

**Upgrade.** `Links` ties the job to the files: during the two renames the staged server
is there, the backup of the core is the release the server still has, and the guard is
up, so that only a kill can end the process there. `Installed` does the same for
`ToldIsInstalled`: behind the two renames both binaries are new, and while an upgrade is
under way nothing has been told of it.

**PcPool, HostDaemon.** `NothingBuilt` makes the pool's invariant inductive. For the
composition, `PoolPart`, `SavePart` and `UpgradePart` show that each step of the daemon
is a step of each part's own specification or leaves the part alone (for the pool, that
a restart is a new start), so that the invariants of the parts are invariants of the
daemon. `UpdateHolds` is about two parts at once and needs `AloneInv`: an installation
under way has the process running, no game of the command loop, and no launch of it in
`PcPool::acquire`, also when stacks arrive meanwhile. Nothing is claimed of the LAN
player's games.

**Only model-checked.** Liveness under fairness, which is out of this prover's reach:
`ClosedIsReleased` and `CommitEnds`, `CurrentProcessIsHeard` and `CommandSettles`,
`DeathIsReported`, `BridgeEnds`, `DeathEndsSession`, `LaunchEnds` and `GoesAway`,
`Restocked` and `UpdateIsTold`. Of most of them the safety half, that nobody waits for
what nobody does, is a theorem: `LockAlwaysOwned` for `CommitEnds`,
`SuccessorIsNotRefused` for `CurrentProcessIsHeard`, `ShownHasRuntime` for
`DeathIsReported`, `RepliesNeverBlock` for `BridgeEnds`, `PipelineEndsAreCancelled` for
`DeathEndsSession`, `NobodyStrands` for `LaunchEnds` and `GoesAway`, `PoolAlwaysSound`
(no lost wake-up) for `Restocked`, `RestartAcknowledged` for `UpdateIsTold`. That the
waiting then ends, by fairness, is what TLC checks. Every other property of a passing run is stated by a
theorem above. The two properties that are violated on purpose (`StreamEnds`,
`AcknowledgedStays` when pushes overlap) are not theorems, of course.

## Disagreements between code and documentation

Each of these is a run that TLC must find violated; `findings` in `PROJECT.json`
quotes the lines.

* `media_stream_deadlock` (`StreamEnds`): the tick of `run_stream` that finds the crash
  sentinel locks `core_frame_rx` (`streaming.rs:287`) while it still holds it (266).
  The task waits for itself and no longer sees the cancel token. It stays unseen
  when the bridge's own cancel, right after the sentinel, wins the select, and
  the session ends in any case (`DeathEndsSession`), but the task does not.
* `save_overlap` (`AcknowledgedStays`): nothing locks a save directory. Two pushes into
  one take one index, and the second replaces the state the first player was told of,
  against `saves.rs:12`, "never overwrites". It takes two sessions: those without an
  account all use `shared`, as when two browsers play one ROM on the local network. Within
  one session pushes cannot overlap, since `host_lifecycle` is held across them
  (`commands/dc_handler.rs` 222-261).

Noticed while reading or while checking larger or harsher instances, without a
run of their own:

* Boot ids are ordered by clock ticks since the machine booted. After a reboot of
  the machine the new process may present a smaller one and is ignored
  (`MachineReboots = TRUE` breaks `CurrentProcessIsHeard`).
* A launch queues a `stop_game` for the session it supersedes; the next poll cancels
  it together with the other commands of ended sessions (`poll/route.ts:128`), before
  the host has seen it.
* If the gateway commits a notify and the reply is lost, the retries are refused,
  the host takes the launch for failed and destroys the runtime, and nobody tells the
  gateway (`LostReplies = TRUE` breaks `PromotedHasRuntime`).
* After a failed reconnect the host's connection is closed by the handler, its
  watcher exits on `closed` (`commands/dc_handler.rs:125`), and a session without
  anybody in it runs on.
* A `sync-games` request the host gave up on can still replace the rows after a
  newer push (`sync-games/route.ts` 95-149 is not a transaction), against
  `docs/rom-transfer-protocol.md:214`.
* Clearing the last `always_on` flag of a host does not stop its resident:
  convergence returns early (`poll/route.ts:448`; the comment is at 426-428).
* The guest limit in effect is `MAX_ACTIVE_GUESTS - 1`, since the newcomer counts
  twice (`GuestLimit` proves the strict bound).
* The arcade claim can stay with a peer that left, when its notify fails or its
  watcher runs between `Press` and `Claim` (`commands/game.rs:1467`).
* The watcher of the last guest reads `host_connected` and cancels
  (`commands/game.rs` 1568-1577) under `guest_lifecycle` only, so that a host whose
  authentication overlaps its look loses the session, against `session.rs:64`.
* The update is refused "while a game session is active", but the check
  (`commands/mod.rs:412`) sees the command loop's sessions only. Games of the LAN player
  in the same process run on, a launch of theirs may start the new `sc-core` under the old
  `sc-server`, and the restart ends them.
* If only the reply to the result of an update is lost, the gateway shows it as done and
  the host refuses to restart (`commands/mod.rs:439`). The old image runs on, and refuses
  later updates, since its executable now has another name.
* A rollback that fails where there was no `sc-core` before leaves the new one under the
  old server, and no file that tells (`unrolled`).
* More save or load requests that time out than the answer channel holds block the bridge
  thread, and with it the end of the session, until somebody asks again.
* On the slow path of a reconnect `host_connected` stays true with the old
  channel until that channel's `on_close` runs.
* The session status `playing` (`schema.ts:257`) is never written, and a `PATCH` of game
  flags reads, merges and writes without a transaction.
* The checkpoint of resident sessions saves nothing yet (`commands/game.rs:588`).
* A ROM whose extraction failed half-way leaves a part that the next launch takes
  for the cached file (`core_bridge.rs:417`).
* `battery.srm` always lies in the `shared` directory (`core_bridge.rs` 993 and 1254),
  against `saves.rs` 7-9.
* A preview join takes a seat above the limit, from which the seats of later guests
  count on (`sc-web/lib/peer-tokens.ts:66`).

## What is not modelled

* Inside modelled components: audio, packets, input mapping and the choice of
  encoders; the emulator's OpenGL surface, options and disks; the runner without
  content; extraction of zipped ROMs; the periodic
  scan; retention deletes, the fallback of `notify` for reports without a lease, and
  the normalisation of old payloads; HTTP and checksum parsing of downloads. In
  `HostDaemon` pushes do not overlap; `save_overlap` has them.
* Library scan, DAT matching, verification, preferences, configuration, platform,
  NAT, setup, telemetry and covers: sequential computation or file and HTTP I/O
  without shared state.
* Rooms, invites, pairing, membership, accounts and rate limiting: one transaction
  or one conditional statement per request; what the host does with the tokens is
  in `SessionPeers`.
* The browser's player, upload client and user interface: the host's models take any order
  of offers, frames, closes and failures, so the browser's timers add no behaviour to
  the host; whether the browser itself gives up at the right time is not shown.
* The WebRTC library, the tokio runtime, the file system and PostgreSQL are
  represented by how the code uses them: ordered callbacks per channel, fair
  mutexes, atomic renames, atomic transactions. The file system keeps what was
  written when the process dies; a loss of power is not modelled.
