----------------------------- MODULE CoreBridge -----------------------------
(***************************************************************************)
(* One game of the host daemon and the emulator process that runs it:      *)
(*   - load_core_into_session, which maps the shared memory, starts        *)
(*     sc-core, waits for its geometry and loads the battery save;         *)
(*   - sc-core, whose main loop takes one command and runs one frame;      *)
(*   - the bridge thread between shared memory and channels;               *)
(*   - the host's data channel handlers (input, save and load state);      *)
(*   - daemon shutdown, which waits for every registered bridge.           *)
(* Bytes are abstracted to what they are: the battery data is the set of   *)
(* launches whose progress it holds, a save state is just "state".         *)
(***************************************************************************)
EXTENDS Naturals, Sequences, FiniteSets

CONSTANTS
  MaxLaunches,  \* bound: how often the game is started on a machine that is prompt
  SlowLaunches, \* bound: and on one that is not
  CmdCap,       \* core_cmd_tx: sync_channel(16)
  RespCap,      \* core_response_tx: sync_channel(4)
  MaxLates      \* bound: save/load requests that run into their 5 s timeout

ASSUME BridgeAssumption ==
  /\ MaxLaunches \in Nat /\ SlowLaunches \in 0..MaxLaunches /\ CmdCap \in Nat \ {0}
  /\ RespCap \in Nat \ {0} /\ MaxLates \in Nat

VARIABLES
  prompt,   \* chosen once: the core takes every command before a sleep of the server ends,
            \* and the battery file can be read and written
  rom,      \* chosen once: hash_rom could read the ROM
  launch,   \* launches so far
  load,     \* progress of load_core_into_session
  shm,      \* the two files are in /dev/shm
  core,     \* phase of the child process
  took,     \* the command type the core works on
  geom,     \* OutputShm.base_width is not 0
  cmd,      \* InputShm.cmd_type, "none" while cmd_ready is false
  ok, data,          \* OutputShm.response_ok, response_data with its length
  cmds, resps,       \* core_cmd_tx/rx and core_response_tx/rx
  bridge,   \* program counter of the bridge thread
  cancel, stopped,   \* GameSession.cancel, core_stopped
  ram, disk, asked,  \* battery data in the core, in battery.srm, and when last asked for
  handler, lates,      \* the host's save/load handler, and how often it timed out
  daemon

mem  == <<cmd, ok, data>>
chan == <<cmds, resps>>
host == <<handler, lates>>
vars == <<prompt, rom, launch, load, shm, core, took, geom, mem, chan,
          bridge, cancel, stopped, ram, disk, asked, host, daemon>>

\* 0 stands for everything that was played before this daemon was started.
Launches == 0..MaxLaunches
Empty == [kind |-> "none", has |-> {}]
\* The opaque bytes of Core::save_state, and those of Core::sram.
State == [kind |-> "state", has |-> {}]
Sram(s) == [kind |-> "sram", has |-> s]
Datas == [kind : {"none", "state", "sram"}, has : SUBSET Launches]

Types   == {"none", "input", "save_state", "load_state", "save_sram", "load_sram"}
Loading == {"idle", "wait", "sram", "settle", "publish", "done", "failed"}
Alive   == {"boot", "idle", "took", "answered", "run", "hung"}
Working == {"top", "cmds", "saving", "loading", "check"}
Bridges == Working \cup {"off", "ask", "ack", "kill", "unlink", "end"}
CoreAlive == core \in Alive
CoreReady == /\ core \in Alive \ {"boot", "hung"}    \* answers if it is given time
             /\ prompt

Init ==
  /\ prompt \in BOOLEAN /\ rom \in BOOLEAN
  /\ launch = 0 /\ load = "idle" /\ shm = FALSE
  /\ core = "none" /\ took = "none" /\ geom = FALSE
  /\ cmd = "none" /\ ok = FALSE /\ data = Empty
  /\ cmds = <<>> /\ resps = <<>>
  /\ bridge = "off" /\ cancel = FALSE /\ stopped = FALSE
  /\ ram = {} /\ disk \in {Empty} \cup (IF rom THEN {Sram({0})} ELSE {}) /\ asked = {}
  /\ handler = "idle" /\ lates = 0
  /\ daemon = "up"

-----------------------------------------------------------------------------
(* load_core_into_session                                                  *)

\* The caller has passed the barrier of the previous session: it is over.
PreviousOver == load \in {"idle", "failed"} \/ (stopped /\ handler = "idle")

Launchable == launch < (IF prompt THEN MaxLaunches ELSE SlowLaunches)

\* A new session: map_shm truncates both files to zeroes, the child is spawned.
StartLoad ==
  /\ daemon = "up" /\ Launchable /\ PreviousOver
  /\ launch' = launch + 1
  /\ shm' = TRUE /\ core' = "boot" /\ load' = "wait"
  /\ took' = "none" /\ geom' = FALSE
  /\ cmd' = "none" /\ ok' = FALSE /\ data' = Empty
  /\ cmds' = <<>> /\ resps' = <<>>
  /\ bridge' = "off" /\ cancel' = FALSE /\ stopped' = FALSE
  /\ ram' = {} /\ asked' = {}
  /\ UNCHANGED <<prompt, rom, disk, host, daemon>>

\* Mapping or spawning fails: what was mapped is unlinked again.
StartLoadFails ==
  /\ daemon = "up" /\ Launchable /\ PreviousOver
  /\ launch' = launch + 1
  /\ shm' = FALSE /\ core' = "none" /\ load' = "failed"
  /\ bridge' = "off" /\ cancel' = FALSE /\ stopped' = FALSE
  /\ UNCHANGED <<prompt, rom, took, geom, mem, chan, ram, disk, asked, host, daemon>>

\* Geometry has been reported: the kill guard is disarmed.
SeeGeometry ==
  /\ load = "wait" /\ geom
  /\ load' = "sram"
  /\ UNCHANGED <<prompt, rom, launch, shm, core, took, geom, mem, chan,
                 bridge, cancel, stopped, ram, disk, asked, host, daemon>>

\* The child died before it was ready, or 18 s went by without geometry.
GiveUpLoad ==
  /\ load = "wait" /\ ~geom
  /\ core' = "reaped" /\ shm' = FALSE /\ load' = "failed"
  /\ UNCHANGED <<prompt, rom, launch, took, geom, mem, chan,
                 bridge, cancel, stopped, ram, disk, asked, host, daemon>>

\* A battery file is never loaded.
LoadSramSkipped ==
  /\ load = "sram" /\ load' = "publish"
  /\ UNCHANGED <<prompt, rom, launch, shm, core, took, geom, mem, chan,
                 bridge, cancel, stopped, ram, disk, asked, host, daemon>>

\* hash_rom and the battery file: publish CMD_LOAD_SRAM, or go on without it.
LoadSram ==
  /\ load = "sram"
  /\ \/ /\ rom /\ disk.kind # "none"
        /\ data' = disk /\ cmd' = "load_sram"
        /\ load' = "settle"
     \/ /\ ~rom \/ disk.kind = "none" \/ ~prompt
        /\ load' = "publish" /\ UNCHANGED <<data, cmd>>
  /\ UNCHANGED <<prompt, rom, launch, shm, core, took, geom, ok, chan,
                 bridge, cancel, stopped, ram, disk, asked, host, daemon>>

\* 50 ms later the command is withdrawn, whether the core has taken it or not.
Settle ==
  /\ load = "settle"
  /\ CoreReady => cmd = "none"
  /\ cmd' = "none" /\ load' = "publish"
  /\ UNCHANGED <<prompt, rom, launch, shm, core, took, geom, ok, data, chan,
                 bridge, cancel, stopped, ram, disk, asked, host, daemon>>

\* Channels and metadata go into the session, the bridge is registered and started,
\* and the caller spawns the stream task.
Publish ==
  /\ load = "publish"
  /\ load' = "done" /\ bridge' = "top"
  /\ UNCHANGED <<prompt, rom, launch, shm, core, took, geom, mem, chan,
                 cancel, stopped, ram, disk, asked, host, daemon>>

-----------------------------------------------------------------------------
(* sc-core                                                                 *)

CoreStep(from, to) == core = from /\ core' = to
LeavesServer == UNCHANGED <<prompt, rom, launch, load, shm, cmds, resps, bridge, cancel,
                            stopped, disk, asked, host, daemon>>

\* Core::load; heavyweight cores report their geometry only with the first frame.
CoreBoot ==
  /\ CoreStep("boot", "idle")
  /\ geom' \in BOOLEAN
  /\ LeavesServer /\ UNCHANGED <<took, mem, ram>>

CoreTake ==
  /\ cmd # "none" /\ CoreStep("idle", "took")
  /\ took' = cmd
  /\ LeavesServer /\ UNCHANGED <<geom, mem, ram>>

AnswerInput == took = "input" /\ UNCHANGED <<ok, data, ram>>
\* save_state may yield nothing, or more than MAX_RESPONSE.
AnswerSaveState ==
  /\ took = "save_state" /\ UNCHANGED ram
  /\ \/ data' = State /\ ok' = TRUE
     \/ data' = Empty /\ ok' = FALSE
AnswerLoadState == took = "load_state" /\ ok' \in BOOLEAN /\ UNCHANGED <<data, ram>>
\* A core may have no battery memory at all.
AnswerSaveSram ==
  /\ took = "save_sram" /\ UNCHANGED ram
  /\ \/ data' = Sram(ram) /\ ok' = TRUE
     \/ ram = {} /\ data' = Empty /\ ok' = FALSE
AnswerLoadSram ==
  /\ took = "load_sram" /\ UNCHANGED data
  /\ IF data.kind = "none" THEN ok' = FALSE /\ UNCHANGED ram
                           ELSE ok' = TRUE /\ ram' = data.has

CoreAnswer ==
  /\ CoreStep("took", "answered")
  /\ AnswerInput \/ AnswerSaveState \/ AnswerLoadState \/ AnswerSaveSram \/ AnswerLoadSram
  /\ LeavesServer /\ UNCHANGED <<took, geom, cmd>>

CoreClear ==
  /\ CoreStep("answered", "run")
  /\ cmd' = "none" /\ took' = "none"
  /\ LeavesServer /\ UNCHANGED <<geom, ok, data, ram>>

\* One frame: the game may write its battery memory, and may present a picture.
CoreFrame ==
  /\ core = "run" \/ (core = "idle" /\ cmd = "none")
  /\ core' = "idle"
  /\ ram' \in {ram, ram \cup {launch}}
  /\ geom' \in {geom, TRUE}
  /\ LeavesServer /\ UNCHANGED <<took, mem>>

\* The emulator crashes, or exits because a frame failed; or it hangs.
CoreDies ==
  /\ CoreAlive /\ core' \in {"dead", "hung"} \ {core}
  /\ took' = "none"
  /\ LeavesServer /\ UNCHANGED <<geom, mem, ram>>

-----------------------------------------------------------------------------
(* The bridge thread                                                       *)

BridgeStep(from, to) == bridge = from /\ bridge' = to
LeavesCore == UNCHANGED <<prompt, rom, launch, load, core, took, geom, ram, host, daemon>>

SeeCancel ==
  /\ BridgeStep("top", IF cancel THEN "ask" ELSE "cmds")
  /\ LeavesCore /\ UNCHANGED <<shm, mem, chan, cancel, stopped, disk, asked>>

\* A state that is too large is dropped without an answer.
ForwardSilent ==
  /\ bridge = "cmds" /\ cmds # <<>>
  /\ cmds' = Tail(cmds)
  /\ \/ /\ Head(cmds) = "input" /\ cmd' = "input"
        /\ UNCHANGED <<bridge, data>>
     \/ /\ Head(cmds) = "save" /\ cmd' = "save_state" /\ bridge' = "saving"
        /\ UNCHANGED data
     \/ Head(cmds) = "load" /\ UNCHANGED <<bridge, data, cmd>>
  /\ LeavesCore /\ UNCHANGED <<shm, ok, resps, cancel, stopped, disk, asked>>

\* while let Ok(cmd) = cmd_rx.try_recv(): one command is written over the single slot.
Forward ==
  /\ bridge = "cmds" /\ cmds # <<>>
  /\ cmds' = Tail(cmds)
  /\ CASE Head(cmds) = "input" ->
            /\ cmd' = "input"
            /\ UNCHANGED <<bridge, data, resps>>
       [] Head(cmds) = "save" ->
            /\ cmd' = "save_state" /\ bridge' = "saving"
            /\ UNCHANGED <<data, resps>>
       [] Head(cmds) = "load" ->
            \/ /\ data' = State /\ cmd' = "load_state" /\ bridge' = "loading"
               /\ UNCHANGED resps
            \/ /\ Len(resps) < RespCap       \* larger than MAX_RESPONSE: rejected unseen
               /\ resps' = Append(resps, "answer")
               /\ UNCHANGED <<bridge, data, cmd>>
  /\ LeavesCore /\ UNCHANGED <<shm, ok, cancel, stopped, disk, asked>>

Drained ==
  /\ cmds = <<>> /\ BridgeStep("cmds", "check")
  /\ LeavesCore /\ UNCHANGED <<shm, mem, chan, cancel, stopped, disk, asked>>

\* 100 ms after publishing the bridge answers with whatever the response fields hold;
\* send blocks while the response channel is full.
Reply ==
  /\ Len(resps) < RespCap
  /\ CoreReady => cmd = "none"
  /\ resps' = Append(resps, "answer")
  /\ LeavesCore
  /\ UNCHANGED <<shm, mem, cmds, cancel, stopped, disk, asked>>
ReplySave == BridgeStep("saving", "cmds") /\ Reply
ReplyLoad == BridgeStep("loading", "cmds") /\ Reply

\* try_wait reports the exit, or no frame came for 45 s: the session is cancelled.
SeeDeath ==
  /\ core = "dead" \/ core = "hung" \/ ~prompt
  /\ BridgeStep("check", "ask")
  /\ cancel' = TRUE
  /\ LeavesCore /\ UNCHANGED <<shm, mem, chan, stopped, disk, asked>>

StillAlive ==
  /\ core # "dead" /\ BridgeStep("check", "top")
  /\ LeavesCore /\ UNCHANGED <<shm, mem, chan, cancel, stopped, disk, asked>>

\* The loop panics: shutdown runs all the same, without a sentinel and without cancel.
BridgePanics ==
  /\ bridge \in Working /\ bridge' = "ask"
  /\ LeavesCore /\ UNCHANGED <<shm, mem, chan, cancel, stopped, disk, asked>>

\* The command is published over one that is still pending.
AskSramAtOnce ==
  /\ rom /\ BridgeStep("ask", "ack")
  /\ ok' = FALSE /\ data' = Empty /\ cmd' = "save_sram"
  /\ asked' = ram
  /\ LeavesCore /\ UNCHANGED <<shm, chan, cancel, stopped, disk>>

\* request_sram_snapshot, first wait: an earlier command must be through.
AskSram ==
  /\ rom /\ cmd = "none" /\ BridgeStep("ask", "ack")
  /\ ok' = FALSE /\ data' = Empty /\ cmd' = "save_sram"
  /\ asked' = ram
  /\ LeavesCore /\ UNCHANGED <<shm, chan, cancel, stopped, disk>>

\* Nobody acknowledges: the child is gone, or 500 ms are over. Or there is no ROM hash.
NoSnapshot ==
  /\ \/ ~rom /\ bridge = "ask"
     \/ cmd # "none" /\ ~CoreReady /\ bridge \in {"ask", "ack"}
  /\ bridge' = "kill" /\ asked' = {}
  /\ LeavesCore /\ UNCHANGED <<shm, mem, chan, cancel, stopped, disk>>

\* The slot is free again: a fresh, non-empty answer is written to battery.srm.
Persist ==
  /\ cmd = "none" /\ BridgeStep("ack", "kill")
  /\ \/ disk' = IF ok /\ data.kind # "none" THEN data ELSE disk
     \/ ~prompt /\ disk' = disk
  /\ asked' = {}
  /\ LeavesCore /\ UNCHANGED <<shm, mem, chan, cancel, stopped>>

\* The child is left running.
TerminateDetached ==
  /\ BridgeStep("kill", "unlink") /\ LeavesCore
  /\ UNCHANGED <<shm, mem, chan, cancel, stopped, disk, asked>>

Terminate ==
  /\ BridgeStep("kill", "unlink")
  /\ core' = "reaped" /\ took' = "none"
  /\ UNCHANGED <<prompt, rom, launch, load, shm, geom, mem, chan, cancel, stopped,
                 ram, disk, asked, host, daemon>>

Unlink ==
  /\ BridgeStep("unlink", "end")
  /\ shm' = FALSE /\ stopped' = TRUE /\ cmds' = <<>>
  /\ LeavesCore /\ UNCHANGED <<mem, resps, cancel, disk, asked>>

-----------------------------------------------------------------------------
(* The host's data channel, stop_game and daemon shutdown                  *)

LeavesRuntime == UNCHANGED <<prompt, rom, launch, load, shm, core, took, geom, mem, bridge, stopped, ram, disk, asked>>
\* The bridge holds the receiver until it has stopped. Bound: nothing is added to the
\* queue that a cancelled bridge is still draining, which would only put its end off.
Playing == /\ load = "done" /\ ~stopped
           /\ cancel => bridge \notin {"cmds", "saving", "loading"}

\* try_send: a full channel drops the input.
PressButton ==
  /\ Playing /\ Len(cmds) < CmdCap
  /\ cmds' = Append(cmds, "input")
  /\ LeavesRuntime /\ UNCHANGED <<resps, cancel, host, daemon>>

\* Requests are not serialized by host_lifecycle.
AskStateUnlocked ==
  /\ Playing /\ Len(cmds) < CmdCap
  /\ \E c \in {"save", "load"} : cmds' = Append(cmds, c)
  /\ handler' = "waiting"
  /\ LeavesRuntime /\ UNCHANGED <<resps, cancel, lates, daemon>>

\* handle_save_state and handle_load_state, up to the blocking send.
AskState ==
  /\ Playing /\ handler = "idle" /\ Len(cmds) < CmdCap
  /\ \E c \in {"save", "load"} : cmds' = Append(cmds, c)
  /\ handler' = "waiting"
  /\ LeavesRuntime /\ UNCHANGED <<resps, cancel, lates, daemon>>

\* recv_timeout takes the next answer, whatever request it was made for.
TakeAnswer ==
  /\ handler # "idle" /\ resps # <<>>
  /\ resps' = Tail(resps) /\ handler' = "idle"
  /\ LeavesRuntime /\ UNCHANGED <<cmds, cancel, lates, daemon>>

\* 5 s without an answer; one that lies there already is taken at once.
AnswerTimeout ==
  /\ handler # "idle" /\ resps = <<>> /\ ~stopped /\ ~prompt /\ lates < MaxLates
  /\ handler' = "idle" /\ lates' = lates + 1
  /\ LeavesRuntime /\ UNCHANGED <<chan, cancel, daemon>>

\* The bridge has dropped its ends of the channels.
AnswerGone ==
  /\ handler # "idle" /\ stopped /\ resps = <<>>
  /\ handler' = "idle"
  /\ LeavesRuntime /\ UNCHANGED <<chan, cancel, lates, daemon>>

\* stop_game, the idle reaper, the host's disconnect.
StopGame ==
  /\ load = "done" /\ ~cancel /\ daemon = "up"
  /\ cancel' = TRUE
  /\ LeavesRuntime /\ UNCHANGED <<chan, host, daemon>>

\* The daemon's select drops a load that is waiting (KillOnDrop), and every
\* session is cancelled. The rest of a load has no await to be dropped at.
Shutdown ==
  /\ daemon = "up" /\ load \notin {"sram", "settle", "publish"}
  /\ daemon' = "stopping" /\ cancel' = (load = "done")
  /\ IF load = "wait" THEN load' = "failed" /\ core' = "reaped"
                      ELSE UNCHANGED <<load, core>>
  /\ UNCHANGED <<prompt, rom, launch, shm, took, geom, mem, chan, bridge, stopped,
                 ram, disk, asked, host>>

\* shutdown_all_core_bridges: every registered bridge completed, or 2 s are over.
ShutdownEnds ==
  /\ daemon = "stopping"
  /\ daemon' \in IF load = "done" /\ ~stopped THEN {"late"} ELSE {"clean"}
  /\ LeavesRuntime /\ UNCHANGED <<chan, cancel, host>>

-----------------------------------------------------------------------------
Loader == \/ SeeGeometry \/ GiveUpLoad \/ LoadSram \/ Settle \/ Publish
Core   == \/ CoreBoot \/ CoreTake \/ CoreAnswer \/ CoreClear \/ CoreFrame
Bridge == \/ SeeCancel \/ Forward \/ Drained \/ ReplySave \/ ReplyLoad \/ SeeDeath \/ StillAlive
          \/ AskSram \/ NoSnapshot \/ Persist \/ Terminate \/ Unlink
Answer == TakeAnswer \/ AnswerGone

\* When shutdown has ended the process exits, and with it every thread and task of it.
Exists == daemon \in {"up", "stopping"}

Next ==
  /\ Exists
  /\ \/ StartLoad \/ StartLoadFails \/ Loader \/ Core \/ CoreDies
     \/ Bridge \/ BridgePanics
     \/ PressButton \/ AskState \/ Answer \/ AnswerTimeout
     \/ StopGame \/ Shutdown \/ ShutdownEnds

\* The operating system runs the loader, the bridge thread, the answered handler and a
\* live core while the process exists; players, crashes, failures and shutdown owe
\* nothing.
Fairness ==
  /\ WF_vars(Exists /\ Loader) /\ WF_vars(Exists /\ Core)
  /\ WF_vars(Exists /\ Bridge) /\ WF_vars(Exists /\ Answer)

Spec == Init /\ [][Next]_vars /\ Fairness

-----------------------------------------------------------------------------
TypeOK ==
  /\ prompt \in BOOLEAN /\ rom \in BOOLEAN /\ shm \in BOOLEAN /\ geom \in BOOLEAN
  /\ launch \in 0..MaxLaunches /\ load \in Loading
  /\ core \in Alive \cup {"none", "dead", "reaped"} /\ took \in Types
  /\ cmd \in Types /\ ok \in BOOLEAN /\ data \in Datas
  /\ cmds \in Seq({"input", "save", "load"}) /\ Len(cmds) =< CmdCap
  /\ resps \in Seq({"answer"}) /\ Len(resps) =< RespCap
  /\ bridge \in Bridges /\ cancel \in BOOLEAN /\ stopped \in BOOLEAN
  /\ ram \in SUBSET Launches /\ disk \in Datas /\ asked \in SUBSET Launches
  /\ handler \in {"idle", "waiting"} /\ lates \in 0..MaxLates
  /\ daemon \in {"up", "stopping", "late", "clean"}

\* core_stopped is the fence for a replacement: it is only given once no process of the
\* game is left that writes the shared memory, and the files are gone.
StoppedIsClean == stopped => core = "reaped" /\ ~shm

\* A shutdown that reports success leaves no emulator behind.
ShutdownLeavesNoCore == daemon = "clean" => ~CoreAlive

\* Whoever is told that the core is gone, the session's waiters or the daemon's
\* shutdown, is told the truth.
GoneIsGone == StoppedIsClean /\ ShutdownLeavesNoCore

\* What lands in battery.srm is battery memory, never a save state or a leftover answer,
\* and it is not older than the moment the bridge asked for it.
SnapshotIsFresh ==
  [][disk' # disk => disk'.kind = "sram" /\ asked \subseteq disk'.has]_vars

\* If the core takes its commands in time, a shutdown snapshot never takes back progress
\* that an earlier launch had saved.
BatteryKept == [][prompt => disk.has \subseteq disk'.has]_vars

\* Every answer in the channel or in the making is one of a request that timed out, or
\* of the one that is waited for: what piles up there is bounded by the timeouts.
AtBridge   == IF bridge \in {"saving", "loading"} THEN 1 ELSE 0
Waiting    == IF handler = "idle" THEN 0 ELSE 1
AnswersFit == Len(resps) + AtBridge =< lates + Waiting

\* The bridge waits for room in a channel that is full of answers nobody takes.
Blocked == AtBridge = 1 /\ Len(resps) = RespCap /\ Waiting = 0

\* Once a session is cancelled, its core is saved, killed and unlinked, even if it hangs.
\* Only two things keep the bridge from it: answers of more requests that timed out than
\* the channel holds, and a process that exits after waiting 2 s for its bridges.
CancelStops ==
  cancel ~> stopped \/ bridge = "off" \/ daemon = "late" \/ (Blocked /\ lates > RespCap)

\* A host that asked to save or load is not left waiting while the process exists.
RequestEnds == handler # "idle" ~> handler = "idle" \/ ~Exists

\* The bridge hangs neither its session nor its requests.
BridgeEnds == CancelStops /\ RequestEnds
=============================================================================
