---------------------------- MODULE HostRuntime ----------------------------
(***************************************************************************)
(* The host side of a launch, composed with the gateway's CommandQueue:    *)
(* the serial poll-and-execute loop of cmd_start (sc-server), its handlers *)
(* for start_game, stop_game and sdp_offer, the in-memory map of runtimes, *)
(* the sc-core child behind each of them, and the HTTP calls between them, *)
(* any of which may lose its request or its reply.                         *)
(*                                                                         *)
(* A handler is one action per call it awaits.  The queue's variables only *)
(* change by CommandQueue's own actions, which is what composes the two:   *)
(* what holds of the queue with any host holds of it with this one.        *)
(***************************************************************************)
EXTENDS CommandQueue

CONSTANTS
    MaxTries,      \* attempts of with_retry for notify, notify_sdp, notify_stop
    LostReplies    \* TRUE: the gateway may act on a request and its reply be lost

ASSUME HostAssumption ==
    /\ MaxTries \in Nat \ {0}
    /\ LostReplies \in BOOLEAN

VARIABLES
    rt,      \* sessions: per game the start command c and the lease k that
             \* created the runtime, and how far it is
    cores,   \* the sc-core children that run, named like their runtime
    job      \* where the poll-and-execute loop stands

hostVars == <<rt, cores, job>>
allVars  == <<vars, hostVars>>

\* running: cancel not signalled; cancelled: the bridge still shuts its child
\* down; stopped: core_stopped is signalled, the entry is only a tombstone.
RuntimeStates == {"none", "running", "cancelled", "stopped"}
NoRuntime == [c |-> 0, k |-> 0, state |-> "none"]

Phases == {"poll", "begin", "replace", "spawn", "notify", "cleanup", "stopping",
           "notify_stop", "report", "reap"}
Idle == [phase |-> "poll", c |-> 0, k |-> 0, tries |-> 0, next |-> "reap", todo |-> {}]

HostInit ==
    /\ Init
    /\ rt = [g \in Games |-> NoRuntime]
    /\ cores = {}
    /\ job = Idle

-----------------------------------------------------------------------------
(* Helpers of the handlers.                                                *)

Doing(phase, type) == job.phase = phase /\ cmds[job.c].type = type
JobGame == cmds[job.c].game
GoTo(phase) == [job EXCEPT !.phase = phase, !.tries = 0]

\* The handler returns; the loop then looks for dead runtimes.
DeadIn(map) == {g \in Games : map[g].state = "stopped"}
Returned(map) == [Idle EXCEPT !.phase = "reap", !.todo = DeadIn(map)]
After(phase, map) == IF phase = "reap" THEN Returned(map) ELSE GoTo(phase)

\* The runtime of this game belongs to the session the command names.
Matches ==
    /\ rt[JobGame].c # 0
    /\ cmds[rt[JobGame].c].sid = cmds[job.c].sid

\* session.cancel.cancel()
Cancelled(r) == IF r.state = "running" THEN [r EXCEPT !.state = "cancelled"] ELSE r

\* How a call ends for the host.
Fates == {"ok", "request_lost"} \cup (IF LostReplies THEN {"reply_lost"} ELSE {})

-----------------------------------------------------------------------------
(* The loop.                                                               *)

\* A poll of the running process: the gateway first lets a new boot id take
\* over, then leases.  A lost request or reply leaves the loop where it was.
PollRequest == job.phase = "poll" /\ ResetStaleRuntime(proc) /\ UNCHANGED hostVars

PollReply(fate) ==
    /\ job.phase = "poll" /\ fate # "request_lost"
    /\ Poll(proc)
    /\ LET given == {c \in CmdIds : cmds'[c].attempts > cmds[c].attempts} IN
       job' = IF fate # "ok" THEN job
              ELSE IF given = {} THEN Returned(rt)
              ELSE [Idle EXCEPT !.phase = "begin", !.c = CHOOSE c \in given : TRUE,
                                !.k = cmds'[CHOOSE c \in given : TRUE].attempts]
    /\ UNCHANGED <<rt, cores>>

\* A poll that a former process had sent before it died.
GhostPoll(b) == b \in ran \ {proc} /\ Poll(b) /\ UNCHANGED hostVars

\* notify_worker_dead for session s, one attempt.
WorkerDeadCall(s, fate) ==
    IF fate # "request_lost" /\ sess[s].status \in Active THEN WorkerDead(s)
    ELSE UNCHANGED vars

\* Mutant of Reap: the tombstone goes although the gateway was not told.
ReapAnyway(g, fate) ==
    /\ job.phase = "reap" /\ g \in job.todo
    /\ WorkerDeadCall(cmds[rt[g].c].sid, fate)
    /\ rt' = [rt EXCEPT ![g] = NoRuntime]
    /\ job' = [job EXCEPT !.todo = @ \ {g}]
    /\ UNCHANGED cores

\* Dead session cleanup: the entry is removed once the gateway was told.
Reap(g, fate) ==
    /\ job.phase = "reap" /\ g \in job.todo
    /\ WorkerDeadCall(cmds[rt[g].c].sid, fate)
    /\ rt' = [rt EXCEPT ![g] = IF fate = "ok" THEN NoRuntime ELSE @]
    /\ job' = [job EXCEPT !.todo = @ \ {g}]
    /\ UNCHANGED cores

Sleep ==
    /\ job.phase = "reap" /\ job.todo = {}
    /\ job' = Idle
    /\ UNCHANGED <<vars, rt, cores>>

\* command_result, one attempt, whatever it says.
Report(fate) ==
    /\ job.phase = "report"
    /\ IF fate # "request_lost" /\ LeaseHeld(job.c, job.k) THEN Result(job.c, job.k)
       ELSE UNCHANGED vars
    /\ job' = Returned(rt)
    /\ UNCHANGED <<rt, cores>>

\* rom_transfer, delete_game and the other commands without a session.
RunTask ==
    /\ Doing("begin", "task")
    /\ job' = GoTo("report")
    /\ UNCHANGED <<vars, rt, cores>>

-----------------------------------------------------------------------------
(* handle_start_game.                                                      *)

\* An existing runtime of the game is cancelled first, whoever it belongs to.
StartBegin ==
    /\ Doing("begin", "start_game")
    /\ rt' = [rt EXCEPT ![JobGame] = Cancelled(@)]
    /\ job' = GoTo(IF rt[JobGame].c = 0 THEN "spawn" ELSE "replace")
    /\ UNCHANGED <<vars, cores>>

\* Its core stopped in time: report it dead, forget it and go on, or give up
\* without a word when that report failed.
Replaced(fate) ==
    /\ job.phase = "replace" /\ rt[JobGame].state = "stopped"
    /\ WorkerDeadCall(cmds[rt[JobGame].c].sid, fate)
    /\ IF fate = "ok"
       THEN rt' = [rt EXCEPT ![JobGame] = NoRuntime] /\ job' = GoTo("spawn")
       ELSE UNCHANGED rt /\ job' = Returned(rt)
    /\ UNCHANGED cores

\* core_shutdown_timeout
ReplaceTimeout ==
    /\ job.phase = "replace" /\ rt[JobGame].state = "cancelled"
    /\ job' = GoTo("report")
    /\ UNCHANGED <<vars, rt, cores>>

\* Resolve the game, build the peer connection, load the core, publish the
\* runtime in the map; any of it may fail (ok = FALSE) before the child runs.
Spawn(ok) ==
    /\ job.phase = "spawn"
    /\ IF ok
       THEN /\ cores' = cores \cup {<<job.c, job.k>>}
            /\ rt' = [rt EXCEPT ![JobGame] = [c |-> job.c, k |-> job.k, state |-> "running"]]
            /\ job' = GoTo("notify")
       ELSE job' = GoTo("report") /\ UNCHANGED <<rt, cores>>
    /\ UNCHANGED vars

\* What a handler does when its notify gave up: a start tears its runtime down,
\* an offer closes the host peer.
GiveUp(next) ==
    IF cmds[job.c].type = "start_game"
    THEN /\ rt' = [rt EXCEPT ![JobGame] = Cancelled(@)]
         /\ job' = [job EXCEPT !.phase = "cleanup", !.next = next]
    ELSE /\ UNCHANGED rt
         /\ job' = After(next, rt)

\* The SDP exchange failed, twice for a start: reported, except by a guest's
\* offer, which then keeps its lease until it runs out.
ExchangeFails(next) ==
    /\ job.phase = "notify" /\ job.tries = 0
    /\ cmds[job.c].type = "start_game" => next = "report"
    /\ GiveUp(next)
    /\ UNCHANGED <<vars, cores>>

\* with_retry: a failed attempt is followed by another one.
AttemptLeft == job.tries + 1 < MaxTries

\* One attempt of notify or notify_sdp under with_retry.
NotifyTry(sdp, fate) ==
    LET accepted == NotifyAccepted(job.c, job.k, sdp) IN
    /\ job.phase = "notify"
    /\ IF fate # "request_lost" /\ accepted THEN NotifyGame(job.c, job.k, sdp)
       ELSE UNCHANGED vars
    /\ IF fate = "ok" /\ accepted THEN job' = Returned(rt) /\ UNCHANGED rt
       ELSE IF AttemptLeft
       THEN job' = [job EXCEPT !.tries = @ + 1] /\ UNCHANGED rt
       ELSE GiveUp("reap")
    /\ UNCHANGED cores

\* Mutant of CleanupFailedStart: the entry goes whether the core stopped or not.
CleanupFailedStartForgetting ==
    /\ job.phase = "cleanup"
    /\ rt' = [rt EXCEPT ![JobGame] = NoRuntime]
    /\ job' = After(job.next, rt')
    /\ UNCHANGED <<vars, cores>>

\* cleanup_failed_start: the entry goes when the core stopped in time, and
\* stays as a tombstone otherwise.  Nobody is told.
CleanupFailedStart ==
    /\ job.phase = "cleanup"
    /\ rt[JobGame].state \in {"cancelled", "stopped"}
    /\ rt' = [rt EXCEPT ![JobGame] = IF @.state = "stopped" THEN NoRuntime ELSE @]
    /\ job' = After(job.next, rt')
    /\ UNCHANGED <<vars, cores>>

-----------------------------------------------------------------------------
(* handle_stop_game and handle_sdp_offer.                                  *)

\* Mutant of StopBegin: the gateway is told before the core has stopped.
StopBeginAtOnce ==
    /\ Doing("begin", "stop_game")
    /\ rt' = [rt EXCEPT ![JobGame] = IF Matches THEN Cancelled(@) ELSE @]
    /\ job' = GoTo("notify_stop")
    /\ UNCHANGED <<vars, cores>>

\* The runtime of exactly this session is cancelled; a stop for another or an
\* absent runtime is only acknowledged.
StopBegin ==
    /\ Doing("begin", "stop_game")
    /\ rt' = [rt EXCEPT ![JobGame] = IF Matches THEN Cancelled(@) ELSE @]
    /\ job' = GoTo(IF Matches THEN "stopping" ELSE "notify_stop")
    /\ UNCHANGED <<vars, cores>>

\* The core stopped in time, or the handler returns and keeps the lease.
StopWaited ==
    /\ job.phase = "stopping"
    /\ job' = IF rt[JobGame].state = "stopped" THEN GoTo("notify_stop") ELSE Returned(rt)
    /\ UNCHANGED <<vars, rt, cores>>

\* One attempt of notify_stop; a stop that was completed already is confirmed.
NotifyStopTry(fate) ==
    LET held  == LeaseHeld(job.c, job.k)
        again == cmds[job.c].status = "completed" /\ sess[cmds[job.c].sid].status \in Over
    IN
    /\ job.phase = "notify_stop"
    /\ IF fate # "request_lost" /\ held THEN NotifyStop(job.c, job.k) ELSE UNCHANGED vars
    /\ IF fate = "ok" /\ (held \/ again)
       THEN /\ rt' = [rt EXCEPT ![JobGame] = IF Matches THEN NoRuntime ELSE @]
            /\ job' = Returned(rt')
       ELSE /\ job' = IF AttemptLeft THEN [job EXCEPT !.tries = @ + 1]
                      ELSE Returned(rt)
            /\ UNCHANGED rt
    /\ UNCHANGED cores

\* An offer is answered by the runtime of its session, and refused otherwise.
OfferBegin ==
    /\ Doing("begin", "sdp_offer")
    /\ job' = GoTo(IF Matches THEN "notify" ELSE "report")
    /\ UNCHANGED <<vars, rt, cores>>

-----------------------------------------------------------------------------
(* What happens beside the loop.                                           *)

\* The core crashed or stalled, the stream failed, or the last peer left.
CancelRuntime(g) ==
    /\ rt[g].state = "running"
    /\ rt' = [rt EXCEPT ![g] = Cancelled(@)]
    /\ UNCHANGED <<vars, cores, job>>

\* The bridge thread has saved SRAM, reaped its child and signals core_stopped.
CoreStops(g) ==
    /\ rt[g].state = "cancelled"
    /\ rt' = [rt EXCEPT ![g].state = "stopped"]
    /\ cores' = cores \ {<<rt[g].c, rt[g].k>>}
    /\ UNCHANGED <<vars, job>>

\* The process is replaced; its children go with it.  No line of the code sees to that:
\* it is how systemd ends the unit that install.rs writes (the whole control group).  A
\* process that is started by hand and killed leaves its cores behind.
Reboot ==
    /\ RestartHost
    /\ rt' = [g \in Games |-> NoRuntime]
    /\ cores' = {}
    /\ job' = Idle

LoopStep ==
    \/ PollRequest
    \/ \E fate \in Fates : PollReply(fate)
    \/ \E g \in Games, fate \in Fates : Reap(g, fate)
    \/ Sleep
    \/ \E fate \in Fates : Report(fate)
    \/ RunTask
    \/ StartBegin
    \/ \E fate \in Fates : Replaced(fate)
    \/ ReplaceTimeout
    \/ \E ok \in BOOLEAN : Spawn(ok)
    \/ \E next \in {"report", "reap"} : ExchangeFails(next)
    \/ \E sdp \in BOOLEAN, fate \in Fates : NotifyTry(sdp, fate)
    \/ CleanupFailedStart
    \/ StopBegin
    \/ StopWaited
    \/ \E fate \in Fates : NotifyStopTry(fate)
    \/ OfferBegin

BesideStep ==
    \/ \E g \in Games : CancelRuntime(g) \/ CoreStops(g)
    \/ Reboot
    \/ \E b \in BootIds : GhostPoll(b)

QueueStep ==
    /\ \/ GatewayStep
       \/ \E c \in CmdIds : ExpireLease(c)
       \/ \E s \in SessIds : AgeSession(s)
    /\ UNCHANGED hostVars

HostNext == LoopStep \/ BesideStep \/ QueueStep

\* The loop keeps running, a cancelled core is reaped by its bridge, and of the
\* calls made again and again one gets through.
HostFairness ==
    /\ WF_allVars(LoopStep)
    /\ SF_allVars(PollReply("ok"))
    /\ \A g \in Games : /\ WF_allVars(CoreStops(g))
                        /\ SF_allVars(Reap(g, "ok"))

HostSpec == HostInit /\ [][HostNext]_allVars /\ HostFairness

-----------------------------------------------------------------------------
(* Properties.                                                             *)

\* The host's map, its children and its loop keep their types; a call is not
\* tried more often than with_retry allows.
HostTypeOK ==
    /\ rt \in [Games -> [c : 0 .. MaxCmds, k : 0 .. MaxAttempts, state : RuntimeStates]]
    /\ cores \subseteq CmdIds \X (1 .. MaxAttempts)
    /\ job \in [phase : Phases, c : 0 .. MaxCmds, k : 0 .. MaxAttempts,
                tries : 0 .. MaxTries, next : {"reap", "report"}, todo : SUBSET Games]

\* At most one sc-core runs per game, although a start may be redelivered, may
\* supersede a runtime of another session, or follow a failed one: the cores of
\* a game share the names of their shared-memory segments.
OneCorePerGame ==
    \A a, b \in cores : cmds[a[1]].game = cmds[b[1]].game => a = b

\* No core escapes the map that every later start, stop and shutdown consults.
CoreIsTracked ==
    \A a \in cores : \E g \in Games : rt[g].c = a[1] /\ rt[g].k = a[2]

\* Every running core is the one its game is known to have.
CoresAccounted == OneCorePerGame /\ CoreIsTracked

\* A completed stop_game is true: no core runs for the session it stopped.
StoppedMeansGone ==
    \A c \in CmdIds :
        cmds[c].type = "stop_game" /\ cmds[c].status = "completed"
            => \A a \in cores : cmds[a[1]].sid # cmds[c].sid

\* A session the gateway shows as ready or connected has a runtime on the host
\* that owns the runtime, if only a tombstone that is still to be reported.
PromotedHasRuntime ==
    \A s \in SessIds :
        sess[s].status \in {"ready", "connected"} /\ boot = proc
            => \E g \in Games : rt[g].c # 0 /\ cmds[rt[g].c].sid = s

\* A runtime that died after the gateway had shown it to its player is reported,
\* however often the report gets lost: the session ends at the gateway.
DeathIsReported ==
    \A s \in SessIds :
        (/\ sess[s].status \in {"ready", "connected"}
         /\ \E g \in Games : rt[g].state = "stopped" /\ cmds[rt[g].c].sid = s)
        ~> sess[s].status \in Over
=============================================================================
