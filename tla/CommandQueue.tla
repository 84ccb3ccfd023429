---------------------------- MODULE CommandQueue ----------------------------
(***************************************************************************)
(* The gateway's command queue and session table for one paired host       *)
(* (sc-web): POST /api/server/command, GET /api/server/poll with its boot  *)
(* fence, resident convergence and leasing, POST /api/server/notify, POST  *)
(* /api/server/result and the periodic cleanup.                            *)
(*                                                                         *)
(* Every database transaction is one action.  A request handler that reads *)
(* in one statement and writes in a later one is two actions, with what it *)
(* read kept in `reqs` (stop_game, sdp_offer) or in the command row it has *)
(* already inserted as "preparing" (start_game).  The host is the          *)
(* environment: it may present any lease it was ever given, late, twice or *)
(* never, and any process of it, dead ones included, may still be polling. *)
(***************************************************************************)
EXTENDS Integers, FiniteSets

CONSTANTS
    Users,           \* accounts that launch games on this host
    Owner,           \* servers.user_id: resident sessions run under it
    Games,           \* game ids, numbered
    MaxCmds,         \* bound on rows ever inserted into commands
    MaxSess,         \* bound on rows ever inserted into sessions
    MaxBoot,         \* bound on boot ids
    MaxTasks,        \* bound on commands that concern no session
    MaxReqs,         \* bound on handlers between their read and their write
    MaxAttempts,     \* MAX_COMMAND_ATTEMPTS
    ScanSize,        \* POLL_SCAN_SIZE
    FlagGames,       \* games whose always_on flag the owner may toggle
    MachineReboots   \* TRUE: the host machine may reboot, which restarts the
                     \* tick counter that boot ids are ordered by

ASSUME QueueAssumption ==
    /\ Owner \in Users
    /\ Games \subseteq Nat /\ Games # {} /\ FlagGames \subseteq Games
    /\ MaxCmds \in Nat /\ MaxSess \in Nat /\ MaxBoot \in Nat
    /\ MaxTasks \in Nat /\ MaxReqs \in Nat
    /\ MaxAttempts \in Nat \ {0}
    /\ ScanSize \in Nat \ {0}
    /\ MachineReboots \in BOOLEAN

VARIABLES
    cmds,    \* the commands table
    nc,      \* how many command rows were inserted; ids follow created_at
    sess,    \* the sessions table
    ns,      \* how many session rows were inserted; ids follow created_at
    always,  \* game_flags.always_on
    boot,    \* servers.runtime_boot_id (0: none yet)
    proc,    \* the boot id of the host process that is running
    ran,     \* the boot ids of every process the host ever ran
    reqs     \* stop_game and sdp_offer handlers that have read their target

vars == <<cmds, nc, sess, ns, always, boot, proc, ran, reqs>>

CmdIds  == 1 .. MaxCmds
SessIds == 1 .. MaxSess
BootIds == 1 .. MaxBoot

Lifecycle == {"start_game", "stop_game", "sdp_offer"}
Types     == Lifecycle \cup {"task"}   \* rom_transfer, delete_game, ...
CmdStatus == {"none", "preparing", "pending", "leased", "completed", "failed",
              "cancelled"}
InFlight  == {"pending", "leased"}
Terminal  == {"completed", "failed", "cancelled"}

Stuck  == {"spawning", "ready", "connected"}
Active == Stuck \cup {"playing"}         \* ACTIVE_SESSION_STATES
Over   == {"ended", "timed_out"}

\* One commands row.  The lease token is random and fresh per lease, so the
\* attempt number identifies it; `to` is the boot id the lease was given to
\* and `by` the attempt whose report completed the command (both ghosts).
Command == [type : Types, status : CmdStatus, sid : 0 .. MaxSess,
            user : Users, game : Games, resident : BOOLEAN,
            attempts : 0 .. MaxAttempts, expired : BOOLEAN,
            to : 0 .. MaxBoot, by : 0 .. MaxAttempts]

\* One sessions row.  stale: state_entered_at is older than the timeout.
Session == [status : {"none"} \cup Active \cup Over, user : Users, game : Games,
            cmd : 0 .. MaxCmds, stale : BOOLEAN]

NoGame == CHOOSE g \in Games : TRUE

Row(type, status, sid, user, game, resident) ==
    [type |-> type, status |-> status, sid |-> sid, user |-> user,
     game |-> game, resident |-> resident, attempts |-> 0, expired |-> FALSE,
     to |-> 0, by |-> 0]

Spawned(user, game, cmd) ==
    [status |-> "spawning", user |-> user, game |-> game, cmd |-> cmd,
     stale |-> FALSE]

Init ==
    /\ cmds = [c \in CmdIds |-> Row("task", "none", 0, Owner, NoGame, FALSE)]
    /\ nc = 0
    /\ sess = [s \in SessIds |-> [Spawned(Owner, NoGame, 0) EXCEPT !.status = "none"]]
    /\ ns = 0
    /\ always = {}
    /\ boot = 0
    /\ proc \in BootIds
    /\ MachineReboots \/ proc = 1
    /\ ran = {proc}
    /\ reqs = {}

\* The position of x among the members of S, for numbering inserted rows.
At(x, S) == Cardinality({y \in S : y <= x})

SessionsIn(S) == {s \in SessIds : sess[s].status \in S}

\* Mutant of LeaseHeld: any lease the row ever had will do.
LeaseHeldByAnyone(c, k) == cmds[c].status = "leased"

\* Leases.  A report must present the token of the row's current lease; whether
\* that lease has run out is not asked again.
LeaseHeld(c, k) == cmds[c].status = "leased" /\ cmds[c].attempts = k
Due(row) == row.status = "pending" \/ (row.status = "leased" /\ row.expired)

\* A row that leaves the queue.
Settled(row, status) == [row EXCEPT !.status = status, !.expired = FALSE]
Completed(c, k) == [cmds EXCEPT ![c] = [Settled(@, "completed") EXCEPT !.by = k]]

-----------------------------------------------------------------------------
(* POST /api/server/command.                                               *)

\* start_game: the row is inserted first, invisible to polling.
InsertStart(u, g) ==
    /\ nc < MaxCmds
    /\ cmds' = [cmds EXCEPT ![nc + 1] = Row("start_game", "preparing", 0, u, g, FALSE)]
    /\ nc' = nc + 1
    /\ UNCHANGED <<sess, ns, always, boot, proc, ran, reqs>>

\* The session a start_game with an SDP offer reconnects to.
Reusable(u, g) ==
    {s \in SessIds : /\ sess[s].user = u /\ sess[s].game = g
                     /\ \/ sess[s].status = "playing"
                        \/ sess[s].status \in Stuck /\ ~sess[s].stale}

\* The reconnect branch reads the newest reusable session ...
ReadReusable(c) ==
    /\ cmds[c].status = "preparing" /\ cmds[c].sid = 0
    /\ \E s \in Reusable(cmds[c].user, cmds[c].game) :
          /\ \A r \in Reusable(cmds[c].user, cmds[c].game) : r <= s
          /\ cmds' = [cmds EXCEPT ![c].sid = s]
    /\ UNCHANGED <<nc, sess, ns, always, boot, proc, ran, reqs>>

\* ... and later publishes the command as an sdp_offer for it, without looking
\* at the session again.
PublishReconnect(c) ==
    /\ cmds[c].status = "preparing" /\ cmds[c].sid # 0
    /\ cmds' = [cmds EXCEPT ![c].type = "sdp_offer", ![c].status = "pending"]
    /\ UNCHANGED <<nc, sess, ns, always, boot, proc, ran, reqs>>

\* Mutant of PublishLaunch: a session that got its first answer is not superseded.
PublishLaunchSparing(c) ==
    LET u == cmds[c].user
        victims == {s \in SessionsIn({"spawning", "ready"}) : sess[s].user = u}
    IN
    /\ cmds[c].status = "preparing" /\ cmds[c].sid = 0
    /\ victims = {} /\ ns < MaxSess
    /\ cmds' = [cmds EXCEPT ![c].status = "pending", ![c].sid = ns + 1]
    /\ sess' = [sess EXCEPT ![ns + 1] = Spawned(u, cmds[c].game, c)]
    /\ ns' = ns + 1
    /\ UNCHANGED <<nc, always, boot, proc, ran, reqs>>

\* The launch transaction: every active session of this user on this host is
\* ended, its start command cancelled and a stop_game queued for it; the new
\* session is created and the command published.
PublishLaunch(c) ==
    LET u == cmds[c].user
        victims == {s \in SessionsIn(Active) : sess[s].user = u}
    IN
    /\ cmds[c].status = "preparing" /\ cmds[c].sid = 0
    /\ nc + Cardinality(victims) <= MaxCmds /\ ns < MaxSess
    /\ cmds' = [d \in CmdIds |->
          IF d = c THEN [cmds[c] EXCEPT !.status = "pending", !.sid = ns + 1]
          ELSE IF \E s \in victims : d = nc + At(s, victims)
          THEN LET s == CHOOSE s \in victims : d = nc + At(s, victims)
               IN  Row("stop_game", "pending", s, u, sess[s].game, FALSE)
          ELSE IF /\ \E s \in victims : sess[s].cmd = d
                  /\ cmds[d].status \in {"preparing", "pending", "leased"}
          THEN Settled(cmds[d], "cancelled")
          ELSE cmds[d]]
    /\ nc' = nc + Cardinality(victims)
    /\ sess' = [s \in SessIds |->
          IF s = ns + 1 THEN Spawned(u, cmds[c].game, c)
          ELSE IF s \in victims THEN [sess[s] EXCEPT !.status = "ended", !.stale = FALSE]
          ELSE sess[s]]
    /\ ns' = ns + 1
    /\ UNCHANGED <<always, boot, proc, ran, reqs>>

\* stop_game and sdp_offer resolve their target session first: a stop takes
\* the newest active session of the game, of all hosts or of one host token;
\* an offer names the active session of its room or host token.
ReadTarget(type, s) ==
    /\ Cardinality(reqs) < MaxReqs
    /\ s \in SessionsIn(Active)
    /\ \/ type = "sdp_offer"
       \/ /\ type = "stop_game"
          /\ \/ \A r \in SessionsIn(Active) : sess[r].game = sess[s].game => r <= s
             \/ \A r \in SessionsIn(Active) :
                   sess[r].game = sess[s].game /\ sess[r].user = sess[s].user => r <= s
    /\ reqs' = reqs \cup {[type |-> type, sid |-> s]}
    /\ UNCHANGED <<cmds, nc, sess, ns, always, boot, proc, ran>>

\* ... and insert the command in a later transaction.
InsertTargeted(r) ==
    /\ nc < MaxCmds
    /\ reqs' = reqs \ {r}
    /\ cmds' = [cmds EXCEPT ![nc + 1] =
                   Row(r.type, "pending", r.sid, sess[r.sid].user, sess[r.sid].game, FALSE)]
    /\ nc' = nc + 1
    /\ UNCHANGED <<sess, ns, always, boot, proc, ran>>

\* Commands without a session: rom_transfer, rom_download, delete_game, ...
InsertTask ==
    /\ nc < MaxCmds
    /\ Cardinality({c \in 1 .. nc : cmds[c].type = "task"}) < MaxTasks
    /\ cmds' = [cmds EXCEPT ![nc + 1] = Row("task", "pending", 0, Owner, NoGame, FALSE)]
    /\ nc' = nc + 1
    /\ UNCHANGED <<sess, ns, always, boot, proc, ran, reqs>>

-----------------------------------------------------------------------------
(* GET /api/server/poll.                                                   *)

\* Mutant of ResetStaleRuntime: connected sessions are spared, their commands
\* are not.
ResetStaleRuntimeSparing(b) ==
    /\ b > boot
    /\ boot' = b
    /\ sess' = [s \in SessIds |->
          IF sess[s].status \in {"spawning", "ready"}
          THEN [sess[s] EXCEPT !.status = "ended", !.stale = FALSE]
          ELSE sess[s]]
    /\ cmds' = [c \in CmdIds |->
          IF /\ cmds[c].type \in Lifecycle /\ cmds[c].status \in InFlight
             /\ cmds[c].sid \in SessionsIn(Active)
          THEN Settled(cmds[c], "cancelled") ELSE cmds[c]]
    /\ UNCHANGED <<nc, ns, always, proc, ran, reqs>>

\* Mutant of ResetStaleRuntime: only the first boot id is ever accepted.
ResetStaleRuntimeOnce(b) ==
    /\ boot = 0
    /\ boot' = b
    /\ UNCHANGED <<cmds, nc, sess, ns, always, proc, ran, reqs>>

\* resetStaleRuntime, in its own transaction: a boot id that is newer than the
\* recorded one takes the host over.  An older one is refused, an equal one
\* changes nothing.
ResetStaleRuntime(b) ==
    LET stale == SessionsIn(Active) IN
    /\ b > boot
    /\ boot' = b
    /\ sess' = [s \in SessIds |->
          IF s \in stale THEN [sess[s] EXCEPT !.status = "ended", !.stale = FALSE]
          ELSE sess[s]]
    /\ cmds' = [c \in CmdIds |->
          IF /\ cmds[c].type \in Lifecycle /\ cmds[c].status \in InFlight
             /\ cmds[c].sid \in stale
          THEN Settled(cmds[c], "cancelled") ELSE cmds[c]]
    /\ UNCHANGED <<nc, ns, always, proc, ran, reqs>>

\* Mutant of Missing: an active session is not enough to skip the game.
MissingInFlight ==
    {g \in always :
        \A c \in CmdIds : ~ (/\ cmds[c].type = "start_game"
                             /\ cmds[c].status \in InFlight
                             /\ cmds[c].game = g)}

\* convergeResidents: flagged games without an active session and without a
\* start in flight are started; nothing at all happens when no game is flagged.
Missing ==
    {g \in always :
        /\ \A s \in SessionsIn(Active) : sess[s].game # g
        /\ \A c \in CmdIds : ~ (/\ cmds[c].type = "start_game"
                                /\ cmds[c].status \in InFlight
                                /\ cmds[c].game = g)}

\* stopDefunctResidents: resident sessions of games that are no longer flagged.
Defunct ==
    {s \in SessionsIn(Active) :
        /\ always # {}
        /\ sess[s].game \notin always
        /\ sess[s].cmd # 0 /\ cmds[sess[s].cmd].resident
        /\ \A c \in CmdIds : ~ (/\ cmds[c].type = "stop_game"
                                /\ cmds[c].status \in InFlight
                                /\ cmds[c].game = sess[s].game)}

\* The bound on the model's tables: a poll that finds no room for its rows
\* inserts none, as if its two transactions had failed.
Room ==
    /\ nc + Cardinality(Missing) + Cardinality(Defunct) <= MaxCmds
    /\ ns + Cardinality(Missing) <= MaxSess

Starts == IF Room THEN Missing ELSE {}
Stops  == IF Room THEN Defunct ELSE {}

ConvergedCmds ==
    [d \in CmdIds |->
        IF \E g \in Starts : d = nc + At(g, Starts)
        THEN LET g == CHOOSE g \in Starts : d = nc + At(g, Starts)
             IN  Row("start_game", "pending", ns + At(g, Starts), Owner, g, TRUE)
        ELSE IF \E s \in Stops : d = nc + Cardinality(Starts) + At(s, Stops)
        THEN LET s == CHOOSE s \in Stops : d = nc + Cardinality(Starts) + At(s, Stops)
             IN  Row("stop_game", "pending", s, Owner, sess[s].game, FALSE)
        ELSE cmds[d]]

ConvergedSess ==
    [s \in SessIds |->
        IF \E g \in Starts : s = ns + At(g, Starts)
        THEN LET g == CHOOSE g \in Starts : s = ns + At(g, Starts)
             IN  Spawned(Owner, g, nc + At(g, Starts))
        ELSE sess[s]]

\* Cancel what targets a finished session (this runs on every poll that sends
\* a boot id, not only after a reset), then fail the starts and offers whose
\* session is not active.
Swept(cs, ss) ==
    [c \in CmdIds |->
        LET row == cs[c]
            targets(S) == row.sid # 0 /\ ss[row.sid].status \in S
        IN  IF row.type \in Lifecycle /\ row.status \in InFlight /\ targets(Over)
            THEN Settled(row, "cancelled")
            ELSE IF row.type \in {"start_game", "sdp_offer"} /\ Due(row) /\ ~targets(Active)
            THEN Settled(row, "failed")
            ELSE row]

Rank(type) == CASE type = "stop_game" -> 0 [] type = "sdp_offer" -> 1
                [] type = "start_game" -> 2 [] OTHER -> 3

Before(cs, c, d) ==
    \/ Rank(cs[c].type) < Rank(cs[d].type)
    \/ Rank(cs[c].type) = Rank(cs[d].type) /\ c < d

\* Mutant of Leased: the retry budget is never checked.
LeasedForever(cs, b) ==
    LET due    == {c \in CmdIds : Due(cs[c])}
        chosen == {c \in due : \A d \in due : ~Before(cs, d, c)}
    IN  [c \in CmdIds |->
            IF c \in chosen
            THEN [cs[c] EXCEPT !.status = "leased", !.attempts = @ + 1,
                               !.expired = FALSE, !.to = b]
            ELSE cs[c]]

\* Mutant of Leased: exhausted rows are skipped, not failed.
LeasedSkipping(cs, b) ==
    LET due       == {c \in CmdIds : Due(cs[c])}
        scanned   == {c \in due : Cardinality({d \in due : Before(cs, d, c)}) < ScanSize}
        leaseable == {c \in scanned : cs[c].attempts < MaxAttempts}
        chosen    == {c \in leaseable : \A d \in leaseable : ~Before(cs, d, c)}
    IN  [c \in CmdIds |->
            IF c \in chosen
            THEN [cs[c] EXCEPT !.status = "leased", !.attempts = @ + 1,
                               !.expired = FALSE, !.to = b]
            ELSE cs[c]]

\* The first ScanSize due rows; poisoned ones fail, the first other is leased.
Leased(cs, b) ==
    LET due       == {c \in CmdIds : Due(cs[c])}
        scanned   == {c \in due : Cardinality({d \in due : Before(cs, d, c)}) < ScanSize}
        exhausted == {c \in scanned : cs[c].attempts >= MaxAttempts}
        leaseable == scanned \ exhausted
        chosen    == {c \in leaseable : \A d \in leaseable : ~Before(cs, d, c)}
    IN  [c \in CmdIds |->
            IF c \in exhausted THEN Settled(cs[c], "failed")
            ELSE IF c \in chosen
            THEN [cs[c] EXCEPT !.status = "leased", !.attempts = @ + 1,
                               !.expired = FALSE, !.to = b]
            ELSE cs[c]]

\* Mutant of Fenced: the transaction does not read the boot id again.
FencedBefore(b) == TRUE

\* The main transaction, fenced by the boot id it re-reads under the row lock.
Fenced(b) == b = boot

Poll(b) ==
    /\ Fenced(b)
    /\ sess' = ConvergedSess
    /\ \E cs \in {Swept(ConvergedCmds, ConvergedSess)} : cmds' = Leased(cs, b)
    /\ nc' = nc + Cardinality(Starts) + Cardinality(Stops)
    /\ ns' = ns + Cardinality(Starts)
    /\ UNCHANGED <<always, boot, proc, ran, reqs>>

-----------------------------------------------------------------------------
(* POST /api/server/notify and /api/server/result: what the host reports   *)
(* with attempt k's lease of command c.                                    *)

\* Mutant of NotifyTarget: worker readiness is accepted whenever it arrives.
NotifyTargetAnyReady(status, sdp) ==
    CASE status = "playing" /\ sdp -> "playing"
      [] status \in Stuck /\ sdp  -> "connected"
      [] status \in Stuck /\ ~sdp -> "ready"
      [] OTHER -> "refused"

NotifyTarget(status, sdp) ==
    CASE status = "playing" /\ sdp -> "playing"
      [] status \in Stuck /\ sdp  -> "connected"
      [] status \in {"spawning", "ready"} /\ ~sdp -> "ready"
      [] OTHER -> "refused"

\* Readiness or an SDP answer for a start_game or sdp_offer: the session is
\* promoted and the lease completed in one transaction, or neither.
NotifyAccepted(c, k, sdp) ==
    /\ cmds[c].type \in {"start_game", "sdp_offer"} /\ cmds[c].sid # 0
    /\ NotifyTarget(sess[cmds[c].sid].status, sdp) # "refused"
    /\ LeaseHeld(c, k)

NotifyGame(c, k, sdp) ==
    LET s == cmds[c].sid IN
    /\ NotifyAccepted(c, k, sdp)
    /\ sess' = [sess EXCEPT ![s].status = NotifyTarget(@, sdp), ![s].stale = FALSE]
    /\ cmds' = Completed(c, k)
    /\ UNCHANGED <<nc, ns, always, boot, proc, ran, reqs>>

\* A stop_game was carried out: the session ends unless it has ended already.
NotifyStop(c, k) ==
    LET s == cmds[c].sid IN
    /\ cmds[c].type = "stop_game" /\ s # 0
    /\ LeaseHeld(c, k)
    /\ sess' = IF sess[s].status \in Over THEN sess
               ELSE [sess EXCEPT ![s].status = "ended", ![s].stale = FALSE]
    /\ cmds' = Completed(c, k)
    /\ UNCHANGED <<nc, ns, always, boot, proc, ran, reqs>>

\* __worker_dead__: no command, no lease, just the session the runtime lost.
WorkerDead(s) ==
    /\ s \in SessionsIn(Active)
    /\ sess[s].cmd # 0 /\ cmds[sess[s].cmd].attempts > 0
    /\ sess' = [sess EXCEPT ![s].status = "ended", ![s].stale = FALSE]
    /\ UNCHANGED <<cmds, nc, ns, always, boot, proc, ran, reqs>>

\* POST /api/server/result: any command, the session is left as it is.
Result(c, k) ==
    /\ LeaseHeld(c, k)
    /\ cmds' = Completed(c, k)
    /\ UNCHANGED <<nc, sess, ns, always, boot, proc, ran, reqs>>

-----------------------------------------------------------------------------
(* Cleanup, time, flags and the host's processes.                          *)

\* cleanupOnce: sessions stuck beyond the timeout, unless a stop_game for them
\* was not completed or a live lease may still answer.
Cleanup ==
    LET fenced(s) == \E c \in CmdIds :
            /\ cmds[c].sid = s /\ cmds[c].type \in Lifecycle
            /\ \/ cmds[c].type = "stop_game" /\ cmds[c].status \in InFlight \cup {"failed"}
               \/ cmds[c].status = "leased" /\ ~cmds[c].expired
        eligible == {s \in SessionsIn(Stuck) : sess[s].stale /\ ~fenced(s)}
    IN
    /\ eligible # {}
    /\ sess' = [s \in SessIds |->
          IF s \in eligible THEN [sess[s] EXCEPT !.status = "timed_out", !.stale = FALSE]
          ELSE sess[s]]
    /\ cmds' = [c \in CmdIds |->
          IF /\ cmds[c].type \in {"start_game", "sdp_offer"}
             /\ cmds[c].sid \in eligible /\ Due(cmds[c])
          THEN Settled(cmds[c], "failed") ELSE cmds[c]]
    /\ UNCHANGED <<nc, ns, always, boot, proc, ran, reqs>>

ExpireLease(c) ==
    /\ cmds[c].status = "leased" /\ ~cmds[c].expired
    /\ cmds' = [cmds EXCEPT ![c].expired = TRUE]
    /\ UNCHANGED <<nc, sess, ns, always, boot, proc, ran, reqs>>

AgeSession(s) ==
    /\ sess[s].status \in Stuck /\ ~sess[s].stale
    /\ sess' = [sess EXCEPT ![s].stale = TRUE]
    /\ UNCHANGED <<cmds, nc, ns, always, boot, proc, ran, reqs>>

SetAlwaysOn(g) ==
    /\ always' = IF g \in always THEN always \ {g} ELSE always \cup {g}
    /\ UNCHANGED <<cmds, nc, sess, ns, boot, proc, ran, reqs>>

\* The host process starts anew.  Its boot id is the process start time in
\* clock ticks since the machine booted, so it is larger on the same machine
\* boot and may be anything after a machine reboot.
RestartHost ==
    /\ \E b \in BootIds \ ran :
          /\ b > proc \/ MachineReboots
          /\ proc' = b
          /\ ran' = ran \cup {b}
    /\ UNCHANGED <<cmds, nc, sess, ns, always, boot, reqs>>

-----------------------------------------------------------------------------
GatewayStep ==
    \/ \E u \in Users, g \in Games : InsertStart(u, g)
    \/ \E c \in CmdIds : ReadReusable(c) \/ PublishReconnect(c) \/ PublishLaunch(c)
    \/ \E type \in {"stop_game", "sdp_offer"}, s \in SessIds : ReadTarget(type, s)
    \/ \E r \in reqs : InsertTargeted(r)
    \/ InsertTask
    \/ Cleanup
    \/ \E g \in FlagGames : SetAlwaysOn(g)

PollStep == \E b \in ran : ResetStaleRuntime(b) \/ Poll(b)

ReportStep ==
    \/ \E c \in CmdIds : \E k \in 1 .. cmds[c].attempts :
          \/ \E sdp \in BOOLEAN : NotifyGame(c, k, sdp)
          \/ NotifyStop(c, k)
          \/ Result(c, k)
    \/ \E s \in SessIds : WorkerDead(s)

TimeStep ==
    \/ \E c \in CmdIds : ExpireLease(c)
    \/ \E s \in SessIds : AgeSession(s)
    \/ RestartHost

Next == GatewayStep \/ PollStep \/ ReportStep \/ TimeStep

\* The running host process keeps polling (its poll either takes the host over
\* or runs the main transaction, never both) and leases run out by themselves.
\* Nothing obliges a user to do anything, a host to report, or the operator to
\* run the cleanup script.
Fairness ==
    /\ WF_vars(ResetStaleRuntime(proc) \/ Poll(proc))
    /\ WF_vars(\E c \in CmdIds : ExpireLease(c))

Spec == Init /\ [][Next]_vars /\ Fairness
-----------------------------------------------------------------------------
(* Properties.                                                             *)

\* The two tables keep their row types; no row is leased beyond the retry
\* budget.
TypeOK ==
    /\ cmds \in [CmdIds -> Command]
    /\ nc \in 0 .. MaxCmds
    /\ sess \in [SessIds -> Session]
    /\ ns \in 0 .. MaxSess
    /\ always \in SUBSET Games
    /\ boot \in 0 .. MaxBoot
    /\ proc \in BootIds
    /\ ran \in SUBSET BootIds
    /\ reqs \in SUBSET [type : {"stop_game", "sdp_offer"}, sid : SessIds]

\* A command that was completed, failed or cancelled keeps that outcome: no
\* late report, second report, poll, reset, launch or cleanup revives it.
TerminalIsFinal ==
    [][\A c \in CmdIds : cmds[c].status \in Terminal => cmds'[c] = cmds[c]]_vars

\* A command that was redelivered is completed by the report of the last
\* delivery; the earlier holders' leases are worth nothing from then on.
CompletedByHolder ==
    \A c \in CmdIds : cmds[c].status = "completed" => cmds[c].by = cmds[c].attempts

\* A user plays one game at a time on this host: at most one of the sessions
\* the user launched is active, however many launches, retries and host
\* restarts overlap.
OneLaunchPerUser ==
    \A r, s \in SessionsIn(Active) :
        /\ sess[r].user = sess[s].user
        /\ ~cmds[sess[r].cmd].resident /\ ~cmds[sess[s].cmd].resident
        => r = s

\* An always-on game has one resident session, although every poll of every
\* process converges towards it.
OneResidentPerGame ==
    \A r, s \in SessionsIn(Active) :
        /\ sess[r].game = sess[s].game
        /\ cmds[sess[r].cmd].resident /\ cmds[sess[s].cmd].resident
        => r = s

\* A session becomes ready or connected only by a report that completes, in the
\* same step, a command for that very session leased to the host process that
\* owns the runtime.  A process that was replaced never makes a session look
\* alive, even when its poll was already past the first boot check.
PromotionByCurrentBoot ==
    [][\A s \in SessIds :
          sess'[s].status # sess[s].status /\ sess'[s].status \in {"ready", "connected"}
          => \E c \in CmdIds :
                /\ cmds[c].sid = s /\ cmds[c].status = "leased" /\ cmds[c].to = boot
                /\ cmds'[c].status = "completed"]_vars

StageOf(status) ==
    CASE status = "none" -> 0 [] status = "spawning" -> 1 [] status = "ready" -> 2
      [] status = "connected" -> 3 [] status = "playing" -> 4 [] OTHER -> 5

\* A session only moves forward, and a finished one is never touched again: the
\* answer to a reconnect that arrives after the stop changes nothing.
SessionForward ==
    [][\A s \in SessIds :
          /\ StageOf(sess'[s].status) >= StageOf(sess[s].status)
          /\ sess[s].status \in Over => sess'[s] = sess[s]]_vars

\* Nothing is cancelled under a session that is still supposed to run.
CancelledMeansOver ==
    \A c \in CmdIds :
        cmds[c].status = "cancelled" /\ cmds[c].sid # 0
            => sess[cmds[c].sid].status \in Over

\* While a host holds a live lease for a session, the cleanup leaves that
\* session alone: the host never reports into a session that timed out.
NoTimeoutUnderLease ==
    \A c \in CmdIds :
        cmds[c].status = "leased" /\ ~cmds[c].expired /\ cmds[c].type \in Lifecycle
            => sess[cmds[c].sid].status # "timed_out"

\* A lease means something to both sides: only its holder settles the command,
\* and nobody gives up the session under it.
LeasesHold == CompletedByHolder /\ NoTimeoutUnderLease

\* Nothing that is over comes back, however late a report or a retry arrives.
NothingRevives == TerminalIsFinal /\ SessionForward

\* While the machine is not rebooted, the gateway has never recorded a later boot id
\* than that of the running process, although replaced processes go on polling.
CurrentNotRefused == ~MachineReboots => boot =< proc

\* Once the host process stops being replaced, the gateway accepts its polls.
CurrentProcessIsHeard == []CurrentNotRefused /\ <>[](boot = proc)

\* Every published command is settled sooner or later, although the host may
\* never report, sessions end under the command and others overtake it.
CommandSettles ==
    \A c \in CmdIds : cmds[c].status = "pending" ~> cmds[c].status \in Terminal

=============================================================================
