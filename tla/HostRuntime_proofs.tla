------------------------- MODULE HostRuntime_proofs -------------------------
(***************************************************************************)
(* Theorems about HostRuntime: for every number of games, rows, boots and  *)
(* retries, and whatever calls get lost, the host only takes steps the     *)
(* queue expects of it, every core that runs is the one its game is known  *)
(* to have, a completed stop_game is true, and (when no reply is lost) a   *)
(* session shown as ready has a runtime.                                   *)
(*                                                                         *)
(* The host decides from its map and its job, which name rows of the       *)
(* commands table; the invariant says what those rows still are.  It is    *)
(* written over a table, a map, a set of cores and a job, so that Frame    *)
(* can say once that it survives whatever the gateway does to the table.   *)
(***************************************************************************)
EXTENDS HostRuntime, CommandQueue_proofs

\* A row of table cm that was published.
Live(cm, c) == c \in CmdIds /\ cm[c].status \notin {"none", "preparing"}

\* Table cn is what steps of the queue made of table cm.
Later(cm, cn) ==
  \A c \in CmdIds : Live(cm, c) =>
     /\ Live(cn, c) /\ cn[c].type = cm[c].type /\ cn[c].sid = cm[c].sid
     /\ cn[c].game = cm[c].game /\ cn[c].attempts >= cm[c].attempts

HostTypes(map, cs, j) ==
  /\ map \in [Games -> [c : 0 .. MaxCmds, k : 0 .. MaxAttempts, state : RuntimeStates]]
  /\ cs \subseteq CmdIds \X (1 .. MaxAttempts)
  /\ j \in [phase : Phases, c : 0 .. MaxCmds, k : 0 .. MaxAttempts,
            tries : 0 .. MaxTries, next : {"reap", "report"}, todo : SUBSET Games]

\* A runtime is named by the published start command of its game.
RuntimesOK(cm, map) ==
  \A g \in Games :
     /\ map[g].c = 0 => map[g] = NoRuntime
     /\ map[g].c # 0 =>
          /\ Live(cm, map[g].c) /\ map[g].k # 0 /\ map[g].state # "none"
          /\ cm[map[g].c].type = "start_game" /\ cm[map[g].c].game = g

\* Every core is that of a runtime that has not stopped.
CoresOK(map, cs) ==
  \A a \in cs : \E g \in Games :
     a = <<map[g].c, map[g].k>> /\ map[g].state \in {"running", "cancelled"}

\* What the loop knows about its command and the runtime of the command's game.
Mine(cm, map, j) == map[cm[j.c].game]
Matching(cm, map, j) ==
  Mine(cm, map, j).c # 0 /\ cm[Mine(cm, map, j).c].sid = cm[j.c].sid

JobOK(cm, map, j) ==
  /\ j.phase \notin {"poll", "reap"} => Live(cm, j.c) /\ j.k \in 1 .. cm[j.c].attempts
  /\ j.phase \in {"replace", "spawn", "cleanup"} => cm[j.c].type = "start_game"
  /\ j.phase \in {"stopping", "notify_stop"} => cm[j.c].type = "stop_game"
  /\ j.phase = "notify" => cm[j.c].type \in {"start_game", "sdp_offer"}
  /\ j.phase = "report" => cm[j.c].type # "stop_game"
  /\ j.phase = "spawn" => Mine(cm, map, j) = NoRuntime
  /\ j.phase \in {"notify", "stopping", "cleanup"} => Matching(cm, map, j)
  /\ j.phase \in {"stopping", "cleanup"} => Mine(cm, map, j).state # "running"
  /\ j.phase = "notify_stop" /\ Matching(cm, map, j) => Mine(cm, map, j).state = "stopped"
  /\ j.phase = "reap" => \A g \in j.todo : map[g].state = "stopped"

\* Session s was stopped: no core runs for it, and none is about to.
Stopped(cm, s) ==
  \E c \in CmdIds : cm[c].type = "stop_game" /\ cm[c].status = "completed" /\ cm[c].sid = s

StopsTrue(cm, cs, j) ==
  /\ \A a \in cs : ~Stopped(cm, cm[a[1]].sid)
  /\ j.phase \in {"begin", "replace", "spawn"} /\ cm[j.c].type = "start_game"
       => ~Stopped(cm, cm[j.c].sid)

Sound(cm, map, cs, j) ==
  RuntimesOK(cm, map) /\ CoresOK(map, cs) /\ JobOK(cm, map, j) /\ StopsTrue(cm, cs, j)

BootsOK == proc \in ran /\ boot \in ran \cup {0}
StopsOver == \A s \in SessIds : Stopped(cmds, s) => sess[s].status \in Over

HostInv ==
  /\ QueueInv /\ BootsOK /\ StopsOver
  /\ HostTypes(rt, cores, job) /\ Sound(cmds, rt, cores, job)

HostGood ==
  /\ Good /\ BootsOK' /\ StopsOver'
  /\ HostTypes(rt', cores', job') /\ Sound(cmds', rt', cores', job')

-----------------------------------------------------------------------------
(* What the queue's steps leave of the host's knowledge                    *)

\* No stop_game is completed by this step.
NoStop(cm, cn) ==
  \A c \in CmdIds : cn[c].type = "stop_game" /\ cn[c].status = "completed" => cn[c] = cm[c]

LEMMA GoodIsLater == QueueInv /\ Good => Later(cmds, cmds')
<1> SUFFICES ASSUME QueueInv, Good, NEW c \in CmdIds, Live(cmds, c)
             PROVE  /\ Live(cmds', c) /\ cmds'[c].type = cmds[c].type
                    /\ cmds'[c].sid = cmds[c].sid
                    /\ cmds'[c].game = cmds[c].game /\ cmds'[c].attempts >= cmds[c].attempts
  BY DEF Later
<1>1. c =< nc
  BY DEF QueueInv, Tables, RowsBelow, Live
<1>2. RowEvolves(cmds[c], cmds'[c])
  BY <1>1 DEF Good, Evolves
<1> QED
  BY <1>2 DEF RowEvolves, Live

LEMMA QuietNoStop == QueueInv /\ Good /\ Quiet => NoStop(cmds, cmds')
<1> SUFFICES ASSUME QueueInv, Good, Quiet, NEW c \in CmdIds, cmds'[c].status = "completed"
             PROVE  cmds'[c] = cmds[c]
  BY DEF NoStop
<1>1. cmds[c].status = "completed"
  BY DEF Quiet
<1>2. c =< nc
  BY <1>1 DEF QueueInv, Tables, RowsBelow
<1> QED
  BY <1>1, <1>2 DEF Good, Evolves, RowEvolves, Terminal

\* What the host knows about a table it still knows about a later one.
LEMMA FrameRows ==
  ASSUME NEW cm, NEW cn, NEW map, NEW cs, NEW j, Later(cm, cn),
         cm \in [CmdIds -> Command], cn \in [CmdIds -> Command],
         RuntimesOK(cm, map), CoresOK(map, cs), JobOK(cm, map, j)
  PROVE  /\ RuntimesOK(cn, map) /\ JobOK(cn, map, j)
         /\ \A a \in cs : Live(cm, a[1]) /\ cn[a[1]].sid = cm[a[1]].sid
<1>1. \A g \in Games : map[g].c # 0 =>
         /\ Live(cm, map[g].c) /\ Live(cn, map[g].c)
         /\ cn[map[g].c].type = cm[map[g].c].type /\ cn[map[g].c].game = cm[map[g].c].game
         /\ cn[map[g].c].sid = cm[map[g].c].sid
  BY DEF RuntimesOK, Later, Live
<1>2. RuntimesOK(cn, map)
  BY <1>1 DEF RuntimesOK
<1>3. \A a \in cs : Live(cm, a[1]) /\ cn[a[1]].sid = cm[a[1]].sid
  <2> SUFFICES ASSUME NEW a \in cs PROVE Live(cm, a[1]) /\ cn[a[1]].sid = cm[a[1]].sid
    OBVIOUS
  <2>1. PICK g \in Games : a = <<map[g].c, map[g].k>> /\ map[g].state \in {"running", "cancelled"}
    BY DEF CoresOK
  <2>2. map[g].c # 0
    BY <2>1 DEF RuntimesOK, NoRuntime
  <2> QED
    BY <1>1, <2>1, <2>2
<1>4. JobOK(cn, map, j)
  <2>1. CASE j.phase \in {"poll", "reap"}
    BY <2>1 DEF JobOK
  <2>2. CASE j.phase \notin {"poll", "reap"}
    <3>1. /\ Live(cm, j.c) /\ Live(cn, j.c) /\ cn[j.c].type = cm[j.c].type
          /\ cn[j.c].game = cm[j.c].game /\ cn[j.c].sid = cm[j.c].sid
          /\ cn[j.c].attempts >= cm[j.c].attempts
      BY <2>2 DEF JobOK, Later, Live
    <3>2. /\ cm[j.c].attempts \in Int /\ cn[j.c].attempts \in Int
      BY <3>1, QueueAssumption DEF Command, Live
    <3>3. j.k \in 1 .. cn[j.c].attempts
      BY <2>2, <3>1, <3>2 DEF JobOK
    <3>4. Mine(cn, map, j) = Mine(cm, map, j) /\ cm[j.c].game \in Games
      BY <3>1 DEF Mine, Live, Command
    <3>5. Matching(cn, map, j) <=> Matching(cm, map, j)
      BY <1>1, <3>1, <3>4 DEF Matching, Mine
    <3> QED
      BY <2>2, <3>1, <3>3, <3>4, <3>5 DEF JobOK
  <2> QED
    BY <2>1, <2>2
<1> QED
  BY <1>2, <1>3, <1>4

LEMMA Frame ==
  ASSUME NEW cm, NEW cn, NEW map, NEW cs, NEW j, Later(cm, cn), NoStop(cm, cn),
         cm \in [CmdIds -> Command], cn \in [CmdIds -> Command],
         Sound(cm, map, cs, j)
  PROVE  Sound(cn, map, cs, j)
<1>1. /\ RuntimesOK(cn, map) /\ JobOK(cn, map, j)
      /\ \A a \in cs : Live(cm, a[1]) /\ cn[a[1]].sid = cm[a[1]].sid
  BY FrameRows DEF Sound
<1>2. \A s : Stopped(cn, s) => Stopped(cm, s)
  BY DEF NoStop, Stopped
<1>3. StopsTrue(cn, cs, j)
  <2>1. CASE j.phase \in {"poll", "reap"}
    BY <1>1, <1>2, <2>1 DEF StopsTrue, Sound
  <2>2. CASE j.phase \notin {"poll", "reap"}
    <3>1. cn[j.c].type = cm[j.c].type /\ cn[j.c].sid = cm[j.c].sid
      BY <2>2 DEF Sound, JobOK, Later, Live
    <3> QED
      BY <1>1, <1>2, <3>1 DEF StopsTrue, Sound
  <2> QED
    BY <2>1, <2>2
<1> QED
  BY <1>1, <1>3 DEF Sound

\* A stopped session stays over.
LEMMA StopsStay ==
  ASSUME HostInv, Good, NEW s \in SessIds, Stopped(cmds, s)
  PROVE  sess'[s].status \in Over
<1>1. sess[s].status \in Over
  BY DEF HostInv, StopsOver
<1>2. s =< ns
  BY <1>1 DEF HostInv, QueueInv, Tables, SessBelow, Over
<1> QED
  BY <1>1, <1>2 DEF Good, Evolves, SessEvolves

\* The table before and after a step.
LEMMA TablesLater ==
  ASSUME HostInv, Good
  PROVE  /\ cmds \in [CmdIds -> Command] /\ cmds' \in [CmdIds -> Command]
         /\ Later(cmds, cmds')
<1> QED
  BY GoodIsLater DEF HostInv, Good, QueueInv, Tables, TypeOK

\* A step of the gateway, and whatever the host made of its own state.
LEMMA HostKeeps ==
  ASSUME HostInv, Good, NoStop(cmds, cmds'), BootsOK',
         HostTypes(rt', cores', job'), Sound(cmds, rt', cores', job')
  PROVE  HostGood
<1>1. Sound(cmds', rt', cores', job')
  BY TablesLater, Frame
<1>2. StopsOver'
  <2> SUFFICES ASSUME NEW s \in SessIds, Stopped(cmds', s) PROVE sess'[s].status \in Over
    BY DEF StopsOver
  <2>1. Stopped(cmds, s)
    BY DEF Stopped, NoStop
  <2> QED
    BY <2>1, StopsStay
<1> QED
  BY <1>1, <1>2 DEF HostGood

\* The host acts alone.
LEMMA HostAlone ==
  ASSUME HostInv, UNCHANGED vars,
         HostTypes(rt', cores', job'), Sound(cmds, rt', cores', job')
  PROVE  [Next]_vars /\ HostGood
<1>1. Good
  BY QueueInvStep DEF HostInv
<1>2. NoStop(cmds, cmds') /\ BootsOK'
  BY DEF vars, NoStop, HostInv, BootsOK
<1> QED
  BY <1>1, <1>2, HostKeeps

-----------------------------------------------------------------------------
(* Moves of the loop and changes of the map                                *)

LEMMA Names ==
  /\ rt[JobGame] = Mine(cmds, rt, job)
  /\ Matches <=> Matching(cmds, rt, job)
<1> QED
  BY DEF JobGame, Mine, Matches, Matching

\* The command and the game of a job.
LEMMA JobRow ==
  ASSUME HostInv, job.phase \notin {"poll", "reap"}
  PROVE  /\ Live(cmds, job.c) /\ job.c \in CmdIds /\ job.c # 0 /\ cmds[job.c] \in Command
         /\ JobGame \in Games /\ job.k \in 1 .. cmds[job.c].attempts /\ job.k \in 1 .. MaxAttempts
<1>1. Live(cmds, job.c) /\ job.k \in 1 .. cmds[job.c].attempts
  BY DEF HostInv, Sound, JobOK
<1>2. job.c \in CmdIds /\ job.c # 0 /\ cmds[job.c] \in Command
  BY <1>1 DEF Live, CmdIds, HostInv, QueueInv, Tables, TypeOK
<1>3. cmds[job.c].attempts \in 0 .. MaxAttempts /\ JobGame \in Games
  BY <1>2 DEF Command, JobGame
<1> QED
  BY <1>1, <1>2, <1>3, QueueAssumption

LEMMA Going ==
  ASSUME HostTypes(rt, cores, job), NEW p \in Phases
  PROVE  /\ \A map, cs : HostTypes(map, cs, job) => HostTypes(map, cs, GoTo(p))
         /\ GoTo(p).phase = p /\ GoTo(p).c = job.c /\ GoTo(p).k = job.k
<1>1. 0 \in 0 .. MaxTries
  BY HostAssumption
<1> QED
  BY <1>1 DEF HostTypes, GoTo

LEMMA Returns == ASSUME NEW map PROVE Returned(map).phase = "reap"
<1>1. Idle \in [phase : {"poll"}, c : {0}, k : {0}, tries : {0}, next : {"reap"}, todo : {{}}]
  BY DEF Idle
<1> QED
  BY <1>1 DEF Returned

\* The handler returns: the loop knows which runtimes are dead.
LEMMA Returning ==
  ASSUME NEW cm, NEW map, NEW cs, NEW j, HostTypes(map, cs, j),
         RuntimesOK(cm, map), CoresOK(map, cs), \A a \in cs : ~Stopped(cm, cm[a[1]].sid)
  PROVE  HostTypes(map, cs, Returned(map)) /\ Sound(cm, map, cs, Returned(map))
<1> DEFINE n == Returned(map)
<1>1. /\ n.phase = "reap" /\ n.todo = DeadIn(map)
      /\ n \in [phase : Phases, c : 0 .. MaxCmds, k : 0 .. MaxAttempts,
                tries : 0 .. MaxTries, next : {"reap", "report"}, todo : SUBSET Games]
  <2>1. /\ 0 \in 0 .. MaxCmds /\ 0 \in 0 .. MaxAttempts /\ 0 \in 0 .. MaxTries
        /\ DeadIn(map) \in SUBSET Games /\ "reap" \in Phases /\ "poll" \in Phases
    BY QueueAssumption, HostAssumption DEF DeadIn, Phases
  <2>2. Idle \in [phase : Phases, c : 0 .. MaxCmds, k : 0 .. MaxAttempts,
                  tries : 0 .. MaxTries, next : {"reap", "report"}, todo : SUBSET Games]
    BY <2>1 DEF Idle
  <2> QED
    BY <2>1, <2>2 DEF Returned
<1> HIDE DEF n
<1>2. HostTypes(map, cs, n)
  BY <1>1 DEF HostTypes
<1>3. JobOK(cm, map, n)
  BY <1>1 DEF JobOK, DeadIn
<1>4. StopsTrue(cm, cs, n)
  BY <1>1 DEF StopsTrue
<1> QED
  BY <1>2, <1>3, <1>4 DEF Sound, n

\* Map m is map with r for game g.
Changed(map, m, g, r) ==
  /\ m = [h \in Games |-> m[h]] /\ m[g] = r
  /\ \A h \in Games : h # g => m[h] = map[h]

\* A runtime that is cancelled stays the runtime it is.
LEMMA Cancelling ==
  ASSUME NEW cm, NEW map, NEW cs, NEW j, HostTypes(map, cs, j),
         RuntimesOK(cm, map), CoresOK(map, cs), NEW g \in Games,
         NEW m, Changed(map, m, g, Cancelled(map[g]))
  PROVE  /\ HostTypes(m, cs, j) /\ RuntimesOK(cm, m) /\ CoresOK(m, cs)
         /\ m[g].c = map[g].c /\ m[g].state # "running"
         /\ map[g].state # "running" => m[g] = map[g]
         /\ map[g].state = "running" => m[g].state = "cancelled"
<1>1. /\ m[g] = Cancelled(map[g]) /\ \A h \in Games : h # g => m[h] = map[h]
      /\ m = [h \in Games |-> m[h]]
  BY DEF Changed
<1>2. /\ m[g] \in [c : 0 .. MaxCmds, k : 0 .. MaxAttempts, state : RuntimeStates]
      /\ m[g].c = map[g].c /\ m[g].k = map[g].k /\ m[g].state # "running"
      /\ map[g].state # "running" => m[g] = map[g]
      /\ map[g].state = "running" => m[g].state = "cancelled"
  BY <1>1 DEF HostTypes, Cancelled, RuntimeStates
<1>3. m \in [Games -> [c : 0 .. MaxCmds, k : 0 .. MaxAttempts, state : RuntimeStates]]
  BY <1>1, <1>2 DEF HostTypes
<1>4. HostTypes(m, cs, j)
  BY <1>3 DEF HostTypes
<1>5. RuntimesOK(cm, m)
  BY <1>1, <1>2 DEF RuntimesOK, NoRuntime
<1>6. CoresOK(m, cs)
  BY <1>1, <1>2 DEF CoresOK
<1> QED
  BY <1>1, <1>2, <1>4, <1>5, <1>6

\* A runtime that has stopped, or none, is forgotten.
LEMMA Forgetting ==
  ASSUME NEW cm, NEW map, NEW cs, NEW j, HostTypes(map, cs, j),
         RuntimesOK(cm, map), CoresOK(map, cs), NEW g \in Games,
         map[g].state \notin {"running", "cancelled"},
         NEW m, Changed(map, m, g, NoRuntime)
  PROVE  HostTypes(m, cs, j) /\ RuntimesOK(cm, m) /\ CoresOK(m, cs)
<1>1. /\ m[g] = NoRuntime /\ \A h \in Games : h # g => m[h] = map[h]
      /\ m = [h \in Games |-> m[h]]
  BY DEF Changed
<1>2. NoRuntime \in [c : 0 .. MaxCmds, k : 0 .. MaxAttempts, state : RuntimeStates]
  BY QueueAssumption DEF NoRuntime, RuntimeStates
<1>3. m \in [Games -> [c : 0 .. MaxCmds, k : 0 .. MaxAttempts, state : RuntimeStates]]
  BY <1>1, <1>2 DEF HostTypes
<1>4. HostTypes(m, cs, j)
  BY <1>3 DEF HostTypes
<1>5. RuntimesOK(cm, m)
  BY <1>1 DEF RuntimesOK, NoRuntime
<1>6. CoresOK(m, cs)
  BY <1>1 DEF CoresOK
<1> QED
  BY <1>4, <1>5, <1>6

-----------------------------------------------------------------------------
(* Steps of the host alone                                                 *)

\* A step the queue allows, after which the invariant holds again.
Allowed == [Next]_vars /\ HostGood

\* What the invariant says, part by part.
LEMMA Known ==
  ASSUME HostInv
  PROVE  /\ HostTypes(rt, cores, job) /\ RuntimesOK(cmds, rt) /\ CoresOK(rt, cores)
         /\ JobOK(cmds, rt, job) /\ StopsTrue(cmds, cores, job)
         /\ \A a \in cores : ~Stopped(cmds, cmds[a[1]].sid)
         /\ cmds \in [CmdIds -> Command]
<1> QED
  BY DEF HostInv, Sound, StopsTrue, QueueInv, Tables, TypeOK

\* One entry of the map is written.
LEMMA Writing ==
  ASSUME HostInv, NEW g \in Games, NEW r, rt' = [rt EXCEPT ![g] = r]
  PROVE  Changed(rt, rt', g, r)
<1> QED
  BY Known DEF Changed, HostTypes

\* Runtimes that are cancelled or stop beside the loop leave its job in order.
LEMMA JobKeeps ==
  ASSUME NEW cm \in [CmdIds -> Command], NEW map, NEW m, NEW j, JobOK(cm, map, j),
         j.todo \subseteq Games,
         \A g \in Games :
            /\ m[g].c = map[g].c
            /\ map[g].state \in {"none", "stopped"} => m[g] = map[g]
            /\ map[g].state # "running" => m[g].state # "running"
  PROVE  JobOK(cm, m, j)
<1>1. CASE j.phase \in {"poll", "reap"}
  BY <1>1 DEF JobOK
<1>2. CASE j.phase \notin {"poll", "reap"}
  <2>1. cm[j.c].game \in Games
    BY <1>2 DEF JobOK, Live, Command
  <2>2. /\ Matching(cm, m, j) <=> Matching(cm, map, j)
        /\ Mine(cm, map, j).state \in {"none", "stopped"} => Mine(cm, m, j) = Mine(cm, map, j)
        /\ Mine(cm, map, j).state # "running" => Mine(cm, m, j).state # "running"
    BY <2>1 DEF Matching, Mine
  <2>3. NoRuntime.state = "none"
    BY DEF NoRuntime
  <2> QED
    BY <1>2, <2>2, <2>3 DEF JobOK
<1> QED
  BY <1>1, <1>2

\* The loop moves on with the command it has.
LEMMA MovesOn ==
  ASSUME HostInv, job.phase \notin {"poll", "reap"},
         NEW map, NEW cs, NEW n, HostTypes(map, cs, n), RuntimesOK(cmds, map), CoresOK(map, cs),
         \A a \in cs : ~Stopped(cmds, cmds[a[1]].sid),
         n.phase \notin {"poll", "reap", "begin"}, n.c = job.c, n.k = job.k,
         n.phase \in {"replace", "spawn", "cleanup"} => cmds[job.c].type = "start_game",
         n.phase \in {"stopping", "notify_stop"} => cmds[job.c].type = "stop_game",
         n.phase = "notify" => cmds[job.c].type \in {"start_game", "sdp_offer"},
         n.phase = "report" => cmds[job.c].type # "stop_game",
         n.phase = "spawn" => map[JobGame] = NoRuntime,
         n.phase \in {"notify", "stopping", "cleanup"} => Matching(cmds, map, job),
         n.phase \in {"stopping", "cleanup"} => map[JobGame].state # "running",
         n.phase = "notify_stop" => ~Matching(cmds, map, job) \/ map[JobGame].state = "stopped",
         n.phase \in {"replace", "spawn"} => ~Stopped(cmds, cmds[job.c].sid)
  PROVE  Sound(cmds, map, cs, n)
<1>1. /\ Mine(cmds, map, n) = map[JobGame]
      /\ Matching(cmds, map, n) <=> Matching(cmds, map, job)
  BY DEF Mine, Matching, JobGame
<1>2. JobOK(cmds, map, n)
  BY <1>1, JobRow DEF JobOK
<1>3. StopsTrue(cmds, cs, n)
  BY DEF StopsTrue
<1> QED
  BY <1>2, <1>3 DEF Sound

\* The handler is done: its result is reported.
LEMMA ToReport ==
  ASSUME HostInv, job.phase \notin {"poll", "reap"}, cmds[job.c].type # "stop_game",
         NEW map, HostTypes(map, cores, job), RuntimesOK(cmds, map), CoresOK(map, cores),
         NEW n, n = GoTo("report")
  PROVE  HostTypes(map, cores, n) /\ Sound(cmds, map, cores, n)
<1>1. "report" \in Phases
  BY DEF Phases
<1>2. n.phase = "report" /\ n.c = job.c /\ n.k = job.k /\ HostTypes(map, cores, n)
  BY <1>1, Going, Known
<1> QED
  BY <1>2, MovesOn, Known

LEMMA SleepKeeps == ASSUME HostInv, Sleep PROVE Allowed
<1>1. UNCHANGED vars /\ rt' = rt /\ cores' = cores /\ job' = Idle
  BY DEF Sleep
<1>2. HostTypes(rt, cores, Idle)
  <2>1. 0 \in 0 .. MaxCmds /\ 0 \in 0 .. MaxAttempts /\ 0 \in 0 .. MaxTries /\ "poll" \in Phases
    BY QueueAssumption, HostAssumption DEF Phases
  <2> QED
    BY <2>1, Known DEF HostTypes, Idle
<1>3. Idle.phase = "poll"
  BY DEF Idle
<1>4. Sound(cmds, rt, cores, Idle)
  BY <1>3, Known DEF Sound, JobOK, StopsTrue
<1> QED
  BY <1>1, <1>2, <1>4, HostAlone DEF Allowed

LEMMA RunTaskKeeps == ASSUME HostInv, RunTask PROVE Allowed
<1>1. /\ UNCHANGED vars /\ rt' = rt /\ cores' = cores /\ job' = GoTo("report")
      /\ job.phase \notin {"poll", "reap"} /\ cmds[job.c].type = "task"
  BY DEF RunTask, Doing
<1>2. HostTypes(rt, cores, job') /\ Sound(cmds, rt, cores, job')
  BY <1>1, ToReport, Known
<1> QED
  BY <1>1, <1>2, HostAlone DEF Allowed

LEMMA StartBeginKeeps == ASSUME HostInv, StartBegin PROVE Allowed
<1> DEFINE p == IF rt[JobGame].c = 0 THEN "spawn" ELSE "replace"
<1>1. /\ UNCHANGED vars /\ cores' = cores /\ job' = GoTo(p)
      /\ rt' = [rt EXCEPT ![JobGame] = Cancelled(@)]
      /\ job.phase = "begin" /\ cmds[job.c].type = "start_game"
  BY DEF StartBegin, Doing
<1>2. JobGame \in Games
  BY <1>1, JobRow
<1>3. /\ HostTypes(rt', cores, job) /\ RuntimesOK(cmds, rt') /\ CoresOK(rt', cores)
      /\ rt[JobGame].state # "running" => rt'[JobGame] = rt[JobGame]
  <2>1. Changed(rt, rt', JobGame, Cancelled(rt[JobGame]))
    BY <1>1, <1>2, Writing
  <2> QED
    BY <1>2, <2>1, Known, Cancelling
<1>4. rt[JobGame].c = 0 => rt'[JobGame] = NoRuntime
  BY <1>2, <1>3, Known DEF RuntimesOK, NoRuntime
<1>5. ~Stopped(cmds, cmds[job.c].sid)
  BY <1>1, Known DEF StopsTrue
<1>6. HostTypes(rt', cores, job') /\ Sound(cmds, rt', cores, job')
  <2>1. p \in Phases /\ p \in {"spawn", "replace"} /\ (p = "spawn" => rt'[JobGame] = NoRuntime)
    BY <1>4 DEF Phases
  <2>2. job'.phase = p /\ job'.c = job.c /\ job'.k = job.k /\ HostTypes(rt', cores, job')
    BY <1>1, <1>3, <2>1, Going, Known
  <2> HIDE DEF p
  <2> QED
    BY <1>1, <1>3, <1>5, <2>1, <2>2, MovesOn, Known
<1> QED
  BY <1>1, <1>6, HostAlone DEF Allowed

LEMMA ReplaceTimeoutKeeps == ASSUME HostInv, ReplaceTimeout PROVE Allowed
<1>1. /\ UNCHANGED vars /\ rt' = rt /\ cores' = cores /\ job' = GoTo("report")
      /\ job.phase = "replace"
  BY DEF ReplaceTimeout
<1>2. cmds[job.c].type = "start_game"
  BY <1>1, Known DEF JobOK
<1>3. HostTypes(rt, cores, job') /\ Sound(cmds, rt, cores, job')
  BY <1>1, <1>2, ToReport, Known
<1> QED
  BY <1>1, <1>3, HostAlone DEF Allowed

\* The handler returns to the loop, with the map as it is now.
LEMMA ToReap ==
  ASSUME HostInv, NEW map, NEW cs, HostTypes(map, cs, job), RuntimesOK(cmds, map),
         CoresOK(map, cs), \A a \in cs : ~Stopped(cmds, cmds[a[1]].sid),
         NEW n, n = Returned(map)
  PROVE  HostTypes(map, cs, n) /\ Sound(cmds, map, cs, n)
<1> QED
  BY Returning

LEMMA SpawnKeeps == ASSUME HostInv, NEW ok \in BOOLEAN, Spawn(ok) PROVE Allowed
<1>1. job.phase = "spawn" /\ UNCHANGED vars
  BY DEF Spawn
<1>2. /\ cmds[job.c].type = "start_game" /\ rt[JobGame] = NoRuntime
      /\ ~Stopped(cmds, cmds[job.c].sid)
  BY <1>1, Known DEF JobOK, StopsTrue, Mine, JobGame
<1>3. CASE ~ok
  <2>1. rt' = rt /\ cores' = cores /\ job' = GoTo("report")
    BY <1>3 DEF Spawn
  <2>2. HostTypes(rt, cores, job') /\ Sound(cmds, rt, cores, job')
    BY <1>1, <1>2, <2>1, ToReport, Known
  <2> QED
    BY <1>1, <2>1, <2>2, HostAlone DEF Allowed
<1>4. CASE ok
  <2> DEFINE r == [c |-> job.c, k |-> job.k, state |-> "running"]
  <2>1. /\ cores' = cores \cup {<<job.c, job.k>>} /\ rt' = [rt EXCEPT ![JobGame] = r]
        /\ job' = GoTo("notify")
    BY <1>4 DEF Spawn
  <2>2. /\ Live(cmds, job.c) /\ job.c \in CmdIds /\ job.c # 0 /\ cmds[job.c] \in Command
        /\ JobGame \in Games /\ job.k \in 1 .. MaxAttempts
    BY <1>1, JobRow
  <2>3. /\ r.c = job.c /\ r.k = job.k /\ r.state = "running"
        /\ r \in [c : 0 .. MaxCmds, k : 0 .. MaxAttempts, state : RuntimeStates]
    BY <2>2, QueueAssumption DEF RuntimeStates, CmdIds
  <2> HIDE DEF r
  <2>4. /\ rt'[JobGame] = r /\ \A h \in Games : h # JobGame => rt'[h] = rt[h]
        /\ rt' \in [Games -> [c : 0 .. MaxCmds, k : 0 .. MaxAttempts, state : RuntimeStates]]
    BY <2>1, <2>2, <2>3, Known DEF HostTypes
  <2>5. HostTypes(rt', cores', job)
    BY <2>1, <2>2, <2>4, Known DEF HostTypes
  <2>6. RuntimesOK(cmds, rt')
    BY <1>2, <2>2, <2>3, <2>4, Known DEF RuntimesOK, JobGame
  <2>7. CoresOK(rt', cores')
    <3> SUFFICES ASSUME NEW a \in cores'
                 PROVE  \E g \in Games : /\ a = <<rt'[g].c, rt'[g].k>>
                                         /\ rt'[g].state \in {"running", "cancelled"}
      BY DEF CoresOK
    <3>1. CASE a = <<job.c, job.k>>
      BY <2>2, <2>3, <2>4, <3>1
    <3>2. CASE a \in cores
      <4>1. PICK g \in Games : a = <<rt[g].c, rt[g].k>> /\ rt[g].state \in {"running", "cancelled"}
        BY <3>2, Known DEF CoresOK
      <4>2. g # JobGame
        BY <1>2, <4>1 DEF NoRuntime
      <4> QED
        BY <2>4, <4>1, <4>2
    <3> QED
      BY <2>1, <3>1, <3>2
  <2>8. \A a \in cores' : ~Stopped(cmds, cmds[a[1]].sid)
    BY <1>2, <2>1, Known
  <2>9. Matching(cmds, rt', job)
    BY <2>2, <2>3, <2>4 DEF Matching, Mine, JobGame
  <2>10. "notify" \in Phases
    BY DEF Phases
  <2>11. job'.phase = "notify" /\ job'.c = job.c /\ job'.k = job.k /\ HostTypes(rt', cores', job')
    BY <2>1, <2>5, <2>10, Going, Known
  <2>12. Sound(cmds, rt', cores', job')
    BY <1>1, <1>2, <2>6, <2>7, <2>8, <2>9, <2>11, MovesOn
  <2> QED
    BY <1>1, <2>11, <2>12, HostAlone DEF Allowed
<1> QED
  BY <1>3, <1>4

\* A notify that gave up leaves the host's knowledge sound.
LEMMA GivingUp ==
  ASSUME HostInv, job.phase = "notify", NEW next \in {"report", "reap"}, GiveUp(next)
  PROVE  HostTypes(rt', cores, job') /\ Sound(cmds, rt', cores, job')
<1>1. /\ cmds[job.c].type \in {"start_game", "sdp_offer"} /\ Matching(cmds, rt, job)
      /\ JobGame \in Games
  BY JobRow, Known DEF JobOK
<1>2. CASE cmds[job.c].type = "start_game"
  <2>1. /\ rt' = [rt EXCEPT ![JobGame] = Cancelled(rt[JobGame])]
        /\ job' = [job EXCEPT !.phase = "cleanup", !.next = next]
    BY <1>2 DEF GiveUp
  <2>2. Changed(rt, rt', JobGame, Cancelled(rt[JobGame]))
    BY <1>1, <2>1, Writing
  <2>3. /\ HostTypes(rt', cores, job) /\ RuntimesOK(cmds, rt') /\ CoresOK(rt', cores)
        /\ rt'[JobGame].c = rt[JobGame].c /\ rt'[JobGame].state # "running"
    BY <1>1, <2>2, Known, Cancelling
  <2>4. Matching(cmds, rt', job)
    BY <1>1, <2>3 DEF Matching, Mine, JobGame
  <2>5. /\ job'.phase = "cleanup" /\ job'.c = job.c /\ job'.k = job.k
        /\ HostTypes(rt', cores, job')
    BY <2>1, <2>3 DEF HostTypes, Phases
  <2> QED
    BY <1>2, <2>3, <2>4, <2>5, MovesOn, Known
<1>3. CASE cmds[job.c].type # "start_game"
  <2>1. rt' = rt /\ job' = After(next, rt)
    BY <1>3 DEF GiveUp
  <2>2. CASE next = "reap"
    BY <2>1, <2>2, ToReap, Known DEF After
  <2>3. CASE next = "report"
    BY <1>1, <2>1, <2>3, ToReport, Known DEF After
  <2> QED
    BY <2>2, <2>3
<1> QED
  BY <1>2, <1>3

LEMMA ExchangeFailsKeeps ==
  ASSUME HostInv, NEW next \in {"report", "reap"}, ExchangeFails(next)
  PROVE  Allowed
<1>1. job.phase = "notify" /\ GiveUp(next) /\ UNCHANGED vars /\ cores' = cores
  BY DEF ExchangeFails
<1>2. HostTypes(rt', cores, job') /\ Sound(cmds, rt', cores, job')
  BY <1>1, GivingUp
<1> QED
  BY <1>1, <1>2, HostAlone DEF Allowed

LEMMA CleanupFailedStartKeeps == ASSUME HostInv, CleanupFailedStart PROVE Allowed
<1> DEFINE r == IF rt[JobGame].state = "stopped" THEN NoRuntime ELSE rt[JobGame]
<1>1. /\ UNCHANGED vars /\ cores' = cores /\ job.phase = "cleanup"
      /\ rt' = [rt EXCEPT ![JobGame] = r] /\ job' = After(job.next, rt')
  BY DEF CleanupFailedStart
<1>2. JobGame \in Games /\ cmds[job.c].type = "start_game" /\ job.next \in {"report", "reap"}
  BY <1>1, JobRow, Known DEF JobOK, HostTypes
<1>3. Changed(rt, rt', JobGame, r)
  BY <1>1, <1>2, Writing
<1>4. HostTypes(rt', cores, job) /\ RuntimesOK(cmds, rt') /\ CoresOK(rt', cores)
  <2>1. CASE rt[JobGame].state = "stopped"
    <3>1. r = NoRuntime
      BY <2>1
    <3> HIDE DEF r
    <3> QED
      BY <1>2, <1>3, <2>1, <3>1, Forgetting, Known
  <2>2. CASE rt[JobGame].state # "stopped"
    <3>1. rt' = rt
      BY <1>1, <1>2, <2>2, Known DEF HostTypes
    <3> QED
      BY <3>1, Known
  <2> QED
    BY <2>1, <2>2
<1>5. HostTypes(rt', cores, job') /\ Sound(cmds, rt', cores, job')
  <2>1. CASE job.next = "reap"
    BY <1>1, <1>4, <2>1, ToReap, Known DEF After
  <2>2. CASE job.next = "report"
    BY <1>1, <1>2, <1>4, <2>2, ToReport, Known DEF After
  <2> QED
    BY <1>2, <2>1, <2>2
<1> QED
  BY <1>1, <1>5, HostAlone DEF Allowed

LEMMA StopBeginKeeps == ASSUME HostInv, StopBegin PROVE Allowed
<1>1. /\ UNCHANGED vars /\ cores' = cores
      /\ job.phase = "begin" /\ cmds[job.c].type = "stop_game"
  BY DEF StopBegin, Doing
<1>2. JobGame \in Games /\ "stopping" \in Phases /\ "notify_stop" \in Phases
  BY <1>1, JobRow DEF Phases
<1>3. CASE Matches
  <2>1. rt' = [rt EXCEPT ![JobGame] = Cancelled(rt[JobGame])] /\ job' = GoTo("stopping")
    BY <1>3 DEF StopBegin
  <2>2. Changed(rt, rt', JobGame, Cancelled(rt[JobGame]))
    BY <1>2, <2>1, Writing
  <2>3. /\ HostTypes(rt', cores, job) /\ RuntimesOK(cmds, rt') /\ CoresOK(rt', cores)
        /\ rt'[JobGame].c = rt[JobGame].c /\ rt'[JobGame].state # "running"
    BY <1>2, <2>2, Known, Cancelling
  <2>4. Matching(cmds, rt', job)
    BY <1>3, <2>3 DEF Matching, Mine, JobGame, Matches
  <2>5. /\ job'.phase = "stopping" /\ job'.c = job.c /\ job'.k = job.k
        /\ HostTypes(rt', cores, job')
    BY <1>2, <2>1, <2>3, Going, Known
  <2>6. Sound(cmds, rt', cores, job')
    BY <1>1, <2>3, <2>4, <2>5, MovesOn, Known
  <2> QED
    BY <1>1, <2>5, <2>6, HostAlone DEF Allowed
<1>4. CASE ~Matches
  <2>1. rt' = rt /\ job' = GoTo("notify_stop")
    BY <1>2, <1>4, Known DEF StopBegin, HostTypes
  <2>2. ~Matching(cmds, rt, job)
    BY <1>4, Names
  <2>3. /\ job'.phase = "notify_stop" /\ job'.c = job.c /\ job'.k = job.k
        /\ HostTypes(rt, cores, job')
    BY <1>2, <2>1, Going, Known
  <2>4. Sound(cmds, rt, cores, job')
    BY <1>1, <2>2, <2>3, MovesOn, Known
  <2> QED
    BY <1>1, <2>1, <2>3, <2>4, HostAlone DEF Allowed
<1> QED
  BY <1>3, <1>4

LEMMA StopWaitedKeeps == ASSUME HostInv, StopWaited PROVE Allowed
<1>1. UNCHANGED vars /\ rt' = rt /\ cores' = cores /\ job.phase = "stopping"
  BY DEF StopWaited
<1>2. HostTypes(rt, cores, job') /\ Sound(cmds, rt, cores, job')
  <2>1. CASE rt[JobGame].state # "stopped"
    BY <2>1, ToReap, Known DEF StopWaited
  <2>2. CASE rt[JobGame].state = "stopped"
    <3>1. job' = GoTo("notify_stop") /\ "notify_stop" \in Phases
      BY <2>2 DEF StopWaited, Phases
    <3>2. /\ job'.phase = "notify_stop" /\ job'.c = job.c /\ job'.k = job.k
          /\ HostTypes(rt, cores, job')
      BY <3>1, Going, Known
    <3>3. cmds[job.c].type = "stop_game"
      BY <1>1, Known DEF JobOK
    <3> QED
      BY <1>1, <2>2, <3>2, <3>3, MovesOn, Known
  <2> QED
    BY <2>1, <2>2
<1> QED
  BY <1>1, <1>2, HostAlone DEF Allowed

LEMMA OfferBeginKeeps == ASSUME HostInv, OfferBegin PROVE Allowed
<1>1. /\ UNCHANGED vars /\ rt' = rt /\ cores' = cores
      /\ job.phase = "begin" /\ cmds[job.c].type = "sdp_offer"
  BY DEF OfferBegin, Doing
<1>2. HostTypes(rt, cores, job') /\ Sound(cmds, rt, cores, job')
  <2>1. CASE ~Matches
    BY <1>1, <2>1, ToReport, Known DEF OfferBegin
  <2>2. CASE Matches
    <3>1. job' = GoTo("notify") /\ "notify" \in Phases
      BY <2>2 DEF OfferBegin, Phases
    <3>2. /\ job'.phase = "notify" /\ job'.c = job.c /\ job'.k = job.k
          /\ HostTypes(rt, cores, job')
      BY <3>1, Going, Known
    <3>3. Matching(cmds, rt, job)
      BY <2>2, Names
    <3> QED
      BY <1>1, <3>2, <3>3, MovesOn, Known
  <2> QED
    BY <2>1, <2>2
<1> QED
  BY <1>1, <1>2, HostAlone DEF Allowed

LEMMA CancelRuntimeKeeps == ASSUME HostInv, NEW g \in Games, CancelRuntime(g) PROVE Allowed
<1>1. /\ UNCHANGED vars /\ cores' = cores /\ job' = job
      /\ rt' = [rt EXCEPT ![g] = Cancelled(rt[g])] /\ rt[g].state = "running"
  BY DEF CancelRuntime
<1>2. Changed(rt, rt', g, Cancelled(rt[g]))
  BY <1>1, Writing
<1>3. /\ HostTypes(rt', cores, job) /\ RuntimesOK(cmds, rt') /\ CoresOK(rt', cores)
      /\ rt'[g].c = rt[g].c /\ rt'[g].state # "running"
  BY <1>2, Known, Cancelling
<1>4. JobOK(cmds, rt', job)
  <2>1. \A h \in Games :
            /\ rt'[h].c = rt[h].c
            /\ rt[h].state \in {"none", "stopped"} => rt'[h] = rt[h]
            /\ rt[h].state # "running" => rt'[h].state # "running"
    BY <1>1, <1>2, <1>3 DEF Changed
  <2>2. job.todo \subseteq Games
    BY Known DEF HostTypes
  <2> QED
    BY <2>1, <2>2, Known, JobKeeps
<1>5. Sound(cmds, rt', cores, job)
  BY <1>3, <1>4, Known DEF Sound
<1> QED
  BY <1>1, <1>3, <1>5, HostAlone DEF Allowed

LEMMA CoreStopsKeeps == ASSUME HostInv, NEW g \in Games, CoreStops(g) PROVE Allowed
<1> DEFINE r == [rt[g] EXCEPT !.state = "stopped"]
<1>1. /\ UNCHANGED vars /\ job' = job /\ cores' = cores \ {<<rt[g].c, rt[g].k>>}
      /\ rt' = [rt EXCEPT ![g] = r] /\ rt[g].state = "cancelled"
  BY DEF CoreStops
<1>2. /\ r.c = rt[g].c /\ r.k = rt[g].k /\ r.state = "stopped"
      /\ r \in [c : 0 .. MaxCmds, k : 0 .. MaxAttempts, state : RuntimeStates]
  BY Known DEF HostTypes, RuntimeStates
<1> HIDE DEF r
<1>3. rt'[g] = r /\ \A h \in Games : h # g => rt'[h] = rt[h]
  BY <1>1, Known DEF HostTypes
<1>4. HostTypes(rt', cores', job)
  BY <1>1, <1>2, Known DEF HostTypes
<1>5. RuntimesOK(cmds, rt')
  BY <1>1, <1>2, <1>3, Known DEF RuntimesOK, NoRuntime
<1>6. CoresOK(rt', cores')
  <2> SUFFICES ASSUME NEW a \in cores'
               PROVE  \E h \in Games : /\ a = <<rt'[h].c, rt'[h].k>>
                                       /\ rt'[h].state \in {"running", "cancelled"}
    BY DEF CoresOK
  <2>1. PICK h \in Games : a = <<rt[h].c, rt[h].k>> /\ rt[h].state \in {"running", "cancelled"}
    BY <1>1, Known DEF CoresOK
  <2>2. h # g
    BY <1>1, <2>1
  <2> QED
    BY <1>3, <2>1, <2>2
<1>7. JobOK(cmds, rt', job)
  <2>1. \A h \in Games :
            /\ rt'[h].c = rt[h].c
            /\ rt[h].state \in {"none", "stopped"} => rt'[h] = rt[h]
            /\ rt[h].state # "running" => rt'[h].state # "running"
    BY <1>1, <1>2, <1>3
  <2>2. job.todo \subseteq Games
    BY Known DEF HostTypes
  <2> QED
    BY <2>1, <2>2, Known, JobKeeps
<1>8. StopsTrue(cmds, cores', job)
  BY <1>1, Known DEF StopsTrue
<1> QED
  BY <1>1, <1>4, <1>5, <1>6, <1>7, <1>8, HostAlone DEF Allowed, Sound

-----------------------------------------------------------------------------
(* Steps of the gateway, called by the host or not                         *)

\* The host does not notice.
LEMMA Unnoticed ==
  ASSUME HostInv, Good, Quiet, BootsOK', UNCHANGED hostVars
  PROVE  HostGood
<1>1. rt' = rt /\ cores' = cores /\ job' = job
  BY DEF hostVars
<1>2. NoStop(cmds, cmds')
  BY QuietNoStop DEF HostInv
<1>3. HostTypes(rt', cores', job') /\ Sound(cmds, rt', cores', job')
  BY <1>1 DEF HostInv
<1> QED
  BY <1>2, <1>3, HostKeeps

LEMMA PollRequestKeeps == ASSUME HostInv, PollRequest PROVE Allowed
<1>1. ResetStaleRuntime(proc) /\ UNCHANGED hostVars /\ proc \in ran
  BY DEF PollRequest, HostInv, BootsOK
<1>2. Good /\ Quiet
  BY <1>1, ResetKeeps DEF HostInv
<1>3. BootsOK'
  BY <1>1 DEF BootsOK, ResetStaleRuntime
<1>4. Next
  BY <1>1 DEF Next, PollStep
<1> QED
  BY <1>1, <1>2, <1>3, <1>4, Unnoticed DEF Allowed

\* What a poll gives.
LEMMA Polling ==
  ASSUME HostInv, NEW b \in ran, Poll(b)
  PROVE  Good /\ Quiet /\ Gives /\ BootsOK' /\ Next
<1>1. UNCHANGED <<boot, proc, ran>>
  BY DEF Poll
<1>2. Good /\ Quiet /\ Gives
  BY PollKeeps DEF HostInv
<1>3. Next
  BY DEF Next, PollStep
<1> QED
  BY <1>1, <1>2, <1>3 DEF BootsOK, HostInv

LEMMA GhostPollKeeps == ASSUME HostInv, NEW b \in BootIds, GhostPoll(b) PROVE Allowed
<1>1. b \in ran /\ Poll(b) /\ UNCHANGED hostVars
  BY DEF GhostPoll
<1> QED
  BY <1>1, Polling, Unnoticed DEF Allowed

\* The command a poll gave to the host: its session is not over.
LEMMA Given ==
  ASSUME HostInv, Good, Quiet, Gives, BootsOK', job.phase = "poll",
         UNCHANGED <<rt, cores>>, NEW c \in CmdIds, cmds'[c].attempts > cmds[c].attempts,
         job' = [Idle EXCEPT !.phase = "begin", !.c = c, !.k = cmds'[c].attempts]
  PROVE  HostGood
<1>1. /\ cmds \in [CmdIds -> Command] /\ cmds' \in [CmdIds -> Command]
      /\ Later(cmds, cmds') /\ NoStop(cmds, cmds')
  BY TablesLater, QuietNoStop DEF HostInv
<1>2. /\ cmds[c].attempts \in 0 .. MaxAttempts /\ cmds'[c].attempts \in 0 .. MaxAttempts
      /\ cmds'[c].attempts \in 1 .. cmds'[c].attempts
  BY <1>1, QueueAssumption DEF Command
<1>3. /\ 0 \in 0 .. MaxCmds /\ 0 \in 0 .. MaxAttempts /\ 0 \in 0 .. MaxTries /\ c \in 0 .. MaxCmds
      /\ "poll" \in Phases /\ "begin" \in Phases
  BY QueueAssumption, HostAssumption DEF Phases, CmdIds
<1>4. Idle \in [phase : Phases, c : 0 .. MaxCmds, k : 0 .. MaxAttempts,
                tries : 0 .. MaxTries, next : {"reap", "report"}, todo : SUBSET Games]
  BY <1>3 DEF Idle
<1>5. /\ job'.phase = "begin" /\ job'.c = c /\ job'.k = cmds'[c].attempts
      /\ HostTypes(rt', cores', job')
  BY <1>2, <1>3, <1>4, Known DEF HostTypes
<1>6. Sound(cmds', rt, cores, job)
  BY <1>1, Frame DEF HostInv
<1>7. Live(cmds', c)
  BY <1>1 DEF Gives, Live
<1>8. StopsOver'
  <2> SUFFICES ASSUME NEW s \in SessIds, Stopped(cmds', s) PROVE sess'[s].status \in Over
    BY DEF StopsOver
  <2>1. Stopped(cmds, s)
    BY <1>1 DEF Stopped, NoStop
  <2> QED
    BY <2>1, StopsStay
<1>9. cmds'[c].type = "start_game" => ~Stopped(cmds', cmds'[c].sid)
  <2> SUFFICES ASSUME cmds'[c].type = "start_game" PROVE ~Stopped(cmds', cmds'[c].sid)
    OBVIOUS
  <2>1. cmds'[c].sid \in {0} \cup SessIds /\ cmds'[c].sid # 0
    BY <1>7 DEF Good, Tables, RowsOK, RowShape, Started, Lifecycle, Live
  <2>2. sess'[cmds'[c].sid].status \notin Over
    BY DEF Gives, Lifecycle
  <2> QED
    BY <1>8, <2>1, <2>2 DEF StopsOver
<1>10. JobOK(cmds', rt', job')
  BY <1>2, <1>5, <1>7 DEF JobOK
<1>11. StopsTrue(cmds', cores', job')
  BY <1>5, <1>6, <1>9 DEF StopsTrue, Sound
<1>12. RuntimesOK(cmds', rt') /\ CoresOK(rt', cores')
  BY <1>6 DEF Sound
<1>13. Sound(cmds', rt', cores', job')
  BY <1>10, <1>11, <1>12 DEF Sound
<1> QED
  BY <1>5, <1>8, <1>13 DEF HostGood

LEMMA PollReplyKeeps == ASSUME HostInv, NEW fate \in Fates, PollReply(fate) PROVE Allowed
<1> DEFINE given == {c \in CmdIds : cmds'[c].attempts > cmds[c].attempts}
           d == CHOOSE c \in given : TRUE
<1>1. Poll(proc) /\ proc \in ran /\ rt' = rt /\ cores' = cores /\ job.phase = "poll"
  BY DEF PollReply, HostInv, BootsOK
<1>2. Good /\ Quiet /\ Gives /\ BootsOK' /\ Next
  BY <1>1, Polling
<1>3. job' = IF fate # "ok" THEN job
             ELSE IF given = {} THEN Returned(rt)
             ELSE [Idle EXCEPT !.phase = "begin", !.c = d, !.k = cmds'[d].attempts]
  BY DEF PollReply
<1>4. given # {} => d \in given
  OBVIOUS
<1>5. d \in given => d \in CmdIds /\ cmds'[d].attempts > cmds[d].attempts
  OBVIOUS
<1> HIDE DEF d, given
<1>6. CASE fate # "ok"
  BY <1>1, <1>2, <1>3, <1>6, Unnoticed DEF Allowed, hostVars
<1>7. CASE fate = "ok" /\ given = {}
  <2>1. HostTypes(rt', cores', job') /\ Sound(cmds, rt', cores', job')
    BY <1>1, <1>3, <1>7, ToReap, Known
  <2>2. NoStop(cmds, cmds')
    BY <1>2, QuietNoStop DEF HostInv
  <2> QED
    BY <1>2, <2>1, <2>2, HostKeeps DEF Allowed
<1>8. CASE fate = "ok" /\ given # {}
  <2>1. HostGood
    BY <1>1, <1>2, <1>3, <1>4, <1>5, <1>8, Given
  <2> QED
    BY <1>2, <2>1 DEF Allowed
<1> QED
  BY <1>6, <1>7, <1>8

LEMMA QueueStepBoots == ASSUME QueueStep PROVE UNCHANGED <<boot, proc, ran>>
<1>1. CASE GatewayStep
  BY <1>1, Zenon DEF GatewayStep, InsertStart, ReadReusable, PublishReconnect, PublishLaunch,
     ReadTarget, InsertTargeted, InsertTask, Cleanup, SetAlwaysOn
<1>2. CASE ~GatewayStep
  BY <1>2 DEF QueueStep, ExpireLease, AgeSession
<1> QED
  BY <1>1, <1>2

LEMMA QueueStepKeeps == ASSUME HostInv, QueueStep PROVE Allowed
<1>1. Good /\ Quiet
  BY QuietStep DEF HostInv, QueueStep, TimeStep
<1>2. BootsOK'
  BY QueueStepBoots DEF BootsOK, HostInv
<1>3. Next /\ UNCHANGED hostVars
  BY DEF QueueStep, Next, TimeStep
<1> QED
  BY <1>1, <1>2, <1>3, Unnoticed DEF Allowed

LEMMA RebootKeeps == ASSUME HostInv, Reboot PROVE Allowed
<1>1. RestartHost /\ rt' = [g \in Games |-> NoRuntime] /\ cores' = {} /\ job' = Idle
  BY DEF Reboot
<1>2. Good /\ Quiet
  BY <1>1, RestartKeeps DEF HostInv
<1>3. BootsOK'
  BY <1>1 DEF RestartHost, BootsOK, HostInv
<1>4. NoStop(cmds, cmds')
  BY <1>2, QuietNoStop DEF HostInv
<1>5. /\ 0 \in 0 .. MaxCmds /\ 0 \in 0 .. MaxAttempts /\ 0 \in 0 .. MaxTries
      /\ "poll" \in Phases /\ "none" \in RuntimeStates
  BY QueueAssumption, HostAssumption DEF Phases, RuntimeStates
<1>6. HostTypes(rt', cores', job') /\ job'.phase = "poll" /\ NoRuntime.c = 0
  BY <1>1, <1>5 DEF HostTypes, Idle, NoRuntime
<1>7. Sound(cmds, rt', cores', job')
  BY <1>1, <1>6 DEF Sound, RuntimesOK, CoresOK, JobOK, StopsTrue
<1>8. Next
  BY <1>1 DEF Next, TimeStep
<1> QED
  BY <1>2, <1>3, <1>4, <1>6, <1>7, <1>8, HostKeeps DEF Allowed

\* The gateway is told that the runtime of a session died.
LEMMA Telling ==
  ASSUME HostInv, NEW s, NEW fate, WorkerDeadCall(s, fate)
  PROVE  /\ Good /\ Quiet /\ BootsOK' /\ [Next]_vars /\ NoStop(cmds, cmds')
<1>1. CASE UNCHANGED vars
  <2>1. Good
    BY <1>1, QueueInvStep DEF HostInv
  <2>2. Quiet /\ BootsOK' /\ NoStop(cmds, cmds')
    BY <1>1 DEF vars, Quiet, BootsOK, HostInv, NoStop
  <2> QED
    BY <1>1, <2>1, <2>2
<1>2. CASE WorkerDead(s)
  <2>1. s \in SessIds /\ UNCHANGED <<cmds, boot, proc, ran>>
    BY <1>2 DEF WorkerDead, SessionsIn
  <2>2. Good /\ Quiet
    BY <1>2, <2>1, WorkerDeadKeeps DEF HostInv
  <2>3. BootsOK' /\ NoStop(cmds, cmds')
    BY <2>1 DEF BootsOK, HostInv, NoStop
  <2>4. Next
    BY <1>2, <2>1 DEF Next, ReportStep
  <2> QED
    BY <2>2, <2>3, <2>4
<1> QED
  BY <1>1, <1>2 DEF WorkerDeadCall

LEMMA ReapKeeps ==
  ASSUME HostInv, NEW g \in Games, NEW fate \in Fates, Reap(g, fate)
  PROVE  Allowed
<1> DEFINE r == IF fate = "ok" THEN NoRuntime ELSE rt[g]
<1>1. /\ job.phase = "reap" /\ g \in job.todo /\ WorkerDeadCall(cmds[rt[g].c].sid, fate)
      /\ rt' = [rt EXCEPT ![g] = r] /\ job' = [job EXCEPT !.todo = @ \ {g}] /\ cores' = cores
  BY DEF Reap
<1>2. rt[g].state = "stopped"
  BY <1>1, Known DEF JobOK
<1>3. Changed(rt, rt', g, r)
  BY <1>1, Writing
<1>4. HostTypes(rt', cores, job) /\ RuntimesOK(cmds, rt') /\ CoresOK(rt', cores)
  <2>1. CASE fate = "ok"
    <3>1. r = NoRuntime
      BY <2>1
    <3> HIDE DEF r
    <3> QED
      BY <1>2, <1>3, <3>1, Forgetting, Known
  <2>2. CASE fate # "ok"
    <3>1. rt' = rt
      BY <1>1, <2>2, Known DEF HostTypes
    <3> QED
      BY <3>1, Known
  <2> QED
    BY <2>1, <2>2
<1>5. /\ job'.phase = "reap" /\ job'.todo = job.todo \ {g} /\ HostTypes(rt', cores, job')
  BY <1>1, <1>4 DEF HostTypes
<1>6. JobOK(cmds, rt', job')
  <2>1. \A h \in job'.todo : rt'[h].state = "stopped"
    <3>1. \A h \in job.todo : h \in Games /\ rt[h].state = "stopped"
      BY <1>1, Known DEF JobOK, HostTypes
    <3> QED
      BY <1>3, <1>5, <3>1 DEF Changed
  <2> QED
    BY <1>5, <2>1 DEF JobOK
<1>7. StopsTrue(cmds, cores, job')
  BY <1>5, Known DEF StopsTrue
<1>8. Sound(cmds, rt', cores', job') /\ HostTypes(rt', cores', job')
  BY <1>1, <1>4, <1>5, <1>6, <1>7 DEF Sound
<1> QED
  BY <1>1, <1>8, Telling, HostKeeps DEF Allowed

LEMMA ReplacedKeeps == ASSUME HostInv, NEW fate \in Fates, Replaced(fate) PROVE Allowed
<1>1. /\ job.phase = "replace" /\ rt[JobGame].state = "stopped"
      /\ WorkerDeadCall(cmds[rt[JobGame].c].sid, fate) /\ cores' = cores
  BY DEF Replaced
<1>2. /\ JobGame \in Games /\ cmds[job.c].type = "start_game"
      /\ ~Stopped(cmds, cmds[job.c].sid)
  BY <1>1, JobRow, Known DEF JobOK, StopsTrue
<1>3. HostTypes(rt', cores, job') /\ Sound(cmds, rt', cores, job')
  <2>1. CASE fate = "ok"
    <3>1. rt' = [rt EXCEPT ![JobGame] = NoRuntime] /\ job' = GoTo("spawn") /\ "spawn" \in Phases
      BY <2>1 DEF Replaced, Phases
    <3>2. Changed(rt, rt', JobGame, NoRuntime)
      BY <1>2, <3>1, Writing
    <3>3. HostTypes(rt', cores, job) /\ RuntimesOK(cmds, rt') /\ CoresOK(rt', cores)
      BY <1>1, <1>2, <3>2, Forgetting, Known
    <3>4. /\ job'.phase = "spawn" /\ job'.c = job.c /\ job'.k = job.k
          /\ HostTypes(rt', cores, job')
      BY <3>1, <3>3, Going, Known
    <3>5. rt'[JobGame] = NoRuntime
      BY <3>2 DEF Changed
    <3> QED
      BY <1>1, <1>2, <3>3, <3>4, <3>5, MovesOn, Known
  <2>2. CASE fate # "ok"
    <3>1. rt' = rt /\ job' = Returned(rt)
      BY <2>2 DEF Replaced
    <3> QED
      BY <3>1, ToReap, Known
  <2> QED
    BY <2>1, <2>2
<1> QED
  BY <1>1, <1>3, Telling, HostKeeps DEF Allowed

\* A report that completes a command other than a stop, or changes nothing.
LEMMA Reporting ==
  ASSUME HostInv, job.phase \notin {"poll", "reap"}, cmds[job.c].type # "stop_game",
         \/ UNCHANGED vars
         \/ Result(job.c, job.k)
         \/ \E sdp \in BOOLEAN : NotifyGame(job.c, job.k, sdp)
  PROVE  Good /\ BootsOK' /\ [Next]_vars /\ NoStop(cmds, cmds')
<1>1. job.c \in CmdIds /\ job.k \in 1 .. cmds[job.c].attempts /\ cmds[job.c] \in Command
  BY JobRow
<1>2. CASE UNCHANGED vars
  <2>1. Good
    BY <1>2, QueueInvStep DEF HostInv
  <2>2. BootsOK' /\ NoStop(cmds, cmds')
    BY <1>2 DEF vars, BootsOK, HostInv, NoStop
  <2> QED
    BY <1>2, <2>1, <2>2
<1>3. CASE Result(job.c, job.k) \/ \E sdp \in BOOLEAN : NotifyGame(job.c, job.k, sdp)
  <2>1. Good
    BY <1>1, <1>3, ResultKeeps, NotifyGameKeeps DEF HostInv
  <2>2. Next
    BY <1>1, <1>3 DEF Next, ReportStep
  <2>3. cmds' = Completed(job.c, job.k) /\ UNCHANGED <<boot, proc, ran>>
    BY <1>3 DEF Result, NotifyGame
  <2>4. NoStop(cmds, cmds')
    <3> DEFINE n == [Settled(cmds[job.c], "completed") EXCEPT !.by = job.k]
    <3>1. n.type = cmds[job.c].type
      BY <1>1 DEF Settled, Command
    <3>2. cmds' = [cmds EXCEPT ![job.c] = n]
      BY <2>3 DEF Completed
    <3> HIDE DEF n
    <3> QED
      BY <3>1, <3>2, Known DEF NoStop
  <2>5. BootsOK'
    BY <2>3 DEF BootsOK, HostInv
  <2> QED
    BY <2>1, <2>2, <2>4, <2>5
<1> QED
  BY <1>2, <1>3

LEMMA ReportStepKeeps == ASSUME HostInv, NEW fate \in Fates, Report(fate) PROVE Allowed
<1>1. /\ job.phase = "report" /\ rt' = rt /\ cores' = cores /\ job' = Returned(rt)
      /\ Result(job.c, job.k) \/ UNCHANGED vars
  BY DEF Report
<1>2. cmds[job.c].type # "stop_game"
  BY <1>1, Known DEF JobOK
<1>3. HostTypes(rt', cores', job') /\ Sound(cmds, rt', cores', job')
  BY <1>1, ToReap, Known
<1> QED
  BY <1>1, <1>2, <1>3, Reporting, HostKeeps DEF Allowed

\* The loop tries its call once more.
LEMMA Retrying ==
  ASSUME HostInv, job.phase \in {"notify", "notify_stop"}, AttemptLeft,
         NEW n, n = [job EXCEPT !.tries = @ + 1]
  PROVE  HostTypes(rt, cores, n) /\ Sound(cmds, rt, cores, n)
<1>1. job.tries + 1 \in 0 .. MaxTries
  BY Known, HostAssumption DEF AttemptLeft, HostTypes
<1>2. /\ n.phase = job.phase /\ n.c = job.c /\ n.k = job.k /\ HostTypes(rt, cores, n)
  BY <1>1, Known DEF HostTypes
<1>3. /\ Mine(cmds, rt, n) = Mine(cmds, rt, job)
      /\ Matching(cmds, rt, n) <=> Matching(cmds, rt, job)
  BY <1>2 DEF Mine, Matching
<1>4. JobOK(cmds, rt, n)
  BY <1>2, <1>3, Known DEF JobOK
<1>5. StopsTrue(cmds, cores, n)
  BY <1>2, Known DEF StopsTrue
<1> QED
  BY <1>2, <1>4, <1>5, Known DEF Sound

LEMMA NotifyTryKeeps ==
  ASSUME HostInv, NEW sdp \in BOOLEAN, NEW fate \in Fates, NotifyTry(sdp, fate)
  PROVE  Allowed
<1> DEFINE done == fate = "ok" /\ NotifyAccepted(job.c, job.k, sdp)
<1>1. /\ job.phase = "notify" /\ cores' = cores
      /\ NotifyGame(job.c, job.k, sdp) \/ UNCHANGED vars
  BY DEF NotifyTry
<1>2. IF done THEN job' = Returned(rt) /\ UNCHANGED rt
      ELSE IF AttemptLeft THEN job' = [job EXCEPT !.tries = @ + 1] /\ UNCHANGED rt
      ELSE GiveUp("reap")
  BY DEF NotifyTry
<1> HIDE DEF done
<1>3. cmds[job.c].type # "stop_game"
  BY <1>1, Known DEF JobOK
<1>4. HostTypes(rt', cores', job') /\ Sound(cmds, rt', cores', job')
  <2>1. CASE done
    BY <1>1, <1>2, <2>1, ToReap, Known
  <2>2. CASE ~done /\ AttemptLeft
    BY <1>1, <1>2, <2>2, Retrying
  <2>3. CASE ~done /\ ~AttemptLeft
    BY <1>1, <1>2, <2>3, GivingUp
  <2> QED
    BY <2>1, <2>2, <2>3
<1> QED
  BY <1>1, <1>3, <1>4, Reporting, HostKeeps DEF Allowed

\* What the host does with its own state when it tells of a stop.
LEMMA StopTold ==
  ASSUME HostInv, NEW fate \in Fates, NotifyStopTry(fate)
  PROVE  /\ HostTypes(rt', cores, job') /\ RuntimesOK(cmds, rt') /\ CoresOK(rt', cores)
         /\ JobOK(cmds, rt', job') /\ job'.phase \in {"notify_stop", "reap"}
<1> DEFINE held  == LeaseHeld(job.c, job.k)
           again == cmds[job.c].status = "completed" /\ sess[cmds[job.c].sid].status \in Over
           done  == fate = "ok" /\ (held \/ again)
<1>1. job.phase = "notify_stop"
  BY DEF NotifyStopTry
<1>2. IF done
      THEN /\ rt' = [rt EXCEPT ![JobGame] = IF Matches THEN NoRuntime ELSE @]
           /\ job' = Returned(rt')
      ELSE /\ job' = IF AttemptLeft THEN [job EXCEPT !.tries = @ + 1] ELSE Returned(rt)
           /\ UNCHANGED rt
  BY DEF NotifyStopTry
<1> HIDE DEF done
<1>3. JobGame \in Games /\ (Matches => rt[JobGame].state = "stopped")
  BY <1>1, JobRow, Names, Known DEF JobOK
<1>4. CASE done
  <2>1. HostTypes(rt', cores, job) /\ RuntimesOK(cmds, rt') /\ CoresOK(rt', cores)
    <3>1. CASE Matches
      <4>1. rt' = [rt EXCEPT ![JobGame] = NoRuntime]
        BY <1>2, <1>4, <3>1
      <4>2. Changed(rt, rt', JobGame, NoRuntime)
        BY <1>3, <4>1, Writing
      <4> QED
        BY <1>3, <3>1, <4>2, Forgetting, Known
    <3>2. CASE ~Matches
      <4>1. rt' = rt
        BY <1>2, <1>3, <1>4, <3>2, Known DEF HostTypes
      <4> QED
        BY <4>1, Known
    <3> QED
      BY <3>1, <3>2
  <2>2. job' = Returned(rt')
    BY <1>2, <1>4
  <2>3. HostTypes(rt', cores, job') /\ Sound(cmds, rt', cores, job')
    BY <2>1, <2>2, ToReap, Known
  <2>4. job'.phase = "reap"
    BY <2>2, Returns
  <2> QED
    BY <2>1, <2>3, <2>4 DEF Sound
<1>5. CASE ~done /\ AttemptLeft
  <2>1. rt' = rt /\ job' = [job EXCEPT !.tries = @ + 1]
    BY <1>2, <1>5
  <2>2. HostTypes(rt, cores, job') /\ Sound(cmds, rt, cores, job')
    BY <1>1, <1>5, <2>1, Retrying
  <2>3. job'.phase = "notify_stop"
    BY <1>1, <2>1, Known DEF HostTypes
  <2> QED
    BY <2>1, <2>2, <2>3 DEF Sound
<1>6. CASE ~done /\ ~AttemptLeft
  <2>1. rt' = rt /\ job' = Returned(rt)
    BY <1>2, <1>6
  <2>2. HostTypes(rt', cores, job') /\ Sound(cmds, rt', cores, job')
    BY <2>1, ToReap, Known
  <2>3. job'.phase = "reap"
    BY <2>1, Returns
  <2> QED
    BY <2>2, <2>3 DEF Sound
<1> QED
  BY <1>4, <1>5, <1>6

\* The gateway completes the stop: no core runs for the session that it stopped.
LEMMA Stopping ==
  ASSUME HostInv, job.phase = "notify_stop", NotifyStop(job.c, job.k)
  PROVE  /\ Good /\ BootsOK' /\ Next /\ StopsOver'
         /\ \A a \in cores : ~Stopped(cmds', cmds'[a[1]].sid)
<1> DEFINE c == job.c
           s == cmds[job.c].sid
<1>1. /\ c \in CmdIds /\ job.k \in 1 .. cmds[c].attempts /\ JobGame \in Games
      /\ JobGame = cmds[c].game /\ cmds[c] \in Command
  BY JobRow DEF JobGame
<1>2. Good
  BY <1>1, NotifyStopKeeps DEF HostInv
<1>3. Next
  BY <1>1 DEF Next, ReportStep
<1>4. BootsOK'
  BY DEF NotifyStop, BootsOK, HostInv
<1>5. /\ cmds' = Completed(c, job.k) /\ cmds[c].type = "stop_game" /\ s # 0
      /\ sess' = IF sess[s].status \in Over THEN sess
                 ELSE [sess EXCEPT ![s].status = "ended", ![s].stale = FALSE]
  BY DEF NotifyStop
<1>6. s \in SessIds /\ cmds[c].game = sess[s].game /\ sess \in [SessIds -> Session]
  BY <1>1, <1>5 DEF HostInv, QueueInv, Tables, RowsOK, RowShape, RowSound, Started, TypeOK
<1>7. /\ cmds'[c].sid = s
      /\ \A d \in CmdIds : d # c => cmds'[d] = cmds[d]
  <2> DEFINE n == [Settled(cmds[c], "completed") EXCEPT !.by = job.k]
  <2>1. n.sid = s
    BY <1>1 DEF Settled, Command
  <2>2. cmds' = [cmds EXCEPT ![c] = n]
    BY <1>5 DEF Completed
  <2> HIDE DEF n
  <2> QED
    BY <1>1, <2>1, <2>2, Known
<1>8. \A u : Stopped(cmds', u) => u = s \/ Stopped(cmds, u)
  BY <1>7 DEF Stopped
<1>9. sess'[s].status \in Over
  <2>1. CASE sess[s].status \in Over
    BY <1>5, <2>1
  <2>2. CASE sess[s].status \notin Over
    <3>1. sess[s] \in Session
      BY <1>6
    <3>2. sess'[s].status = "ended"
      BY <1>5, <1>6, <2>2, <3>1 DEF Session
    <3> QED
      BY <3>2 DEF Over
  <2> QED
    BY <2>1, <2>2
<1>10. StopsOver'
  <2> SUFFICES ASSUME NEW u \in SessIds, Stopped(cmds', u) PROVE sess'[u].status \in Over
    BY DEF StopsOver
  <2> QED
    BY <1>2, <1>8, <1>9, StopsStay
<1>11. \A a \in cores : ~Stopped(cmds', cmds'[a[1]].sid)
  <2> SUFFICES ASSUME NEW a \in cores, Stopped(cmds', cmds'[a[1]].sid) PROVE FALSE
    OBVIOUS
  <2>1. PICK g \in Games : a = <<rt[g].c, rt[g].k>> /\ rt[g].state \in {"running", "cancelled"}
    BY Known DEF CoresOK
  <2>2. /\ a[1] = rt[g].c /\ rt[g].c # 0 /\ rt[g].c \in CmdIds
        /\ cmds[rt[g].c].type = "start_game" /\ cmds[rt[g].c].game = g
    BY <2>1, Known DEF RuntimesOK, NoRuntime, Live
  <2>3. cmds'[a[1]] = cmds[rt[g].c]
    BY <1>5, <1>7, <2>2
  <2>4. cmds[rt[g].c].sid = s
    <3>1. ~Stopped(cmds, cmds[a[1]].sid)
      BY Known
    <3> QED
      BY <1>8, <2>2, <2>3, <3>1
  <2>5. g = JobGame
    <3>1. cmds[rt[g].c].game = sess[s].game
      BY <1>5, <2>2, <2>4 DEF HostInv, QueueInv, Tables, RowsOK, RowSound
    <3> QED
      BY <1>1, <1>6, <2>2, <3>1
  <2>6. Matching(cmds, rt, job)
    BY <2>2, <2>4, <2>5 DEF Matching, Mine, JobGame
  <2>7. rt[JobGame].state = "stopped"
    BY <2>6, Known DEF JobOK, Mine, JobGame
  <2> QED
    BY <2>1, <2>5, <2>7
<1> QED
  BY <1>2, <1>3, <1>4, <1>10, <1>11

LEMMA NotifyStopTryKeeps ==
  ASSUME HostInv, NEW fate \in Fates, NotifyStopTry(fate)
  PROVE  Allowed
<1>1. /\ job.phase = "notify_stop" /\ cores' = cores
      /\ NotifyStop(job.c, job.k) \/ UNCHANGED vars
  BY DEF NotifyStopTry
<1>2. /\ HostTypes(rt', cores, job') /\ RuntimesOK(cmds, rt') /\ CoresOK(rt', cores)
      /\ JobOK(cmds, rt', job') /\ job'.phase \in {"notify_stop", "reap"}
  BY StopTold
<1>3. CASE UNCHANGED vars
  <2>1. StopsTrue(cmds, cores, job')
    BY <1>2, Known DEF StopsTrue
  <2>2. Sound(cmds, rt', cores, job')
    BY <1>2, <2>1 DEF Sound
  <2> QED
    BY <1>1, <1>2, <1>3, <2>2, HostAlone DEF Allowed
<1>4. CASE NotifyStop(job.c, job.k)
  <2>1. /\ Good /\ BootsOK' /\ Next /\ StopsOver'
        /\ \A a \in cores : ~Stopped(cmds', cmds'[a[1]].sid)
    BY <1>1, <1>4, Stopping
  <2>2. RuntimesOK(cmds', rt') /\ JobOK(cmds', rt', job')
    BY <1>2, <2>1, TablesLater, FrameRows
  <2>3. StopsTrue(cmds', cores, job')
    BY <1>2, <2>1 DEF StopsTrue
  <2> QED
    BY <1>1, <1>2, <2>1, <2>2, <2>3 DEF Allowed, HostGood, Sound
<1> QED
  BY <1>1, <1>3, <1>4

-----------------------------------------------------------------------------
(* The theorems                                                            *)

LEMMA HostInvInit == HostInit => HostInv
<1> SUFFICES ASSUME HostInit PROVE HostInv
  OBVIOUS
<1>1. /\ Init /\ rt = [g \in Games |-> NoRuntime] /\ cores = {} /\ job = Idle
  BY DEF HostInit
<1>2. QueueInv
  BY <1>1, QueueInvInit
<1>3. BootsOK
  BY <1>1 DEF Init, BootsOK
<1>4. \A c \in CmdIds : cmds[c].status = "none"
  BY <1>1 DEF Init, Row
<1>5. StopsOver
  BY <1>4 DEF StopsOver, Stopped
<1>6. /\ 0 \in 0 .. MaxCmds /\ 0 \in 0 .. MaxAttempts /\ 0 \in 0 .. MaxTries
      /\ "poll" \in Phases /\ "none" \in RuntimeStates
  BY QueueAssumption, HostAssumption DEF Phases, RuntimeStates
<1>7. HostTypes(rt, cores, job) /\ job.phase = "poll" /\ NoRuntime.c = 0
  BY <1>1, <1>6 DEF HostTypes, Idle, NoRuntime
<1>8. Sound(cmds, rt, cores, job)
  BY <1>1, <1>7 DEF Sound, RuntimesOK, CoresOK, JobOK, StopsTrue
<1> QED
  BY <1>2, <1>3, <1>5, <1>7, <1>8 DEF HostInv

LEMMA HostInvStep == HostInv /\ [HostNext]_allVars => Allowed
<1> SUFFICES ASSUME HostInv, [HostNext]_allVars PROVE Allowed
  OBVIOUS
<1>1. CASE LoopStep
  BY <1>1, PollRequestKeeps, PollReplyKeeps, ReapKeeps, SleepKeeps, ReportStepKeeps, RunTaskKeeps,
     StartBeginKeeps, ReplacedKeeps, ReplaceTimeoutKeeps, SpawnKeeps, ExchangeFailsKeeps,
     NotifyTryKeeps, CleanupFailedStartKeeps, StopBeginKeeps, StopWaitedKeeps,
     NotifyStopTryKeeps, OfferBeginKeeps
     DEF LoopStep
<1>2. CASE BesideStep
  BY <1>2, CancelRuntimeKeeps, CoreStopsKeeps, RebootKeeps, GhostPollKeeps DEF BesideStep
<1>3. CASE QueueStep
  BY <1>3, QueueStepKeeps
<1>4. CASE UNCHANGED allVars
  <2>1. UNCHANGED vars /\ rt' = rt /\ cores' = cores /\ job' = job
    BY <1>4 DEF allVars, hostVars
  <2> QED
    BY <2>1, HostAlone DEF Allowed, HostInv
<1> QED
  BY <1>1, <1>2, <1>3, <1>4 DEF HostNext

LEMMA AllowedIsInv == HostInv /\ Allowed => HostInv'
<1> QED
  BY DEF Allowed, HostGood, Good, HostInv, QueueInv

\* The invariant holds of every behaviour.
THEOREM HostInvHolds == HostSpec => []HostInv
<1>1. HostInit => HostInv
  BY HostInvInit
<1>2. HostInv /\ [HostNext]_allVars => HostInv'
  BY HostInvStep, AllowedIsInv
<1> QED
  BY <1>1, <1>2, PTL DEF HostSpec

\* Every step of the composition is a step of the queue or none, by the way it is
\* composed; this is what lets the theorems of the queue be cited for it.
LEMMA QueueSteps == HostSpec => Steps
<1>1. HostInit => Init
  BY DEF HostInit
<1>2. HostInv /\ [HostNext]_allVars => [Next]_vars
  BY HostInvStep DEF Allowed
<1> QED
  BY <1>1, <1>2, HostInvHolds, PTL DEF HostSpec, Steps

\* With the host in the place of the queue's environment the gateway keeps its
\* promises: leases, cancellations, exclusive sessions, final outcomes, a
\* promotion only by the process that owns the runtime, and no running process refused.
THEOREM QueueKeepsItsPromises ==
  HostSpec => /\ [](LeasesHold /\ CancelledMeansOver /\ OneLaunchPerUser /\ OneResidentPerGame)
              /\ NothingRevives /\ PromotionByCurrentBoot /\ []CurrentNotRefused
<1>1. HostSpec => Steps
  BY QueueSteps
<1>2. Steps => [](LeasesHold /\ CancelledMeansOver /\ OneLaunchPerUser /\ OneResidentPerGame)
  <2>1. QueueInv => LeasesHold /\ CancelledMeansOver /\ OneLaunchPerUser /\ OneResidentPerGame
    BY QueueInvKeeps
  <2> QED
    BY <2>1, QueueInvAlways, PTL
<1> QED
  BY <1>1, <1>2, StepsReviveNothing, StepsPromote, StepsNotRefuse

\* The map, the cores and the loop of the host keep their types, and no call is
\* tried more often than with_retry allows.
THEOREM HostTypeCorrect == HostSpec => []HostTypeOK
<1>1. HostInv => HostTypeOK
  BY DEF HostInv, HostTypes, HostTypeOK
<1> QED
  BY <1>1, HostInvHolds, PTL

\* However starts are redelivered, superseded, replaced or given up, at most
\* one core runs per game, and it is the one the map knows.
THEOREM EveryCoreIsAccounted == HostSpec => []CoresAccounted
<1>1. ASSUME HostInv PROVE CoresAccounted
  <2>1. \A a \in cores : \E g \in Games :
           a = <<rt[g].c, rt[g].k>> /\ cmds[a[1]].game = g
    <3> SUFFICES ASSUME NEW a \in cores
                 PROVE  \E g \in Games : a = <<rt[g].c, rt[g].k>> /\ cmds[a[1]].game = g
      OBVIOUS
    <3>1. PICK g \in Games : a = <<rt[g].c, rt[g].k>> /\ rt[g].state \in {"running", "cancelled"}
      BY <1>1, Known DEF CoresOK
    <3>2. rt[g].c # 0
      BY <1>1, <3>1, Known DEF RuntimesOK, NoRuntime
    <3> QED
      BY <1>1, <3>1, <3>2, Known DEF RuntimesOK
  <2>2. OneCorePerGame
    BY <2>1 DEF OneCorePerGame
  <2>3. CoreIsTracked
    BY <2>1 DEF CoreIsTracked
  <2> QED
    BY <2>2, <2>3 DEF CoresAccounted
<1> QED
  BY <1>1, HostInvHolds, PTL

\* A stop_game that the gateway shows as completed is true: no core runs for
\* its session, neither one that the stop found nor one started since.
THEOREM StopsAreTrue == HostSpec => []StoppedMeansGone
<1>1. HostInv => StoppedMeansGone
  BY Known DEF StoppedMeansGone, Stopped
<1> QED
  BY <1>1, HostInvHolds, PTL

-----------------------------------------------------------------------------
(* What the player sees                                                    *)

\* The gateway shows session s as ready or connected, for the process that runs.
Shows(s) == sess[s].status \in {"ready", "connected"} /\ boot = proc

\* A start that has not told the gateway yet is not shown: its runtime may go.
Untold ==
  job.phase \in {"notify", "cleanup"} /\ cmds[job.c].type = "start_game"
    => ~Shows(cmds[job.c].sid)

ShownInv == PromotedHasRuntime /\ Untold

\* A published command of the lifecycle names a session of its game.
LEMMA NamesSession ==
  ASSUME HostInv, NEW c, Live(cmds, c), cmds[c].type \in Lifecycle
  PROVE  /\ c \in CmdIds /\ cmds[c].sid \in SessIds
         /\ cmds[c].game = sess[cmds[c].sid].game
<1> QED
  BY DEF HostInv, QueueInv, Tables, RowsOK, RowShape, RowSound, Started, Live

\* Nothing new is shown, and a runtime that goes is not shown.
LEMMA RuntimesShown ==
  ASSUME HostInv, ShownInv, Allowed,
         \A s \in SessIds : Shows(s)' => Shows(s),
         \A g \in Games : rt[g].c # 0 =>
            \/ rt'[g].c = rt[g].c
            \/ \A s \in SessIds : s = cmds[rt[g].c].sid => ~Shows(s)'
  PROVE  PromotedHasRuntime'
<1>1. Later(cmds, cmds')
  BY TablesLater DEF Allowed, HostGood
<1> SUFFICES ASSUME NEW s \in SessIds, Shows(s)'
             PROVE  \E g \in Games : rt'[g].c # 0 /\ cmds'[rt'[g].c].sid = s
  BY DEF PromotedHasRuntime, Shows
<1>2. PICK g \in Games : rt[g].c # 0 /\ cmds[rt[g].c].sid = s
  BY DEF ShownInv, PromotedHasRuntime, Shows
<1>3. rt'[g].c = rt[g].c
  BY <1>2
<1>4. cmds'[rt[g].c].sid = s
  BY <1>1, <1>2, Known DEF RuntimesOK, Later, Live
<1> QED
  BY <1>2, <1>3, <1>4

\* Nor does the loop begin to tell of a start.
LEMMA ShownKeeps ==
  ASSUME HostInv, ShownInv, Allowed,
         \A s \in SessIds : Shows(s)' => Shows(s),
         \A g \in Games : rt[g].c # 0 =>
            \/ rt'[g].c = rt[g].c
            \/ \A s \in SessIds : s = cmds[rt[g].c].sid => ~Shows(s)',
         \/ job'.phase \notin {"notify", "cleanup"}
         \/ job.phase \in {"notify", "cleanup"} /\ job'.c = job.c
  PROVE  ShownInv'
<1>1. Later(cmds, cmds') /\ cmds' \in [CmdIds -> Command]
  BY TablesLater DEF Allowed, HostGood
<1>2. PromotedHasRuntime'
  BY RuntimesShown
<1>3. Untold'
  <2> SUFFICES ASSUME job'.phase \in {"notify", "cleanup"}, cmds'[job'.c].type = "start_game"
               PROVE  ~Shows(cmds[job.c].sid)'
    BY DEF Untold
  <2>1. job.phase \in {"notify", "cleanup"} /\ job'.c = job.c /\ Live(cmds, job.c)
    BY Known DEF JobOK
  <2>2. cmds[job.c].type = "start_game" /\ cmds'[job'.c].sid = cmds[job.c].sid
    BY <1>1, <2>1 DEF Later, Live
  <2>3. PICK s \in SessIds : s = cmds[job.c].sid
    BY <2>1, <2>2, NamesSession DEF Lifecycle
  <2>4. ~Shows(s)
    BY <2>1, <2>2, <2>3 DEF ShownInv, Untold
  <2>5. ~Shows(s)'
    BY <2>4
  <2> QED
    BY <2>2, <2>3, <2>5 DEF Shows
<1> QED
  BY <1>2, <1>3 DEF ShownInv

\* A step that completes no command shows nobody.
LEMMA QuietShows ==
  ASSUME Good, Quiet, UNCHANGED <<boot, proc>>, NEW s \in SessIds, Shows(s)'
  PROVE  Shows(s)
<1>1. sess'[s].status = sess[s].status
  BY DEF Good, Promotes, Quiet, Shows
<1> QED
  BY <1>1 DEF Shows

LEMMA AloneShows ==
  ASSUME UNCHANGED vars, NEW s \in SessIds, Shows(s)'
  PROVE  Shows(s)
<1> QED
  BY DEF Shows, vars

\* Nothing at all is shown.
LEMMA NothingShown ==
  ASSUME \A s \in SessIds : ~Shows(s)', HostInv'
  PROVE  ShownInv'
<1>1. PromotedHasRuntime'
  BY DEF PromotedHasRuntime, Shows
<1>2. Untold'
  <2> SUFFICES ASSUME job'.phase \in {"notify", "cleanup"}, cmds'[job'.c].type = "start_game"
               PROVE  ~Shows(cmds[job.c].sid)'
    BY DEF Untold
  <2>1. Live(cmds', job'.c)
    BY DEF HostInv, Sound, JobOK
  <2>2. cmds'[job'.c].sid \in SessIds
    BY <2>1 DEF HostInv, QueueInv, Tables, RowsOK, RowShape, Started, Live, Lifecycle
  <2>3. PICK s \in SessIds : s = cmds'[job'.c].sid
    BY <2>2
  <2> QED
    BY <2>3 DEF Shows
<1> QED
  BY <1>1, <1>2 DEF ShownInv

\* Steps beside the loop, and those in which it forgets no runtime.
LEMMA BesideShown ==
  ASSUME HostInv, ShownInv, Allowed,
         \/ \E g \in Games : CancelRuntime(g) \/ CoreStops(g)
         \/ \E b \in BootIds : GhostPoll(b)
         \/ QueueStep
  PROVE  ShownInv'
<1>1. \A s \in SessIds : Shows(s)' => Shows(s)
  <2>1. CASE \E g \in Games : CancelRuntime(g) \/ CoreStops(g)
    BY <2>1, AloneShows DEF CancelRuntime, CoreStops
  <2>2. CASE \E b \in BootIds : GhostPoll(b)
    <3>1. PICK b \in ran : Poll(b)
      BY <2>2 DEF GhostPoll
    <3> QED
      BY <3>1, Polling, QuietShows DEF Poll
  <2>3. CASE QueueStep
    <3>1. Good /\ Quiet
      BY <2>3, QuietStep DEF HostInv, QueueStep, TimeStep
    <3>2. UNCHANGED <<boot, proc, ran>>
      BY <2>3, QueueStepBoots
    <3> QED
      BY <3>1, <3>2, QuietShows
  <2> QED
    BY <2>1, <2>2, <2>3
<1>2. job' = job /\ \A g \in Games : rt'[g].c = rt[g].c
  <2>1. CASE \E g \in Games : CancelRuntime(g)
    <3>1. PICK g \in Games : CancelRuntime(g)
      BY <2>1
    <3>2. Changed(rt, rt', g, Cancelled(rt[g])) /\ job' = job
      BY <3>1, Writing DEF CancelRuntime
    <3>3. Cancelled(rt[g]).c = rt[g].c
      BY Known DEF Cancelled, HostTypes
    <3> QED
      BY <3>2, <3>3 DEF Changed
  <2>2. CASE \E g \in Games : CoreStops(g)
    <3>1. PICK g \in Games : CoreStops(g)
      BY <2>2
    <3>2. Changed(rt, rt', g, [rt[g] EXCEPT !.state = "stopped"]) /\ job' = job
      BY <3>1, Writing DEF CoreStops
    <3>3. [rt[g] EXCEPT !.state = "stopped"].c = rt[g].c
      BY Known DEF HostTypes
    <3> QED
      BY <3>2, <3>3 DEF Changed
  <2>3. CASE QueueStep \/ \E b \in BootIds : GhostPoll(b)
    BY <2>3 DEF QueueStep, GhostPoll, hostVars
  <2> QED
    BY <2>1, <2>2, <2>3
<1> QED
  BY <1>1, <1>2, ShownKeeps

\* The process is replaced, or takes the host over: what ran before is not its own.
LEMMA BootShown ==
  ASSUME HostInv, Allowed, Reboot \/ PollRequest
  PROVE  ShownInv'
<1>1. \A s \in SessIds : ~Shows(s)'
  <2>1. CASE Reboot
    <3>1. boot' = boot /\ proc' \notin ran /\ proc' # 0
      BY <2>1 DEF Reboot, RestartHost, BootIds
    <3> QED
      BY <3>1 DEF Shows, HostInv, BootsOK
  <2>2. CASE PollRequest
    <3> SUFFICES ASSUME NEW s \in SessIds
                 PROVE  sess'[s].status \notin {"ready", "connected"}
      BY DEF Shows
    <3>1. sess'[s] = IF s \in SessionsIn(Active)
                     THEN [sess[s] EXCEPT !.status = "ended", !.stale = FALSE] ELSE sess[s]
      BY <2>2 DEF PollRequest, ResetStaleRuntime
    <3>2. sess[s] \in Session
      BY DEF HostInv, QueueInv, Tables, TypeOK
    <3>3. CASE s \in SessionsIn(Active)
      BY <3>1, <3>2, <3>3 DEF Session
    <3>4. CASE s \notin SessionsIn(Active)
      BY <3>1, <3>4 DEF SessionsIn, Active, Stuck
    <3> QED
      BY <3>3, <3>4
  <2> QED
    BY <2>1, <2>2
<1>2. HostInv'
  BY AllowedIsInv
<1> QED
  BY <1>1, <1>2, NothingShown

\* The loop acts alone, and forgets no runtime.
LEMMA AloneShown ==
  ASSUME HostInv, ShownInv, Allowed, UNCHANGED vars, NEW g \in Games,
         \/ rt' = rt
         \/ rt' = [rt EXCEPT ![g] = Cancelled(rt[g])],
         \/ job'.phase \notin {"notify", "cleanup"}
         \/ job.phase \in {"notify", "cleanup"} /\ job'.c = job.c
  PROVE  ShownInv'
<1>1. \A h \in Games : rt'[h].c = rt[h].c
  <2>1. CASE rt' = rt
    BY <2>1
  <2>2. CASE rt' = [rt EXCEPT ![g] = Cancelled(rt[g])]
    <3>1. Changed(rt, rt', g, Cancelled(rt[g]))
      BY <2>2, Writing
    <3>2. Cancelled(rt[g]).c = rt[g].c
      BY Known DEF Cancelled, HostTypes
    <3> QED
      BY <3>1, <3>2 DEF Changed
  <2> QED
    BY <2>1, <2>2
<1>2. \A s \in SessIds : Shows(s)' => Shows(s)
  BY AloneShows
<1> QED
  BY <1>1, <1>2, ShownKeeps

\* A notify that gave up has promoted nobody.
LEMMA GiveUpShown ==
  ASSUME HostInv, ShownInv, Allowed, UNCHANGED vars, job.phase = "notify",
         NEW next \in {"report", "reap"}, GiveUp(next)
  PROVE  ShownInv'
<1>1. JobGame \in Games
  BY JobRow
<1>2. CASE cmds[job.c].type = "start_game"
  <2>1. /\ rt' = [rt EXCEPT ![JobGame] = Cancelled(rt[JobGame])]
        /\ job' = [job EXCEPT !.phase = "cleanup", !.next = next]
    BY <1>2 DEF GiveUp
  <2>2. job'.c = job.c
    BY <2>1, Known DEF HostTypes
  <2> QED
    BY <1>1, <2>1, <2>2, AloneShown
<1>3. CASE cmds[job.c].type # "start_game"
  <2>1. rt' = rt /\ (job' = Returned(rt) \/ job' = GoTo("report"))
    BY <1>3 DEF GiveUp, After
  <2>2. job'.phase \in {"reap", "report"}
    BY <2>1, Returns, Going, Known DEF Phases
  <2> QED
    BY <1>1, <2>1, <2>2, AloneShown
<1> QED
  BY <1>2, <1>3

LEMMA LoopAloneShown ==
  ASSUME HostInv, ShownInv, Allowed,
         \/ Sleep \/ RunTask \/ StartBegin \/ ReplaceTimeout \/ StopBegin \/ StopWaited
         \/ \E next \in {"report", "reap"} : ExchangeFails(next)
  PROVE  ShownInv'
<1>1. PICK g0 \in Games : TRUE
  BY QueueAssumption
<1>2. \A p \in Phases : GoTo(p).phase = p
  BY Going, Known
<1>3. CASE Sleep
  <2>1. UNCHANGED vars /\ rt' = rt /\ job'.phase = "poll"
    BY <1>3 DEF Sleep, Idle
  <2> QED
    BY <1>1, <2>1, AloneShown
<1>4. CASE RunTask \/ ReplaceTimeout
  <2>1. UNCHANGED vars /\ rt' = rt /\ job'.phase = "report"
    BY <1>2, <1>4 DEF RunTask, ReplaceTimeout, Phases
  <2> QED
    BY <1>1, <2>1, AloneShown
<1>5. CASE StartBegin
  <2>1. /\ UNCHANGED vars /\ rt' = [rt EXCEPT ![JobGame] = Cancelled(rt[JobGame])]
        /\ job.phase = "begin" /\ (job' = GoTo("spawn") \/ job' = GoTo("replace"))
    BY <1>5 DEF StartBegin, Doing
  <2>2. JobGame \in Games /\ job'.phase \in {"spawn", "replace"}
    BY <1>2, <2>1, JobRow DEF Phases
  <2> QED
    BY <2>1, <2>2, AloneShown
<1>6. CASE StopBegin
  <2>1. UNCHANGED vars /\ job.phase = "begin"
    BY <1>6 DEF StopBegin, Doing
  <2>2. JobGame \in Games
    BY <2>1, JobRow
  <2>3. CASE Matches
    <3>1. /\ rt' = [rt EXCEPT ![JobGame] = Cancelled(rt[JobGame])]
          /\ job'.phase = "stopping"
      BY <1>2, <1>6, <2>3 DEF StopBegin, Phases
    <3> QED
      BY <2>1, <2>2, <3>1, AloneShown
  <2>4. CASE ~Matches
    <3>1. rt' = rt /\ job'.phase = "notify_stop"
      BY <1>2, <1>6, <2>2, <2>4, Known DEF StopBegin, Phases, HostTypes
    <3> QED
      BY <2>1, <2>2, <3>1, AloneShown
  <2> QED
    BY <2>3, <2>4
<1>7. CASE StopWaited
  <2>1. /\ UNCHANGED vars /\ rt' = rt
        /\ job' = GoTo("notify_stop") \/ job' = Returned(rt)
    BY <1>7 DEF StopWaited
  <2>2. job'.phase \in {"notify_stop", "reap"}
    BY <1>2, <2>1, Returns DEF Phases
  <2> QED
    BY <1>1, <2>1, <2>2, AloneShown
<1>8. CASE \E next \in {"report", "reap"} : ExchangeFails(next)
  <2>1. PICK next \in {"report", "reap"} : ExchangeFails(next)
    BY <1>8
  <2>2. UNCHANGED vars /\ job.phase = "notify" /\ GiveUp(next)
    BY <2>1 DEF ExchangeFails
  <2> QED
    BY <2>2, GiveUpShown
<1> QED
  BY <1>3, <1>4, <1>5, <1>6, <1>7, <1>8

\* An offer begins to be answered: it tells of no start.
LEMMA OfferShown == ASSUME HostInv, ShownInv, Allowed, OfferBegin PROVE ShownInv'
<1>1. /\ UNCHANGED vars /\ rt' = rt /\ job.phase = "begin" /\ cmds[job.c].type = "sdp_offer"
      /\ job' = GoTo("notify") \/ job' = GoTo("report")
  BY DEF OfferBegin, Doing
<1>2. \A s \in SessIds : Shows(s)' => Shows(s)
  BY <1>1, AloneShows
<1>3. PromotedHasRuntime'
  BY <1>1, <1>2, RuntimesShown
<1>4. job'.c = job.c /\ cmds' = cmds
  BY <1>1, Going, Known DEF Phases, vars
<1> QED
  BY <1>1, <1>3, <1>4 DEF ShownInv, Untold

\* A session that is shown has a runtime, so a start that found none may spawn.
LEMMA SpawnShown ==
  ASSUME HostInv, ShownInv, Allowed, NEW ok \in BOOLEAN, Spawn(ok)
  PROVE  ShownInv'
<1>1. job.phase = "spawn" /\ UNCHANGED vars /\ cmds' = cmds
  BY DEF Spawn, vars
<1>2. /\ cmds[job.c].type = "start_game" /\ rt[JobGame] = NoRuntime /\ JobGame \in Games
      /\ JobGame = cmds[job.c].game /\ Live(cmds, job.c)
  BY <1>1, JobRow, Known DEF JobOK, Mine, JobGame
<1>3. \A s \in SessIds : Shows(s)' => Shows(s)
  BY <1>1, AloneShows
<1>4. job'.c = job.c
  BY Going, Known DEF Spawn, Phases
<1>5. \A g \in Games : rt[g].c # 0 => rt'[g].c = rt[g].c
  <2>1. CASE ok
    <3>1. Changed(rt, rt', JobGame, [c |-> job.c, k |-> job.k, state |-> "running"])
      BY <1>2, <2>1, Writing DEF Spawn
    <3> QED
      BY <1>2, <3>1 DEF Changed, NoRuntime
  <2>2. CASE ~ok
    BY <2>2 DEF Spawn
  <2> QED
    BY <2>1, <2>2
<1>6. PromotedHasRuntime'
  BY <1>3, <1>5, RuntimesShown
<1>7. PICK s \in SessIds : s = cmds[job.c].sid /\ cmds[job.c].game = sess[s].game
  BY <1>2, NamesSession DEF Lifecycle
<1>8. ~Shows(s)
  <2> SUFFICES ASSUME Shows(s) PROVE FALSE
    OBVIOUS
  <2>1. PICK g \in Games : rt[g].c # 0 /\ cmds[rt[g].c].sid = s
    BY DEF ShownInv, PromotedHasRuntime, Shows
  <2>2. Live(cmds, rt[g].c) /\ cmds[rt[g].c].type = "start_game" /\ cmds[rt[g].c].game = g
    BY <2>1, Known DEF RuntimesOK
  <2>3. g = JobGame
    BY <1>2, <1>7, <2>1, <2>2, NamesSession DEF Lifecycle
  <2> QED
    BY <1>2, <2>1, <2>3 DEF NoRuntime
<1>9. Untold'
  <2>1. ~Shows(s)'
    BY <1>3, <1>8
  <2> QED
    BY <1>1, <1>4, <1>7, <2>1 DEF Untold, Shows
<1> QED
  BY <1>6, <1>9 DEF ShownInv

LEMMA PollShown ==
  ASSUME HostInv, ShownInv, Allowed, NEW fate \in Fates, PollReply(fate)
  PROVE  ShownInv'
<1>1. Poll(proc) /\ proc \in ran /\ rt' = rt /\ job.phase = "poll"
  BY DEF PollReply, HostInv, BootsOK
<1>2. \A s \in SessIds : Shows(s)' => Shows(s)
  BY <1>1, Polling, QuietShows DEF Poll
<1>3. job'.phase \in {"poll", "reap", "begin"}
  <2>1. Idle \in [phase : {"poll"}, c : {0}, k : {0}, tries : {0}, next : {"reap"}, todo : {{}}]
    BY DEF Idle
  <2> DEFINE given == {c \in CmdIds : cmds'[c].attempts > cmds[c].attempts}
             d == CHOOSE c \in given : TRUE
             k == cmds'[d].attempts
  <2>2. job' = IF fate # "ok" THEN job
               ELSE IF given = {} THEN Returned(rt)
               ELSE [Idle EXCEPT !.phase = "begin", !.c = d, !.k = k]
    BY DEF PollReply
  <2> HIDE DEF k, d, given
  <2>3. [Idle EXCEPT !.phase = "begin", !.c = d, !.k = k].phase = "begin"
    BY <2>1
  <2> QED
    BY <1>1, <2>2, <2>3, Returns
<1> QED
  BY <1>1, <1>2, <1>3, ShownKeeps

LEMMA ReportShown ==
  ASSUME HostInv, ShownInv, Allowed, NEW fate \in Fates, Report(fate)
  PROVE  ShownInv'
<1>1. rt' = rt /\ job'.phase = "reap" /\ UNCHANGED <<sess, boot, proc>>
  BY Returns DEF Report, Result, vars
<1> QED
  BY <1>1, ShownKeeps DEF Shows

\* Who was reported dead, or is over, is not shown.
LEMMA DeadIsNotShown ==
  ASSUME HostInv, NEW s \in SessIds, WorkerDeadCall(s, "ok")
  PROVE  ~Shows(s)'
<1>1. CASE sess[s].status \in Active
  <2>1. WorkerDead(s) /\ sess \in [SessIds -> Session] /\ sess[s] \in Session
    BY <1>1 DEF WorkerDeadCall, HostInv, QueueInv, Tables, TypeOK
  <2>2. sess'[s].status = "ended"
    BY <2>1 DEF WorkerDead, Session
  <2> QED
    BY <2>2 DEF Shows
<1>2. CASE sess[s].status \notin Active
  <2>1. sess' = sess
    BY <1>2 DEF WorkerDeadCall, vars
  <2> QED
    BY <1>2, <2>1 DEF Shows, Active, Stuck
<1> QED
  BY <1>1, <1>2

LEMMA TellingShows ==
  ASSUME HostInv, NEW r, NEW fate, WorkerDeadCall(r, fate), NEW s \in SessIds, Shows(s)'
  PROVE  Shows(s)
<1>1. Good /\ Quiet
  BY Telling
<1>2. UNCHANGED <<boot, proc>>
  BY DEF WorkerDeadCall, WorkerDead, vars
<1> QED
  BY <1>1, <1>2, QuietShows

\* The entry of a runtime is removed when its session was reported dead.
LEMMA ReportedDeadShown ==
  ASSUME HostInv, ShownInv, Allowed, NEW g \in Games, NEW fate,
         WorkerDeadCall(cmds[rt[g].c].sid, fate), rt[g].c # 0,
         rt' = rt \/ (fate = "ok" /\ Changed(rt, rt', g, NoRuntime)),
         job'.phase \notin {"notify", "cleanup"}
  PROVE  ShownInv'
<1>1. \A s \in SessIds : Shows(s)' => Shows(s)
  BY TellingShows
<1>2. \A h \in Games : rt[h].c # 0 =>
         \/ rt'[h].c = rt[h].c
         \/ \A s \in SessIds : s = cmds[rt[h].c].sid => ~Shows(s)'
  BY DeadIsNotShown DEF Changed
<1> QED
  BY <1>1, <1>2, ShownKeeps

LEMMA ReapShown ==
  ASSUME HostInv, ShownInv, Allowed, NEW g \in Games, NEW fate \in Fates, Reap(g, fate)
  PROVE  ShownInv'
<1> DEFINE r == IF fate = "ok" THEN NoRuntime ELSE rt[g]
<1>1. /\ job.phase = "reap" /\ g \in job.todo /\ WorkerDeadCall(cmds[rt[g].c].sid, fate)
      /\ rt' = [rt EXCEPT ![g] = r] /\ job' = [job EXCEPT !.todo = @ \ {g}]
  BY DEF Reap
<1>2. rt[g].c # 0
  BY <1>1, Known DEF JobOK, RuntimesOK, NoRuntime
<1>3. job'.phase = "reap"
  BY <1>1, Known DEF HostTypes
<1>4. CASE fate = "ok"
  <2>1. Changed(rt, rt', g, r) /\ r = NoRuntime
    BY <1>1, <1>4, Writing
  <2> HIDE DEF r
  <2> QED
    BY <1>1, <1>2, <1>3, <1>4, <2>1, ReportedDeadShown
<1>5. CASE fate # "ok"
  <2>1. rt' = rt
    BY <1>1, <1>5, Known DEF HostTypes
  <2> QED
    BY <1>1, <1>2, <1>3, <2>1, ReportedDeadShown
<1> QED
  BY <1>4, <1>5

LEMMA ReplacedShown ==
  ASSUME HostInv, ShownInv, Allowed, NEW fate \in Fates, Replaced(fate)
  PROVE  ShownInv'
<1>1. /\ job.phase = "replace" /\ WorkerDeadCall(cmds[rt[JobGame].c].sid, fate)
      /\ rt[JobGame].state = "stopped"
  BY DEF Replaced
<1>2. JobGame \in Games
  BY <1>1, JobRow
<1>3. rt[JobGame].c # 0
  BY <1>1, <1>2, Known DEF RuntimesOK, NoRuntime
<1>4. CASE fate = "ok"
  <2>1. rt' = [rt EXCEPT ![JobGame] = NoRuntime] /\ job' = GoTo("spawn")
    BY <1>4 DEF Replaced
  <2>2. Changed(rt, rt', JobGame, NoRuntime)
    BY <1>2, <2>1, Writing
  <2>3. job'.phase = "spawn"
    BY <2>1, Going, Known DEF Phases
  <2> QED
    BY <1>1, <1>2, <1>3, <1>4, <2>2, <2>3, ReportedDeadShown
<1>5. CASE fate # "ok"
  <2>1. rt' = rt /\ job'.phase = "reap"
    BY <1>5, Returns DEF Replaced
  <2> QED
    BY <1>1, <1>2, <1>3, <2>1, ReportedDeadShown
<1> QED
  BY <1>4, <1>5

\* A start that is torn down had told nobody.
LEMMA CleanupShown ==
  ASSUME HostInv, ShownInv, Allowed, CleanupFailedStart
  PROVE  ShownInv'
<1> DEFINE r == IF rt[JobGame].state = "stopped" THEN NoRuntime ELSE rt[JobGame]
<1>1. /\ UNCHANGED vars /\ job.phase = "cleanup"
      /\ rt' = [rt EXCEPT ![JobGame] = r] /\ job' = After(job.next, rt')
  BY DEF CleanupFailedStart
<1>2. /\ JobGame \in Games /\ cmds[job.c].type = "start_game" /\ Matching(cmds, rt, job)
      /\ job.next \in {"report", "reap"}
  BY <1>1, JobRow, Known DEF JobOK, HostTypes
<1>3. Changed(rt, rt', JobGame, r)
  BY <1>1, <1>2, Writing
<1>4. \A s \in SessIds : Shows(s)' => Shows(s)
  BY <1>1, AloneShows
<1>5. \A s \in SessIds : s = cmds[rt[JobGame].c].sid => ~Shows(s)'
  BY <1>1, <1>2, <1>4 DEF ShownInv, Untold, Matching, Mine, JobGame
<1>6. \A g \in Games : rt[g].c # 0 =>
         \/ rt'[g].c = rt[g].c
         \/ \A s \in SessIds : s = cmds[rt[g].c].sid => ~Shows(s)'
  BY <1>3, <1>5 DEF Changed
<1>7. job'.phase \in {"report", "reap"}
  <2>1. job' = Returned(rt') \/ job' = GoTo("report")
    BY <1>1, <1>2 DEF After
  <2> QED
    BY <2>1, Returns, Going, Known DEF Phases
<1> QED
  BY <1>4, <1>6, <1>7, ShownKeeps

\* A stop that was confirmed ended its session.
LEMMA NotifyStopShown ==
  ASSUME HostInv, ShownInv, Allowed, NEW fate \in Fates, NotifyStopTry(fate)
  PROVE  ShownInv'
<1> DEFINE held  == LeaseHeld(job.c, job.k)
           again == cmds[job.c].status = "completed" /\ sess[cmds[job.c].sid].status \in Over
           done  == fate = "ok" /\ (held \/ again)
<1>1. /\ job.phase = "notify_stop" /\ job'.phase \in {"notify_stop", "reap"}
      /\ NotifyStop(job.c, job.k) \/ UNCHANGED vars
  BY StopTold DEF NotifyStopTry
<1>2. /\ JobGame \in Games /\ cmds[job.c].type = "stop_game" /\ Live(cmds, job.c)
      /\ sess \in [SessIds -> Session]
  BY <1>1, JobRow, Known DEF JobOK, HostInv, QueueInv, Tables, TypeOK
<1>3. PICK u \in SessIds : u = cmds[job.c].sid
  BY <1>2, NamesSession DEF Lifecycle
<1>4. NotifyStop(job.c, job.k) =>
        /\ sess'[u].status \in Over
        /\ \A s \in SessIds : s # u => sess'[s] = sess[s]
        /\ UNCHANGED <<boot, proc>>
  <2> SUFFICES ASSUME NotifyStop(job.c, job.k)
               PROVE  /\ sess'[u].status \in Over
                      /\ \A s \in SessIds : s # u => sess'[s] = sess[s]
                      /\ UNCHANGED <<boot, proc>>
    OBVIOUS
  <2>1. /\ sess' = IF sess[u].status \in Over THEN sess
                   ELSE [sess EXCEPT ![u].status = "ended", ![u].stale = FALSE]
        /\ UNCHANGED <<boot, proc>>
    BY <1>3 DEF NotifyStop
  <2>2. sess[u] \in Session
    BY <1>2
  <2> QED
    BY <1>2, <2>1, <2>2 DEF Session, Over
<1>5. "ready" \notin Over /\ "connected" \notin Over
  BY DEF Over
<1>6. \A s \in SessIds : Shows(s)' => Shows(s)
  BY <1>1, <1>4, <1>5, AloneShows DEF Shows
<1>7. CASE ~(done /\ Matches)
  <2>1. rt' = rt
    BY <1>2, <1>7, Known DEF NotifyStopTry, HostTypes
  <2> QED
    BY <1>1, <1>6, <2>1, ShownKeeps
<1>8. CASE done /\ Matches
  <2>1. rt' = [rt EXCEPT ![JobGame] = NoRuntime]
    BY <1>8 DEF NotifyStopTry
  <2>2. Changed(rt, rt', JobGame, NoRuntime)
    BY <1>2, <2>1, Writing
  <2>3. sess'[u].status \in Over
    <3>1. CASE held
      BY <1>4, <1>8, <3>1 DEF NotifyStopTry
    <3>2. CASE ~held
      BY <1>3, <1>8, <3>2 DEF NotifyStopTry, vars
    <3> QED
      BY <3>1, <3>2
  <2>4. cmds[rt[JobGame].c].sid = u
    BY <1>3, <1>8 DEF Matches
  <2>5. ~Shows(u)'
    BY <1>5, <2>3 DEF Shows
  <2>6. \A g \in Games : rt[g].c # 0 =>
           \/ rt'[g].c = rt[g].c
           \/ \A s \in SessIds : s = cmds[rt[g].c].sid => ~Shows(s)'
    BY <2>2, <2>4, <2>5 DEF Changed
  <2> QED
    BY <1>1, <1>6, <2>6, ShownKeeps
<1> QED
  BY <1>7, <1>8

\* The one step that shows a session: its runtime is there.
LEMMA NotifyShown ==
  ASSUME HostInv, ShownInv, Allowed, job.phase = "notify", NEW sdp \in BOOLEAN,
         NotifyGame(job.c, job.k, sdp), rt' = rt, job'.phase = "reap"
  PROVE  ShownInv'
<1>1. /\ JobGame \in Games /\ cmds[job.c].type \in Lifecycle /\ Live(cmds, job.c)
      /\ Matching(cmds, rt, job)
  BY JobRow, Known DEF JobOK, Lifecycle
<1>2. PICK u \in SessIds : u = cmds[job.c].sid
  BY <1>1, NamesSession
<1>3. \A s \in SessIds : s # u => sess'[s] = sess[s]
  <2>1. sess' = [sess EXCEPT ![u].status = NotifyTarget(sess[u].status, sdp), ![u].stale = FALSE]
    BY <1>2 DEF NotifyGame
  <2>2. sess \in [SessIds -> Session]
    BY DEF HostInv, QueueInv, Tables, TypeOK
  <2> QED
    BY <2>1, <2>2
<1>4. UNCHANGED <<boot, proc>>
  BY DEF NotifyGame
<1>5. Later(cmds, cmds')
  BY TablesLater DEF Allowed, HostGood
<1>6. PromotedHasRuntime'
  <2> SUFFICES ASSUME NEW s \in SessIds, Shows(s)'
               PROVE  \E g \in Games : rt'[g].c # 0 /\ cmds'[rt'[g].c].sid = s
    BY DEF PromotedHasRuntime, Shows
  <2>1. \E g \in Games : rt[g].c # 0 /\ cmds[rt[g].c].sid = s
    <3>1. CASE s = u
      BY <1>1, <1>2, <3>1 DEF Matching, Mine, JobGame
    <3>2. CASE s # u
      BY <1>3, <1>4, <3>2 DEF ShownInv, PromotedHasRuntime, Shows
    <3> QED
      BY <3>1, <3>2
  <2>2. PICK g \in Games : rt[g].c # 0 /\ cmds[rt[g].c].sid = s
    BY <2>1
  <2>3. cmds'[rt[g].c].sid = s
    BY <1>5, <2>2, Known DEF RuntimesOK, Later, Live
  <2> QED
    BY <2>2, <2>3
<1> QED
  BY <1>6 DEF ShownInv, Untold

LEMMA NotifyTryShown ==
  ASSUME ~LostReplies, HostInv, ShownInv, Allowed,
         NEW sdp \in BOOLEAN, NEW fate \in Fates, NotifyTry(sdp, fate)
  PROVE  ShownInv'
<1> DEFINE accepted == NotifyAccepted(job.c, job.k, sdp)
<1>1. job.phase = "notify" /\ fate \in {"ok", "request_lost"}
  BY DEF NotifyTry, Fates
<1>2. CASE fate = "ok" /\ accepted
  <2>1. NotifyGame(job.c, job.k, sdp) /\ rt' = rt /\ job'.phase = "reap"
    BY <1>2, Returns DEF NotifyTry
  <2> QED
    BY <1>1, <2>1, NotifyShown
<1>3. CASE ~(fate = "ok" /\ accepted)
  <2>1. UNCHANGED vars
    BY <1>1, <1>3 DEF NotifyTry
  <2>2. CASE AttemptLeft
    <3>1. rt' = rt /\ job' = [job EXCEPT !.tries = @ + 1]
      BY <1>3, <2>2 DEF NotifyTry
    <3>2. job'.c = job.c
      BY <3>1, Known DEF HostTypes
    <3> QED
      BY <1>1, <2>1, <3>1, <3>2, JobRow, AloneShown
  <2>3. CASE ~AttemptLeft
    <3>1. GiveUp("reap")
      BY <1>3, <2>3 DEF NotifyTry
    <3> QED
      BY <1>1, <2>1, <3>1, GiveUpShown
  <2> QED
    BY <2>2, <2>3
<1> QED
  BY <1>2, <1>3

LEMMA ShownStep ==
  ~LostReplies /\ HostInv /\ ShownInv /\ [HostNext]_allVars => ShownInv'
<1> SUFFICES ASSUME ~LostReplies, HostInv, ShownInv, [HostNext]_allVars PROVE ShownInv'
  OBVIOUS
<1>1. Allowed
  BY HostInvStep
<1>2. CASE LoopStep
  <2>1. CASE \/ Sleep \/ RunTask \/ StartBegin \/ ReplaceTimeout \/ StopBegin \/ StopWaited
             \/ \E next \in {"report", "reap"} : ExchangeFails(next)
    BY <1>1, <2>1, LoopAloneShown
  <2>2. CASE ~ \/ Sleep \/ RunTask \/ StartBegin \/ ReplaceTimeout \/ StopBegin \/ StopWaited
               \/ \E next \in {"report", "reap"} : ExchangeFails(next)
    BY <1>1, <1>2, <2>2, BootShown, PollShown, ReapShown, ReportShown, ReplacedShown,
       SpawnShown, NotifyTryShown, CleanupShown, NotifyStopShown, OfferShown DEF LoopStep
  <2> QED
    BY <2>1, <2>2
<1>3. CASE BesideStep
  BY <1>1, <1>3, BesideShown, BootShown DEF BesideStep
<1>4. CASE QueueStep
  BY <1>1, <1>4, BesideShown
<1>5. CASE UNCHANGED allVars
  <2>1. UNCHANGED vars /\ rt' = rt /\ job' = job
    BY <1>5 DEF allVars, hostVars
  <2>2. \A s \in SessIds : Shows(s)' => Shows(s)
    BY <2>1, AloneShows
  <2> QED
    BY <1>1, <2>1, <2>2, ShownKeeps
<1> QED
  BY <1>2, <1>3, <1>4, <1>5 DEF HostNext

\* When a request may get lost but no reply does, a session that is shown as
\* ready or connected has a runtime on the host that owns it, if only a
\* tombstone: whatever is torn down is torn down before the gateway was told,
\* or after it was told of the death.
THEOREM ShownHasRuntime == ~LostReplies => (HostSpec => []PromotedHasRuntime)
<1> SUFFICES ASSUME ~LostReplies PROVE HostSpec => []PromotedHasRuntime
  OBVIOUS
<1>1. HostInit => ShownInv
  <2> SUFFICES ASSUME HostInit PROVE ShownInv
    OBVIOUS
  <2>1. [Spawned(Owner, NoGame, 0) EXCEPT !.status = "none"].status = "none"
    BY DEF Spawned
  <2>2. \A s \in SessIds : sess[s].status = "none"
    BY <2>1 DEF HostInit, Init
  <2>3. job.phase = "poll"
    BY DEF HostInit, Idle
  <2> QED
    BY <2>2, <2>3 DEF ShownInv, PromotedHasRuntime, Untold
<1>2. HostInv /\ ShownInv /\ [HostNext]_allVars => ShownInv'
  BY ShownStep
<1>3. ShownInv => PromotedHasRuntime
  BY DEF ShownInv
<1> QED
  BY <1>1, <1>2, <1>3, HostInvHolds, PTL DEF HostSpec
=============================================================================
