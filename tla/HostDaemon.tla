----------------------------- MODULE HostDaemon -----------------------------
(***************************************************************************)
(* The daemon process around its disk: the serial command loop, which      *)
(* starts games with stacks of the pool and runs upgrades, the tasks that  *)
(* refill the pool, the LAN player, whose games the loop knows nothing of, *)
(* and the save pushes of the games that are played.  Every end of the     *)
(* process stops all of them at once; the disk keeps the saves and the     *)
(* binaries, the next process starts with a new pool.                      *)
(***************************************************************************)
EXTENDS PcPool, SaveStack, Upgrade

VARIABLE lan      \* the LAN player, a task of the same process, plays a game

allVars == <<poolVars, saveVars, upgradeVars, lan>>

DaemonInit == PoolInit /\ SaveInit /\ UpgradeInit /\ lan = FALSE

\* start_game waits in PcPool::acquire.
Acquiring == want \in {"dry", "wait", "notified", "woken"}

-----------------------------------------------------------------------------
Looping == proc = "on" /\ job \in {"idle", "leaving"}

\* handle_start_game away from the host's network: a game is played when a stack was
\* served, in the second between an update and the restart as well.  sdp_offer takes a
\* stack for a game that is played, and a launch may fail after it took one.
StartOrFail ==
  /\ Looping /\ (AcquireFast \/ AcquireWoken)
  /\ \/ want' = "served" /\ StartGame
     \/ UNCHANGED upgradeVars
  /\ UNCHANGED <<saveVars, lan>>

\* A player on the host's own network gets a connection that is built past the pool,
\* without relays: a game of the command loop like any other.
StartDirect ==
  /\ ~Acquiring /\ Looping /\ StartGame
  /\ UNCHANGED <<poolVars, saveVars, lan>>

\* launch_game of the LAN player and the end of its game, at any time: neither looks
\* at the command loop, and the loop's upgrade looks at neither.
LanGame ==
  /\ proc = "on" /\ lan' = ~lan
  /\ UNCHANGED <<poolVars, saveVars, upgradeVars>>

WaitForStack ==
  /\ Looping /\ (AcquireDry \/ Listen \/ AcquireTimeout)
  /\ UNCHANGED <<saveVars, upgradeVars, lan>>

Refill == proc = "on" /\ Replenish /\ UNCHANGED <<saveVars, upgradeVars, lan>>

\* A push that has begun goes on when the game is stopped.
Saving ==
  /\ proc = "on"
  /\ \/ \E p \in Players : PushStep(p) /\ (At(p, "idle") => playing \/ lan)
     \/ (playing \/ lan) /\ (LoadLatest \/ LoadListed)
     \/ LoadRead \/ LoadEnds
  /\ UNCHANGED <<poolVars, upgradeVars, lan>>

\* upgrade_server and stop_game are taken when no start_game waits.
Command ==
  /\ ~Acquiring
  /\ \/ \E shown \in BOOLEAN : Deliver(shown)
     \/ StopGame
  /\ UNCHANGED <<poolVars, saveVars, lan>>

\* A pool without tasks, permit and waiter, whose other builds failed or were not made.
PoolOf(n) ==
  /\ queue' = n /\ lost' = PoolSize - n
  /\ permit' = FALSE /\ spawned' = 0 /\ building' = 0 /\ want' = "none"
  /\ UNCHANGED ice

\* The pool, the pushes and the LAN player's games end with the process.
EndsWithProcess ==
  IF proc' = "on" THEN UNCHANGED <<poolVars, saveVars, lan>>
                  ELSE PoolOf(0) /\ SaveCrash /\ lan' = FALSE

UpgradeStep == Upgrading /\ EndsWithProcess

\* A signal under the guard is only remembered.
Die == Ends /\ EndsWithProcess

\* The next process: PcPool::new, and the saves as they are on disk.
Restart ==
  /\ Boot
  /\ \E n \in 0 .. PoolSize : (~Buildable(ice) => n = 0) /\ PoolOf(n)
  /\ UNCHANGED <<saveVars, lan>>

DaemonNext ==
  \/ StartOrFail \/ StartDirect \/ LanGame \/ WaitForStack \/ Refill \/ Saving
  \/ Command \/ UpgradeStep \/ Die \/ Restart

\* The loop and the runtime's tasks run, the exit timer fires, and systemd restarts
\* the unit after a failure.  Nothing obliges a player to save or to play, or an
\* operator to start a daemon that was stopped.
DaemonFairness ==
  /\ WF_allVars(Refill)
  /\ WF_allVars(UpgradeStep)
  /\ WF_allVars(Leave /\ EndsWithProcess)
  /\ WF_allVars(UnitRestarts /\ Restart)

DaemonSpec == DaemonInit /\ [][DaemonNext]_allVars /\ DaemonFairness

-----------------------------------------------------------------------------
\* No binary is replaced under a game of the command loop, or under one of its launches
\* that waits for its connection, until the result has been reported.  This is all that
\* "cannot update while a game session is active" comes to: the LAN player's games (lan)
\* are not looked at, and run on through the update.
InstallIsAlone ==
  job \in Jobs \ {"idle", "failed", "leaving"} => proc = "on" /\ ~playing /\ ~Acquiring

\* An empty pool fills up again while the process runs, as long as one of its builds has
\* not failed.
Restocked ==
  (queue = 0 /\ lost < PoolSize) ~> (queue > 0 \/ lost = PoolSize \/ proc # "on")

\* An update neither mixes the binaries nor meets a game of the command loop.
UpdateHolds == PairMatches /\ InstallIsAlone
=============================================================================
