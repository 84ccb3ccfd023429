------------------------------ MODULE Upgrade -------------------------------
(***************************************************************************)
(* The upgrade_server command: the preflight, the download, the            *)
(* replacement of the two installed binaries with its rollback, and the    *)
(* managed restart, one step per file operation.  The process may be told  *)
(* to end (SIGINT or SIGTERM), be killed, or lose any operation to an I/O  *)
(* error, and the report of the result its request or its reply.           *)
(***************************************************************************)
EXTENDS Naturals, FiniteSets

CONSTANT MaxUpgrades      \* bound: deliveries of upgrade_server

ASSUME UpgradeAssumption == MaxUpgrades \in Nat

Bins == {"sc-core", "sc-server"}

VARIABLES
  bin,        \* the installed version of each binary; there may be no sc-core
  staged,     \* .<name>.upgrade-<random> files of the current attempt
  backup,     \* .<name>.backup-<random>: the version each one keeps
  litter,     \* an earlier attempt's file is left in the directory
  unrolled,   \* a rollback of the core failed
  proc,       \* the daemon: running, or how it ended
  unit,       \* it is the main process of a unit that restarts on failure
  image,      \* the version it runs; current_exe() names it while installed
  job,        \* where upgrade::run stands in the command loop
  guard,      \* UpgradeSignalGuard is in place
  signal,     \* PENDING_UPGRADE_SIGNAL
  told,       \* the result the gateway took; "unheard": done, and its reply was lost
  playing,    \* the command loop's sessions is not empty
  asked       \* deliveries so far

upgradeVars == <<bin, staged, backup, litter, unrolled, proc, unit, image, job,
                 guard, signal, told, playing, asked>>

Jobs == {"idle", "staging", "core backup", "server backup", "core", "server",
         "cleanup", "undo", "done", "failed", "leaving"}

NoBackup == [b \in Bins |-> "none"]

UpgradeInit ==
  /\ \E core \in {"none", "old"} : bin = [b \in Bins |-> IF b = "sc-core" THEN core ELSE "old"]
  /\ staged = {} /\ backup = NoBackup /\ litter = FALSE /\ unrolled = FALSE
  /\ proc = "on" /\ unit \in BOOLEAN /\ image = "old" /\ job = "idle"
  /\ guard = FALSE /\ signal = FALSE
  /\ told = "none" /\ playing = FALSE /\ asked = 0

Mixed == bin["sc-core"] \notin {"none", bin["sc-server"]}

KeepsFiles == UNCHANGED <<bin, staged, backup, litter, unrolled>>
KeepsRest  == UNCHANGED <<proc, unit, image, playing, asked>>

On(step) == proc = "on" /\ job = step

-----------------------------------------------------------------------------
(* The command loop.                                                       *)

\* shown: systemctl answered.  current_exe() has another name once its file was
\* replaced ("(deleted)").
Deliver(shown) ==
  /\ On("idle") /\ asked < MaxUpgrades
  /\ asked' = asked + 1
  /\ job' = IF ~playing /\ shown /\ unit /\ image = bin["sc-server"] THEN "staging" ELSE "failed"
  /\ told' = "none"
  /\ KeepsFiles /\ UNCHANGED <<proc, unit, image, guard, signal, playing>>

\* remove_file, whose own failure is ignored.
MayLeave == litter' \in {litter, TRUE}

\* Both downloads are verified, then both are staged; a failure removes what was
\* staged.  UpgradeSignalGuard::block ends the step.
Stage(ok) ==
  /\ On("staging")
  /\ IF ok THEN staged' = Bins /\ job' = "core backup" /\ guard' = TRUE /\ UNCHANGED litter
           ELSE job' = "failed" /\ MayLeave /\ UNCHANGED <<staged, guard>>
  /\ KeepsRest /\ UNCHANGED <<bin, backup, unrolled, signal, told>>

\* run() returns: its guard is dropped and a deferred signal raised again, which
\* ends the process now or, where a handler asks for a shutdown, later.
Returns(step) ==
  /\ guard' = FALSE /\ signal' = FALSE
  /\ \/ job' = step /\ UNCHANGED proc
     \/ signal /\ proc' = "signalled" /\ job' = "idle"

\* backup_binary copies what there is; a copy that fails may leave a part.  The
\* staged pair is not removed on these paths.
BackUpCore(ok) ==
  /\ On("core backup") /\ (bin["sc-core"] = "none" => ok)
  /\ IF ok THEN /\ backup' = [backup EXCEPT !["sc-core"] = bin["sc-core"]] /\ job' = "server backup"
                /\ UNCHANGED <<staged, litter, guard, signal, proc>>
           ELSE /\ staged' = {} /\ litter' = TRUE
                /\ Returns("failed") /\ UNCHANGED backup
  /\ UNCHANGED <<bin, unrolled, unit, image, told, playing, asked>>

BackUpServer(ok) ==
  /\ On("server backup")
  /\ IF ok THEN /\ backup' = bin /\ job' = "core"
                /\ UNCHANGED <<staged, litter, guard, signal, proc>>
           ELSE /\ staged' = {} /\ backup' = NoBackup /\ litter' = TRUE
                /\ Returns("failed")
  /\ UNCHANGED <<bin, unrolled, unit, image, told, playing, asked>>

RenameCore(ok) ==
  /\ On("core")
  /\ IF ok THEN /\ bin' = [bin EXCEPT !["sc-core"] = "new"]
                /\ staged' = staged \ {"sc-core"} /\ job' = "server"
                /\ UNCHANGED <<backup, litter, guard, signal, proc>>
           ELSE /\ staged' = {} /\ backup' = NoBackup /\ litter' = TRUE
                /\ Returns("failed") /\ UNCHANGED bin
  /\ UNCHANGED <<unrolled, unit, image, told, playing, asked>>

RenameServer(ok) ==
  /\ On("server")
  /\ IF ok THEN /\ bin' = [bin EXCEPT !["sc-server"] = "new"]
                /\ staged' = staged \ {"sc-server"} /\ job' = "cleanup"
           ELSE job' = "undo" /\ UNCHANGED <<bin, staged>>
  /\ KeepsRest /\ UNCHANGED <<backup, litter, unrolled, guard, signal, told>>

\* Mutant of Undo: only the staged server is removed.
UndoNothing(ok) ==
  /\ On("undo")
  /\ staged' = {} /\ backup' = NoBackup
  /\ Returns("failed")
  /\ UNCHANGED <<bin, litter, unrolled, unit, image, told, playing, asked>>

\* rollback_core renames the backup over the new core, or removes the core where
\* there was none; either can fail as well, and a backup is left then.
Undo(ok) ==
  /\ On("undo")
  /\ bin' = IF ok THEN [bin EXCEPT !["sc-core"] = backup["sc-core"]] ELSE bin
  /\ unrolled' = (unrolled \/ ~ok)
  /\ IF ok \/ backup["sc-core"] = "none" THEN MayLeave ELSE litter' = TRUE
  /\ staged' = {} /\ backup' = NoBackup
  /\ Returns("failed")
  /\ UNCHANGED <<unit, image, told, playing, asked>>

CleanUp ==
  /\ On("cleanup")
  /\ backup' = NoBackup /\ MayLeave
  /\ Returns("done")
  /\ UNCHANGED <<bin, staged, unrolled, unit, image, told, playing, asked>>

\* What becomes of the report: nothing retries it.
Fates == {"answered", "reply lost", "not taken"}

Told(fate) == CASE fate = "not taken" -> told
                [] fate = "reply lost" /\ job = "done" -> "unheard"
                [] OTHER -> job

\* Mutant of Report: ManagedRestart::schedule is not called.
ReportAndStay(fate) ==
  /\ proc = "on" /\ job \in {"done", "failed"}
  /\ told' = Told(fate)
  /\ job' = "idle"
  /\ KeepsFiles /\ KeepsRest /\ UNCHANGED <<guard, signal>>

\* command_result; without its answer "binaries installed, but completion was not
\* acknowledged; refusing restart", also when the gateway did take the result.
Report(fate) ==
  /\ proc = "on" /\ job \in {"done", "failed"}
  /\ told' = Told(fate)
  /\ job' = IF fate = "answered" /\ job = "done" THEN "leaving" ELSE "idle"
  /\ KeepsFiles /\ KeepsRest /\ UNCHANGED <<guard, signal>>

\* ManagedRestart::schedule: the second is over.
Leave ==
  /\ On("leaving") /\ proc' = "restart" /\ job' = "idle"
  /\ KeepsFiles /\ UNCHANGED <<unit, image, guard, signal, told, playing, asked>>

-----------------------------------------------------------------------------
(* The rest of the process, and its end.                                   *)

\* The loop takes other commands between upgrades, and while the restart waits.
StartGame ==
  /\ proc = "on" /\ job \in {"idle", "leaving"} /\ ~playing
  /\ playing' = TRUE
  /\ KeepsFiles /\ UNCHANGED <<proc, unit, image, job, guard, signal, told, asked>>

StopGame ==
  /\ proc = "on" /\ job \in {"idle", "leaving"} /\ playing
  /\ playing' = FALSE
  /\ KeepsFiles /\ UNCHANGED <<proc, unit, image, job, guard, signal, told, asked>>

\* The first signal under the guard is remembered; without it the process ends.
Signal ==
  /\ proc = "on"
  /\ IF guard THEN signal' = TRUE /\ UNCHANGED <<proc, job>>
              ELSE proc' = "signalled" /\ job' = "idle" /\ UNCHANGED signal
  /\ KeepsFiles /\ UNCHANGED <<unit, image, guard, told, playing, asked>>

\* SIGKILL or a crash, at any point.
Kill ==
  /\ proc = "on" /\ proc' = "killed"
  /\ job' = "idle" /\ guard' = FALSE /\ signal' = FALSE
  /\ KeepsFiles /\ UNCHANGED <<unit, image, told, playing, asked>>

\* Restart=on-failure: the exit code of the exit timer and a kill count as a failure,
\* an end on SIGTERM or SIGINT does not.
UnitRestarts == unit /\ proc \in {"restart", "killed"}

\* The unit, or else the operator, who starts it the way it was started before.
Boot ==
  /\ proc # "on"
  /\ proc' = "on" /\ image' = bin["sc-server"]
  /\ litter' = (litter \/ staged # {} \/ backup # NoBackup)
  /\ staged' = {} /\ backup' = NoBackup /\ playing' = FALSE
  /\ UNCHANGED <<bin, unrolled, unit, job, guard, signal, told, asked>>

Installing(ok) ==
  Stage(ok) \/ BackUpCore(ok) \/ BackUpServer(ok) \/ RenameCore(ok)
  \/ RenameServer(ok) \/ Undo(ok)

Ends == Leave \/ Signal \/ Kill

Upgrading ==
  \/ \E ok \in BOOLEAN : Installing(ok)
  \/ \E fate \in Fates : Report(fate)
  \/ CleanUp

UpgradeNext ==
  \/ \E shown \in BOOLEAN : Deliver(shown)
  \/ Upgrading \/ StartGame \/ StopGame \/ Ends \/ Boot

\* run() does not wait for anything forever, the exit timer fires, and systemd
\* restarts the unit after a failure.  Nobody has to start a daemon that was stopped.
UpgradeFairness ==
  /\ WF_upgradeVars(Upgrading)
  /\ WF_upgradeVars(Leave)
  /\ WF_upgradeVars(UnitRestarts /\ Boot)

UpgradeSpec == UpgradeInit /\ [][UpgradeNext]_upgradeVars /\ UpgradeFairness

-----------------------------------------------------------------------------
(* Properties.                                                             *)

UpgradeTypeOK ==
  /\ bin \in [Bins -> {"none", "old", "new"}] /\ bin["sc-server"] # "none"
  /\ staged \subseteq Bins /\ backup \in [Bins -> {"none", "old", "new"}]
  /\ litter \in BOOLEAN /\ guard \in BOOLEAN /\ signal \in BOOLEAN
  /\ playing \in BOOLEAN /\ unrolled \in BOOLEAN /\ unit \in BOOLEAN
  /\ proc \in {"on", "restart", "signalled", "killed"}
  /\ image \in {"old", "new"}
  /\ job \in Jobs
  /\ told \in {"none", "done", "unheard", "failed"}
  /\ asked \in 0 .. MaxUpgrades

\* The two binaries are of one release whenever the installation is not between
\* its two renames: a failed step, a signal and a restart included.  Only a rollback
\* that fails too, which the error says, or a kill there mixes them, and a kill
\* leaves the files that tell.
PairMatches ==
  Mixed => unrolled \/ litter \/ (staged # {} /\ (job \in {"server", "undo"} \/ proc = "killed"))

\* The process leaves for a new version only when the gateway knows that the
\* update is done; otherwise the command would be delivered to it again.
RestartIsKnown == proc = "restart" => told = "done"

\* An update that the gateway takes for done is on the disk, both binaries of it,
\* and stays there, whether or not the host learns that the gateway knows.
ToldIsInstalled == told \in {"done", "unheard"} => \A b \in Bins : bin[b] = "new"

\* An update that was reported, with the gateway's answer, is what runs in the end,
\* a kill before the exit included, unless a signal stops the daemon first.  Without
\* the answer the old image may run on: the restart is refused and nothing retries.
UpdateTakesEffect ==
  (told = "done" /\ image # "new") ~> (image = "new" \/ proc = "signalled")

\* The gateway's view of an update and the host's agree, but for a lost reply.
UpdateIsTold == []RestartIsKnown /\ []ToldIsInstalled /\ UpdateTakesEffect
=============================================================================
