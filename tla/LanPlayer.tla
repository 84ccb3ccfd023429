----------------------------- MODULE LanPlayer -----------------------------
(* The LAN player of a stand-alone sc-server (player_server.rs): a page that
   launches and closes games, the handlers of POST /api/launch and /api/stop,
   the cleanup task every session has, and the download of missing cores they
   share (core_bridge.rs, ensure_core).

   Every launch has a session of its own.  A handler runs in the task of its
   HTTP connection and is dropped at its next await when the page goes away.
   What happens inside a core is in CoreBridge; here it loads, runs, stops. *)
EXTENDS Naturals, FiniteSets

CONSTANT MaxLaunches                    \* launches of the page
ASSUME LaunchesAssumption == MaxLaunches \in Nat

Launches == 1..MaxLaunches

VARIABLES
  current,    \* the launch whose generation is launchGeneration; 0: none
  active,     \* activeSessionId; 0: null
  fetch,      \* the page's side of each launch
  req,        \* the handler of each launch
  stop,       \* the stop request for each session
  sessions,   \* AppState.sessions
  cancelled,  \* sessions whose token is cancelled
  core,       \* the core of each session
  ice,        \* its peer connection
  cleanup,    \* register_local_session_cleanup's task
  inflight,   \* the core's name is in DOWNLOADING
  installed   \* the core file exists

tab      == <<current, active, fetch>>
download == <<inflight, installed>>
vars     == <<tab, req, stop, sessions, cancelled, core, ice, cleanup, download>>

Fetches == {"none", "offer", "sent", "done", "lost"}
Running == {"core", "download", "wait", "build", "load", "exchange", "gather", "failing"}
Stages  == Running \cup {"none", "ready", "error", "dropped"}

Init ==
  /\ current = 0 /\ active = 0
  /\ fetch = [l \in Launches |-> "none"] /\ req = [l \in Launches |-> "none"]
  /\ stop = [l \in Launches |-> "none"]
  /\ sessions = {} /\ cancelled = {}
  /\ core = [l \in Launches |-> "none"] /\ ice = [l \in Launches |-> "none"]
  /\ cleanup = [l \in Launches |-> "off"]
  /\ inflight = FALSE /\ installed \in BOOLEAN

-----------------------------------------------------------------------------
(* The page *)

\* stopSession: nothing is sent without an id, or twice.
Stopping(ls) ==
  stop' = [l \in Launches |-> IF l \in ls /\ stop[l] = "none" THEN "sent" ELSE stop[l]]

\* The generation counts on instead of naming a launch.
ClosePlayerCounting ==
  /\ current # 0
  /\ current' = current + 1 /\ active' = 0 /\ Stopping({active})
  /\ UNCHANGED <<fetch, req, sessions, cancelled, core, ice, cleanup, download>>

\* closePlayer ends the generation, closes the connection and stops the active game.
ClosePlayer ==
  /\ current # 0
  /\ current' = 0 /\ active' = 0 /\ Stopping({active})
  /\ UNCHANGED <<fetch, req, sessions, cancelled, core, ice, cleanup, download>>

\* The buttons are disabled while a launch is pending.
LaunchGame(l) ==
  /\ current # 0 => fetch[current] = "done"
  /\ fetch[l] = "none" /\ \A k \in Launches : k < l => fetch[k] # "none"
  /\ current' = l /\ active' = 0 /\ Stopping({active})
  /\ fetch' = [fetch EXCEPT ![l] = "offer"]
  /\ UNCHANGED <<req, sessions, cancelled, core, ice, cleanup, download>>

\* After createOffer and waitForIce the request is sent, whatever was closed meanwhile;
\* on a closed connection one of the calls may throw instead.
SendLaunch(l) ==
  /\ fetch[l] = "offer"
  /\ \/ fetch' = [fetch EXCEPT ![l] = "sent"] /\ req' = [req EXCEPT ![l] = "core"]
     \/ current # l /\ fetch' = [fetch EXCEPT ![l] = "done"] /\ UNCHANGED req
  /\ UNCHANGED <<current, active, stop, sessions, cancelled, core, ice, cleanup, download>>

\* The answer of a stale generation is stopped, that of the current one is played
\* (or stopped too, if its SDP does not apply).
Played(l) == active' = l /\ UNCHANGED stop
Answered(l) ==
  /\ fetch[l] = "sent" /\ req[l] \in {"ready", "error"}
  /\ fetch' = [fetch EXCEPT ![l] = "done"]
  /\ \/ req[l] = "ready" /\ current = l /\ Played(l)
     \/ req[l] = "ready" /\ Stopping({l}) /\ UNCHANGED active
     \/ req[l] = "error" /\ UNCHANGED <<stop, active>>
  /\ UNCHANGED <<current, req, sessions, cancelled, core, ice, cleanup, download>>

\* pagehide stops the active game; the requests of the page are lost with it.  The launches
\* that follow are those of the page that is loaded next.
PageHide ==
  /\ current' = 0 /\ active' = 0 /\ Stopping({active})
  /\ fetch' = [l \in Launches |-> IF fetch[l] \in {"offer", "sent"} THEN "lost" ELSE fetch[l]]
  /\ UNCHANGED <<req, sessions, cancelled, core, ice, cleanup, download>>

-----------------------------------------------------------------------------
(* ensure_core *)

\* The file, a download under way, or a download of one's own.
FindCore(l) ==
  /\ req[l] = "core"
  /\ \/ installed /\ req' = [req EXCEPT ![l] = "build"] /\ UNCHANGED inflight
     \/ ~installed /\ inflight /\ req' = [req EXCEPT ![l] = "wait"] /\ UNCHANGED inflight
     \/ ~installed /\ ~inflight /\ req' = [req EXCEPT ![l] = "download"] /\ inflight' = TRUE
     \/ req' = [req EXCEPT ![l] = "error"] /\ UNCHANGED inflight  \* no such game, no SDP
  /\ UNCHANGED <<tab, stop, sessions, cancelled, core, ice, cleanup, installed>>

\* download_and_extract writes a temporary file and renames it.
DownloadCore(l) ==
  /\ req[l] = "download" /\ inflight' = FALSE
  /\ \/ installed' = TRUE /\ req' = [req EXCEPT ![l] = "build"]
     \/ req' = [req EXCEPT ![l] = "error"] /\ UNCHANGED installed
  /\ UNCHANGED <<tab, stop, sessions, cancelled, core, ice, cleanup>>

\* A waiter looks for the file without a limit.
WaitForCorePatient(l) ==
  /\ req[l] = "wait" /\ installed
  /\ req' = [req EXCEPT ![l] = "build"]
  /\ UNCHANGED <<tab, stop, sessions, cancelled, core, ice, cleanup, download>>

\* A waiter looks for the file once a second, for a minute.
WaitForCore(l) ==
  /\ req[l] = "wait"
  /\ req' = [req EXCEPT ![l] = IF installed THEN "build" ELSE "error"]
  /\ UNCHANGED <<tab, stop, sessions, cancelled, core, ice, cleanup, download>>

-----------------------------------------------------------------------------
(* launch_game *)

\* The session is listed and its cleanup registered before the core is loaded.
BuildSession(l) ==
  /\ req[l] = "build"
  /\ \/ /\ sessions' = sessions \cup {l} /\ cleanup' = [cleanup EXCEPT ![l] = "armed"]
        /\ core' = [core EXCEPT ![l] = "loading"] /\ ice' = [ice EXCEPT ![l] = "new"]
        /\ req' = [req EXCEPT ![l] = "load"]
     \/ req' = [req EXCEPT ![l] = "error"] /\ UNCHANGED <<sessions, core, ice, cleanup>>
  /\ UNCHANGED <<tab, stop, cancelled, download>>

\* shutdown_local_session, first half: cancel the token and close the connection.
BeginShutdown(l) ==
  /\ cancelled' = cancelled \cup {l}
  /\ ice' = [ice EXCEPT ![l] = "closed"]

LoadCore(l) ==
  /\ req[l] = "load"
  /\ \/ core' = [core EXCEPT ![l] = "running"] /\ req' = [req EXCEPT ![l] = "exchange"]
        /\ UNCHANGED <<cancelled, ice>>
     \/ core' = [core EXCEPT ![l] = "none"] /\ req' = [req EXCEPT ![l] = "failing"]
        /\ BeginShutdown(l)
  /\ UNCHANGED <<tab, stop, sessions, cleanup, download>>

\* exchange_sdp: ICE starts with the local description.
SetDescriptions(l) ==
  /\ req[l] = "exchange" /\ req' = [req EXCEPT ![l] = "gather"]
  /\ ice' = [ice EXCEPT ![l] = IF @ = "new" THEN "checking" ELSE @]
  /\ UNCHANGED cancelled

\* Candidates are gathered for a limited time, and a moment is left for the last.
Gathered(l) ==
  /\ req[l] = "gather" /\ req' = [req EXCEPT ![l] = "ready"]
  /\ UNCHANGED <<cancelled, ice>>

\* The offer cannot be parsed, a description is refused, or gathering times out.
ExchangeFails(l) ==
  /\ req[l] \in {"exchange", "gather"} /\ req' = [req EXCEPT ![l] = "failing"]
  /\ BeginShutdown(l)

ExchangeSdp(l) ==
  /\ SetDescriptions(l) \/ Gathered(l) \/ ExchangeFails(l)
  /\ UNCHANGED <<tab, stop, sessions, core, cleanup, download>>

CoreOver(l) == core[l] \in {"none", "stopped"}

\* shutdown_local_session, second half: the core is gone, or two seconds are over.
Waited(l, gone) == IF gone THEN CoreOver(l) ELSE core[l] = "running"

FailLaunch(l) ==
  /\ req[l] = "failing" /\ \E gone \in BOOLEAN : Waited(l, gone)
  /\ req' = [req EXCEPT ![l] = "error"]
  /\ UNCHANGED <<tab, stop, sessions, cancelled, core, ice, cleanup, download>>

\* The connection of a page that is gone is closed and its handler dropped: a download
\* stays announced, a loading core is killed by its guard, all else stays as it is.
DropHandler(l) ==
  /\ fetch[l] = "lost" /\ req[l] \in Running
  /\ req' = [req EXCEPT ![l] = "dropped"]
  /\ core' = [core EXCEPT ![l] = IF @ = "loading" THEN "none" ELSE @]
  /\ UNCHANGED <<tab, stop, sessions, cancelled, ice, cleanup, download>>

-----------------------------------------------------------------------------
(* stop_game and the cleanup task *)

StopBegin(l) ==
  /\ stop[l] = "sent"
  /\ \/ l \in sessions /\ stop' = [stop EXCEPT ![l] = "waiting"] /\ BeginShutdown(l)
     \/ l \notin sessions /\ stop' = [stop EXCEPT ![l] = "over"] /\ UNCHANGED <<cancelled, ice>>
  /\ UNCHANGED <<tab, req, sessions, core, cleanup, download>>

StopEnd(l) ==
  /\ stop[l] = "waiting"
  /\ \E gone \in BOOLEAN : /\ Waited(l, gone)
                           /\ sessions' = IF gone THEN sessions \ {l} ELSE sessions
  /\ stop' = [stop EXCEPT ![l] = "over"]
  /\ UNCHANGED <<tab, req, cancelled, core, ice, cleanup, download>>

CleanupBegin(l) ==
  /\ cleanup[l] = "armed" /\ l \in cancelled
  /\ cleanup' = [cleanup EXCEPT ![l] = "waiting"] /\ BeginShutdown(l)
  /\ UNCHANGED <<tab, req, stop, sessions, core, download>>

\* The entry is removed although the core missed the deadline.
CleanupEndAlways(l) ==
  /\ cleanup[l] = "waiting" /\ \E gone \in BOOLEAN : Waited(l, gone)
  /\ sessions' = sessions \ {l} /\ cleanup' = [cleanup EXCEPT ![l] = "over"]
  /\ UNCHANGED <<tab, req, stop, cancelled, core, ice, download>>

\* A session whose core missed the deadline is retained.
CleanupEnd(l) ==
  /\ cleanup[l] = "waiting"
  /\ \E gone \in BOOLEAN :
        /\ Waited(l, gone)
        /\ sessions' = IF gone THEN sessions \ {l} ELSE sessions
        /\ cleanup' = [cleanup EXCEPT ![l] = IF gone THEN "over" ELSE "retained"]
  /\ UNCHANGED <<tab, req, stop, cancelled, core, ice, download>>

-----------------------------------------------------------------------------
(* The session while it runs *)

\* The bridge of a cancelled session shuts its core down.
CoreStops(l) ==
  /\ core[l] = "running" /\ l \in cancelled
  /\ core' = [core EXCEPT ![l] = "stopped"]
  /\ UNCHANGED <<tab, req, stop, sessions, cancelled, ice, cleanup, download>>

\* A core dies, or the stream ends: either cancels the session.
SessionBreaks(l) ==
  /\ core[l] = "running" /\ l \notin cancelled
  /\ cancelled' = cancelled \cup {l}
  /\ \/ core' = [core EXCEPT ![l] = "stopped"]
     \/ req[l] = "ready" /\ UNCHANGED core
  /\ UNCHANGED <<tab, req, stop, sessions, ice, cleanup, download>>

\* The watcher reports the failure and leaves the session alone.
IceFailsQuietly(l) ==
  /\ ice[l] = "checking" /\ core[l] \in {"running", "stopped"}
  /\ ice' = [ice EXCEPT ![l] = "failed"]
  /\ UNCHANGED <<tab, req, stop, sessions, cancelled, core, cleanup, download>>

\* The watcher sees a failed connection without an open channel.
IceFails(l) ==
  /\ ice[l] = "checking" /\ core[l] \in {"running", "stopped"}
  /\ ice' = [ice EXCEPT ![l] = "failed"] /\ cancelled' = cancelled \cup {l}
  /\ UNCHANGED <<tab, req, stop, sessions, core, cleanup, download>>

Left(l) == current # l

Handler(l) == \/ FindCore(l) \/ DownloadCore(l) \/ WaitForCore(l) \/ BuildSession(l)
              \/ LoadCore(l) \/ ExchangeSdp(l) \/ FailLaunch(l)
Cleanup(l) == StopBegin(l) \/ StopEnd(l) \/ CleanupBegin(l) \/ CleanupEnd(l) \/ CoreStops(l)

Next ==
  \/ ClosePlayer \/ PageHide
  \/ \E l \in Launches :
        \/ LaunchGame(l) \/ SendLaunch(l) \/ Answered(l) \/ DropHandler(l)
        \/ Handler(l) \/ Cleanup(l) \/ SessionBreaks(l) \/ IceFails(l)

\* Tasks run, an open page handles its answers, and a connection the page has left fails.
Fairness ==
  \A l \in Launches :
     /\ WF_vars(Handler(l)) /\ WF_vars(DropHandler(l)) /\ WF_vars(Answered(l))
     /\ WF_vars(StopBegin(l) \/ StopEnd(l)) /\ WF_vars(CleanupBegin(l) \/ CleanupEnd(l))
     /\ WF_vars(CoreStops(l)) /\ WF_vars(Left(l) /\ IceFails(l))

Spec == Init /\ [][Next]_vars /\ Fairness

-----------------------------------------------------------------------------
TypeOK ==
  /\ current \in 0..MaxLaunches /\ active \in 0..MaxLaunches
  /\ fetch \in [Launches -> Fetches] /\ req \in [Launches -> Stages]
  /\ stop \in [Launches -> {"none", "sent", "waiting", "over"}]
  /\ sessions \subseteq Launches /\ cancelled \subseteq Launches
  /\ core \in [Launches -> {"none", "loading", "running", "stopped"}]
  /\ ice \in [Launches -> {"none", "new", "checking", "failed", "closed"}]
  /\ cleanup \in [Launches -> {"off", "armed", "waiting", "over", "retained"}]
  /\ inflight \in BOOLEAN /\ installed \in BOOLEAN

\* A core that loads or runs belongs to a listed session, so that it can be stopped:
\* neither a stop that timed out nor a cleanup that gave up removes the entry.
CoreIsListed == \A l \in Launches : core[l] \in {"loading", "running"} => l \in sessions

\* One download at a time writes the temporary file of a core, also after a handler
\* was dropped in the middle of one.
OneDownload == \A k, l \in Launches : req[k] = "download" /\ req[l] = "download" => k = l

\* Nobody waits for what nobody does: a core that loads has its handler, and neither a
\* stop nor a cleanup waits for it; a core that runs is cancelled or has a connection
\* that can still fail; a listed session has its cleanup task, or was retained by it.
NothingStrands ==
  \A l \in Launches :
     /\ core[l] = "loading" => req[l] = "load" /\ "waiting" \notin {stop[l], cleanup[l]}
     /\ core[l] = "running" => l \in cancelled \/ ice[l] \in {"new", "checking"}
     /\ l \in sessions => cleanup[l] \in {"armed", "waiting", "retained"}

\* Dropped handlers leave neither a core nor a download behind that nobody knows of, and
\* no task that waits in vain.
LaunchesTracked == CoreIsListed /\ OneDownload /\ NothingStrands

\* Every launch request is answered while its page waits, also one that waits for a
\* download nobody runs any more.
LaunchEnds == \A l \in Launches : req[l] \in Running ~> req[l] \notin Running

\* A game the page has left is stopped once its handler has started ICE: by the stop of a
\* stale answer, by pagehide, or by the watcher of the failed connection.
LeftGameEnds ==
  \A l \in Launches :
     core[l] = "running" /\ Left(l) /\ ice[l] # "new" ~> core[l] = "stopped"

\* A cancelled session leaves the list unless its core missed the deadline.
CancelledLeaves ==
  \A l \in Launches : l \in cancelled ~> l \notin sessions \/ cleanup[l] = "retained"

\* What is left or cancelled goes away.
GoesAway == LeftGameEnds /\ CancelledLeaves
=============================================================================
