-------------------------- MODULE LanPlayer_proofs --------------------------
(* Theorems about LanPlayer, for any number of launches: the types, that
   dropped handlers leave neither a core nor a download behind, and that no
   task waits for something nobody does.

   CoreIsListed needs to know that a handler about to load a core finds it
   still loading: nothing but the handler itself ends that phase, and the
   entry of a session is removed only when its core is over.  OneDownload
   needs that a handler which downloads keeps the name in DOWNLOADING.
   NothingStrands needs the way of a stop: the page knows a launch only by its
   answer, so a session that is stopped, or cancelled otherwise, has loaded. *)
EXTENDS LanPlayer, TLAPS

\* The handler alone ends the phase in which its core loads.
LoaderHasCore == \A l \in Launches : req[l] = "load" => core[l] = "loading"

\* A download under way is announced.
DownloadAnnounced == \A l \in Launches : req[l] = "download" => inflight

LaunchInv == TypeOK /\ LoaderHasCore /\ CoreIsListed /\ DownloadAnnounced /\ OneDownload

-----------------------------------------------------------------------------
(* Types *)

LEMMA InitType == Init => TypeOK
  <1> SUFFICES ASSUME Init PROVE TypeOK
    OBVIOUS
  <1> USE LaunchesAssumption DEF Launches
  <1>1. inflight \in BOOLEAN /\ installed \in BOOLEAN
    BY DEF Init
  <1>2. /\ current \in 0..MaxLaunches /\ active \in 0..MaxLaunches
        /\ sessions \subseteq Launches /\ cancelled \subseteq Launches
    BY DEF Init
  <1>3. QED
    BY <1>1, <1>2 DEF Init, TypeOK, Fetches, Stages, Running

\* No step of the page, of a handler, of the cleanup or of the session leaves the types.
LEMMA StepType == TypeOK /\ [Next]_vars => TypeOK'
  <1> SUFFICES ASSUME TypeOK, [Next]_vars PROVE TypeOK'
    OBVIOUS
  <1>0. 0 \in 0..MaxLaunches /\ Launches \subseteq 0..MaxLaunches
    BY LaunchesAssumption DEF Launches
  <1> USE <1>0 DEF TypeOK, Fetches, Stages, Running, tab, download
  <1>1. CASE ClosePlayer
    BY <1>1 DEF ClosePlayer, Stopping
  <1>2. CASE PageHide
    BY <1>2 DEF PageHide, Stopping
  <1>3. ASSUME NEW l \in Launches, LaunchGame(l) PROVE TypeOK'
    BY <1>3 DEF LaunchGame, Stopping
  <1>4. ASSUME NEW l \in Launches, SendLaunch(l) PROVE TypeOK'
    BY <1>4 DEF SendLaunch
  <1>5. ASSUME NEW l \in Launches, Answered(l) PROVE TypeOK'
    BY <1>5 DEF Answered, Played, Stopping
  <1>6. ASSUME NEW l \in Launches, DropHandler(l) PROVE TypeOK'
    <2>1. req' \in [Launches -> Stages]
      BY <1>6 DEF DropHandler
    <2>2. core' \in [Launches -> {"none", "loading", "running", "stopped"}]
      BY <1>6 DEF DropHandler
    <2>3. QED
      BY <1>6, <2>1, <2>2 DEF DropHandler
  <1>7. ASSUME NEW l \in Launches, Handler(l) PROVE TypeOK'
    <2>1. CASE FindCore(l)
      BY <2>1 DEF FindCore
    <2>2. CASE DownloadCore(l)
      BY <2>2 DEF DownloadCore
    <2>3. CASE WaitForCore(l)
      BY <2>3 DEF WaitForCore
    <2>4. CASE BuildSession(l)
      <3>1. UNCHANGED <<current, active, fetch, stop, cancelled, inflight, installed>>
        BY <2>4 DEF BuildSession
      <3>2. CASE /\ sessions' = sessions \cup {l} /\ cleanup' = [cleanup EXCEPT ![l] = "armed"]
                 /\ core' = [core EXCEPT ![l] = "loading"] /\ ice' = [ice EXCEPT ![l] = "new"]
                 /\ req' = [req EXCEPT ![l] = "load"]
        <4>1. req' \in [Launches -> Stages] /\ sessions' \subseteq Launches
          BY <3>2
        <4>2. core' \in [Launches -> {"none", "loading", "running", "stopped"}]
          BY <3>2
        <4>3. ice' \in [Launches -> {"none", "new", "checking", "failed", "closed"}]
          BY <3>2
        <4>4. cleanup' \in [Launches -> {"off", "armed", "waiting", "over", "retained"}]
          BY <3>2
        <4>5. QED
          BY <3>1, <4>1, <4>2, <4>3, <4>4
      <3>3. CASE req' = [req EXCEPT ![l] = "error"] /\ UNCHANGED <<sessions, core, ice, cleanup>>
        BY <3>1, <3>3
      <3>4. QED
        BY <2>4, <3>2, <3>3 DEF BuildSession
    <2>5. CASE LoadCore(l)
      <3>1. UNCHANGED <<current, active, fetch, stop, sessions, cleanup, inflight, installed>>
        BY <2>5 DEF LoadCore
      <3>2. CASE /\ core' = [core EXCEPT ![l] = "running"] /\ req' = [req EXCEPT ![l] = "exchange"]
                 /\ UNCHANGED <<cancelled, ice>>
        BY <3>1, <3>2
      <3>3. CASE /\ core' = [core EXCEPT ![l] = "none"] /\ req' = [req EXCEPT ![l] = "failing"]
                 /\ BeginShutdown(l)
        <4>1. req' \in [Launches -> Stages] /\ cancelled' \subseteq Launches
          BY <3>3 DEF BeginShutdown
        <4>2. core' \in [Launches -> {"none", "loading", "running", "stopped"}]
          BY <3>3
        <4>3. ice' \in [Launches -> {"none", "new", "checking", "failed", "closed"}]
          BY <3>3 DEF BeginShutdown
        <4>4. QED
          BY <3>1, <4>1, <4>2, <4>3
      <3>4. QED
        BY <2>5, <3>2, <3>3 DEF LoadCore
    <2>6. CASE ExchangeSdp(l)
      <3>1. UNCHANGED <<tab, stop, sessions, core, cleanup, download>>
        BY <2>6 DEF ExchangeSdp
      <3>2. CASE SetDescriptions(l)
        BY <3>1, <3>2 DEF SetDescriptions
      <3>3. CASE Gathered(l)
        BY <3>1, <3>3 DEF Gathered
      <3>4. CASE ExchangeFails(l)
        BY <3>1, <3>4 DEF ExchangeFails, BeginShutdown
      <3>5. QED
        BY <2>6, <3>2, <3>3, <3>4 DEF ExchangeSdp
    <2>7. CASE FailLaunch(l)
      BY <2>7 DEF FailLaunch
    <2>8. QED
      BY <1>7, <2>1, <2>2, <2>3, <2>4, <2>5, <2>6, <2>7 DEF Handler
  <1>8. ASSUME NEW l \in Launches, Cleanup(l) PROVE TypeOK'
    <2>1. CASE StopBegin(l)
      <3>1. UNCHANGED <<tab, req, sessions, core, cleanup, download>>
        BY <2>1 DEF StopBegin
      <3>2. CASE stop' = [stop EXCEPT ![l] = "waiting"] /\ BeginShutdown(l)
        BY <3>1, <3>2 DEF BeginShutdown
      <3>3. CASE stop' = [stop EXCEPT ![l] = "over"] /\ UNCHANGED <<cancelled, ice>>
        BY <3>1, <3>3
      <3>4. QED
        BY <2>1, <3>2, <3>3 DEF StopBegin
    <2>2. CASE StopEnd(l)
      BY <2>2 DEF StopEnd
    <2>3. CASE CleanupBegin(l)
      <3>1. cleanup' \in [Launches -> {"off", "armed", "waiting", "over", "retained"}]
        BY <2>3 DEF CleanupBegin
      <3>2. /\ ice' \in [Launches -> {"none", "new", "checking", "failed", "closed"}]
            /\ cancelled' \subseteq Launches
        BY <2>3 DEF CleanupBegin, BeginShutdown
      <3>3. QED
        BY <2>3, <3>1, <3>2 DEF CleanupBegin
    <2>4. CASE CleanupEnd(l)
      <3>1. cleanup' \in [Launches -> {"off", "armed", "waiting", "over", "retained"}]
        BY <2>4 DEF CleanupEnd
      <3>2. sessions' \subseteq Launches
        BY <2>4 DEF CleanupEnd
      <3>3. QED
        BY <2>4, <3>1, <3>2 DEF CleanupEnd
    <2>5. CASE CoreStops(l)
      BY <2>5 DEF CoreStops
    <2>6. QED
      BY <1>8, <2>1, <2>2, <2>3, <2>4, <2>5 DEF Cleanup
  <1>9. ASSUME NEW l \in Launches, SessionBreaks(l) PROVE TypeOK'
    BY <1>9 DEF SessionBreaks
  <1>10. ASSUME NEW l \in Launches, IceFails(l) PROVE TypeOK'
    BY <1>10 DEF IceFails
  <1>11. CASE UNCHANGED vars
    BY <1>11 DEF vars
  <1>12. QED
    BY <1>1, <1>2, <1>3, <1>4, <1>5, <1>6, <1>7, <1>8, <1>9, <1>10, <1>11 DEF Next

\* LanPlayer keeps its types, whatever the number of launches.
THEOREM LanPlayerTypes == Spec => []TypeOK
  BY InitType, StepType, PTL DEF Spec

-----------------------------------------------------------------------------
(* Cores and downloads *)

\* The page and the watcher touch neither a handler's download, nor a core, nor the list.
LEMMA PageKeeps ==
  ASSUME UNCHANGED <<req, core, sessions, inflight>>, LaunchInv
  PROVE  (LoaderHasCore /\ CoreIsListed /\ DownloadAnnounced /\ OneDownload)'
  BY DEF LaunchInv, LoaderHasCore, CoreIsListed, DownloadAnnounced, OneDownload

\* Each step of a handler keeps the invariant.
LEMMA HandlerKeeps ==
  ASSUME LaunchInv, NEW l \in Launches, Handler(l)
  PROVE  (LoaderHasCore /\ CoreIsListed /\ DownloadAnnounced /\ OneDownload)'
  <1> USE DEF LaunchInv, TypeOK, LoaderHasCore, CoreIsListed, DownloadAnnounced, OneDownload,
              tab, download
  <1>1. CASE FindCore(l)
    BY <1>1 DEF FindCore
  <1>2. CASE DownloadCore(l)
    BY <1>2 DEF DownloadCore
  <1>3. CASE WaitForCore(l)
    BY <1>3 DEF WaitForCore
  <1>4. CASE BuildSession(l)
    <2>1. CASE UNCHANGED <<sessions, core>>
      BY <1>4, <2>1 DEF BuildSession
    <2>2. CASE sessions' = sessions \cup {l} /\ core' = [core EXCEPT ![l] = "loading"]
      BY <1>4, <2>2 DEF BuildSession
    <2>3. QED
      BY <1>4, <2>1, <2>2 DEF BuildSession
  <1>5. CASE LoadCore(l)
    BY <1>5 DEF LoadCore, BeginShutdown
  <1>6. CASE ExchangeSdp(l)
    BY <1>6 DEF ExchangeSdp, SetDescriptions, Gathered, ExchangeFails, BeginShutdown
  <1>7. CASE FailLaunch(l)
    BY <1>7 DEF FailLaunch
  <1>8. QED
    BY <1>1, <1>2, <1>3, <1>4, <1>5, <1>6, <1>7 DEF Handler

\* Neither does the end of a session: an entry goes only with a core that is over.
LEMMA CleanupKeeps ==
  ASSUME LaunchInv, NEW l \in Launches, Cleanup(l)
  PROVE  (LoaderHasCore /\ CoreIsListed /\ DownloadAnnounced /\ OneDownload)'
  <1> USE DEF LaunchInv, TypeOK, LoaderHasCore, CoreIsListed, DownloadAnnounced, OneDownload,
              tab, download
  <1>1. CASE StopBegin(l)
    BY <1>1 DEF StopBegin, BeginShutdown
  <1>2. CASE StopEnd(l)
    BY <1>2 DEF StopEnd, Waited, CoreOver
  <1>3. CASE CleanupBegin(l)
    BY <1>3 DEF CleanupBegin, BeginShutdown
  <1>4. CASE CleanupEnd(l)
    BY <1>4 DEF CleanupEnd, Waited, CoreOver
  <1>5. CASE CoreStops(l)
    BY <1>5 DEF CoreStops
  <1>6. QED
    BY <1>1, <1>2, <1>3, <1>4, <1>5 DEF Cleanup

LEMMA LaunchInvariant == Spec => []LaunchInv
  <1>1. Init => LaunchInv
    BY InitType DEF Init, LaunchInv, LoaderHasCore, CoreIsListed, DownloadAnnounced, OneDownload
  <1>2. LaunchInv /\ [Next]_vars => LaunchInv'
    <2> SUFFICES ASSUME LaunchInv, [Next]_vars PROVE LaunchInv'
      OBVIOUS
    <2> DEFINE Parts == LoaderHasCore /\ CoreIsListed /\ DownloadAnnounced /\ OneDownload
    <2>1. ASSUME ClosePlayer \/ PageHide PROVE Parts'
      BY <2>1, PageKeeps DEF ClosePlayer, PageHide, download
    <2>2. ASSUME NEW l \in Launches, LaunchGame(l) \/ Answered(l) \/ IceFails(l) PROVE Parts'
      BY <2>2, PageKeeps DEF LaunchGame, Answered, IceFails, download
    <2>3. ASSUME NEW l \in Launches, SendLaunch(l) PROVE Parts'
      BY <2>3 DEF SendLaunch, LaunchInv, TypeOK, LoaderHasCore, CoreIsListed,
                  DownloadAnnounced, OneDownload, download
    <2>4. ASSUME NEW l \in Launches, DropHandler(l) PROVE Parts'
      BY <2>4 DEF DropHandler, LaunchInv, TypeOK, LoaderHasCore, CoreIsListed,
                  DownloadAnnounced, OneDownload, download
    <2>5. ASSUME NEW l \in Launches, SessionBreaks(l) PROVE Parts'
      BY <2>5 DEF SessionBreaks, LaunchInv, TypeOK, LoaderHasCore, CoreIsListed,
                  DownloadAnnounced, OneDownload, download
    <2>6. ASSUME UNCHANGED vars PROVE Parts'
      BY <2>6, PageKeeps DEF vars, download
    <2>7. Parts'
      BY <2>1, <2>2, <2>3, <2>4, <2>5, <2>6, HandlerKeeps, CleanupKeeps DEF Next
    <2>8. QED
      BY <2>7, StepType DEF LaunchInv
  <1>3. QED
    BY <1>1, <1>2, PTL DEF Spec

-----------------------------------------------------------------------------
(* Ends *)

\* Stages in which a launch has no session yet.
Early == {"none", "core", "download", "wait", "build"}

\* What the page plays or stops was answered, so it has loaded; tasks end cancelled
\* sessions only; a session that is cancelled does not load any more.
EndsInOrder ==
  \A l \in Launches :
     /\ fetch[l] \in {"none", "offer"} => req[l] = "none"
     /\ active = l \/ stop[l] # "none" => req[l] = "ready"
     /\ req[l] \in Early => l \notin cancelled /\ core[l] = "none"
     /\ "waiting" \in {stop[l], cleanup[l]} => l \in cancelled
     /\ req[l] = "load" => l \notin cancelled /\ ice[l] = "new"
     /\ core[l] = "loading" <=> req[l] = "load"
     /\ core[l] = "running" => l \in cancelled \/ ice[l] \in {"new", "checking"}
     /\ l \in sessions => cleanup[l] \in {"armed", "waiting", "retained"}

\* The page stops only what it was answered.
LEMMA PageEnds ==
  ASSUME TypeOK, EndsInOrder, [Next]_vars,
         \/ ClosePlayer \/ PageHide \/ UNCHANGED vars
         \/ \E l \in Launches : LaunchGame(l) \/ SendLaunch(l) \/ Answered(l)
  PROVE  EndsInOrder'
  <1> USE DEF TypeOK, EndsInOrder, Early, tab, download
  <1>1. CASE ClosePlayer
    BY <1>1, LaunchesAssumption DEF ClosePlayer, Stopping, Launches
  <1>2. CASE PageHide
    BY <1>2, LaunchesAssumption DEF PageHide, Stopping, Launches
  <1>3. CASE UNCHANGED vars
    BY <1>3 DEF vars
  <1>4. ASSUME NEW l \in Launches, LaunchGame(l) PROVE EndsInOrder'
    BY <1>4, LaunchesAssumption DEF LaunchGame, Stopping, Launches
  <1>5. ASSUME NEW l \in Launches, SendLaunch(l) PROVE EndsInOrder'
    BY <1>5 DEF SendLaunch
  <1>6. ASSUME NEW l \in Launches, Answered(l) PROVE EndsInOrder'
    BY <1>6 DEF Answered, Played, Stopping
  <1>7. QED
    BY <1>1, <1>2, <1>3, <1>4, <1>5, <1>6

\* A handler cancels only a session whose load is over.
LEMMA HandlerEnds ==
  ASSUME TypeOK, EndsInOrder, NEW l \in Launches, Handler(l) \/ DropHandler(l)
  PROVE  EndsInOrder'
  <1> USE DEF TypeOK, EndsInOrder, Early, tab, download
  <1>1. CASE FindCore(l)
    BY <1>1 DEF FindCore
  <1>2. CASE DownloadCore(l)
    BY <1>2 DEF DownloadCore
  <1>3. CASE WaitForCore(l)
    BY <1>3 DEF WaitForCore
  <1>4. CASE BuildSession(l)
    <2>1. CASE UNCHANGED <<sessions, core, ice, cleanup>>
      BY <1>4, <2>1 DEF BuildSession
    <2>2. CASE /\ sessions' = sessions \cup {l} /\ cleanup' = [cleanup EXCEPT ![l] = "armed"]
               /\ core' = [core EXCEPT ![l] = "loading"] /\ ice' = [ice EXCEPT ![l] = "new"]
               /\ req' = [req EXCEPT ![l] = "load"]
      BY <1>4, <2>2 DEF BuildSession
    <2>3. QED
      BY <1>4, <2>1, <2>2 DEF BuildSession
  <1>5. CASE LoadCore(l)
    BY <1>5 DEF LoadCore, BeginShutdown
  <1>6. CASE ExchangeSdp(l)
    BY <1>6 DEF ExchangeSdp, SetDescriptions, Gathered, ExchangeFails, BeginShutdown
  <1>7. CASE FailLaunch(l)
    BY <1>7 DEF FailLaunch
  <1>8. CASE DropHandler(l)
    BY <1>8 DEF DropHandler, Running
  <1>9. QED
    BY <1>1, <1>2, <1>3, <1>4, <1>5, <1>6, <1>7, <1>8 DEF Handler

\* Whatever ends a session leaves it a cleanup task, or takes it off the list.
LEMMA CleanupEnds ==
  ASSUME TypeOK, EndsInOrder, NEW l \in Launches,
         Cleanup(l) \/ SessionBreaks(l) \/ IceFails(l)
  PROVE  EndsInOrder'
  <1> USE DEF TypeOK, EndsInOrder, Early, tab, download
  <1>1. CASE StopBegin(l)
    BY <1>1 DEF StopBegin, BeginShutdown
  <1>2. CASE StopEnd(l)
    BY <1>2 DEF StopEnd
  <1>3. CASE CleanupBegin(l)
    BY <1>3 DEF CleanupBegin, BeginShutdown
  <1>4. CASE CleanupEnd(l)
    BY <1>4 DEF CleanupEnd
  <1>5. CASE CoreStops(l)
    BY <1>5 DEF CoreStops
  <1>6. CASE SessionBreaks(l)
    BY <1>6 DEF SessionBreaks
  <1>7. CASE IceFails(l)
    BY <1>7 DEF IceFails
  <1>8. QED
    BY <1>1, <1>2, <1>3, <1>4, <1>5, <1>6, <1>7 DEF Cleanup

LEMMA EndsInOrderAlways == Spec => []EndsInOrder
  <1>1. Init => EndsInOrder
    BY LaunchesAssumption DEF Init, EndsInOrder, Launches, Early
  <1>2. TypeOK /\ EndsInOrder /\ [Next]_vars => EndsInOrder'
    <2> SUFFICES ASSUME TypeOK, EndsInOrder, [Next]_vars PROVE EndsInOrder'
      OBVIOUS
    <2>1. QED
      BY PageEnds, HandlerEnds, CleanupEnds DEF Next
  <1>3. QED
    BY <1>1, <1>2, LanPlayerTypes, PTL DEF Spec

\* No launch waits for what nobody does: a running core has somebody who ends it when its
\* page has left, a stop or a cleanup never waits for a core that still loads, and a
\* cancelled session has its cleanup task or was retained by it.
THEOREM NobodyStrands == Spec => []NothingStrands
  <1>1. EndsInOrder => NothingStrands
    BY DEF EndsInOrder, NothingStrands
  <1>2. QED
    BY <1>1, EndsInOrderAlways, PTL

\* A core that loads or runs can be found by a stop request, and a core's temporary file
\* has one writer, also after handlers were dropped and after cleanups that gave up.
THEOREM LaunchesAreTracked == Spec => []LaunchesTracked
  <1>1. LaunchInv /\ EndsInOrder => LaunchesTracked
    BY DEF LaunchInv, EndsInOrder, NothingStrands, LaunchesTracked
  <1>2. QED
    BY <1>1, LaunchInvariant, EndsInOrderAlways, PTL
=============================================================================
