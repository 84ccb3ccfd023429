---------------------------- MODULE SessionPeers ----------------------------
(***************************************************************************)
(* The peers of one running game session on the host (sc-server): the host *)
(* browser's peer connection and the generations that replace it, the list *)
(* of guests, the data-channel callbacks and ICE watchers of each of them, *)
(* the arcade claim, and the sdp_offer handlers that build and swap peer   *)
(* connections while all of this goes on.                                  *)
(*                                                                         *)
(* Callbacks and watchers run concurrently with the command loop, which    *)
(* handles one sdp_offer at a time.  A section under host_lifecycle or     *)
(* guest_lifecycle is one action, unless it awaits something in between or *)
(* reads what is written under the other lock; a handler that awaits a     *)
(* negotiation, the pool or the gateway is one action per await.           *)
(***************************************************************************)
EXTENDS Integers, FiniteSets

CONSTANTS
    Tokens,      \* peer tokens of guests
    Players,     \* those the gateway gave the role "player"
    MaxPcs,      \* bound on peer connections ever built
    MaxGuests,   \* MAX_ACTIVE_GUESTS
    None         \* no token: the host browser's own connections, no claim

ASSUME PeersAssumption ==
    /\ Players \subseteq Tokens
    /\ MaxPcs \in Nat \ {0} /\ MaxGuests \in Nat \ {0}
    /\ None \notin Tokens

VARIABLES
    npc,        \* how many peer connections were built
    who,        \* the peer token each was built for
    conn,       \* connection_state of each
    chan,       \* its data channel
    onclose,    \* channels whose on_close callback has not run yet
    host,       \* session.pc
    dc,         \* session.dc: the connection it belongs to, or 0
    connected,  \* session.host_connected
    authing,    \* an auth handler has stored session.dc and holds host_lifecycle
    resident,   \* session.resident
    cancelled,  \* session.cancel
    guests,     \* session.guests
    claimed,    \* session.claimed_peer
    pressing,   \* guest on_message handlers about to take the claim
    watch,      \* connections whose ICE watcher runs
    seen,       \* the state a watcher has read and not yet acted upon
    doomed,     \* the host watcher that holds host_lifecycle to cancel, or 0
    leaving,    \* a guest's watcher holds guest_lifecycle to cancel
    job         \* the sdp_offer handler in the command loop

envVars  == <<conn, chan, onclose>>
flagVars == <<host, dc, connected, authing, resident, cancelled>>
listVars == <<guests, claimed, pressing>>
watchVars == <<watch, seen, doomed, leaving>>
vars == <<npc, who, envVars, flagVars, listVars, watchVars, job>>

Pcs == 1 .. MaxPcs
ConnStates == {"none", "built", "checking", "connected", "disconnected", "failed",
               "closed"}
Phases == {"idle", "exchange", "swap", "fresh", "retry", "notify", "guest_exchange",
           "guest_notify", "gone"}
Dead == {"failed", "disconnected", "closed"}

Idle == [phase |-> "idle", pc |-> 0]

\* handle_start_game has wired the first host connection and sent its answer.
Init ==
    /\ npc = 1
    /\ who = [p \in Pcs |-> None]
    /\ conn = [p \in Pcs |-> IF p = 1 THEN "checking" ELSE "none"]
    /\ chan = [p \in Pcs |-> "none"]
    /\ onclose = {}
    /\ host = 1 /\ dc = 0 /\ connected = FALSE /\ authing = FALSE /\ cancelled = FALSE
    /\ resident \in BOOLEAN
    /\ guests = {} /\ claimed = None /\ pressing = {}
    /\ watch = {1}
    /\ seen = [p \in Pcs |-> "none"]
    /\ doomed = 0 /\ leaving = FALSE
    /\ job = Idle

GuestOf(t) == {p \in guests : who[p] = t}
HostFree  == doomed = 0 /\ ~authing   \* host_lifecycle can be locked
GuestFree == ~leaving                 \* guest_lifecycle can be locked

\* pc.close() for each of ps: their open channels report the close.
Close(ps) ==
    /\ conn' = [p \in Pcs |-> IF p \in ps THEN "closed" ELSE conn[p]]
    /\ chan' = [p \in Pcs |-> IF p \in ps /\ chan[p] = "open" THEN "closed" ELSE chan[p]]
    /\ onclose' = onclose \cup {p \in ps : chan[p] = "open"}

-----------------------------------------------------------------------------
(* The network: ICE and SCTP.                                              *)

Connect(p) ==
    /\ conn[p] \in {"checking", "disconnected"}
    /\ conn' = [conn EXCEPT ![p] = "connected"]
    /\ UNCHANGED <<npc, who, chan, onclose, flagVars, listVars, watchVars, job>>

Lose(p, state) ==
    /\ conn[p] \in {"checking", "connected", "disconnected"} \ {state}
    /\ state = "disconnected" => conn[p] = "connected"
    /\ conn' = [conn EXCEPT ![p] = state]
    /\ UNCHANGED <<npc, who, chan, onclose, flagVars, listVars, watchVars, job>>

OpenChannel(p) ==
    /\ conn[p] = "connected" /\ chan[p] = "none"
    /\ chan' = [chan EXCEPT ![p] = "open"]
    /\ UNCHANGED <<npc, who, conn, onclose, flagVars, listVars, watchVars, job>>

CloseChannel(p) ==
    /\ chan[p] = "open"
    /\ chan' = [chan EXCEPT ![p] = "closed"]
    /\ onclose' = onclose \cup {p}
    /\ UNCHANGED <<npc, who, conn, flagVars, listVars, watchVars, job>>

-----------------------------------------------------------------------------
(* Callbacks and ICE watcher of the host's connections (dc_handler).       *)

\* {"cmd":"auth"} on the current generation's channel: session.dc is stored ...
Auth(p) ==
    /\ chan[p] = "open" /\ HostFree
    /\ p = host /\ ~cancelled /\ dc # p
    /\ dc' = p /\ authing' = TRUE
    /\ UNCHANGED <<npc, who, envVars, host, connected, resident, cancelled, listVars,
                   watchVars, job>>

\* ... and host_connected after it.
AuthConnected ==
    /\ authing
    /\ connected' = TRUE /\ authing' = FALSE
    /\ UNCHANGED <<npc, who, envVars, host, dc, resident, cancelled, listVars, watchVars, job>>

\* on_close of a host channel; a superseded generation changes nothing.
HostClosed(p) ==
    /\ p \in onclose /\ who[p] = None /\ HostFree
    /\ onclose' = onclose \ {p}
    /\ IF p = host /\ ~cancelled /\ dc = p
       THEN dc' = 0 /\ connected' = FALSE
       ELSE UNCHANGED <<dc, connected>>
    /\ UNCHANGED <<npc, who, conn, chan, host, authing, resident, cancelled, listVars,
                   watchVars, job>>

\* Every three seconds a watcher reads connection_state, before any lock.  A
\* live state lets it sleep again, and a superseded connection is closed.
WatchRead(p) ==
    /\ p \in watch /\ seen[p] = "none"
    /\ conn[p] \in Dead
    /\ seen' = [seen EXCEPT ![p] = conn[p]]
    /\ UNCHANGED <<npc, who, envVars, flagVars, listVars, watch, doomed, leaving, job>>

\* A cancelled session ends its watchers, a host's even after it has read a
\* dead state; a guest's one closes its connection.
WatchCancelled(p) ==
    /\ p \in watch /\ cancelled /\ doomed # p
    /\ who[p] # None => seen[p] = "none"
    /\ watch' = watch \ {p}
    /\ Close(IF who[p] = None THEN {} ELSE {p})
    /\ UNCHANGED <<npc, who, flagVars, listVars, seen, doomed, leaving, job>>

\* Mutant of ShouldCancel: the state alone decides, as before #735.
ShouldCancelOnIce(state) == guests = {} /\ state \in {"failed", "disconnected"}

\* should_cancel_ice_watch
ShouldCancel(state) == guests = {} /\ ~connected /\ state \in {"failed", "disconnected"}

HostWatch(p) ==
    /\ p \in watch /\ who[p] = None /\ seen[p] # "none" /\ HostFree /\ ~cancelled
    /\ seen' = [seen EXCEPT ![p] = "none"]
    /\ IF host # p \/ seen[p] = "closed"
       THEN watch' = watch \ {p} /\ UNCHANGED <<connected, doomed>>
       ELSE IF ShouldCancel(seen[p])
       THEN /\ connected' = FALSE
            /\ IF resident THEN watch' = watch \ {p} /\ UNCHANGED doomed
               ELSE doomed' = p /\ UNCHANGED watch
       ELSE UNCHANGED <<watch, connected, doomed>>
    /\ UNCHANGED <<npc, who, envVars, host, dc, authing, resident, cancelled, listVars,
                   leaving, job>>

\* ... the error message was sent, or not: the session goes.
HostWatchCancel ==
    /\ doomed # 0
    /\ cancelled' = TRUE
    /\ watch' = watch \ {doomed}
    /\ doomed' = 0
    /\ UNCHANGED <<npc, who, envVars, host, dc, connected, authing, resident, listVars, seen,
                   leaving, job>>

-----------------------------------------------------------------------------
(* Callbacks and ICE watcher of the guests.                                *)

Released(t) == IF claimed = t THEN None ELSE claimed

\* Mutant of GuestClosed: the claim is released before the identity check.
GuestClosedReleasing(p) ==
    /\ p \in onclose \ pressing /\ who[p] # None /\ GuestFree
    /\ guests' = guests \ {p}
    /\ claimed' = Released(who[p])
    /\ Close(IF p \in guests THEN {p} ELSE {})
    /\ UNCHANGED <<npc, who, flagVars, pressing, watchVars, job>>

\* on_close of a guest channel, after the handlers of its messages.
GuestClosed(p) ==
    /\ p \in onclose \ pressing /\ who[p] # None /\ GuestFree
    /\ onclose' = onclose \ {p}
    /\ IF p \in guests
       THEN /\ guests' = guests \ {p}
            /\ claimed' = Released(who[p])
            /\ conn' = [conn EXCEPT ![p] = "closed"]
       ELSE UNCHANGED <<guests, claimed, conn>>
    /\ UNCHANGED <<npc, who, chan, flagVars, pressing, watchVars, job>>

\* A failing guest is removed.  After the last one host_connected is read,
\* which authentication writes under the other lock ...
GuestWatch(p) ==
    /\ p \in watch /\ who[p] # None /\ seen[p] # "none" /\ GuestFree
    /\ seen' = [seen EXCEPT ![p] = "none"]
    /\ watch' = watch \ {p}
    /\ IF p \notin guests
       THEN UNCHANGED <<guests, claimed, leaving, envVars>>
       ELSE /\ guests' = guests \ {p}
            /\ Close({p})
            /\ claimed' = IF guests' = {} THEN None ELSE Released(who[p])
            /\ leaving' = (guests' = {} /\ ~connected /\ ~resident)
    /\ UNCHANGED <<npc, who, flagVars, pressing, doomed, job>>

\* ... and an orphaned session is cancelled, whoever has authenticated since.
GuestWatchCancel ==
    /\ leaving
    /\ cancelled' = TRUE /\ leaving' = FALSE
    /\ UNCHANGED <<npc, who, envVars, host, dc, connected, authing, resident, listVars, watch,
                   seen, doomed, job>>

\* A viewer presses a button on a resident session nobody hosts or plays ...
Press(p) ==
    /\ chan[p] = "open" /\ who[p] \in Tokens \ Players /\ p \notin pressing
    /\ resident /\ ~connected
    /\ \A q \in guests : who[q] \notin Players
    /\ pressing' = pressing \cup {p}
    /\ UNCHANGED <<npc, who, envVars, flagVars, guests, claimed, watchVars, job>>

\* ... and claims the player slot if it is still free.
Claim(p) ==
    /\ p \in pressing
    /\ pressing' = pressing \ {p}
    /\ claimed' = IF claimed = None THEN who[p] ELSE claimed
    /\ UNCHANGED <<npc, who, envVars, flagVars, guests, watchVars, job>>

-----------------------------------------------------------------------------
(* handle_sdp_offer for the host browser.                                  *)

Then(phase) == job' = [job EXCEPT !.phase = phase]

\* The flag decides early whether the old connection is tried at all.
HostOffer ==
    /\ job = Idle
    /\ Then(IF connected THEN "exchange" ELSE "fresh")
    /\ UNCHANGED <<npc, who, envVars, flagVars, listVars, watchVars>>

\* session.pc becomes a fresh connection from the pool, the superseded one is
\* closed, and callbacks and a watcher are wired to the new one.
SwapHost ==
    /\ npc < MaxPcs
    /\ npc' = npc + 1 /\ host' = npc + 1
    /\ conn' = [conn EXCEPT ![host] = "closed", ![npc + 1] = "built"]
    /\ chan' = [chan EXCEPT ![host] = IF @ = "open" THEN "closed" ELSE @]
    /\ onclose' = onclose \cup {p \in {host} : chan[p] = "open"}
    /\ watch' = watch \cup {npc + 1}

Acquired ==
    /\ job.phase \in {"fresh", "swap"} /\ HostFree
    /\ SwapHost
    /\ Then("retry")
    /\ UNCHANGED <<who, dc, connected, authing, resident, cancelled, listVars, seen, doomed,
                   leaving>>

\* close_host_peer, when the handler gives up
CloseHostPeer(giveUp) ==
    /\ giveUp => HostFree
    /\ Close(IF giveUp THEN {host} ELSE {})

\* The pool is empty: the first offer is refused, the retry closes the host.
PoolEmpty ==
    /\ job.phase \in {"fresh", "swap"}
    /\ CloseHostPeer(job.phase = "swap")
    /\ Then("idle")
    /\ UNCHANGED <<npc, who, flagVars, listVars, watchVars>>

\* exchange_sdp_on_pc on the current connection.
Exchange(ok) ==
    /\ job.phase \in {"exchange", "retry"}
    /\ Then(IF ok THEN "notify" ELSE IF job.phase = "exchange" THEN "swap" ELSE "idle")
    /\ CloseHostPeer(~ok /\ job.phase = "retry")
    /\ UNCHANGED <<npc, who, flagVars, listVars, watchVars>>

\* The answer reaches the browser, or close_host_peer.
Notify(ok) ==
    /\ job.phase = "notify"
    /\ IF ok
       THEN /\ conn' = [conn EXCEPT ![host] = IF @ = "built" THEN "checking" ELSE @]
            /\ UNCHANGED <<chan, onclose>>
       ELSE CloseHostPeer(TRUE)
    /\ Then("idle")
    /\ UNCHANGED <<npc, who, flagVars, listVars, watchVars>>

-----------------------------------------------------------------------------
(* handle_guest_sdp.                                                       *)

\* admit_guest_exchange.  The loop is serial: no other exchange is pending.
Admissible(t) ==
    LET others == Cardinality(guests) - Cardinality(GuestOf(t))
    IN  others + (IF GuestOf(t) = {} THEN 1 ELSE 0) < MaxGuests

GuestOffer(t) ==
    /\ job = Idle /\ npc < MaxPcs /\ GuestFree
    /\ Admissible(t)
    /\ npc' = npc + 1
    /\ who' = [who EXCEPT ![npc + 1] = t]
    /\ conn' = [conn EXCEPT ![npc + 1] = "built"]
    /\ job' = [phase |-> "guest_exchange", pc |-> npc + 1]
    /\ UNCHANGED <<chan, onclose, flagVars, listVars, watchVars>>

GuestExchangeFails ==
    /\ job.phase = "guest_exchange"
    /\ Close({job.pc})
    /\ job' = Idle
    /\ UNCHANGED <<npc, who, flagVars, listVars, watchVars>>

\* Mutant of GuestInstalled: the old connections of the token stay listed.
GuestInstalledBeside ==
    /\ job.phase = "guest_exchange" /\ GuestFree
    /\ guests' = guests \cup {job.pc}
    /\ watch' = watch \cup {job.pc}
    /\ Then("guest_notify")
    /\ UNCHANGED <<npc, who, envVars, flagVars, claimed, pressing, seen, doomed, leaving>>

\* The new connection replaces every older one of its token in one section.
GuestInstalled ==
    LET stale == GuestOf(who[job.pc]) IN
    /\ job.phase = "guest_exchange" /\ GuestFree
    /\ guests' = (guests \ stale) \cup {job.pc}
    /\ Close(stale)
    /\ watch' = watch \cup {job.pc}
    /\ Then("guest_notify")
    /\ UNCHANGED <<npc, who, flagVars, claimed, pressing, seen, doomed, leaving>>

\* The answer reaches the guest, or its connection leaves the list again.
GuestNotify(ok) ==
    /\ job.phase = "guest_notify"
    /\ IF ok
       THEN /\ conn' = [conn EXCEPT ![job.pc] = IF @ = "built" THEN "checking" ELSE @]
            /\ UNCHANGED <<chan, onclose, guests>>
       ELSE /\ GuestFree
            /\ guests' = guests \ {job.pc}
            /\ Close(guests \cap {job.pc})
    /\ job' = Idle
    /\ UNCHANGED <<npc, who, flagVars, claimed, pressing, watchVars>>

\* close_session_peers: stop_game, a replacing start_game, or the loop finding
\* the cancelled session's core stopped.  The session leaves the map.
CloseSessionPeers ==
    /\ job = Idle /\ HostFree /\ GuestFree
    /\ cancelled' = TRUE
    /\ dc' = 0 /\ connected' = FALSE
    /\ guests' = {}
    /\ Close(guests \cup {host})
    /\ job' = [job EXCEPT !.phase = "gone"]
    /\ UNCHANGED <<npc, who, host, authing, resident, claimed, pressing, watchVars>>

-----------------------------------------------------------------------------
Network ==
    \E p \in Pcs : \/ Connect(p)
                   \/ \E state \in {"failed", "disconnected"} : Lose(p, state)
                   \/ OpenChannel(p) \/ CloseChannel(p)

HostPeer ==
    \/ \E p \in Pcs : Auth(p) \/ HostClosed(p) \/ HostWatch(p)
    \/ AuthConnected \/ HostWatchCancel

Watchers == \E p \in Pcs : WatchRead(p) \/ WatchCancelled(p)

GuestPeer ==
    \/ \E p \in Pcs : GuestClosed(p) \/ GuestWatch(p) \/ Press(p) \/ Claim(p)
    \/ GuestWatchCancel

Offers ==
    \/ HostOffer \/ Acquired \/ PoolEmpty
    \/ \E ok \in BOOLEAN : Exchange(ok) \/ Notify(ok) \/ GuestNotify(ok)
    \/ \E t \in Tokens : GuestOffer(t)
    \/ GuestExchangeFails \/ GuestInstalled
    \/ CloseSessionPeers

Next == Network \/ HostPeer \/ Watchers \/ GuestPeer \/ Offers

\* Nothing is assumed of browsers, of the network, or of commands that have not
\* arrived: only safety is stated.
Spec == Init /\ [][Next]_vars

-----------------------------------------------------------------------------
(* Properties.                                                             *)

\* The variables keep their types; session.pc and session.dc are connections of
\* the host browser, session.guests are connections of guests.
TypeOK ==
    /\ npc \in Pcs
    /\ who \in [Pcs -> Tokens \cup {None}]
    /\ conn \in [Pcs -> ConnStates]
    /\ chan \in [Pcs -> {"none", "open", "closed"}]
    /\ onclose \subseteq Pcs
    /\ host \in Pcs /\ who[host] = None
    /\ dc \in {0} \cup {p \in Pcs : who[p] = None}
    /\ connected \in BOOLEAN /\ authing \in BOOLEAN /\ leaving \in BOOLEAN
    /\ resident \in BOOLEAN /\ cancelled \in BOOLEAN
    /\ guests \subseteq {p \in Pcs : who[p] # None}
    /\ claimed \in Tokens \cup {None}
    /\ pressing \subseteq Pcs
    /\ watch \subseteq Pcs
    /\ seen \in [Pcs -> ConnStates]
    /\ doomed \in {0} \cup Pcs
    /\ job \in [phase : Phases, pc : {0} \cup Pcs]

\* A guest that reconnects replaces itself: one entry per peer token, although
\* its old connection, its callbacks and its watcher are still around.
OneEntryPerToken == \A p, q \in guests : who[p] = who[q] => p = q

\* There are never more guests than the limit.  A newcomer counts as pending
\* and as new, so the list stays one below MAX_ACTIVE_GUESTS.
GuestsBounded == Cardinality(guests) < MaxGuests

\* A connection the session no longer refers to is closed: no superseded host
\* generation, replaced, removed or failed guest keeps its sockets.
SupersededIsClosed ==
    \A p \in 1 .. npc :
        p \notin guests \cup {host} /\ (job.phase = "guest_exchange" => p # job.pc)
            => conn[p] = "closed"

\* Every open connection is in the session's books, and there once.
PeersTracked == OneEntryPerToken /\ SupersededIsClosed

\* The host's channel is authenticated (session.dc is stored) and open.
HostOpen == dc = host /\ chan[host] = "open"

\* However its ICE state looks and whichever guests leave, no watcher cancels
\* the session under a host whose authenticated channel is open, with one
\* exception: the last guest's watcher may, if it looked before the
\* authentication was complete.  It then decided while the channel was not yet
\* authenticated, or between the two stores of its authentication.
NoCancelUnderHost ==
    [][/\ HostOpen /\ ~cancelled /\ cancelled' /\ job'.phase # "gone"
             => leaving /\ ~leaving'
       /\ HostOpen /\ ~cancelled /\ ~leaving /\ leaving' => authing]_vars

\* The claim on the player slot is never taken from a peer that is still in the
\* list: the callbacks of its superseded connections do not count.
ClaimKept ==
    [][claimed # None /\ claimed' # claimed
          => \A p \in guests' : who[p] # claimed]_vars
=============================================================================
