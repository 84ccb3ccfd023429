------------------------ MODULE SessionPeers_proofs ------------------------
(***************************************************************************)
(* Proofs about SessionPeers for every set of peer tokens, every limit and *)
(* every number of peer connections.                                       *)
(***************************************************************************)
EXTENDS SessionPeers, FiniteSetTheorems, TLAPS

-----------------------------------------------------------------------------
(* What the callbacks rely on.  Connections are numbered as they are built *)
(* and nothing refers to one that is not built yet; a handler in a guest   *)
(* phase works on a guest's connection.                                    *)

Built ==
    /\ host <= npc /\ dc <= npc
    /\ \A p \in guests : p <= npc
    /\ \A p \in Pcs : p > npc => who[p] = None /\ conn[p] = "none" /\ chan[p] = "none"
    /\ job.phase \in {"guest_exchange", "guest_notify"}
           => job.pc \in 1 .. npc /\ who[job.pc] # None

\* host_connected is true while the authenticated channel is open, but for the
\* step between the two stores, and stays false while the host's watcher holds
\* host_lifecycle to cancel the session.
HostFlag ==
    /\ dc # 0 => chan[dc] # "none"
    /\ HostOpen /\ ~cancelled => connected \/ authing
    /\ doomed # 0 => ~connected /\ ~authing

\* What pc.close() does to the connections and to their channels.
LEMMA CloseEffect ==
  ASSUME TypeOK, NEW ps \in SUBSET Pcs, Close(ps)
  PROVE  /\ conn' \in [Pcs -> ConnStates]
         /\ chan' \in [Pcs -> {"none", "open", "closed"}]
         /\ onclose' \subseteq Pcs
         /\ \A p \in Pcs : /\ p \in ps => conn'[p] = "closed"
                           /\ p \notin ps => conn'[p] = conn[p]
                           /\ chan'[p] = "none" <=> chan[p] = "none"
                           /\ chan'[p] = "open" => chan[p] = "open"
<1>0. /\ conn \in [Pcs -> ConnStates] /\ chan \in [Pcs -> {"none", "open", "closed"}]
      /\ onclose \subseteq Pcs
  BY DEF TypeOK
<1>1. conn' \in [Pcs -> ConnStates]
  BY <1>0 DEF Close, ConnStates
<1>2. chan' \in [Pcs -> {"none", "open", "closed"}]
  BY <1>0 DEF Close
<1>3. onclose' \subseteq Pcs
  BY <1>0 DEF Close
<1>4. \A p \in Pcs : /\ p \in ps => conn'[p] = "closed"
                     /\ p \notin ps => conn'[p] = conn[p]
                     /\ chan'[p] = "none" <=> chan[p] = "none"
                     /\ chan'[p] = "open" => chan[p] = "open"
  BY <1>0 DEF Close
<1> QED
  BY <1>1, <1>2, <1>3, <1>4

\* Connections that exist may be closed: what Built says of the others is untouched.
LEMMA CloseBuilt ==
  ASSUME TypeOK, Built, NEW ps \in SUBSET (1 .. npc), Close(ps)
  PROVE  /\ conn' \in [Pcs -> ConnStates]
         /\ chan' \in [Pcs -> {"none", "open", "closed"}]
         /\ onclose' \subseteq Pcs
         /\ \A q \in Pcs : q > npc => conn'[q] = "none" /\ chan'[q] = "none"
<1>1. ps \in SUBSET Pcs /\ \A q \in ps : ~(q > npc)
  BY PeersAssumption DEF TypeOK, Pcs
<1>2. \A q \in Pcs : q > npc => conn[q] = "none" /\ chan[q] = "none"
  BY DEF Built
<1>3. /\ conn' \in [Pcs -> ConnStates]
      /\ chan' \in [Pcs -> {"none", "open", "closed"}]
      /\ onclose' \subseteq Pcs
      /\ \A q \in Pcs : /\ q \notin ps => conn'[q] = conn[q]
                        /\ chan'[q] = "none" <=> chan[q] = "none"
  BY <1>1, CloseEffect
<1> QED
  BY <1>1, <1>2, <1>3

LEMMA TypeInit == Init => TypeOK /\ Built
<1> SUFFICES ASSUME Init PROVE TypeOK /\ Built
  OBVIOUS
<1> USE PeersAssumption DEF Init, ConnStates, Phases, Idle
<1>0. 1 \in Pcs
  BY DEF Pcs
<1>1. npc \in Pcs /\ host \in Pcs /\ job \in [phase : Phases, pc : {0} \cup Pcs]
  BY <1>0
<1>2. conn \in [Pcs -> ConnStates] /\ chan \in [Pcs -> {"none", "open", "closed"}]
  OBVIOUS
<1>3. who \in [Pcs -> Tokens \cup {None}] /\ seen \in [Pcs -> ConnStates]
  OBVIOUS
<1>4. who[host] = None
  BY <1>1
<1>5. TypeOK
  BY <1>1, <1>2, <1>3, <1>4 DEF TypeOK
<1>6. Built
  BY <1>1 DEF Built, Pcs
<1> QED
  BY <1>5, <1>6

LEMMA TypeNext == TypeOK /\ Built /\ [Next]_vars => TypeOK' /\ Built'
<1> SUFFICES ASSUME TypeOK, Built, [Next]_vars PROVE TypeOK' /\ Built'
  OBVIOUS
<1> USE PeersAssumption DEF TypeOK, Built, Pcs
<1>0. guests \subseteq 1 .. npc
  OBVIOUS
<1>1. ASSUME NEW p \in Pcs, Connect(p) PROVE TypeOK' /\ Built'
  BY <1>1 DEF ConnStates, Phases, Connect, envVars, flagVars, listVars, watchVars
<1>2. ASSUME NEW p \in Pcs, NEW state \in {"failed", "disconnected"}, Lose(p, state) PROVE TypeOK' /\ Built'
  BY <1>2 DEF ConnStates, Phases, Lose, envVars, flagVars, listVars, watchVars
<1>3. ASSUME NEW p \in Pcs, OpenChannel(p) PROVE TypeOK' /\ Built'
  <2>1. chan' \in [Pcs -> {"none", "open", "closed"}] /\ p <= npc
    BY <1>3 DEF OpenChannel
  <2> QED
    BY <1>3, <2>1 DEF OpenChannel, envVars, flagVars, listVars, watchVars
<1>4. ASSUME NEW p \in Pcs, CloseChannel(p) PROVE TypeOK' /\ Built'
  BY <1>4 DEF CloseChannel, envVars, flagVars, listVars, watchVars
<1>5. ASSUME NEW p \in Pcs, Auth(p) PROVE TypeOK' /\ Built'
  BY <1>5 DEF Auth, HostFree, envVars, flagVars, listVars, watchVars
<1>5a. ASSUME AuthConnected PROVE TypeOK' /\ Built'
  BY <1>5a DEF AuthConnected, envVars, listVars, watchVars
<1>6. ASSUME NEW p \in Pcs, HostClosed(p) PROVE TypeOK' /\ Built'
  <2>1. CASE p = host /\ ~cancelled /\ dc = p
    <3>1. dc' = 0 /\ connected' \in BOOLEAN /\ onclose' \subseteq Pcs
      BY <1>6, <2>1 DEF HostClosed
    <3>2. UNCHANGED <<npc, who, conn, chan, host, authing, resident, cancelled, guests, claimed,
                      pressing, watch, seen, doomed, leaving, job>>
      BY <1>6 DEF HostClosed, listVars, watchVars
    <3> QED
      BY <3>1, <3>2
  <2>2. CASE ~(p = host /\ ~cancelled /\ dc = p)
    BY <1>6, <2>2 DEF HostClosed, envVars, flagVars, listVars, watchVars
  <2> QED
    BY <2>1, <2>2
<1>7. ASSUME NEW p \in Pcs, HostWatch(p) PROVE TypeOK' /\ Built'
  <2>1. UNCHANGED <<npc, who, conn, chan, onclose, host, dc, authing, resident, cancelled, guests,
                    claimed, pressing, leaving, job>>
    BY <1>7 DEF HostWatch, envVars, listVars
  <2>2. seen' \in [Pcs -> ConnStates]
    BY <1>7 DEF HostWatch, ConnStates
  <2>3. /\ watch' \in {watch, watch \ {p}}
        /\ connected' \in {connected, FALSE}
        /\ doomed' \in {doomed, p}
    <3> HIDE DEF TypeOK, Built
    <3> QED
      BY <1>7 DEF HostWatch
  <2>4. watch' \subseteq Pcs /\ connected' \in BOOLEAN /\ doomed' \in {0} \cup Pcs
    <3>1. watch \subseteq Pcs /\ connected \in BOOLEAN /\ doomed \in {0} \cup Pcs
      OBVIOUS
    <3> HIDE DEF TypeOK, Built, Pcs
    <3> QED
      BY <2>3, <3>1
  <2>5. TypeOK'
    BY <2>1, <2>2, <2>4 DEF TypeOK
  <2>6. Built'
    BY <2>1 DEF Built
  <2> QED
    BY <2>5, <2>6
<1>8. ASSUME HostWatchCancel PROVE TypeOK' /\ Built'
  BY <1>8 DEF HostWatchCancel, envVars, flagVars, listVars, watchVars
<1>9. ASSUME NEW p \in Pcs, WatchRead(p) PROVE TypeOK' /\ Built'
  BY <1>9 DEF WatchRead, Dead, envVars, flagVars, listVars, watchVars
<1>10. ASSUME NEW p \in Pcs, WatchCancelled(p) PROVE TypeOK' /\ Built'
  <2>1. (IF who[p] = None THEN {} ELSE {p}) \in SUBSET (1 .. npc)
    BY <1>10 DEF WatchCancelled
  <2>2. /\ conn' \in [Pcs -> ConnStates]
        /\ chan' \in [Pcs -> {"none", "open", "closed"}]
        /\ onclose' \subseteq Pcs
        /\ \A q \in Pcs : q > npc => conn'[q] = "none" /\ chan'[q] = "none"
    <3> HIDE DEF TypeOK, Built, Pcs
    <3> QED
      BY <2>1, <1>10, CloseBuilt DEF WatchCancelled
  <2> QED
    BY <1>10, <2>1, <2>2 DEF WatchCancelled, envVars, flagVars, listVars, watchVars
<1>11. ASSUME NEW p \in Pcs, GuestClosed(p) PROVE TypeOK' /\ Built'
  <2>1. UNCHANGED <<npc, who, chan, host, dc, connected, authing, resident, cancelled, pressing,
                    watch, seen, doomed, leaving, job>>
    BY <1>11 DEF GuestClosed, flagVars, watchVars
  <2>2. guests' \subseteq guests /\ onclose' \subseteq Pcs
    BY <1>11 DEF GuestClosed
  <2>3. claimed' \in Tokens \cup {None}
    BY <1>11 DEF GuestClosed, Released
  <2>4. conn' \in [Pcs -> ConnStates] /\ \A q \in Pcs : q > npc => conn'[q] = "none"
    <3>1. CASE p \in guests
      <4>1. conn' = [conn EXCEPT ![p] = "closed"] /\ p <= npc
        BY <1>11, <3>1 DEF GuestClosed
      <4> QED
        BY <4>1 DEF ConnStates
    <3>2. CASE p \notin guests
      BY <1>11, <3>2 DEF GuestClosed
    <3> QED
      BY <3>1, <3>2
  <2> QED
    BY <2>1, <2>2, <2>3, <2>4
<1>12. ASSUME NEW p \in Pcs, GuestWatch(p) PROVE TypeOK' /\ Built'
  <2>1. CASE p \notin guests
    <3>1. UNCHANGED <<npc, who, conn, chan, onclose, host, dc, connected, authing, resident, cancelled,
                      guests, claimed, pressing, doomed, leaving, job>>
      BY <1>12, <2>1 DEF GuestWatch, envVars, flagVars
    <3>2. seen' \in [Pcs -> ConnStates] /\ watch' \subseteq Pcs
      BY <1>12 DEF GuestWatch, ConnStates
    <3> QED
      BY <3>1, <3>2
  <2>2. CASE p \in guests
    <3>1. {p} \in SUBSET (1 .. npc) /\ Close({p})
      BY <1>12, <2>2 DEF GuestWatch
    <3>2. /\ conn' \in [Pcs -> ConnStates]
          /\ chan' \in [Pcs -> {"none", "open", "closed"}]
          /\ onclose' \subseteq Pcs
          /\ \A q \in Pcs : q > npc => conn'[q] = "none" /\ chan'[q] = "none"
      <4> HIDE DEF TypeOK, Built, Pcs
      <4> QED
        BY <3>1, CloseBuilt
    <3>3. claimed' \in Tokens \cup {None} /\ leaving' \in BOOLEAN
      BY <1>12, <2>2 DEF GuestWatch, Released
    <3>4. seen' \in [Pcs -> ConnStates] /\ watch' \subseteq Pcs /\ guests' \subseteq guests
      BY <1>12, <2>2 DEF ConnStates, Phases, GuestWatch
    <3>5. UNCHANGED <<npc, who, host, dc, connected, authing, resident, cancelled, pressing,
                      doomed, job>>
      BY <1>12 DEF GuestWatch, flagVars
    <3> QED
      BY <3>2, <3>3, <3>4, <3>5
  <2> QED
    BY <2>1, <2>2
<1>12a. ASSUME GuestWatchCancel PROVE TypeOK' /\ Built'
  BY <1>12a DEF GuestWatchCancel, envVars, listVars
<1>13. ASSUME NEW p \in Pcs, Press(p) PROVE TypeOK' /\ Built'
  BY <1>13 DEF Press, envVars, flagVars, listVars, watchVars
<1>14. ASSUME NEW p \in Pcs, Claim(p) PROVE TypeOK' /\ Built'
  BY <1>14 DEF Claim, envVars, flagVars, listVars, watchVars
<1>15. ASSUME HostOffer PROVE TypeOK' /\ Built'
  BY <1>15 DEF ConnStates, Phases, HostOffer, Then, Idle, envVars, flagVars, listVars, watchVars
<1>16. ASSUME Acquired PROVE TypeOK' /\ Built'
  <2> USE DEF Acquired, SwapHost
  <2>1. npc' \in Pcs /\ npc' = npc + 1 /\ host' = npc + 1 /\ who' = who /\ who[host'] = None
    BY <1>16
  <2>2. conn' \in [Pcs -> ConnStates] /\ \A q \in Pcs : q > npc' => conn'[q] = "none"
    BY <1>16, <2>1 DEF ConnStates, Phases
  <2>3. /\ chan' \in [Pcs -> {"none", "open", "closed"}]
        /\ \A q \in Pcs : q > npc' => chan'[q] = "none"
    BY <1>16, <2>1
  <2>4. onclose' \subseteq Pcs
    BY <1>16
  <2>6. watch' \subseteq Pcs
    BY <1>16, <2>1
  <2>5. job' \in [phase : Phases, pc : {0} \cup Pcs] /\ job'.phase = "retry"
    BY <1>16 DEF ConnStates, Phases, Then
  <2> QED
    BY <1>16, <2>1, <2>2, <2>3, <2>4, <2>5, <2>6 DEF envVars, flagVars, listVars, watchVars
<1>17. ASSUME PoolEmpty PROVE TypeOK' /\ Built'
  <2>1. (IF job.phase = "swap" THEN {host} ELSE {}) \in SUBSET (1 .. npc)
    BY <1>17 DEF CloseHostPeer, PoolEmpty
  <2>2. /\ conn' \in [Pcs -> ConnStates]
        /\ chan' \in [Pcs -> {"none", "open", "closed"}]
        /\ onclose' \subseteq Pcs
        /\ \A q \in Pcs : q > npc => conn'[q] = "none" /\ chan'[q] = "none"
    <3> HIDE DEF TypeOK, Built, Pcs
    <3> QED
      BY <2>1, <1>17, CloseBuilt DEF CloseHostPeer, PoolEmpty
  <2>3. UNCHANGED <<npc, who, host, dc, authing, resident, cancelled, guests, claimed, pressing, watch,
                    seen, doomed, leaving>>
    BY <1>17 DEF PoolEmpty, flagVars, listVars, watchVars
  <2>4. connected' = connected
    BY <1>17 DEF PoolEmpty, flagVars
  <2>5. job' \in [phase : Phases, pc : {0} \cup Pcs] /\ job'.phase = "idle"
    BY <1>17 DEF PoolEmpty, Then, Phases
  <2> QED
    BY <2>2, <2>3, <2>4, <2>5
<1>18. ASSUME NEW ok \in BOOLEAN, Exchange(ok) PROVE TypeOK' /\ Built'
  <2>1. (IF ~ok /\ job.phase = "retry" THEN {host} ELSE {}) \in SUBSET (1 .. npc)
    BY <1>18 DEF CloseHostPeer, Exchange
  <2>2. /\ conn' \in [Pcs -> ConnStates]
        /\ chan' \in [Pcs -> {"none", "open", "closed"}]
        /\ onclose' \subseteq Pcs
        /\ \A q \in Pcs : q > npc => conn'[q] = "none" /\ chan'[q] = "none"
    <3> HIDE DEF TypeOK, Built, Pcs
    <3> QED
      BY <2>1, <1>18, CloseBuilt DEF CloseHostPeer, Exchange
  <2>3. UNCHANGED <<npc, who, flagVars, listVars, watchVars>>
    BY <1>18 DEF Exchange
  <2>4. /\ job' \in [phase : Phases, pc : {0} \cup Pcs]
        /\ job'.phase \in {"notify", "swap", "idle"}
    BY <1>18 DEF Exchange, Then, Phases
  <2> QED
    BY <2>2, <2>3, <2>4 DEF flagVars, listVars, watchVars
<1>19. ASSUME NEW ok \in BOOLEAN, Notify(ok) PROVE TypeOK' /\ Built'
  <2>0. /\ UNCHANGED <<npc, who, flagVars, listVars, watchVars>>
        /\ job' \in [phase : Phases, pc : {0} \cup Pcs] /\ job'.phase = "idle"
    BY <1>19 DEF Notify, Then, Phases
  <2>1. CASE ok
    <3>1. conn' \in [Pcs -> ConnStates] /\ \A q \in Pcs : q > npc => conn'[q] = "none"
      <4>1. conn' = [conn EXCEPT ![host] = IF @ = "built" THEN "checking" ELSE @]
        BY <1>19, <2>1 DEF Notify
      <4> QED
        BY <4>1 DEF ConnStates
    <3>2. chan' = chan /\ onclose' = onclose
      BY <1>19, <2>1 DEF Notify
    <3> QED
      BY <2>0, <3>1, <3>2 DEF flagVars, listVars, watchVars
  <2>2. CASE ~ok
    <3>1. {host} \in SUBSET (1 .. npc) /\ Close({host})
      BY <1>19, <2>2 DEF CloseHostPeer, Notify
    <3>2. /\ conn' \in [Pcs -> ConnStates]
          /\ chan' \in [Pcs -> {"none", "open", "closed"}]
          /\ onclose' \subseteq Pcs
          /\ \A q \in Pcs : q > npc => conn'[q] = "none" /\ chan'[q] = "none"
      <4> HIDE DEF TypeOK, Built, Pcs
      <4> QED
        BY <3>1, CloseBuilt
    <3> QED
      BY <2>0, <3>2 DEF flagVars, listVars, watchVars
  <2> QED
    BY <2>1, <2>2
<1>20. ASSUME NEW ok \in BOOLEAN, GuestNotify(ok) PROVE TypeOK' /\ Built'
  <2>0. /\ UNCHANGED <<npc, who, flagVars, claimed, pressing, watchVars>>
        /\ job' \in [phase : Phases, pc : {0} \cup Pcs] /\ job'.phase = "idle"
    BY <1>20 DEF GuestNotify, Idle, Phases
  <2>1. CASE ok
    <3>1. conn' \in [Pcs -> ConnStates] /\ \A q \in Pcs : q > npc => conn'[q] = "none"
      <4>1. conn' = [conn EXCEPT ![job.pc] = IF @ = "built" THEN "checking" ELSE @]
            /\ job.pc \in 1 .. npc
        BY <1>20, <2>1 DEF GuestNotify
      <4> QED
        BY <4>1 DEF ConnStates
    <3>2. chan' = chan /\ onclose' = onclose /\ guests' = guests
      BY <1>20, <2>1 DEF GuestNotify
    <3> QED
      BY <2>0, <3>1, <3>2 DEF flagVars, watchVars
  <2>2. CASE ~ok
    <3>1. (guests \cap {job.pc}) \in SUBSET (1 .. npc) /\ Close((guests \cap {job.pc}))
      BY <1>20, <2>2 DEF GuestNotify
    <3>2. /\ conn' \in [Pcs -> ConnStates]
          /\ chan' \in [Pcs -> {"none", "open", "closed"}]
          /\ onclose' \subseteq Pcs
          /\ \A q \in Pcs : q > npc => conn'[q] = "none" /\ chan'[q] = "none"
      <4> HIDE DEF TypeOK, Built, Pcs
      <4> QED
        BY <3>1, CloseBuilt
    <3>3. guests' \subseteq guests
      BY <1>20, <2>2 DEF GuestNotify
    <3> QED
      BY <2>0, <3>2, <3>3 DEF flagVars, watchVars
  <2> QED
    BY <2>1, <2>2
<1>21. ASSUME NEW t \in Tokens, GuestOffer(t) PROVE TypeOK' /\ Built'
  <2>1. npc' = npc + 1 /\ npc' \in Pcs
    BY <1>21 DEF GuestOffer
  <2>2. /\ who' = [who EXCEPT ![npc'] = t]
        /\ conn' = [conn EXCEPT ![npc'] = "built"]
        /\ job' = [phase |-> "guest_exchange", pc |-> npc']
        /\ UNCHANGED <<chan, onclose, flagVars, listVars, watchVars>>
    BY <1>21, <2>1 DEF GuestOffer
  <2>3. who' \in [Pcs -> Tokens \cup {None}] /\ conn' \in [Pcs -> ConnStates]
    BY <2>1, <2>2 DEF ConnStates
  <2>4. \A q \in Pcs : q <= npc => who'[q] = who[q]
    BY <2>1, <2>2
  <2>5. \A q \in Pcs : q > npc' => who'[q] = None /\ conn'[q] = "none" /\ chan'[q] = "none"
    BY <2>1, <2>2
  <2>6. job' \in [phase : Phases, pc : {0} \cup Pcs] /\ job'.pc \in 1 .. npc'
        /\ who'[job'.pc] # None
    BY <2>1, <2>2 DEF Phases
  <2>7. UNCHANGED <<host, dc, connected, authing, resident, cancelled, guests, claimed, pressing, watch,
                    seen, doomed, leaving, chan, onclose>>
    BY <2>2 DEF flagVars, listVars, watchVars
  <2>8. TypeOK'
    BY <2>1, <2>3, <2>4, <2>6, <2>7
  <2> QED
    BY <2>1, <2>4, <2>5, <2>6, <2>7, <2>8
<1>22. ASSUME GuestExchangeFails PROVE TypeOK' /\ Built'
  <2>1. ({job.pc}) \in SUBSET (1 .. npc)
    BY <1>22 DEF GuestExchangeFails
  <2>2. /\ conn' \in [Pcs -> ConnStates]
        /\ chan' \in [Pcs -> {"none", "open", "closed"}]
        /\ onclose' \subseteq Pcs
        /\ \A q \in Pcs : q > npc => conn'[q] = "none" /\ chan'[q] = "none"
    <3> HIDE DEF TypeOK, Built, Pcs
    <3> QED
      BY <2>1, <1>22, CloseBuilt DEF GuestExchangeFails
  <2>3. /\ UNCHANGED <<npc, who, flagVars, listVars, watchVars>>
        /\ job' \in [phase : Phases, pc : {0} \cup Pcs] /\ job'.phase = "idle"
    BY <1>22 DEF GuestExchangeFails, Idle, Phases
  <2> QED
    BY <2>2, <2>3 DEF flagVars, listVars, watchVars
<1>23. ASSUME GuestInstalled PROVE TypeOK' /\ Built'
  <2>1. (GuestOf(who[job.pc])) \in SUBSET (1 .. npc)
    BY <1>0 DEF GuestOf
  <2>2. /\ conn' \in [Pcs -> ConnStates]
        /\ chan' \in [Pcs -> {"none", "open", "closed"}]
        /\ onclose' \subseteq Pcs
        /\ \A q \in Pcs : q > npc => conn'[q] = "none" /\ chan'[q] = "none"
    <3> HIDE DEF TypeOK, Built, Pcs
    <3> QED
      BY <2>1, <1>23, CloseBuilt DEF GuestInstalled
  <2>3. job.pc \in 1 .. npc /\ who[job.pc] # None /\ job.pc \in Pcs
    BY <1>23 DEF GuestInstalled
  <2>4. guests' \subseteq guests \cup {job.pc} /\ watch' = watch \cup {job.pc}
    BY <1>23 DEF GuestInstalled
  <2>5. job' \in [phase : Phases, pc : {0} \cup Pcs] /\ job'.pc = job.pc
    BY <1>23 DEF GuestInstalled, Then, Phases
  <2>6. UNCHANGED <<npc, who, host, dc, connected, authing, resident, cancelled, claimed, pressing,
                    seen, doomed, leaving>>
    <3> HIDE DEF TypeOK, Built
    <3> QED
      BY <1>23 DEF GuestInstalled, flagVars
  <2>7. guests' \subseteq {q \in Pcs : who[q] # None} /\ \A q \in guests' : q <= npc
    BY <2>3, <2>4
  <2>8. watch' \subseteq Pcs
    <3>1. watch \subseteq Pcs
      OBVIOUS
    <3> HIDE DEF TypeOK, Built, Pcs
    <3> QED
      BY <2>3, <2>4, <3>1
  <2>9. TypeOK'
    BY <2>2, <2>3, <2>5, <2>6, <2>7, <2>8 DEF TypeOK
  <2>10. Built'
    BY <2>2, <2>3, <2>5, <2>6, <2>7 DEF Built
  <2> QED
    BY <2>9, <2>10
<1>24. ASSUME CloseSessionPeers PROVE TypeOK' /\ Built'
  <2>1. (guests \cup {host}) \in SUBSET (1 .. npc)
    BY <1>24 DEF CloseSessionPeers
  <2>2. /\ conn' \in [Pcs -> ConnStates]
        /\ chan' \in [Pcs -> {"none", "open", "closed"}]
        /\ onclose' \subseteq Pcs
        /\ \A q \in Pcs : q > npc => conn'[q] = "none" /\ chan'[q] = "none"
    <3> HIDE DEF TypeOK, Built, Pcs
    <3> QED
      BY <2>1, <1>24, CloseBuilt DEF CloseSessionPeers
  <2>3. job' \in [phase : Phases, pc : {0} \cup Pcs] /\ job'.phase = "gone"
    BY <1>24 DEF ConnStates, Phases, CloseSessionPeers
  <2>4. dc' = 0 /\ guests' = {} /\ connected' \in BOOLEAN /\ cancelled' \in BOOLEAN
    BY <1>24 DEF CloseSessionPeers
  <2>5. UNCHANGED <<npc, who, host, authing, resident, claimed, pressing, watch, seen, doomed,
                    leaving>>
    BY <1>24 DEF CloseSessionPeers, watchVars
  <2> QED
    BY <2>2, <2>3, <2>4, <2>5
<1>25. CASE UNCHANGED vars
  BY <1>25 DEF vars, envVars, flagVars, listVars, watchVars
<1> HIDE DEF TypeOK, Built, Pcs
<1>26. CASE Network
  BY <1>1, <1>2, <1>3, <1>4, <1>26 DEF Network
<1>27. CASE HostPeer
  BY <1>5, <1>5a, <1>6, <1>7, <1>8, <1>27 DEF HostPeer
<1>28. CASE Watchers
  BY <1>9, <1>10, <1>28 DEF Watchers
<1>29. CASE GuestPeer
  BY <1>11, <1>12, <1>12a, <1>13, <1>14, <1>29 DEF GuestPeer
<1>30. CASE Offers
  BY <1>15, <1>16, <1>17, <1>18, <1>19, <1>20, <1>21, <1>22, <1>23, <1>24, <1>30 DEF Offers
<1> QED
  BY <1>25, <1>26, <1>27, <1>28, <1>29, <1>30 DEF Next

-----------------------------------------------------------------------------
(* host_connected follows the authenticated channel.                       *)

\* Closing connections never breaks HostFlag: it opens no channel.
LEMMA CloseKeepsFlag ==
  ASSUME TypeOK, HostFlag, NEW ps \in SUBSET Pcs, Close(ps),
         UNCHANGED <<host, dc, connected, authing, doomed>>, cancelled => cancelled'
  PROVE  HostFlag'
  BY CloseEffect DEF TypeOK, HostFlag, HostOpen

LEMMA FlagNext == TypeOK /\ Built /\ HostFlag /\ [Next]_vars => HostFlag'
<1> SUFFICES ASSUME TypeOK, Built, HostFlag, [Next]_vars PROVE HostFlag'
  OBVIOUS
<1> USE PeersAssumption DEF HostOpen
<1>1. ASSUME NEW p \in Pcs, Connect(p) PROVE HostFlag'
  BY <1>1 DEF Connect, HostFlag, envVars, flagVars, listVars, watchVars
<1>2. ASSUME NEW p \in Pcs, NEW state \in {"failed", "disconnected"}, Lose(p, state) PROVE HostFlag'
  BY <1>2 DEF Lose, HostFlag, envVars, flagVars, listVars, watchVars
<1>3. ASSUME NEW p \in Pcs, OpenChannel(p) PROVE HostFlag'
  <2>1. dc # 0 => dc \in Pcs /\ dc # p
    BY <1>3 DEF OpenChannel, HostFlag, TypeOK
  <2>2. \A q \in Pcs : q # p => chan'[q] = chan[q]
    BY <1>3 DEF OpenChannel, TypeOK
  <2>3. UNCHANGED <<host, dc, connected, authing, cancelled, doomed>> /\ host \in Pcs /\ 0 \notin Pcs
    BY <1>3 DEF OpenChannel, TypeOK, Pcs, envVars, flagVars, listVars, watchVars
  <2> QED
    BY <2>1, <2>2, <2>3 DEF HostFlag
<1>4. ASSUME NEW p \in Pcs, CloseChannel(p) PROVE HostFlag'
  BY <1>4 DEF CloseChannel, HostFlag, TypeOK, envVars, flagVars, listVars, watchVars
<1>5. ASSUME NEW p \in Pcs, Auth(p) PROVE HostFlag'
  BY <1>5 DEF Auth, HostFlag, HostFree, TypeOK, envVars, flagVars, listVars, watchVars
<1>5a. ASSUME AuthConnected PROVE HostFlag'
  <2>1. connected' /\ doomed = 0 /\ UNCHANGED <<chan, dc, doomed>>
    BY <1>5a DEF AuthConnected, HostFlag, envVars, watchVars
  <2> QED
    BY <2>1 DEF HostFlag
<1>6. ASSUME NEW p \in Pcs, HostClosed(p) PROVE HostFlag'
  <2>1. UNCHANGED <<host, chan, authing, cancelled, doomed>> /\ doomed = 0 /\ ~authing
    BY <1>6 DEF HostClosed, HostFree, envVars, flagVars, listVars, watchVars
  <2>2. CASE p = host /\ ~cancelled /\ dc = p
    <3>1. dc' = 0 /\ host # 0
      BY <1>6, <2>2 DEF HostClosed, TypeOK, Pcs
    <3> QED
      BY <2>1, <3>1 DEF HostFlag
  <2>3. CASE ~(p = host /\ ~cancelled /\ dc = p)
    BY <1>6, <2>1, <2>3 DEF HostClosed, HostFlag
  <2> QED
    BY <2>2, <2>3
<1>7. ASSUME NEW p \in Pcs, HostWatch(p) PROVE HostFlag'
  BY <1>7 DEF HostWatch, HostFlag, HostFree, ShouldCancel, TypeOK, envVars, flagVars, listVars, watchVars
<1>8. ASSUME HostWatchCancel PROVE HostFlag'
  BY <1>8 DEF HostWatchCancel, HostFlag, TypeOK, envVars, flagVars, listVars, watchVars
<1>9. ASSUME NEW p \in Pcs, WatchRead(p) PROVE HostFlag'
  BY <1>9 DEF WatchRead, HostFlag, envVars, flagVars, listVars, watchVars
<1>10. ASSUME NEW p \in Pcs, WatchCancelled(p) PROVE HostFlag'
  <2>1. (IF who[p] = None THEN {} ELSE {p}) \in SUBSET Pcs
    BY <1>10 DEF TypeOK, Built, GuestOf, Pcs, WatchCancelled
  <2> QED
    BY <1>10, <2>1, CloseKeepsFlag DEF WatchCancelled, envVars, flagVars, listVars, watchVars
<1>11. ASSUME NEW p \in Pcs, GuestClosed(p) PROVE HostFlag'
  BY <1>11 DEF GuestClosed, HostFlag, envVars, flagVars, listVars, watchVars
<1>12. ASSUME NEW p \in Pcs, GuestWatch(p) PROVE HostFlag'
  <2>1. CASE p \notin guests
    BY <1>12, <2>1 DEF GuestWatch, HostFlag, envVars, flagVars, listVars, watchVars
  <2>2. CASE p \in guests
    <3>1. Close({p}) /\ UNCHANGED <<host, dc, connected, authing, cancelled, doomed>>
      BY <1>12, <2>2 DEF GuestWatch, flagVars
    <3> QED
      BY <3>1, CloseKeepsFlag
  <2> QED
    BY <2>1, <2>2
<1>12a. ASSUME GuestWatchCancel PROVE HostFlag'
  <2>1. cancelled' /\ UNCHANGED <<chan, dc, connected, authing, doomed>>
    BY <1>12a DEF GuestWatchCancel, envVars
  <2> QED
    BY <2>1 DEF HostFlag
<1>13. ASSUME NEW p \in Pcs, Press(p) PROVE HostFlag'
  BY <1>13 DEF Press, HostFlag, envVars, flagVars, listVars, watchVars
<1>14. ASSUME NEW p \in Pcs, Claim(p) PROVE HostFlag'
  BY <1>14 DEF Claim, HostFlag, envVars, flagVars, listVars, watchVars
<1>15. ASSUME HostOffer PROVE HostFlag'
  BY <1>15 DEF HostOffer, HostFlag, envVars, flagVars, listVars, watchVars
<1>16. ASSUME Acquired PROVE HostFlag'
  <2>1. host' = npc + 1 /\ UNCHANGED <<dc, connected, authing, cancelled, doomed>>
    BY <1>16 DEF Acquired, SwapHost
  <2>2. dc # host' /\ npc \in Nat
    BY <2>1 DEF TypeOK, Built, Pcs
  <2>3. \A q \in Pcs : chan[q] # "none" => chan'[q] # "none"
    BY <1>16 DEF Acquired, SwapHost, TypeOK
  <2>4. dc # 0 => dc \in Pcs
    BY DEF TypeOK
  <2> QED
    BY <2>1, <2>2, <2>3, <2>4 DEF HostFlag
<1>17. ASSUME PoolEmpty PROVE HostFlag'
  <2>1. (IF job.phase = "swap" THEN {host} ELSE {}) \in SUBSET Pcs
    BY <1>17 DEF CloseHostPeer, TypeOK, Built, GuestOf, Pcs, PoolEmpty
  <2> QED
    BY <1>17, <2>1, CloseKeepsFlag DEF CloseHostPeer, PoolEmpty, envVars, flagVars, listVars, watchVars
<1>18. ASSUME NEW ok \in BOOLEAN, Exchange(ok) PROVE HostFlag'
  <2>1. (IF ~ok /\ job.phase = "retry" THEN {host} ELSE {}) \in SUBSET Pcs
    BY <1>18 DEF CloseHostPeer, TypeOK, Built, GuestOf, Pcs, Exchange
  <2> QED
    BY <1>18, <2>1, CloseKeepsFlag DEF CloseHostPeer, Exchange, envVars, flagVars, listVars, watchVars
<1>19. ASSUME NEW ok \in BOOLEAN, Notify(ok) PROVE HostFlag'
  <2>1. CASE ok
    BY <1>19, <2>1 DEF CloseHostPeer, Notify, HostFlag, envVars, flagVars, listVars, watchVars
  <2>2. CASE ~ok
    BY <1>19, <2>2, {host} \in SUBSET Pcs, CloseKeepsFlag DEF CloseHostPeer, Notify, TypeOK, envVars, flagVars, listVars, watchVars
  <2> QED
    BY <2>1, <2>2
<1>20. ASSUME NEW ok \in BOOLEAN, GuestNotify(ok) PROVE HostFlag'
  <2>1. CASE ok
    BY <1>20, <2>1 DEF GuestNotify, HostFlag, envVars, flagVars, listVars, watchVars
  <2>2. CASE ~ok
    <3>1. guests \cap {job.pc} \in SUBSET Pcs
      BY DEF TypeOK
    <3> QED
      BY <1>20, <2>2, <3>1, CloseKeepsFlag DEF GuestNotify, envVars, flagVars, listVars, watchVars
  <2> QED
    BY <2>1, <2>2
<1>21. ASSUME NEW t \in Tokens, GuestOffer(t) PROVE HostFlag'
  BY <1>21 DEF GuestOffer, HostFlag, envVars, flagVars, listVars, watchVars
<1>22. ASSUME GuestExchangeFails PROVE HostFlag'
  <2>1. {job.pc} \in SUBSET Pcs
    BY <1>22 DEF TypeOK, Built, GuestOf, Pcs, GuestExchangeFails
  <2> QED
    BY <1>22, <2>1, CloseKeepsFlag DEF GuestExchangeFails, envVars, flagVars, listVars, watchVars
<1>23. ASSUME GuestInstalled PROVE HostFlag'
  <2>1. GuestOf(who[job.pc]) \in SUBSET Pcs
    BY <1>23 DEF TypeOK, Built, GuestOf, Pcs, GuestInstalled
  <2> QED
    BY <1>23, <2>1, CloseKeepsFlag DEF GuestInstalled, envVars, flagVars, listVars, watchVars
<1>24. ASSUME CloseSessionPeers PROVE HostFlag'
  <2>1. cancelled' /\ dc' = 0 /\ ~connected' /\ ~authing'
    BY <1>24 DEF CloseSessionPeers, HostFree
  <2> QED
    BY <2>1 DEF HostFlag
<1>25. CASE UNCHANGED vars
  BY <1>25 DEF HostFlag, vars, envVars, flagVars, listVars, watchVars
<1> QED
  BY <1>1, <1>2, <1>3, <1>4, <1>5, <1>5a, <1>6, <1>7, <1>8, <1>9, <1>10, <1>11, <1>12,
     <1>12a, <1>13, <1>14, <1>15, <1>16, <1>17, <1>18, <1>19, <1>20, <1>21, <1>22, <1>23, <1>24, <1>25
     DEF Next, Network, HostPeer, Watchers, GuestPeer, Offers
-----------------------------------------------------------------------------
(* One entry per token, and closed connections.                            *)

\* Only GuestInstalled adds to session.guests, and no step gives a listed
\* connection to another peer.
LEMMA GuestsShrink ==
  TypeOK /\ Built /\ [Next]_vars /\ ~GuestInstalled
      => guests' \subseteq guests /\ \A p \in guests : who'[p] = who[p]
<1> SUFFICES ASSUME TypeOK, Built, Next, ~GuestInstalled
             PROVE  guests' \subseteq guests /\ \A p \in guests : who'[p] = who[p]
  BY DEF vars, listVars
<1>1. CASE Network
  BY <1>1 DEF Network, Connect, Lose, OpenChannel, CloseChannel, listVars
<1>2. CASE HostPeer
  BY <1>2 DEF HostPeer, Auth, AuthConnected, HostClosed, HostWatch, HostWatchCancel, listVars
<1>3. CASE Watchers
  BY <1>3 DEF Watchers, WatchRead, WatchCancelled, listVars
<1>4. CASE GuestPeer
  BY <1>4 DEF GuestPeer, GuestClosed, GuestWatch, GuestWatchCancel, Press, Claim, listVars
<1>5. ASSUME NEW t \in Tokens, GuestOffer(t)
      PROVE  guests' \subseteq guests /\ \A p \in guests : who'[p] = who[p]
  <2>1. guests' = guests /\ who' = [who EXCEPT ![npc + 1] = t]
    BY <1>5 DEF GuestOffer, listVars
  <2>2. npc + 1 \notin guests
    BY DEF TypeOK, Built, Pcs
  <2> QED
    BY <2>1, <2>2 DEF TypeOK
<1>6. CASE HostOffer \/ Acquired \/ PoolEmpty \/ GuestExchangeFails \/ CloseSessionPeers
  BY <1>6 DEF HostOffer, Acquired, PoolEmpty, GuestExchangeFails, CloseSessionPeers, listVars
<1>7. CASE \E ok \in BOOLEAN : Exchange(ok) \/ Notify(ok) \/ GuestNotify(ok)
  BY <1>7 DEF Exchange, Notify, GuestNotify, listVars
<1> QED
  BY <1>1, <1>2, <1>3, <1>4, <1>5, <1>6, <1>7 DEF Next, Offers

LEMMA TokenNext == TypeOK /\ Built /\ OneEntryPerToken /\ [Next]_vars => OneEntryPerToken'
<1> SUFFICES ASSUME TypeOK, Built, OneEntryPerToken, [Next]_vars PROVE OneEntryPerToken'
  OBVIOUS
<1>1. CASE GuestInstalled
  <2>1. who' = who /\ guests' = (guests \ GuestOf(who[job.pc])) \cup {job.pc}
    BY <1>1 DEF GuestInstalled
  <2> QED
    BY <2>1 DEF OneEntryPerToken, GuestOf
<1>2. CASE ~GuestInstalled
  BY <1>2, GuestsShrink DEF OneEntryPerToken
<1> QED
  BY <1>1, <1>2

\* Closing the connections that leave the session keeps SupersededIsClosed.
LEMMA CloseKeepsClosed ==
  ASSUME TypeOK, Built, SupersededIsClosed, NEW ps \in SUBSET Pcs, Close(ps),
         npc' = npc, host' = host, guests \subseteq guests' \cup ps,
         job.phase = "guest_exchange" => job.pc \in ps \cup guests'
  PROVE  SupersededIsClosed'
<1> SUFFICES ASSUME NEW q \in 1 .. npc, q \notin guests', q # host PROVE conn'[q] = "closed"
  BY DEF SupersededIsClosed
<1>0. npc \in 1 .. MaxPcs
  BY DEF TypeOK, Pcs
<1>1. q \in Pcs
  BY <1>0, PeersAssumption DEF Pcs
<1>2. CASE q \in ps
  BY <1>1, <1>2, CloseEffect
<1>3. CASE q \notin ps
  <2>1. conn[q] = "closed"
    BY <1>3 DEF SupersededIsClosed
  <2> QED
    BY <1>1, <1>3, <2>1, CloseEffect
<1> QED
  BY <1>2, <1>3

LEMMA ClosedNext == TypeOK /\ Built /\ SupersededIsClosed /\ [Next]_vars => SupersededIsClosed'
<1> SUFFICES ASSUME TypeOK, Built, SupersededIsClosed, [Next]_vars PROVE SupersededIsClosed'
  OBVIOUS
<1> USE PeersAssumption
<1>1. ASSUME NEW p \in Pcs, Connect(p) PROVE SupersededIsClosed'
  <2>1. \A q \in Pcs : conn[q] = "closed" => conn'[q] = "closed"
    BY <1>1 DEF Connect, TypeOK
  <2>2. UNCHANGED <<npc, guests, host, job>> /\ \A q \in 1 .. npc : q \in Pcs
    BY <1>1 DEF Connect, TypeOK, Pcs, envVars, flagVars, listVars, watchVars
  <2> QED
    BY <2>1, <2>2 DEF SupersededIsClosed
<1>2. ASSUME NEW p \in Pcs, NEW state \in {"failed", "disconnected"}, Lose(p, state) PROVE SupersededIsClosed'
  <2>1. \A q \in Pcs : conn[q] = "closed" => conn'[q] = "closed"
    BY <1>2 DEF Lose, TypeOK
  <2>2. UNCHANGED <<npc, guests, host, job>> /\ \A q \in 1 .. npc : q \in Pcs
    BY <1>2 DEF Lose, TypeOK, Pcs, envVars, flagVars, listVars, watchVars
  <2> QED
    BY <2>1, <2>2 DEF SupersededIsClosed
<1>3. ASSUME NEW p \in Pcs, OpenChannel(p) PROVE SupersededIsClosed'
  BY <1>3 DEF OpenChannel, SupersededIsClosed, envVars, flagVars, listVars, watchVars
<1>4. ASSUME NEW p \in Pcs, CloseChannel(p) PROVE SupersededIsClosed'
  BY <1>4 DEF CloseChannel, SupersededIsClosed, envVars, flagVars, listVars, watchVars
<1>5. ASSUME NEW p \in Pcs, Auth(p) PROVE SupersededIsClosed'
  BY <1>5 DEF Auth, SupersededIsClosed, envVars, flagVars, listVars, watchVars
<1>5a. ASSUME AuthConnected PROVE SupersededIsClosed'
  BY <1>5a DEF AuthConnected, SupersededIsClosed, envVars, listVars
<1>6. ASSUME NEW p \in Pcs, HostClosed(p) PROVE SupersededIsClosed'
  BY <1>6 DEF HostClosed, SupersededIsClosed, envVars, flagVars, listVars, watchVars
<1>7. ASSUME NEW p \in Pcs, HostWatch(p) PROVE SupersededIsClosed'
  BY <1>7 DEF HostWatch, SupersededIsClosed, envVars, flagVars, listVars, watchVars
<1>8. ASSUME HostWatchCancel PROVE SupersededIsClosed'
  BY <1>8 DEF HostWatchCancel, SupersededIsClosed, envVars, flagVars, listVars, watchVars
<1>9. ASSUME NEW p \in Pcs, WatchRead(p) PROVE SupersededIsClosed'
  BY <1>9 DEF WatchRead, SupersededIsClosed, envVars, flagVars, listVars, watchVars
<1>10. ASSUME NEW p \in Pcs, WatchCancelled(p) PROVE SupersededIsClosed'
  <2>1. (IF who[p] = None THEN {} ELSE {p}) \in SUBSET Pcs
    OBVIOUS
  <2>2. \A q \in Pcs : conn[q] = "closed" => conn'[q] = "closed"
    BY <1>10, <2>1, CloseEffect DEF WatchCancelled
  <2>3. UNCHANGED <<npc, guests, host, job>> /\ \A q \in 1 .. npc : q \in Pcs
    BY <1>10 DEF WatchCancelled, TypeOK, Pcs, envVars, flagVars, listVars, watchVars
  <2> QED
    BY <2>2, <2>3 DEF SupersededIsClosed
<1>11. ASSUME NEW p \in Pcs, GuestClosed(p) PROVE SupersededIsClosed'
  <2>1. \A q \in Pcs : /\ conn[q] = "closed" => conn'[q] = "closed"
                       /\ q \in guests \ guests' => conn'[q] = "closed"
    BY <1>11 DEF GuestClosed, TypeOK
  <2>2. UNCHANGED <<npc, host, job>> /\ \A q \in 1 .. npc : q \in Pcs
    BY <1>11 DEF GuestClosed, TypeOK, Pcs, envVars, flagVars, listVars, watchVars
  <2> QED
    BY <2>1, <2>2 DEF SupersededIsClosed
<1>12. ASSUME NEW p \in Pcs, GuestWatch(p) PROVE SupersededIsClosed'
  <2>1. CASE p \notin guests
    BY <1>12, <2>1 DEF GuestWatch, SupersededIsClosed, envVars, flagVars, listVars, watchVars
  <2>2. CASE p \in guests
    <3>1. Close({p}) /\ UNCHANGED <<npc, host, job>> /\ guests' = guests \ {p}
      BY <1>12, <2>2 DEF GuestWatch, flagVars
    <3>2. \A q \in Pcs : conn[q] = "closed" \/ q = p => conn'[q] = "closed"
      BY <3>1, CloseEffect
    <3>3. \A q \in 1 .. npc : q \in Pcs
      BY DEF TypeOK, Pcs
    <3> QED
      BY <3>1, <3>2, <3>3 DEF SupersededIsClosed
  <2> QED
    BY <2>1, <2>2
<1>12a. ASSUME GuestWatchCancel PROVE SupersededIsClosed'
  BY <1>12a DEF GuestWatchCancel, SupersededIsClosed, envVars, listVars
<1>13. ASSUME NEW p \in Pcs, Press(p) PROVE SupersededIsClosed'
  BY <1>13 DEF Press, SupersededIsClosed, envVars, flagVars, listVars, watchVars
<1>14. ASSUME NEW p \in Pcs, Claim(p) PROVE SupersededIsClosed'
  BY <1>14 DEF Claim, SupersededIsClosed, envVars, flagVars, listVars, watchVars
<1>15. ASSUME HostOffer PROVE SupersededIsClosed'
  <2>1. job.phase = "idle" /\ job'.phase # "guest_exchange"
    BY <1>15 DEF HostOffer, Then, Idle, TypeOK
  <2> QED
    BY <1>15, <2>1 DEF HostOffer, SupersededIsClosed, envVars, flagVars, listVars, watchVars
<1>16. ASSUME Acquired PROVE SupersededIsClosed'
  <2> USE DEF Acquired, SwapHost
  <2>1. /\ npc' = npc + 1 /\ host' = npc + 1 /\ guests' = guests
        /\ job.phase # "guest_exchange" /\ npc \in Nat /\ npc < MaxPcs /\ host \in 1 .. npc
    BY <1>16 DEF TypeOK, Built, Pcs, listVars
  <2>2. ASSUME NEW q \in 1 .. npc, q \notin guests PROVE conn'[q] = "closed"
    <3>1. q # npc + 1 /\ q \in Pcs
      BY <2>1 DEF Pcs
    <3>2. CASE q = host
      BY <1>16, <3>1, <3>2 DEF TypeOK
    <3>3. CASE q # host
      <4>1. conn[q] = "closed"
        BY <2>1, <2>2, <3>3 DEF SupersededIsClosed
      <4> QED
        BY <1>16, <3>1, <3>3, <4>1 DEF TypeOK
    <3> QED
      BY <3>2, <3>3
  <2>3. \A q \in 1 .. npc' : q # host' => q \in 1 .. npc
    BY <2>1
  <2> QED
    BY <2>1, <2>2, <2>3 DEF SupersededIsClosed
<1>17. ASSUME PoolEmpty PROVE SupersededIsClosed'
  <2>1. (IF job.phase = "swap" THEN {host} ELSE {}) \in SUBSET Pcs
    BY <1>17 DEF CloseHostPeer, TypeOK, Built, GuestOf, Pcs, PoolEmpty
  <2>2. /\ npc' = npc /\ host' = host /\ guests \subseteq guests' \cup (IF job.phase = "swap" THEN {host} ELSE {})
        /\ job.phase = "guest_exchange" => job.pc \in (IF job.phase = "swap" THEN {host} ELSE {}) \cup guests'
    BY <1>17 DEF CloseHostPeer, PoolEmpty, Idle, envVars, flagVars, listVars, watchVars
  <2> QED
    BY <1>17, <2>1, <2>2, CloseKeepsClosed DEF CloseHostPeer, PoolEmpty
<1>18. ASSUME NEW ok \in BOOLEAN, Exchange(ok) PROVE SupersededIsClosed'
  <2>1. (IF ~ok /\ job.phase = "retry" THEN {host} ELSE {}) \in SUBSET Pcs
    BY <1>18 DEF CloseHostPeer, TypeOK, Built, GuestOf, Pcs, Exchange
  <2>2. /\ npc' = npc /\ host' = host /\ guests \subseteq guests' \cup (IF ~ok /\ job.phase = "retry" THEN {host} ELSE {})
        /\ job.phase = "guest_exchange" => job.pc \in (IF ~ok /\ job.phase = "retry" THEN {host} ELSE {}) \cup guests'
    BY <1>18 DEF CloseHostPeer, Exchange, Idle, envVars, flagVars, listVars, watchVars
  <2> QED
    BY <1>18, <2>1, <2>2, CloseKeepsClosed DEF CloseHostPeer, Exchange
<1>19. ASSUME NEW ok \in BOOLEAN, Notify(ok) PROVE SupersededIsClosed'
  <2>1. CASE ok
    <3>1. \A q \in Pcs : conn[q] = "closed" => conn'[q] = "closed"
      BY <1>19, <2>1 DEF CloseHostPeer, Notify, TypeOK
    <3>2. UNCHANGED <<npc, guests, host>> /\ \A q \in 1 .. npc : q \in Pcs
      BY <1>19 DEF CloseHostPeer, Notify, TypeOK, Pcs, envVars, flagVars, listVars, watchVars
    <3>3. job.phase # "guest_exchange"
      BY <1>19 DEF CloseHostPeer, Notify
    <3> QED
      BY <3>1, <3>2, <3>3 DEF SupersededIsClosed
  <2>2. CASE ~ok
    <3>1. /\ {host} \in SUBSET Pcs /\ Close({host}) /\ npc' = npc /\ host' = host
          /\ guests' = guests /\ job.phase # "guest_exchange"
      BY <1>19, <2>2 DEF CloseHostPeer, Notify, TypeOK, envVars, flagVars, listVars, watchVars
    <3> QED
      BY <3>1, CloseKeepsClosed
  <2> QED
    BY <2>1, <2>2
<1>20. ASSUME NEW ok \in BOOLEAN, GuestNotify(ok) PROVE SupersededIsClosed'
  <2>0. job.phase = "guest_notify" /\ npc' = npc /\ host' = host
    BY <1>20 DEF GuestNotify, envVars, flagVars, listVars, watchVars
  <2>1. CASE ok
    <3>1. \A q \in Pcs : conn[q] = "closed" => conn'[q] = "closed"
      BY <1>20, <2>1 DEF GuestNotify, TypeOK
    <3>2. guests' = guests /\ \A q \in 1 .. npc : q \in Pcs
      BY <1>20, <2>1 DEF GuestNotify, TypeOK, Pcs
    <3> QED
      BY <2>0, <3>1, <3>2 DEF SupersededIsClosed
  <2>2. CASE ~ok
    <3>1. /\ guests \cap {job.pc} \in SUBSET Pcs /\ Close(guests \cap {job.pc})
          /\ guests' = guests \ {job.pc}
      BY <1>20, <2>2 DEF GuestNotify, TypeOK
    <3> QED
      BY <2>0, <3>1, CloseKeepsClosed
  <2> QED
    BY <2>1, <2>2
<1>21. ASSUME NEW t \in Tokens, GuestOffer(t) PROVE SupersededIsClosed'
  <2>1. /\ npc' = npc + 1 /\ npc \in Nat /\ npc < MaxPcs /\ job.phase = "idle"
        /\ job'.phase = "guest_exchange" /\ job'.pc = npc + 1
        /\ UNCHANGED <<guests, host>>
    BY <1>21 DEF GuestOffer, Idle, TypeOK, Pcs, envVars, flagVars, listVars, watchVars
  <2>2. \A q \in 1 .. npc : conn'[q] = conn[q]
    BY <1>21, <2>1 DEF GuestOffer, TypeOK, Pcs
  <2>3. \A q \in 1 .. npc' : q # npc + 1 => q \in 1 .. npc
    BY <2>1
  <2> QED
    BY <2>1, <2>2, <2>3 DEF SupersededIsClosed
<1>22. ASSUME GuestExchangeFails PROVE SupersededIsClosed'
  <2>1. {job.pc} \in SUBSET Pcs
    BY <1>22 DEF TypeOK, Built, GuestOf, Pcs, GuestExchangeFails
  <2>2. /\ npc' = npc /\ host' = host /\ guests \subseteq guests' \cup {job.pc}
        /\ job.phase = "guest_exchange" => job.pc \in {job.pc} \cup guests'
    BY <1>22 DEF GuestExchangeFails, Idle, envVars, flagVars, listVars, watchVars
  <2> QED
    BY <1>22, <2>1, <2>2, CloseKeepsClosed DEF GuestExchangeFails
<1>23. ASSUME GuestInstalled PROVE SupersededIsClosed'
  <2>1. GuestOf(who[job.pc]) \in SUBSET Pcs
    BY <1>23 DEF TypeOK, Built, GuestOf, Pcs, GuestInstalled
  <2>2. /\ npc' = npc /\ host' = host /\ guests \subseteq guests' \cup GuestOf(who[job.pc])
        /\ job.phase = "guest_exchange" => job.pc \in GuestOf(who[job.pc]) \cup guests'
    BY <1>23 DEF GuestInstalled, Idle, envVars, flagVars, listVars, watchVars
  <2> QED
    BY <1>23, <2>1, <2>2, CloseKeepsClosed DEF GuestInstalled
<1>24. ASSUME CloseSessionPeers PROVE SupersededIsClosed'
  <2>1. (guests \cup {host}) \in SUBSET Pcs
    BY <1>24 DEF TypeOK, Built, GuestOf, Pcs, CloseSessionPeers
  <2>2. /\ npc' = npc /\ host' = host /\ guests \subseteq guests' \cup (guests \cup {host})
        /\ job.phase = "guest_exchange" => job.pc \in (guests \cup {host}) \cup guests'
    BY <1>24 DEF CloseSessionPeers, Idle, envVars, flagVars, listVars, watchVars
  <2> QED
    BY <1>24, <2>1, <2>2, CloseKeepsClosed DEF CloseSessionPeers
<1>25. CASE UNCHANGED vars
  BY <1>25 DEF SupersededIsClosed, vars, envVars, flagVars, listVars, watchVars
<1> QED
  BY <1>1, <1>2, <1>3, <1>4, <1>5, <1>5a, <1>6, <1>7, <1>8, <1>9, <1>10, <1>11, <1>12,
     <1>12a, <1>13, <1>14, <1>15, <1>16, <1>17, <1>18, <1>19, <1>20, <1>21, <1>22, <1>23, <1>24, <1>25
     DEF Next, Network, HostPeer, Watchers, GuestPeer, Offers

-----------------------------------------------------------------------------
(* The limit on guests.  What admit_guest_exchange counted still holds when *)
(* the exchange is over: the other guests can only have left.              *)

GuestRoom ==
    /\ GuestsBounded
    /\ job.phase = "guest_exchange"
           => Cardinality(guests \ GuestOf(who[job.pc])) + 1 < MaxGuests

LEMMA GuestsFinite == TypeOK => IsFiniteSet(guests) /\ Cardinality(guests) \in Nat
<1> SUFFICES ASSUME TypeOK PROVE IsFiniteSet(guests) /\ Cardinality(guests) \in Nat
  OBVIOUS
<1>1. IsFiniteSet(Pcs)
  BY PeersAssumption, FS_Interval DEF Pcs
<1>2. guests \in SUBSET Pcs
  BY DEF TypeOK
<1> QED
  BY <1>1, <1>2, FS_Subset, FS_CardinalityType

\* The offer of an admitted guest leaves room for its connection.
LEMMA OfferRoom ==
  ASSUME TypeOK, Built, GuestsBounded, NEW t \in Tokens, GuestOffer(t)
  PROVE  GuestRoom'
<1> USE PeersAssumption
<1>1. /\ guests' = guests /\ job'.phase = "guest_exchange" /\ job'.pc = npc + 1
      /\ who' = [who EXCEPT ![npc + 1] = t] /\ npc + 1 \in Pcs /\ npc + 1 \notin guests
  BY DEF GuestOffer, listVars, TypeOK, Built, Pcs
<1>2. GuestOf(who[job.pc])' = GuestOf(t)
  <2>1. who'[npc + 1] = t /\ \A p \in guests : who'[p] = who[p]
    BY <1>1 DEF TypeOK
  <2> QED
    BY <1>1, <2>1 DEF GuestOf
<1>3. /\ IsFiniteSet(guests) /\ Cardinality(guests) \in Nat
      /\ IsFiniteSet(GuestOf(t)) /\ Cardinality(GuestOf(t)) \in Nat
  BY GuestsFinite, GuestOf(t) \in SUBSET guests, FS_Subset, FS_CardinalityType DEF GuestOf
<1>4. Cardinality(guests \ GuestOf(t)) = Cardinality(guests) - Cardinality(GuestOf(t))
  BY <1>3, FS_Difference, guests \cap GuestOf(t) = GuestOf(t) DEF GuestOf
<1>5. Cardinality(guests \ GuestOf(t)) + 1 < MaxGuests
  <2>1. CASE GuestOf(t) = {}
    BY <1>3, <1>4, <2>1 DEF GuestOffer, Admissible
  <2>2. CASE GuestOf(t) # {}
    <3>1. Cardinality(GuestOf(t)) # 0
      BY <1>3, <2>2, FS_EmptySet
    <3> QED
      BY <1>3, <1>4, <3>1 DEF GuestsBounded
  <2> QED
    BY <2>1, <2>2
<1> QED
  BY <1>1, <1>2, <1>5 DEF GuestRoom, GuestsBounded

LEMMA RoomNext == TypeOK /\ Built /\ TypeOK' /\ GuestRoom /\ [Next]_vars => GuestRoom'
<1> SUFFICES ASSUME TypeOK, Built, TypeOK', GuestRoom, [Next]_vars PROVE GuestRoom'
  OBVIOUS
<1> USE PeersAssumption
<1>1. CASE GuestInstalled
  <2>1. /\ job.phase = "guest_exchange" /\ job'.phase = "guest_notify"
        /\ guests' = (guests \ GuestOf(who[job.pc])) \cup {job.pc}
    <3>1. job \in [phase : Phases, pc : {0} \cup Pcs]
      BY DEF TypeOK
    <3>2. job' = [job EXCEPT !.phase = "guest_notify"]
      BY <1>1 DEF GuestInstalled, Then
    <3>3. job'.phase = "guest_notify"
      BY <3>1, <3>2
    <3> QED
      BY <1>1, <3>3 DEF GuestInstalled
  <2>2. /\ IsFiniteSet(guests \ GuestOf(who[job.pc]))
        /\ Cardinality(guests \ GuestOf(who[job.pc])) \in Nat
    BY GuestsFinite, FS_Difference, FS_CardinalityType
  <2>3. Cardinality(guests') <= Cardinality(guests \ GuestOf(who[job.pc])) + 1
    <3> DEFINE rest == guests \ GuestOf(who[job.pc])
    <3>1. guests' = rest \cup {job.pc}
      BY <2>1
    <3>2. IsFiniteSet(rest) /\ Cardinality(rest) \in Nat
      BY <2>2
    <3> HIDE DEF rest
    <3>3. Cardinality(rest \cup {job.pc}) <= Cardinality(rest) + 1
      <4>1. Cardinality(rest \cup {job.pc})
              = IF job.pc \in rest THEN Cardinality(rest) ELSE Cardinality(rest) + 1
        BY <3>2, FS_AddElement
      <4> QED
        BY <3>2, <4>1
    <3> QED
      BY <3>1, <3>3 DEF rest
  <2>4. Cardinality(guests') \in Nat
    <3> DEFINE rest == guests \ GuestOf(who[job.pc])
    <3>1. guests' = rest \cup {job.pc} /\ IsFiniteSet(rest)
      BY <2>1, <2>2
    <3> HIDE DEF rest
    <3>2. IsFiniteSet(rest \cup {job.pc})
      BY <3>1, FS_AddElement
    <3> QED
      BY <3>1, <3>2, FS_CardinalityType
  <2>5. Cardinality(guests \ GuestOf(who[job.pc])) + 1 < MaxGuests
    BY <2>1 DEF GuestRoom
  <2>6. GuestsBounded'
    <3>1. Cardinality(guests') < MaxGuests
      <4> DEFINE kept == Cardinality(guests \ GuestOf(who[job.pc]))
                 now  == Cardinality(guests')
      <4>1. kept \in Nat /\ now \in Nat /\ now <= kept + 1 /\ kept + 1 < MaxGuests
        BY <2>2, <2>3, <2>4, <2>5
      <4> HIDE DEF kept, now
      <4>2. now < MaxGuests
        BY <4>1
      <4> QED
        BY <4>2 DEF now
    <3> QED
      BY <3>1 DEF GuestsBounded
  <2> QED
    BY <2>1, <2>6 DEF GuestRoom
<1>2. CASE \E t \in Tokens : GuestOffer(t)
  <2>1. PICK t \in Tokens : GuestOffer(t)
    BY <1>2
  <2> QED
    BY <2>1, OfferRoom DEF GuestRoom
<1>3. CASE ~GuestInstalled /\ ~(\E t \in Tokens : GuestOffer(t))
  <2>1. guests' \subseteq guests /\ \A p \in guests : who'[p] = who[p]
    BY <1>3, GuestsShrink
  <2>2. job'.phase = "guest_exchange" =>
            job.phase = "guest_exchange" /\ job'.pc = job.pc /\ who' = who
    <3>1. SUFFICES ASSUME Next, job'.phase = "guest_exchange"
                   PROVE  job' = job /\ who' = who
      BY DEF vars
    <3>2. CASE Network
      BY <3>2 DEF Network, Connect, Lose, OpenChannel, CloseChannel
    <3>3. CASE HostPeer
      BY <3>3 DEF HostPeer, Auth, AuthConnected, HostClosed, HostWatch, HostWatchCancel
    <3>4. CASE Watchers
      BY <3>4 DEF Watchers, WatchRead, WatchCancelled
    <3>5. CASE GuestPeer
      BY <3>5 DEF GuestPeer, GuestClosed, GuestWatch, GuestWatchCancel, Press, Claim
    <3>6. CASE HostOffer \/ Acquired \/ PoolEmpty \/ GuestExchangeFails \/ CloseSessionPeers
      BY <3>1, <3>6 DEF HostOffer, Acquired, PoolEmpty, GuestExchangeFails,
                        CloseSessionPeers, Then, Idle, TypeOK
    <3>7. CASE \E ok \in BOOLEAN : Exchange(ok) \/ Notify(ok) \/ GuestNotify(ok)
      <4>1. job \in [phase : Phases, pc : {0} \cup Pcs]
        BY DEF TypeOK
      <4>2. ASSUME NEW ok \in BOOLEAN, Exchange(ok) PROVE job'.phase # "guest_exchange"
        BY <4>1, <4>2 DEF Exchange, Then
      <4>3. ASSUME NEW ok \in BOOLEAN, Notify(ok) PROVE job'.phase # "guest_exchange"
        BY <4>1, <4>3 DEF Notify, Then
      <4>4. ASSUME NEW ok \in BOOLEAN, GuestNotify(ok) PROVE job'.phase # "guest_exchange"
        BY <4>4 DEF GuestNotify, Idle
      <4> QED
        BY <3>1, <3>7, <4>2, <4>3, <4>4
    <3> QED
      BY <1>3, <3>1, <3>2, <3>3, <3>4, <3>5, <3>6, <3>7 DEF Next, Offers
  <2>3. GuestsBounded'
    <3>1. Cardinality(guests') \in Nat /\ Cardinality(guests') <= Cardinality(guests)
      BY <2>1, GuestsFinite, FS_Subset, FS_CardinalityType
    <3> QED
      BY <3>1, GuestsFinite DEF GuestRoom, GuestsBounded
  <2>4. ASSUME job'.phase = "guest_exchange"
        PROVE  Cardinality(guests' \ GuestOf(who[job.pc])') + 1 < MaxGuests
    <3> DEFINE old == guests \ GuestOf(who[job.pc])
               new == guests' \ GuestOf(who[job.pc])'
    <3>1. new \in SUBSET old
      BY <2>1, <2>2, <2>4 DEF GuestOf
    <3>2. IsFiniteSet(old)
      BY GuestsFinite, FS_Difference
    <3>3. /\ Cardinality(new) \in Nat /\ Cardinality(old) \in Nat
          /\ Cardinality(new) <= Cardinality(old)
      <4> HIDE DEF old, new
      <4> QED
        BY <3>1, <3>2, FS_Subset, FS_CardinalityType
    <3>4. Cardinality(old) + 1 < MaxGuests
      BY <2>2, <2>4 DEF GuestRoom
    <3> HIDE DEF old
    <3> QED
      BY <3>3, <3>4
  <2> QED
    BY <2>3, <2>4 DEF GuestRoom
<1> QED
  BY <1>1, <1>2, <1>3

-----------------------------------------------------------------------------
(* The theorems.                                                           *)

PeersInv ==
    TypeOK /\ Built /\ HostFlag /\ OneEntryPerToken /\ SupersededIsClosed /\ GuestRoom

LEMMA PeersInductive == Spec => []PeersInv
<1>1. Init => PeersInv
  <2> SUFFICES ASSUME Init PROVE PeersInv
    OBVIOUS
  <2>1. HostFlag /\ OneEntryPerToken /\ SupersededIsClosed
    BY DEF Init, HostFlag, HostOpen, OneEntryPerToken, SupersededIsClosed
  <2>2. GuestRoom
    BY FS_EmptySet, PeersAssumption DEF Init, Idle, GuestRoom, GuestsBounded
  <2> QED
    BY <2>1, <2>2, TypeInit DEF PeersInv
<1>2. PeersInv /\ [Next]_vars => PeersInv'
  BY TypeNext, FlagNext, TokenNext, ClosedNext, RoomNext DEF PeersInv
<1> QED
  BY <1>1, <1>2, PTL DEF Spec

\* Every reachable state is well typed: session.pc and session.dc only ever
\* refer to the host browser's connections, session.guests to guests'.
THEOREM PeersTypeCorrect == Spec => []TypeOK
<1>1. PeersInv => TypeOK
  BY DEF PeersInv
<1> QED
  BY <1>1, PeersInductive, PTL

\* A peer token has at most one entry in session.guests, however its owner's
\* reconnects interleave with the callbacks of its older connections.
THEOREM GuestsDistinct == Spec => []OneEntryPerToken
<1>1. PeersInv => OneEntryPerToken
  BY DEF PeersInv
<1> QED
  BY <1>1, PeersInductive, PTL

\* Admission bounds session.guests below MAX_ACTIVE_GUESTS, although the check
\* happens before the exchange is awaited and the list is written after it.
THEOREM GuestLimit == Spec => []GuestsBounded
<1>1. PeersInv => GuestsBounded
  BY DEF PeersInv, GuestRoom
<1> QED
  BY <1>1, PeersInductive, PTL

\* Every connection the session has let go of is closed: replaced hosts and
\* guests, failed exchanges, guests removed by callbacks and watchers.
THEOREM NoLeakedConnection == Spec => []SupersededIsClosed
<1>1. PeersInv => SupersededIsClosed
  BY DEF PeersInv
<1> QED
  BY <1>1, PeersInductive, PTL

\* Both together: every open connection is in the session's books, and there once.
THEOREM PeersInBooks == Spec => []PeersTracked
<1>1. OneEntryPerToken /\ SupersededIsClosed => PeersTracked
  BY DEF PeersTracked
<1> QED
  BY <1>1, GuestsDistinct, NoLeakedConnection, PTL

\* No ICE watcher cancels the session under an open authenticated host channel,
\* except the last guest's when it looked before the authentication was complete:
\* host_lifecycle keeps the host watcher's answer true until its cancellation,
\* and nothing keeps the guest watcher's.
THEOREM HostKeepsSession == Spec => NoCancelUnderHost
<1>1. PeersInv /\ [Next]_vars =>
        [/\ HostOpen /\ ~cancelled /\ cancelled' /\ job'.phase # "gone"
               => leaving /\ ~leaving'
         /\ HostOpen /\ ~cancelled /\ ~leaving /\ leaving' => authing]_vars
  <2> SUFFICES ASSUME PeersInv, Next, HostOpen, ~cancelled
               PROVE  /\ cancelled' /\ job'.phase # "gone" => leaving /\ ~leaving'
                      /\ ~leaving /\ leaving' => authing
    OBVIOUS
  <2>0. (connected \/ authing) /\ doomed = 0 /\ TypeOK
    <3>1. (connected \/ authing) /\ (doomed # 0 => ~connected /\ ~authing) /\ TypeOK
      BY DEF PeersInv, HostFlag
    <3> QED
      BY <3>1
  <2>1. CASE Network
    BY <2>1 DEF Network, Connect, Lose, OpenChannel, CloseChannel, flagVars, watchVars
  <2>2. CASE HostPeer
    BY <2>0, <2>2 DEF HostPeer, Auth, AuthConnected, HostClosed, HostWatch, HostWatchCancel,
                      watchVars
  <2>3. CASE Watchers
    BY <2>3 DEF Watchers, WatchRead, WatchCancelled, flagVars
  <2>4. CASE GuestPeer
    <3>1. CASE \E p \in Pcs : GuestClosed(p) \/ Press(p) \/ Claim(p)
      BY <3>1 DEF GuestClosed, Press, Claim, flagVars, watchVars
    <3>2. ASSUME NEW p \in Pcs, GuestWatch(p)
          PROVE  ~cancelled' /\ (~leaving /\ leaving' => authing)
      <4>1. cancelled' = cancelled
        BY <3>2 DEF GuestWatch, flagVars
      <4>2. ~leaving /\ leaving' => ~connected
        BY <3>2 DEF GuestWatch
      <4> QED
        BY <2>0, <4>1, <4>2
    <3>3. CASE GuestWatchCancel
      BY <3>3 DEF GuestWatchCancel
    <3>4. CASE \E p \in Pcs : GuestWatch(p)
      BY <3>2, <3>4
    <3> QED
      BY <2>4, <3>1, <3>3, <3>4 DEF GuestPeer
  <2>5. CASE CloseSessionPeers
    BY <2>0, <2>5 DEF CloseSessionPeers, TypeOK, watchVars
  <2>6. CASE Offers /\ ~CloseSessionPeers
    <3>1. CASE HostOffer \/ Acquired \/ PoolEmpty
      BY <3>1 DEF HostOffer, Acquired, PoolEmpty, flagVars, watchVars
    <3>2. CASE \E ok \in BOOLEAN : Exchange(ok) \/ Notify(ok) \/ GuestNotify(ok)
      <4>1. PICK ok \in BOOLEAN : Exchange(ok) \/ Notify(ok) \/ GuestNotify(ok)
        BY <3>2
      <4>2. CASE Exchange(ok)
        BY <4>2 DEF Exchange, flagVars, watchVars
      <4>3. CASE Notify(ok)
        BY <4>3 DEF Notify, flagVars, watchVars
      <4>4. CASE GuestNotify(ok)
        BY <4>4 DEF GuestNotify, flagVars, watchVars
      <4> QED
        BY <4>1, <4>2, <4>3, <4>4
    <3>3. CASE \E t \in Tokens : GuestOffer(t)
      BY <3>3 DEF GuestOffer, flagVars, watchVars
    <3>4. CASE GuestExchangeFails \/ GuestInstalled
      BY <3>4 DEF GuestExchangeFails, GuestInstalled, flagVars, watchVars
    <3> QED
      BY <2>6, <3>1, <3>2, <3>3, <3>4 DEF Offers
  <2> QED
    BY <2>1, <2>2, <2>3, <2>4, <2>5, <2>6 DEF Next
<1> QED
  BY <1>1, PeersInductive, PTL DEF Spec, NoCancelUnderHost

\* The claim on the player slot only leaves a peer that has left the list: the
\* callbacks of a replaced connection act on no one else's behalf.
THEOREM ClaimIsKept == Spec => ClaimKept
<1>1. PeersInv /\ [Next]_vars =>
        [claimed # None /\ claimed' # claimed => \A p \in guests' : who[p] # claimed]_vars
  <2> SUFFICES ASSUME PeersInv, Next, claimed # None, claimed' # claimed
               PROVE  \A p \in guests' : who[p] # claimed
    OBVIOUS
  <2>1. CASE Network
    BY <2>1 DEF Network, Connect, Lose, OpenChannel, CloseChannel, listVars
  <2>2. CASE HostPeer
    BY <2>2 DEF HostPeer, Auth, AuthConnected, HostClosed, HostWatch, HostWatchCancel, listVars
  <2>3. CASE Watchers
    BY <2>3 DEF Watchers, WatchRead, WatchCancelled, listVars
  <2>4. CASE GuestPeer
    <3>1. PICK p \in Pcs : GuestClosed(p) \/ GuestWatch(p)
      BY <2>4 DEF GuestPeer, GuestWatchCancel, Press, Claim, listVars
    <3>2. /\ p \in guests /\ guests' = guests \ {p}
          /\ guests' # {} => claimed = who[p]
      BY <3>1 DEF GuestClosed, GuestWatch, Released
    <3> QED
      BY <3>2 DEF PeersInv, OneEntryPerToken
  <2>5. CASE Offers
    BY <2>5 DEF Offers, HostOffer, Acquired, PoolEmpty, Exchange, Notify, GuestNotify,
                GuestOffer, GuestExchangeFails, GuestInstalled, CloseSessionPeers, listVars
  <2> QED
    BY <2>1, <2>2, <2>3, <2>4, <2>5 DEF Next
<1> QED
  BY <1>1, PeersInductive, PTL DEF Spec, ClaimKept
=============================================================================
