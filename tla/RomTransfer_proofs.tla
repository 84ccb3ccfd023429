------------------------- MODULE RomTransfer_proofs -------------------------
(***************************************************************************)
(* Proofs about RomTransfer for every set of transfers, names, sizes and   *)
(* chunk limit.                                                            *)
(***************************************************************************)
EXTENDS RomTransfer, TLAPS

-----------------------------------------------------------------------------
(* Type correctness.                                                       *)

LEMMA ScanType == \A shelf : Scan(shelf) \in SUBSET Names
  BY DEF Scan

LEMMA TypeInit == Init => TypeOK
  BY TransferAssumption DEF Init, TypeOK, PStates, Replies

\* A protocol failure keeps the types of everything it touches.
LEMMA FailType ==
  ASSUME TypeOK, NEW t \in Transfers, Fail(t)
  PROVE  /\ pst' \in [Transfers -> PStates]
         /\ live' \in [Transfers -> BOOLEAN]
         /\ staged' \in [Transfers -> {"absent", "present", "kept", "stuck"}]
         /\ aged' \in [Transfers -> BOOLEAN]
         /\ reply' \in [Transfers -> Replies]
  BY DEF TypeOK, Fail, DiscardSink, PStates, Replies

\* So does a catalog push.
LEMMA PushType ==
  ASSUME TypeOK, NEW list \in SUBSET Names, NEW ok \in BOOLEAN,
         PushCatalog(list, ok)
  PROVE  /\ catalog' \in SUBSET Names
         /\ synced' \in BOOLEAN
         /\ late' \in SUBSET SUBSET Names
  BY DEF TypeOK, PushCatalog

LEMMA TypeNext == TypeOK /\ [Next]_vars => TypeOK'
<1> SUFFICES ASSUME TypeOK, [Next]_vars PROVE TypeOK'
  OBVIOUS
<1> USE TransferAssumption
<1>1. ASSUME NEW t \in Transfers, NEW ok \in BOOLEAN, HandleRomTransfer(t, ok)
      PROVE  TypeOK'
  <2>1. PICK gone \in SUBSET {u \in Transfers : aged[u]} :
           /\ staged' = [u \in Transfers |-> IF u \in gone THEN "absent" ELSE staged[u]]
           /\ aged' = [u \in Transfers |-> IF u \in gone THEN FALSE ELSE aged[u]]
    BY <1>1 DEF HandleRomTransfer, CleanupExpiredPartials
  <2>2. staged' \in [Transfers -> {"absent", "present", "kept", "stuck"}]
    BY <2>1 DEF TypeOK
  <2>3. aged' \in [Transfers -> BOOLEAN]
    <3>1. \A u \in Transfers : (IF u \in gone THEN FALSE ELSE aged[u]) \in BOOLEAN
      BY DEF TypeOK
    <3> QED BY <2>1, <3>1
  <2>4. pst' \in [Transfers -> PStates]
    BY <1>1 DEF TypeOK, HandleRomTransfer, PStates
  <2> QED BY <1>1, <2>2, <2>3, <2>4 DEF TypeOK, HandleRomTransfer, catalogVars
<1>2. ASSUME NEW t \in Transfers, NEW space \in BOOLEAN, OpenChannel(t, space)
      PROVE  TypeOK'
  <2>1. CASE final[Name[t]] = Free /\ space
    <3>1. /\ pst' = [pst EXCEPT ![t] = "AwaitingAuth"]
          /\ live' = [live EXCEPT ![t] = TRUE]
          /\ staged' = [staged EXCEPT ![t] = "present"]
          /\ UNCHANGED <<reply, received, closing, written, aged, final, catalogVars, del>>
      BY <1>2, <2>1 DEF OpenChannel, Stageable
    <3> QED
      BY <3>1 DEF TypeOK, PStates, catalogVars
  <2>2. CASE ~(final[Name[t]] = Free /\ space)
    BY <1>2, <2>2 DEF TypeOK, OpenChannel, Stageable, PStates, Replies, catalogVars
  <2> QED
    BY <2>1, <2>2
<1>3. ASSUME NEW t \in Transfers, NEW good \in BOOLEAN, Auth(t, good)
      PROVE  TypeOK'
  <2>1. CASE good
    BY <1>3, <2>1 DEF TypeOK, Auth, PStates, catalogVars
  <2>2. CASE ~good
    BY <1>3, <2>2, FailType DEF TypeOK, Auth, catalogVars
  <2> QED BY <2>1, <2>2
<1>4. ASSUME NEW t \in Transfers, BadControl(t) PROVE TypeOK'
  BY <1>4, FailType DEF TypeOK, BadControl, catalogVars
<1>5. ASSUME NEW t \in Transfers, NEW n \in 0 .. MaxChunk + 1,
             NEW io \in BOOLEAN, Chunk(t, n, io)
      PROVE  TypeOK'
  <2>1. CASE UNCHANGED <<pst, live, staged, reply>>
             /\ received' = [received EXCEPT ![t] = @ + n]
             /\ written' = [written EXCEPT ![t] = @ + n]
             /\ aged' = [aged EXCEPT ![t] = FALSE]
    <3>1. n \in Nat /\ received[t] \in Nat /\ written[t] \in Nat
      BY DEF TypeOK
    <3>2. received' \in [Transfers -> Nat] /\ written' \in [Transfers -> Nat]
      BY <2>1, <3>1 DEF TypeOK
    <3> QED BY <1>5, <2>1, <3>2 DEF TypeOK, Chunk, catalogVars
  <2>2. CASE Fail(t) /\ UNCHANGED <<received, written>>
    BY <1>5, <2>2, FailType DEF TypeOK, Chunk, catalogVars
  <2> QED BY <1>5, <2>1, <2>2 DEF Chunk
<1>6. ASSUME NEW t \in Transfers, Cancel(t) PROVE TypeOK'
  BY <1>6 DEF TypeOK, Cancel, DiscardSink, PStates, catalogVars
<1>7. ASSUME NEW t \in Transfers, CloseChannel(t) PROVE TypeOK'
  BY <1>7 DEF TypeOK, CloseChannel, fileVars, catalogVars
<1>8. ASSUME NEW t \in Transfers, Abort(t) PROVE TypeOK'
  BY <1>8 DEF TypeOK, Abort, DiscardSink, PStates, catalogVars
<1>9. ASSUME NEW t \in Transfers, NEW sizeClaim, NEW digest,
             NEW io \in BOOLEAN, NEW unlinked \in BOOLEAN,
             Complete(t, sizeClaim, digest, io, unlinked)
      PROVE  TypeOK'
  <2>1. CASE ~(Verified(t, sizeClaim, digest) /\ io /\ Promotable(t))
    BY <1>9, <2>1, FailType DEF TypeOK, Complete, catalogVars
  <2>2. CASE Verified(t, sizeClaim, digest) /\ io /\ Promotable(t)
    <3>1. final' \in [Names -> Transfers \cup {Free}]
      BY <1>9, <2>2 DEF TypeOK, Complete
    <3>2. pst' \in [Transfers -> PStates] /\ live' \in [Transfers -> BOOLEAN]
      <4>1. pst' \in [Transfers -> PStates]
        BY <1>9, <2>2 DEF TypeOK, Complete, PStates
      <4>2. live' \in [Transfers -> BOOLEAN]
        BY <1>9, <2>2 DEF TypeOK, Complete
      <4> QED BY <4>1, <4>2
    <3>3. staged' \in [Transfers -> {"absent", "present", "kept", "stuck"}]
      BY <1>9, <2>2 DEF TypeOK, Complete
    <3>4. aged' \in [Transfers -> BOOLEAN]
      <4>1. (IF unlinked THEN FALSE ELSE aged[t]) \in BOOLEAN
        BY DEF TypeOK
      <4>2. aged' = [aged EXCEPT ![t] = IF unlinked THEN FALSE ELSE aged[t]]
        BY <1>9, <2>2 DEF Complete
      <4> QED
        BY <4>1, <4>2 DEF TypeOK
    <3> QED BY <1>9, <2>2, <3>1, <3>2, <3>3, <3>4 DEF TypeOK, Complete, catalogVars
  <2> QED BY <2>1, <2>2
<1>10. ASSUME NEW t \in Transfers, CommitSyncStart(t) PROVE TypeOK'
  BY <1>10, ScanType DEF TypeOK, CommitSyncStart, StartSync, protocolVars, fileVars
<1>11. ASSUME NEW t \in Transfers, NEW ok \in BOOLEAN, CommitSyncEnd(t, ok)
       PROVE  TypeOK'
  <2>1. PushCatalog(games, ok) /\ games \in SUBSET Names
    BY <1>11 DEF CommitSyncEnd, FinishSync, TypeOK
  <2>2. reply' \in [Transfers -> Replies] /\ pst' \in [Transfers -> PStates]
    BY <1>11 DEF CommitSyncEnd, TypeOK, Replies, PStates
  <2> QED BY <1>11, <2>1, <2>2, PushType DEF CommitSyncEnd, FinishSync, TypeOK, fileVars
<1>12. ASSUME NEW t \in Transfers, AgePartial(t) PROVE TypeOK'
  BY <1>12 DEF TypeOK, AgePartial, protocolVars, catalogVars
<1>13. ASSUME NEW n \in Names, DeleteGame(n) PROVE TypeOK'
  BY <1>13 DEF TypeOK, DeleteGame, protocolVars, catalogVars
<1>14. ASSUME DeleteSyncStart PROVE TypeOK'
  BY <1>14, ScanType DEF TypeOK, DeleteSyncStart, StartSync, protocolVars, fileVars
<1>15. ASSUME NEW ok \in BOOLEAN, DeleteSyncEnd(ok) PROVE TypeOK'
  <2>1. PushCatalog(games, ok) /\ games \in SUBSET Names
    BY <1>15 DEF DeleteSyncEnd, FinishSync, TypeOK
  <2> QED BY <1>15, <2>1, PushType
          DEF DeleteSyncEnd, FinishSync, TypeOK, protocolVars, fileVars
<1>16. ASSUME NEW ok \in BOOLEAN, Restart(ok) PROVE TypeOK'
  <2>1. catalog' \in SUBSET Names /\ synced' \in BOOLEAN /\ late' \in SUBSET SUBSET Names
    <3>1. CASE PushCatalog(Scan(final), ok)
      BY <3>1, ScanType, PushType
    <3>2. CASE /\ late' = {games}
               /\ synced' = ok
               /\ catalog' \in IF ok THEN {Scan(final)} ELSE {catalog} \cup SUBSET Scan(final)
      BY <3>2, ScanType DEF TypeOK
    <3> QED BY <1>16, <3>1, <3>2 DEF Restart
  <2>2. pst' \in [Transfers -> PStates]
    BY <1>16 DEF Restart, TypeOK, PStates
  <2> QED BY <1>16, <2>1, <2>2, ScanType DEF Restart, TypeOK, fileVars
<1>17. ASSUME LateSync PROVE TypeOK'
  <2>1. catalog' \in SUBSET Names /\ late' \in SUBSET SUBSET Names /\ synced' \in BOOLEAN
    <3>1. catalog' \in late /\ late' = {} /\ synced' = FALSE
      BY <1>17 DEF LateSync
    <3>2. late \in SUBSET SUBSET Names
      BY DEF TypeOK
    <3> QED
      BY <3>1, <3>2
  <2>2. UNCHANGED <<protocolVars, fileVars, lock, games, del>>
    BY <1>17 DEF LateSync
  <2> QED
    BY <2>1, <2>2 DEF TypeOK, protocolVars, fileVars
<1>18. CASE UNCHANGED vars
  BY <1>18 DEF TypeOK, vars, protocolVars, fileVars, catalogVars
<1> QED
  BY <1>1, <1>2, <1>3, <1>4, <1>5, <1>6, <1>7, <1>8, <1>9, <1>10, <1>11, <1>12,
     <1>13, <1>14, <1>15, <1>16, <1>17, <1>18
     DEF Next, TransferStep, HostStep

\* The variables of the transfer machinery keep their types for ever.
THEOREM TypeCorrect == Spec => []TypeOK
<1>1. Init => TypeOK
  BY TypeInit
<1>2. TypeOK /\ [Next]_vars => TypeOK'
  BY TypeNext
<1> QED BY <1>1, <1>2, PTL DEF Spec

-----------------------------------------------------------------------------
(* Safety of publication and staging.  What the library holds and which    *)
(* partial files exist depends on three facts nobody states in the code: a *)
(* transfer has not answered while it can still publish, the catalog lock  *)
(* is only ever owned by a transfer that is committing, and only a channel *)
(* whose protocol object exists can be closing.                            *)

SilentWhileOpen ==
    \A t \in Transfers :
        pst[t] \in {"Idle", "Signalled", "AwaitingAuth", "Receiving", "Committing"}
            => reply[t] = "none"

LockIsCommitting ==
    \A t \in Transfers : lock = t => pst[t] = "Committing"

ClosingHasProtocol ==
    \A t \in Transfers :
        closing[t] => pst[t] \in {"AwaitingAuth", "Receiving", "Committing", "Done"}

Safe ==
    /\ PublishedIsWhole
    /\ AcceptingOwnsSink
    /\ NoPartialLeak
    /\ SilentWhileOpen
    /\ LockIsCommitting
    /\ ClosingHasProtocol

\* The inductive invariant.
IInv == TypeOK /\ Safe

LEMMA InitIInv == Init => IInv
<1> SUFFICES ASSUME Init PROVE IInv
  OBVIOUS
<1>1. TypeOK
  BY TypeInit
<1>2. Safe
  BY TransferAssumption DEF Init, Safe, PublishedIsWhole, AcceptingOwnsSink,
     NoPartialLeak, SilentWhileOpen, LockIsCommitting, ClosingHasProtocol
<1> QED BY <1>1, <1>2 DEF IInv

\* Every frame the protocol refuses ends the transfer the same way.
LEMMA FailIInv ==
  ASSUME IInv, NEW t \in Transfers, Fail(t),
         pst[t] \in {"AwaitingAuth", "Receiving"},
         UNCHANGED <<received, closing, written, final, lock>>
  PROVE  Safe'
<1> USE TransferAssumption DEF IInv, Safe, TypeOK
<1>1. /\ live' = [live EXCEPT ![t] = FALSE]
      /\ \/ staged' = [staged EXCEPT ![t] = "absent"]
         \/ staged' = [staged EXCEPT ![t] = "stuck"]
      /\ pst' = [pst EXCEPT ![t] = "Done"]
      /\ \A u \in Transfers : u # t => reply'[u] = reply[u]
  BY DEF Fail, DiscardSink, AcceptingOwnsSink
<1>2. PublishedIsWhole'
  BY <1>1 DEF PublishedIsWhole
<1>3. AcceptingOwnsSink'
  BY <1>1 DEF AcceptingOwnsSink
<1>4. NoPartialLeak'
  <2>1. \A n \in Names : final[n] # t
    BY DEF PublishedIsWhole
  <2> QED BY <1>1, <2>1 DEF NoPartialLeak
<1>5. SilentWhileOpen'
  BY <1>1 DEF SilentWhileOpen
<1>6. LockIsCommitting' /\ ClosingHasProtocol'
  BY <1>1 DEF LockIsCommitting, ClosingHasProtocol
<1> QED BY <1>2, <1>3, <1>4, <1>5, <1>6

LEMMA StepSafe == IInv /\ [Next]_vars => Safe'
<1> SUFFICES ASSUME IInv, [Next]_vars PROVE Safe'
  OBVIOUS
<1> USE TransferAssumption DEF IInv, Safe, TypeOK
<1>1. ASSUME NEW t \in Transfers, NEW ok \in BOOLEAN, HandleRomTransfer(t, ok)
      PROVE  Safe'
  BY <1>1 DEF HandleRomTransfer, CleanupExpiredPartials, catalogVars, PublishedIsWhole,
     AcceptingOwnsSink, NoPartialLeak, SilentWhileOpen, LockIsCommitting,
     ClosingHasProtocol
<1>2. ASSUME NEW t \in Transfers, NEW space \in BOOLEAN, OpenChannel(t, space)
      PROVE  Safe'
  BY <1>2 DEF OpenChannel, Stageable, catalogVars, PublishedIsWhole, AcceptingOwnsSink,
     NoPartialLeak, SilentWhileOpen, LockIsCommitting, ClosingHasProtocol
<1>3. ASSUME NEW t \in Transfers, NEW good \in BOOLEAN, Auth(t, good)
      PROVE  Safe'
  <2>1. CASE good
    BY <1>3, <2>1 DEF Auth, catalogVars, PublishedIsWhole, AcceptingOwnsSink,
       NoPartialLeak, SilentWhileOpen, LockIsCommitting, ClosingHasProtocol
  <2>2. CASE ~good
    BY <1>3, <2>2, FailIInv DEF Auth, catalogVars
  <2> QED BY <2>1, <2>2
<1>4. ASSUME NEW t \in Transfers, BadControl(t) PROVE Safe'
  BY <1>4, FailIInv DEF BadControl, catalogVars
<1>5. ASSUME NEW t \in Transfers, NEW n \in 0 .. MaxChunk + 1,
             NEW io \in BOOLEAN, Chunk(t, n, io)
      PROVE  Safe'
  <2>1. CASE UNCHANGED <<pst, live, staged, reply>> /\ pst[t] = "Receiving"
             /\ written' = [written EXCEPT ![t] = @ + n]
    BY <1>5, <2>1 DEF Chunk, catalogVars, PublishedIsWhole, AcceptingOwnsSink,
       NoPartialLeak, SilentWhileOpen, LockIsCommitting, ClosingHasProtocol
  <2>2. CASE Fail(t) /\ UNCHANGED <<received, written>>
    BY <1>5, <2>2, FailIInv DEF Chunk, catalogVars
  <2> QED BY <1>5, <2>1, <2>2 DEF Chunk
<1>6. ASSUME NEW t \in Transfers, Cancel(t) PROVE Safe'
  BY <1>6 DEF Cancel, DiscardSink, catalogVars, PublishedIsWhole, AcceptingOwnsSink,
     NoPartialLeak, SilentWhileOpen, LockIsCommitting, ClosingHasProtocol
<1>7. ASSUME NEW t \in Transfers, CloseChannel(t) PROVE Safe'
  BY <1>7 DEF CloseChannel, fileVars, catalogVars, PublishedIsWhole, AcceptingOwnsSink,
     NoPartialLeak, SilentWhileOpen, LockIsCommitting, ClosingHasProtocol
<1>8. ASSUME NEW t \in Transfers, Abort(t) PROVE Safe'
  BY <1>8 DEF Abort, DiscardSink, catalogVars, PublishedIsWhole, AcceptingOwnsSink,
     NoPartialLeak, SilentWhileOpen, LockIsCommitting, ClosingHasProtocol
<1>9. ASSUME NEW t \in Transfers, NEW sizeClaim, NEW digest,
             NEW io \in BOOLEAN, NEW unlinked \in BOOLEAN,
             Complete(t, sizeClaim, digest, io, unlinked)
      PROVE  Safe'
  <2>1. CASE ~(Verified(t, sizeClaim, digest) /\ io /\ Promotable(t))
    BY <1>9, <2>1, FailIInv DEF Complete, catalogVars
  <2>2. CASE Verified(t, sizeClaim, digest) /\ io /\ Promotable(t)
    <3>1. PublishedIsWhole'
      BY <1>9, <2>2 DEF Complete, Verified, PublishedIsWhole, SilentWhileOpen
    <3>2. AcceptingOwnsSink'
      BY <1>9, <2>2 DEF Complete, AcceptingOwnsSink
    <3>4. NoPartialLeak'
      <4>1. /\ pst' = [pst EXCEPT ![t] = "Committing"]
            /\ live' = [live EXCEPT ![t] = FALSE]
            /\ final' = [final EXCEPT ![Name[t]] = t]
            /\ \/ staged' = [staged EXCEPT ![t] = "absent"]
               \/ staged' = [staged EXCEPT ![t] = "kept"]
            /\ written' = written /\ written[t] = Size[t]
        BY <1>9, <2>2 DEF Complete, Verified
      <4>2. \A u \in Transfers : u # t /\ staged[u] = "stuck" => \A n \in Names : final'[n] # u
        BY <4>1 DEF NoPartialLeak
      <4> QED BY <4>1, <4>2 DEF NoPartialLeak
    <3>3. SilentWhileOpen' /\ LockIsCommitting' /\ ClosingHasProtocol'
      BY <1>9, <2>2 DEF Complete, catalogVars, SilentWhileOpen, LockIsCommitting,
         ClosingHasProtocol
    <3> QED BY <3>1, <3>2, <3>3, <3>4
  <2> QED BY <2>1, <2>2
<1>10. ASSUME NEW t \in Transfers, CommitSyncStart(t) PROVE Safe'
  BY <1>10 DEF CommitSyncStart, StartSync, protocolVars, fileVars, PublishedIsWhole,
     AcceptingOwnsSink, NoPartialLeak, SilentWhileOpen, LockIsCommitting,
     ClosingHasProtocol
<1>11. ASSUME NEW t \in Transfers, NEW ok \in BOOLEAN, CommitSyncEnd(t, ok)
       PROVE  Safe'
  BY <1>11 DEF CommitSyncEnd, FinishSync, fileVars, PublishedIsWhole,
     AcceptingOwnsSink, NoPartialLeak, SilentWhileOpen, LockIsCommitting,
     ClosingHasProtocol
<1>12. ASSUME NEW t \in Transfers, AgePartial(t) PROVE Safe'
  BY <1>12 DEF AgePartial, protocolVars, catalogVars, PublishedIsWhole,
     AcceptingOwnsSink, NoPartialLeak, SilentWhileOpen, LockIsCommitting,
     ClosingHasProtocol
<1>13. ASSUME NEW n \in Names, DeleteGame(n) PROVE Safe'
  BY <1>13 DEF DeleteGame, protocolVars, catalogVars, PublishedIsWhole,
     AcceptingOwnsSink, NoPartialLeak, SilentWhileOpen, LockIsCommitting,
     ClosingHasProtocol
<1>14. ASSUME DeleteSyncStart PROVE Safe'
  BY <1>14 DEF DeleteSyncStart, StartSync, protocolVars, fileVars, PublishedIsWhole,
     AcceptingOwnsSink, NoPartialLeak, SilentWhileOpen, LockIsCommitting,
     ClosingHasProtocol
<1>15. ASSUME NEW ok \in BOOLEAN, DeleteSyncEnd(ok) PROVE Safe'
  BY <1>15 DEF DeleteSyncEnd, FinishSync, protocolVars, fileVars, PublishedIsWhole,
     AcceptingOwnsSink, NoPartialLeak, SilentWhileOpen, LockIsCommitting,
     ClosingHasProtocol
<1>16. ASSUME NEW ok \in BOOLEAN, Restart(ok) PROVE Safe'
  <2>1. PublishedIsWhole'
    BY <1>16 DEF Restart, fileVars, PublishedIsWhole
  <2>2. AcceptingOwnsSink'
    BY <1>16 DEF Restart, PStates, AcceptingOwnsSink
  <2>3. NoPartialLeak'
    BY <1>16 DEF Restart, fileVars, PStates, AcceptingOwnsSink, NoPartialLeak
  <2>4. SilentWhileOpen' /\ LockIsCommitting' /\ ClosingHasProtocol'
    BY <1>16 DEF Restart, SilentWhileOpen, LockIsCommitting, ClosingHasProtocol
  <2> QED BY <2>1, <2>2, <2>3, <2>4
<1>17. ASSUME LateSync PROVE Safe'
  BY <1>17 DEF LateSync, protocolVars, fileVars, PublishedIsWhole, AcceptingOwnsSink,
     NoPartialLeak, SilentWhileOpen, LockIsCommitting, ClosingHasProtocol
<1>18. CASE UNCHANGED vars
  BY <1>18 DEF vars, protocolVars, fileVars, catalogVars, PublishedIsWhole,
     AcceptingOwnsSink, NoPartialLeak, SilentWhileOpen, LockIsCommitting,
     ClosingHasProtocol
<1> QED
  BY <1>1, <1>2, <1>3, <1>4, <1>5, <1>6, <1>7, <1>8, <1>9, <1>10, <1>11, <1>12,
     <1>13, <1>14, <1>15, <1>16, <1>17, <1>18
     DEF Next, TransferStep, HostStep

LEMMA Inductive == Spec => []IInv
<1>1. Init => IInv
  BY InitIInv
<1>2. IInv /\ [Next]_vars => IInv'
  BY TypeNext, StepSafe DEF IInv
<1> QED BY <1>1, <1>2, PTL DEF Spec

\* Whatever is in the library is the whole upload authorized for its name.
THEOREM PublishedWhole == Spec => []PublishedIsWhole
<1>1. IInv => PublishedIsWhole
  BY DEF IInv, Safe
<1> QED BY <1>1, Inductive, PTL

-----------------------------------------------------------------------------
(* The catalog lock                                                        *)

DeleteOwnsLock == lock = "delete" <=> del = "sync"

\* Uploads take and give back the lock as themselves only.
LEMMA TransferKeepsDelete ==
  ASSUME DeleteOwnsLock, NEW t \in Transfers, TransferStep(t)
  PROVE  DeleteOwnsLock'
<1> USE TransferAssumption DEF DeleteOwnsLock
<1>1. ASSUME NEW ok \in BOOLEAN, HandleRomTransfer(t, ok) \/ OpenChannel(t, ok) \/ Auth(t, ok)
      PROVE  DeleteOwnsLock'
  BY <1>1 DEF HandleRomTransfer, OpenChannel, Auth, catalogVars
<1>2. ASSUME NEW n \in 0 .. MaxChunk + 1, NEW io \in BOOLEAN, Chunk(t, n, io)
      PROVE  DeleteOwnsLock'
  BY <1>2 DEF Chunk, catalogVars
<1>3. ASSUME BadControl(t) \/ Cancel(t) \/ CloseChannel(t) \/ Abort(t) \/ AgePartial(t)
      PROVE  DeleteOwnsLock'
  BY <1>3 DEF BadControl, Cancel, CloseChannel, Abort, AgePartial, catalogVars
<1>4. ASSUME NEW sizeClaim, NEW digest, NEW io \in BOOLEAN, NEW unlinked \in BOOLEAN,
             Complete(t, sizeClaim, digest, io, unlinked)
      PROVE  DeleteOwnsLock'
  BY <1>4 DEF Complete, catalogVars
<1>5. ASSUME CommitSyncStart(t) PROVE DeleteOwnsLock'
  BY <1>5 DEF CommitSyncStart, StartSync
<1>6. ASSUME NEW ok \in BOOLEAN, CommitSyncEnd(t, ok) PROVE DeleteOwnsLock'
  BY <1>6 DEF CommitSyncEnd, FinishSync
<1> HIDE DEF DeleteOwnsLock
<1> QED BY <1>1, <1>2, <1>3, <1>4, <1>5, <1>6 DEF TransferStep

LEMMA DeleteKeepsLock == DeleteOwnsLock /\ [Next]_vars => DeleteOwnsLock'
<1> SUFFICES ASSUME DeleteOwnsLock, [Next]_vars PROVE DeleteOwnsLock'
  OBVIOUS
<1>1. ASSUME HostStep PROVE DeleteOwnsLock'
  BY <1>1, TransferAssumption
     DEF HostStep, DeleteGame, DeleteSyncStart, DeleteSyncEnd, Restart, LateSync,
         StartSync, FinishSync, catalogVars, DeleteOwnsLock
<1>2. ASSUME UNCHANGED vars PROVE DeleteOwnsLock'
  BY <1>2 DEF vars, catalogVars, DeleteOwnsLock
<1> QED BY <1>1, <1>2, TransferKeepsDelete DEF Next

\* Nobody dies with the catalog lock: it is free, or its holder is a commit or a delete
\* that gives it back with the gateway's answer, whatever happened to its peer.
THEOREM LockAlwaysOwned == Spec => []LockIsOwned
<1>1. Init => DeleteOwnsLock
  BY TransferAssumption DEF Init, DeleteOwnsLock
<1>2. IInv /\ DeleteOwnsLock => LockIsOwned
  BY DEF IInv, Safe, LockIsCommitting, DeleteOwnsLock, LockIsOwned
<1> QED BY <1>1, <1>2, DeleteKeepsLock, Inductive, PTL DEF Spec

\* A protocol that accepts frames owns its sink, a partial file that is left behind has
\* one of three reasons and is no game, and no upload ends with the lock in its hands.
THEOREM StagingSafe == Spec => []NothingLeaks
<1>1. IInv /\ LockIsOwned => NothingLeaks
  BY DEF IInv, Safe, NothingLeaks
<1> QED BY <1>1, Inductive, LockAlwaysOwned, PTL

-----------------------------------------------------------------------------
(* The library as its users see it.                                        *)

\* Only two actions touch the library: a completion that found its name free,
\* and delete_game.
LEMMA LibraryStep ==
  ASSUME TypeOK, [Next]_vars
  PROVE  \/ UNCHANGED final
         \/ \E t \in Transfers :
               /\ pst[t] = "Receiving" /\ final[Name[t]] = Free
               /\ final' = [final EXCEPT ![Name[t]] = t]
               /\ pst' = [pst EXCEPT ![t] = "Committing"]
         \/ \E n \in Names :
               /\ final[n] # Free /\ del = "idle" /\ del' = "removed"
               /\ final' = [final EXCEPT ![n] = Free]
               /\ UNCHANGED pst
<1>1. ASSUME NEW t \in Transfers, TransferStep(t),
             ~ \E sizeClaim \in {"absent", "authorized", "other"},
                  digest \in {"absent", "match", "mismatch"},
                  io, unlinked \in BOOLEAN : Complete(t, sizeClaim, digest, io, unlinked)
      PROVE  UNCHANGED final
  BY <1>1 DEF TransferStep, HandleRomTransfer, OpenChannel, Stageable, Auth, BadControl, Chunk,
     Cancel, CloseChannel, Abort, CommitSyncStart, CommitSyncEnd, AgePartial, fileVars
<1>2. ASSUME NEW t \in Transfers, NEW sizeClaim, NEW digest, NEW io, NEW unlinked,
             Complete(t, sizeClaim, digest, io, unlinked)
      PROVE  \/ UNCHANGED final
             \/ /\ pst[t] = "Receiving" /\ final[Name[t]] = Free
                /\ final' = [final EXCEPT ![Name[t]] = t]
                /\ pst' = [pst EXCEPT ![t] = "Committing"]
  BY <1>2 DEF Complete, Promotable
<1>3. ASSUME HostStep, ~ \E n \in Names : DeleteGame(n)
      PROVE  UNCHANGED final
  BY <1>3 DEF HostStep, DeleteSyncStart, DeleteSyncEnd, Restart, LateSync, fileVars
<1>4. ASSUME NEW n \in Names, DeleteGame(n)
      PROVE  /\ final[n] # Free /\ del = "idle" /\ del' = "removed"
             /\ final' = [final EXCEPT ![n] = Free]
             /\ UNCHANGED pst
  BY <1>4 DEF DeleteGame, protocolVars
<1>5. CASE UNCHANGED vars
  BY <1>5 DEF vars, fileVars
<1> QED BY <1>1, <1>2, <1>3, <1>4, <1>5 DEF Next

\* An upload never replaces a file; only delete_game removes one.
THEOREM NeverOverwritten == Spec => NoOverwrite
<1> DEFINE Kept == \A n \in Names :
                      final[n] # Free /\ final'[n] # final[n]
                          => final'[n] = Free /\ del = "idle" /\ del' = "removed"
<1>1. TypeOK /\ [Next]_vars => [Kept]_vars
  <2> SUFFICES ASSUME TypeOK, [Next]_vars PROVE Kept
    OBVIOUS
  <2> QED BY LibraryStep, TransferAssumption DEF TypeOK
<1> QED BY <1>1, TypeCorrect, PTL DEF Spec, NoOverwrite

\* A step that publishes nothing never reopens a transfer.
LEMMA OpenShrinks ==
  ASSUME TypeOK, [Next]_vars, UNCHANGED final
  PROVE  Open' \in SUBSET Open
<1> USE DEF TypeOK, Open
<1>1. ASSUME NEW t \in Transfers, TransferStep(t)
      PROVE  \A u \in Transfers : u \in Open' => u \in Open
  <2>1. \A u \in Transfers \ {t} : pst'[u] = pst[u]
    <3> DEFINE Others == \A u \in Transfers \ {t} : pst'[u] = pst[u]
    <3>1. ASSUME NEW ok \in BOOLEAN,
                 HandleRomTransfer(t, ok) \/ OpenChannel(t, ok) \/ Auth(t, ok)
          PROVE  Others
      BY <3>1 DEF HandleRomTransfer, OpenChannel, Stageable, Auth, Fail
    <3>2. ASSUME NEW n \in 0 .. MaxChunk + 1, NEW io \in BOOLEAN, Chunk(t, n, io)
          PROVE  Others
      BY <3>2 DEF Chunk, Fail
    <3>3. ASSUME BadControl(t) \/ Cancel(t) \/ CloseChannel(t) \/ Abort(t) PROVE Others
      BY <3>3 DEF BadControl, Cancel, CloseChannel, Abort, Fail
    <3>4. ASSUME NEW sizeClaim, NEW digest, NEW io \in BOOLEAN, NEW unlinked \in BOOLEAN,
                 Complete(t, sizeClaim, digest, io, unlinked)
          PROVE  Others
      BY <3>4 DEF Complete, Fail
    <3>5. ASSUME NEW ok \in BOOLEAN, CommitSyncEnd(t, ok) PROVE Others
      BY <3>5 DEF CommitSyncEnd
    <3>6. ASSUME CommitSyncStart(t) \/ AgePartial(t) PROVE Others
      BY <3>6 DEF CommitSyncStart, AgePartial, protocolVars
    <3> HIDE DEF Others
    <3>7. Others
      BY <1>1, <3>1, <3>2, <3>3, <3>4, <3>5, <3>6 DEF TransferStep
    <3> QED BY <3>7 DEF Others
  <2>2. t \in Open' => t \in Open
    BY <1>1 DEF TransferStep, HandleRomTransfer, OpenChannel, Stageable, Auth, BadControl, Chunk,
       Cancel, CloseChannel, Abort, Complete, CommitSyncStart, CommitSyncEnd,
       AgePartial, Fail, protocolVars
  <2> QED BY <2>1, <2>2
<1>2. ASSUME HostStep
      PROVE  \A u \in Transfers : u \in Open' => u \in Open
  BY <1>2 DEF HostStep, DeleteGame, DeleteSyncStart, DeleteSyncEnd, Restart, LateSync,
     protocolVars
<1>3. ASSUME UNCHANGED vars
      PROVE  \A u \in Transfers : u \in Open' => u \in Open
  BY <1>3 DEF vars, protocolVars
<1> QED BY <1>1, <1>2, <1>3 DEF Next

\* The upload machinery implements the abstract library: every step publishes
\* one open transfer onto a free name, removes one file, or only closes
\* transfers.
THEOREM Refinement == Spec => ImplementsLibrary
<1>1. Init => Library!LibraryInit
  BY DEF Init, Library!LibraryInit, Open
<1>2. TypeOK /\ [Next]_vars => [Library!LibraryNext]_<<final, Open>>
  <2> SUFFICES ASSUME TypeOK, [Next]_vars PROVE Library!LibraryNext
    OBVIOUS
  <2>1. CASE UNCHANGED final
    BY <2>1, OpenShrinks DEF Library!LibraryNext, Library!Drop
  <2>2. ASSUME NEW t \in Transfers, pst[t] = "Receiving", final[Name[t]] = Free,
               final' = [final EXCEPT ![Name[t]] = t],
               pst' = [pst EXCEPT ![t] = "Committing"]
        PROVE  Library!LibraryNext
    <3>1. t \in Open /\ Open' = Open \ {t}
      BY <2>2 DEF Open, TypeOK
    <3> QED BY <2>2, <3>1 DEF Library!LibraryNext, Library!Publish
  <2>3. ASSUME NEW n \in Names, final[n] # Free, UNCHANGED pst,
               final' = [final EXCEPT ![n] = Free]
        PROVE  Library!LibraryNext
    BY <2>3 DEF Library!LibraryNext, Library!Remove, Open
  <2> QED BY <2>1, <2>2, <2>3, LibraryStep
<1> QED BY <1>1, <1>2, TypeCorrect, PTL DEF Spec, ImplementsLibrary, Library!LibrarySpec

-----------------------------------------------------------------------------
(* The gateway's catalog.                                                  *)

\* The list a sync pushes is the library, unless somebody who changed the
\* library since still waits for the catalog lock.
ListIsFresh ==
    (/\ del # "removed"
     /\ \A t \in Transfers : pst[t] = "Committing" => lock = t)
    => games = Scan(final)

\* The list holds every upload that was acknowledged or is being pushed.
ListHasPublished ==
    \A t \in Transfers :
        final[Name[t]] = t /\ (reply[t] = "transfer_ok" \/ lock = t)
            => Name[t] \in games

DeleteHoldsLock == lock = "delete" => del = "sync"

CatalogInv ==
    /\ ListIsFresh
    /\ ListHasPublished
    /\ DeleteHoldsLock
    /\ CatalogMatchesLibrary
    /\ OkIsListed

\* Frames, closes and time touch neither the library nor the catalog, end no
\* commit, and acknowledge nothing.
LEMMA Quiet ==
  ASSUME IInv, CatalogInv, UNCHANGED <<final, catalogVars, del>>,
         \A t \in Transfers : pst'[t] = "Committing" <=> pst[t] = "Committing",
         \A t \in Transfers : reply'[t] = "transfer_ok" => reply[t] = "transfer_ok"
  PROVE  CatalogInv'
  BY DEF CatalogInv, catalogVars, ListIsFresh, ListHasPublished, DeleteHoldsLock,
     CatalogMatchesLibrary, OkIsListed, Scan

\* A sync that starts rescans the library.
LEMMA SyncStarts ==
  ASSUME IInv, CatalogInv, NEW who, StartSync(who),
         UNCHANGED <<final, pst, reply>>,
         \/ who \in Transfers /\ pst[who] = "Committing" /\ UNCHANGED del
         \/ who = "delete" /\ del = "removed" /\ del' = "sync"
  PROVE  CatalogInv'
<1> USE TransferAssumption DEF IInv, TypeOK
<1>1. games' = Scan(final') /\ UNCHANGED <<catalog, synced, late>> /\ lock' = who
  BY DEF StartSync
<1>2. ListIsFresh'
  BY <1>1 DEF CatalogInv, ListIsFresh
<1>3. ListHasPublished'
  BY <1>1 DEF Scan, ListHasPublished
<1>4. DeleteHoldsLock'
  BY <1>1 DEF DeleteHoldsLock
<1>5. CatalogMatchesLibrary' /\ OkIsListed'
  BY <1>1 DEF CatalogInv, CatalogMatchesLibrary, OkIsListed, Scan
<1> QED BY <1>2, <1>3, <1>4, <1>5 DEF CatalogInv

LEMMA CatalogStep ==
  ASSUME IInv, CatalogInv, [Next]_vars
  PROVE  CatalogInv'
<1> USE TransferAssumption DEF IInv, Safe, TypeOK
<1>1. ASSUME NEW t \in Transfers, NEW ok \in BOOLEAN, HandleRomTransfer(t, ok)
      PROVE  CatalogInv'
  BY <1>1, Quiet DEF HandleRomTransfer
<1>2. ASSUME NEW t \in Transfers, NEW space \in BOOLEAN, OpenChannel(t, space)
      PROVE  CatalogInv'
  BY <1>2, Quiet DEF OpenChannel, Stageable
<1>3. ASSUME NEW t \in Transfers, NEW good \in BOOLEAN, Auth(t, good)
      PROVE  CatalogInv'
  BY <1>3, Quiet DEF Auth, Fail
<1>4. ASSUME NEW t \in Transfers, BadControl(t) PROVE CatalogInv'
  BY <1>4, Quiet DEF BadControl, Fail
<1>5. ASSUME NEW t \in Transfers, NEW n \in 0 .. MaxChunk + 1,
             NEW io \in BOOLEAN, Chunk(t, n, io)
      PROVE  CatalogInv'
  BY <1>5, Quiet DEF Chunk, Fail
<1>6. ASSUME NEW t \in Transfers, Cancel(t) PROVE CatalogInv'
  BY <1>6, Quiet DEF Cancel
<1>7. ASSUME NEW t \in Transfers, CloseChannel(t) PROVE CatalogInv'
  BY <1>7, Quiet DEF CloseChannel, fileVars
<1>8. ASSUME NEW t \in Transfers, Abort(t) PROVE CatalogInv'
  BY <1>8, Quiet DEF Abort
<1>9. ASSUME NEW t \in Transfers, NEW sizeClaim, NEW digest,
             NEW io \in BOOLEAN, NEW unlinked \in BOOLEAN,
             Complete(t, sizeClaim, digest, io, unlinked)
      PROVE  CatalogInv'
  <2>1. CASE ~(Verified(t, sizeClaim, digest) /\ io /\ Promotable(t))
    <3>1. /\ Fail(t) /\ UNCHANGED <<final, catalogVars, del>>
          /\ pst[t] = "Receiving"
      BY <1>9, <2>1 DEF Complete
    <3>2. \A u \in Transfers : pst'[u] = "Committing" <=> pst[u] = "Committing"
      BY <3>1 DEF Fail
    <3>3. \A u \in Transfers : reply'[u] = "transfer_ok" => reply[u] = "transfer_ok"
      BY <3>1 DEF Fail
    <3> QED BY <3>1, <3>2, <3>3, Quiet
  <2>2. CASE Verified(t, sizeClaim, digest) /\ io /\ Promotable(t)
    <3>1. /\ pst[t] = "Receiving" /\ reply[t] = "none" /\ lock # t
          /\ pst' = [pst EXCEPT ![t] = "Committing"]
          /\ final' = [final EXCEPT ![Name[t]] = t]
          /\ UNCHANGED <<reply, lock, games, catalog, synced, late, del>>
      BY <1>9, <2>2 DEF Complete, catalogVars, SilentWhileOpen, LockIsCommitting
    <3>2. ListIsFresh' /\ CatalogMatchesLibrary'
      BY <3>1 DEF ListIsFresh, CatalogMatchesLibrary
    <3>3. ListHasPublished' /\ OkIsListed'
      BY <3>1 DEF CatalogInv, ListHasPublished, OkIsListed
    <3>4. DeleteHoldsLock'
      BY <3>1 DEF CatalogInv, DeleteHoldsLock
    <3> QED BY <3>2, <3>3, <3>4 DEF CatalogInv
  <2> QED BY <2>1, <2>2
<1>10. ASSUME NEW t \in Transfers, CommitSyncStart(t) PROVE CatalogInv'
  BY <1>10, SyncStarts DEF CommitSyncStart, protocolVars, fileVars
<1>11. ASSUME NEW t \in Transfers, NEW ok \in BOOLEAN, CommitSyncEnd(t, ok)
       PROVE  CatalogInv'
  <2>1. /\ lock = t /\ lock' = Free /\ pst[t] = "Committing"
        /\ pst' = [pst EXCEPT ![t] = "Done"]
        /\ reply' = [reply EXCEPT ![t] = IF ok THEN "transfer_ok" ELSE "transfer_error"]
        /\ synced' = ok /\ (ok => catalog' = games)
        /\ UNCHANGED <<final, games, del>>
    BY <1>11 DEF CommitSyncEnd, FinishSync, PushCatalog, fileVars, LockIsCommitting
  <2>2. ListIsFresh'
    BY <2>1 DEF CatalogInv, ListIsFresh, Scan
  <2>3. ListHasPublished'
    BY <2>1 DEF CatalogInv, ListHasPublished
  <2>4. DeleteHoldsLock'
    BY <2>1 DEF CatalogInv, DeleteHoldsLock
  <2>5. CatalogMatchesLibrary'
    BY <2>1, <2>2 DEF ListIsFresh, CatalogMatchesLibrary
  <2>6. OkIsListed'
    BY <2>1, <2>3 DEF ListHasPublished, OkIsListed
  <2> QED BY <2>2, <2>3, <2>4, <2>5, <2>6 DEF CatalogInv
<1>12. ASSUME NEW t \in Transfers, AgePartial(t) PROVE CatalogInv'
  BY <1>12, Quiet DEF AgePartial, protocolVars
<1>13. ASSUME NEW n \in Names, DeleteGame(n) PROVE CatalogInv'
  <2>1. /\ del = "idle" /\ del' = "removed" /\ final' = [final EXCEPT ![n] = Free]
        /\ UNCHANGED <<pst, reply, lock, games, catalog, synced, late>>
    BY <1>13 DEF DeleteGame, protocolVars, catalogVars
  <2>2. ListIsFresh' /\ CatalogMatchesLibrary'
    BY <2>1 DEF ListIsFresh, CatalogMatchesLibrary
  <2>3. ListHasPublished' /\ OkIsListed'
    BY <2>1 DEF CatalogInv, ListHasPublished, OkIsListed
  <2>4. DeleteHoldsLock'
    BY <2>1 DEF CatalogInv, DeleteHoldsLock
  <2> QED BY <2>2, <2>3, <2>4 DEF CatalogInv
<1>14. ASSUME DeleteSyncStart PROVE CatalogInv'
  BY <1>14, SyncStarts DEF DeleteSyncStart, protocolVars, fileVars
<1>15. ASSUME NEW ok \in BOOLEAN, DeleteSyncEnd(ok) PROVE CatalogInv'
  <2>1. /\ lock = "delete" /\ lock' = Free /\ del = "sync" /\ del' = "idle"
        /\ synced' = ok /\ (ok => catalog' = games)
        /\ UNCHANGED <<final, games, pst, reply>>
    BY <1>15 DEF DeleteSyncEnd, FinishSync, PushCatalog, fileVars, protocolVars,
       CatalogInv, DeleteHoldsLock
  <2>2. ListIsFresh'
    BY <2>1 DEF CatalogInv, ListIsFresh, Scan
  <2>3. ListHasPublished'
    BY <2>1 DEF CatalogInv, ListHasPublished
  <2>4. DeleteHoldsLock'
    BY <2>1 DEF CatalogInv, DeleteHoldsLock
  <2>5. CatalogMatchesLibrary'
    BY <2>1, <2>2 DEF ListIsFresh, CatalogMatchesLibrary
  <2>6. OkIsListed'
    BY <2>1, <2>3 DEF ListHasPublished, OkIsListed
  <2> QED BY <2>2, <2>3, <2>4, <2>5, <2>6 DEF CatalogInv
<1>16. ASSUME NEW ok \in BOOLEAN, Restart(ok) PROVE CatalogInv'
  <2>1. /\ lock' = Free /\ del' = "idle" /\ games' = Scan(final')
        /\ synced' = ok /\ (ok => catalog' = Scan(final'))
        /\ UNCHANGED <<final, reply>>
    BY <1>16 DEF Restart, PushCatalog, fileVars, Scan
  <2>2. ListIsFresh' /\ DeleteHoldsLock'
    BY <2>1 DEF CatalogInv, ListIsFresh, DeleteHoldsLock
  <2>3. ListHasPublished'
    BY <2>1 DEF ListHasPublished, Scan
  <2>4. CatalogMatchesLibrary'
    BY <2>1 DEF CatalogMatchesLibrary
  <2>5. OkIsListed'
    BY <2>1, <2>3 DEF ListHasPublished, OkIsListed
  <2> QED BY <2>2, <2>3, <2>4, <2>5 DEF CatalogInv
<1>17. ASSUME LateSync PROVE CatalogInv'
  BY <1>17 DEF LateSync, CatalogInv, protocolVars, fileVars, ListIsFresh, Scan,
     ListHasPublished, DeleteHoldsLock, CatalogMatchesLibrary, OkIsListed
<1>18. CASE UNCHANGED vars
  BY <1>18, Quiet DEF vars, protocolVars, fileVars
<1> QED
  BY <1>1, <1>2, <1>3, <1>4, <1>5, <1>6, <1>7, <1>8, <1>9, <1>10, <1>11, <1>12,
     <1>13, <1>14, <1>15, <1>16, <1>17, <1>18
     DEF Next, TransferStep, HostStep

\* Once a push was acknowledged the gateway's catalog is right: it lists the
\* library when everybody who changed it has pushed, and it lists every upload
\* the browser was told to be in it.
THEOREM CatalogCorrect == Spec => []CatalogAgrees
<1>1. Init => CatalogInv
  BY TransferAssumption DEF Init, CatalogInv, ListIsFresh, ListHasPublished,
     DeleteHoldsLock, CatalogMatchesLibrary, OkIsListed, Scan
<1>2. IInv /\ CatalogInv /\ [Next]_vars => CatalogInv'
  BY CatalogStep
<1>3. CatalogInv => CatalogAgrees
  BY DEF CatalogInv, CatalogAgrees
<1> QED BY <1>1, <1>2, <1>3, Inductive, PTL DEF Spec
=============================================================================
