---------------------------- MODULE RomTransfer ----------------------------
(***************************************************************************)
(* ROM uploads on a sc-server host: the `rom-transfer-v1` protocol state   *)
(* machine (TransferProtocol), the staged file it writes (StagedUpload),   *)
(* the publication of the finished file into the ROM library, the rescan   *)
(* and catalog push that follow, and the delete_game command that shares   *)
(* the library and the catalog lock with them.                             *)
(*                                                                         *)
(* Every frame, close or error callback of one transfer runs under that    *)
(* transfer's event_lock, so one frame is one action.  The one exception   *)
(* is completion: it keeps the event lock while it waits for the host-wide *)
(* catalog lock and for the gateway, and other transfers run meanwhile.    *)
(***************************************************************************)
EXTENDS Integers, FiniteSets

CONSTANTS
    Transfers,   \* one element per authorized transfer (command rom_transfer)
    Names,       \* basenames in the import root
    Name,        \* Name[t]: the basename the gateway authorized
    Size,        \* Size[t]: authorized_size, in units of bytes
    MaxChunk,    \* MAX_BINARY_CHUNK_BYTES
    Free         \* no file under this name

ASSUME TransferAssumption ==
    /\ Name \in [Transfers -> Names]
    /\ Size \in [Transfers -> Nat]
    /\ MaxChunk \in Nat
    /\ Free \notin Transfers \cup {"delete"}
    /\ "delete" \notin Transfers

VARIABLES
    pst,       \* where each transfer stands: ProtocolState, and the states
               \* before the protocol object exists or after its process died
    live,      \* TransferProtocol.sink is Some(StagedUpload)
    received,  \* TransferProtocol.bytes_received
    written,   \* length of the staged file
    staged,    \* the directory entry <basename>.partial.<random>; "kept" is the
               \* second name of a published file, "stuck" one whose unlink failed
    aged,      \* its modification time is older than PARTIAL_EXPIRY
    closing,   \* on_close or on_error waits for the event lock to abort
    reply,     \* the terminal control message sent to the browser
    final,     \* the library: which transfer's bytes are under each name
    lock,      \* catalog_sync_lock: Free, a transfer, or "delete"
    games,     \* local_game_list
    catalog,   \* the gateway's server_games rows for this host
    synced,    \* the rows are those of a push the host saw acknowledged
    late,      \* sync-games handlers still running after the host gave up
    del        \* the delete_game command the serial command loop is in

protocolVars == <<pst, live, received, closing, reply>>
fileVars     == <<written, staged, aged, final>>
catalogVars  == <<lock, games, catalog, synced, late>>
vars == <<protocolVars, fileVars, catalogVars, del>>

PStates == {"Idle", "Signalled", "Refused", "AwaitingAuth", "Receiving",
            "Committing", "Done", "Lost"}
Replies == {"none", "auth_error", "transfer_error", "transfer_ok"}

\* scan_library: every file of the roots is a game of the local list
Scan(shelf) == {n \in Names : shelf[n] # Free}

Init ==
    /\ pst = [t \in Transfers |-> "Idle"]
    /\ live = [t \in Transfers |-> FALSE]
    /\ received = [t \in Transfers |-> 0]
    /\ written = [t \in Transfers |-> 0]
    /\ staged = [t \in Transfers |-> "absent"]
    /\ aged = [t \in Transfers |-> FALSE]
    /\ closing = [t \in Transfers |-> FALSE]
    /\ reply = [t \in Transfers |-> "none"]
    /\ final = [n \in Names |-> Free]
    /\ lock = Free
    /\ games = {}
    /\ catalog = {}
    /\ synced = TRUE
    /\ late = {}
    /\ del = "idle"

-----------------------------------------------------------------------------
(* The command handler and the data channel.                               *)

\* cleanup_expired_partials: the partial files older than an hour are unlinked, the
\* crash leftovers and the stalled live uploads alike; a failing unlink is logged.
CleanupExpiredPartials ==
    \E gone \in SUBSET {u \in Transfers : aged[u]} :
        /\ staged' = [u \in Transfers |-> IF u \in gone THEN "absent" ELSE staged[u]]
        /\ aged' = [u \in Transfers |-> IF u \in gone THEN FALSE ELSE aged[u]]

\* handle_rom_transfer, run by the serial command loop.  ok = FALSE stands for
\* a missing field, no writable root, a failed peer connection or SDP exchange.
HandleRomTransfer(t, ok) ==
    /\ pst[t] = "Idle"
    /\ del = "idle"
    /\ CleanupExpiredPartials
    /\ pst' = [pst EXCEPT ![t] = IF ok THEN "Signalled" ELSE "Refused"]
    /\ UNCHANGED <<live, received, closing, reply, written, final, catalogVars,
                   del>>

\* Mutant of OpenChannel: channel_claimed is not checked, so a finished
\* transfer can be opened again.
OpenChannelReclaimed(t, space) ==
    /\ pst[t] \in {"Signalled", "Done"}
    /\ final[Name[t]] = Free /\ space
    /\ pst' = [pst EXCEPT ![t] = "AwaitingAuth"]
    /\ live' = [live EXCEPT ![t] = TRUE]
    /\ staged' = [staged EXCEPT ![t] = "present"]
    /\ UNCHANGED <<reply, received, closing, written, aged, final, catalogVars,
                   del>>

\* StagedUpload::create refuses an existing destination, a full disk
\* (space = FALSE) and an I/O error.
Stageable(t, space) == final[Name[t]] = Free /\ space

\* on_data_channel: only the first channel counts.
OpenChannel(t, space) ==
    /\ pst[t] = "Signalled"
    /\ IF Stageable(t, space)
       THEN /\ pst' = [pst EXCEPT ![t] = "AwaitingAuth"]
            /\ live' = [live EXCEPT ![t] = TRUE]
            /\ staged' = [staged EXCEPT ![t] = "present"]
            /\ UNCHANGED reply
       ELSE /\ pst' = [pst EXCEPT ![t] = "Refused"]
            /\ reply' = [reply EXCEPT ![t] = "auth_error"]
            /\ UNCHANGED <<live, staged>>
    /\ UNCHANGED <<received, closing, written, aged, final, catalogVars, del>>

\* Mutant of DiscardSink: the handle is dropped, the file is not unlinked.
DiscardSinkKeepingFile(t) ==
    /\ live' = [live EXCEPT ![t] = FALSE]
    /\ UNCHANGED <<staged, aged>>

\* StagedUpload::cancel, remove_partial and Drop: the sink is gone, and so is its
\* directory entry unless the unlink fails, which no caller learns.
DiscardSink(t) ==
    /\ live' = [live EXCEPT ![t] = FALSE]
    /\ \/ /\ ~live[t]
          /\ UNCHANGED <<staged, aged>>
       \/ /\ live[t]
          /\ staged' = [staged EXCEPT ![t] = "absent"]
          /\ aged' = [aged EXCEPT ![t] = FALSE]
       \/ /\ live[t]
          /\ staged[t] = "present"
          /\ staged' = [staged EXCEPT ![t] = "stuck"]
          /\ UNCHANGED aged

\* TransferProtocol::fail
Fail(t) ==
    /\ DiscardSink(t)
    /\ reply' = [reply EXCEPT ![t] = IF pst[t] = "AwaitingAuth"
                                     THEN "auth_error" ELSE "transfer_error"]
    /\ pst' = [pst EXCEPT ![t] = "Done"]

\* handle_auth
Auth(t, good) ==
    /\ pst[t] = "AwaitingAuth"
    /\ IF good
       THEN /\ pst' = [pst EXCEPT ![t] = "Receiving"]
            /\ UNCHANGED <<live, staged, aged, reply>>
       ELSE Fail(t)
    /\ UNCHANGED <<received, closing, written, final, catalogVars, del>>

\* A control frame decode_client_control rejects: malformed, oversized, or a
\* message that is illegal in the current state.
BadControl(t) ==
    /\ pst[t] \in {"AwaitingAuth", "Receiving"}
    /\ Fail(t)
    /\ UNCHANGED <<received, closing, written, final, catalogVars, del>>

\* handle_binary_chunk and write_chunk; io = FALSE is a failing write.
Chunk(t, n, io) ==
    /\ pst[t] \in {"AwaitingAuth", "Receiving"}
    /\ IF /\ pst[t] = "Receiving"
          /\ n \in 1 .. MaxChunk
          /\ received[t] + n <= Size[t]
          /\ io
       THEN /\ received' = [received EXCEPT ![t] = @ + n]
            /\ written' = [written EXCEPT ![t] = @ + n]
            /\ aged' = [aged EXCEPT ![t] = FALSE]
            /\ UNCHANGED <<pst, live, staged, reply>>
       ELSE /\ Fail(t)
            /\ UNCHANGED <<received, written>>
    /\ UNCHANGED <<closing, final, catalogVars, del>>

\* handle_cancel
Cancel(t) ==
    /\ pst[t] = "Receiving"
    /\ DiscardSink(t)
    /\ pst' = [pst EXCEPT ![t] = "Done"]
    /\ UNCHANGED <<received, closing, reply, written, final, catalogVars, del>>

\* The data channel closes or reports an error while the protocol is not Done.
CloseChannel(t) ==
    /\ pst[t] \in {"AwaitingAuth", "Receiving", "Committing"}
    /\ ~closing[t]
    /\ closing' = [closing EXCEPT ![t] = TRUE]
    /\ UNCHANGED <<pst, live, received, reply, fileVars, catalogVars, del>>

\* Mutant of Abort: a transfer that reached Done meanwhile is forgotten.
AbortOnlyOpen(t) ==
    /\ closing[t]
    /\ pst[t] \in {"AwaitingAuth", "Receiving"}
    /\ closing' = [closing EXCEPT ![t] = FALSE]
    /\ DiscardSink(t)
    /\ pst' = [pst EXCEPT ![t] = "Done"]
    /\ UNCHANGED <<received, reply, written, final, catalogVars, del>>

\* abort: needs the event lock, which a completion holds until it is Done.
Abort(t) ==
    /\ closing[t]
    /\ pst[t] # "Committing"
    /\ closing' = [closing EXCEPT ![t] = FALSE]
    /\ DiscardSink(t)
    /\ pst' = [pst EXCEPT ![t] = "Done"]
    /\ UNCHANGED <<received, reply, written, final, catalogVars, del>>

-----------------------------------------------------------------------------
(* Completion.                                                             *)

\* Mutant of Verified: the length of the staged file is not compared.
VerifiedUnsized(t, sizeClaim, digest) ==
    /\ sizeClaim \in {"absent", "authorized"}
    /\ digest \in {"absent", "match"}
    /\ staged[t] = "present"

\* What commit and commit_with_expected_hash verify before they publish: the
\* claimed size, the digest when one is given, and the staged file's own size,
\* which cannot be read once cleanup has unlinked the file.
Verified(t, sizeClaim, digest) ==
    /\ sizeClaim \in {"absent", "authorized"}
    /\ digest \in {"absent", "match"}
    /\ staged[t] = "present"
    /\ written[t] = Size[t]

\* promote_no_replace: a hard link, which fails when the name is taken.
Promotable(t) == final[Name[t]] = Free

\* handle_complete up to the catalog callback.  io = FALSE is an I/O error
\* while syncing or linking; unlinked = FALSE is the failing removal of the
\* staging name after the link was made.
Complete(t, sizeClaim, digest, io, unlinked) ==
    /\ pst[t] = "Receiving"
    /\ IF Verified(t, sizeClaim, digest) /\ io /\ Promotable(t)
       THEN /\ pst' = [pst EXCEPT ![t] = "Committing"]
            /\ live' = [live EXCEPT ![t] = FALSE]
            /\ final' = [final EXCEPT ![Name[t]] = t]
            /\ staged' = [staged EXCEPT ![t] = IF unlinked THEN "absent" ELSE "kept"]
            /\ aged' = [aged EXCEPT ![t] = IF unlinked THEN FALSE ELSE @]
            /\ UNCHANGED reply
       ELSE /\ Fail(t)
            /\ UNCHANGED final
    /\ UNCHANGED <<received, closing, written, catalogVars, del>>

\* on_commit: take catalog_sync_lock, rescan, replace the local list and post
\* the whole list to the gateway.
StartSync(who) ==
    /\ lock = Free
    /\ lock' = who
    /\ games' = Scan(final)
    /\ UNCHANGED <<catalog, synced, late>>

\* POST /api/server/sync-games deletes every row of this host and inserts the
\* new list row by row, without a transaction.  An error may leave the rows as
\* they were or any part of the list; a request that timed out at the host may
\* still be running.
PushCatalog(list, ok) ==
    /\ synced' = ok
    /\ \/ /\ ok
          /\ catalog' = list
          /\ UNCHANGED late
       \/ /\ ~ok
          /\ catalog' \in {catalog} \cup SUBSET list
          /\ UNCHANGED late
       \/ /\ ~ok
          /\ late = {}
          /\ late' = {list}
          /\ UNCHANGED catalog

\* Mutant of FinishSync: the error path forgets the lock.
FinishSyncKeepingLock(ok) ==
    /\ PushCatalog(games, ok)
    /\ lock' = IF ok THEN Free ELSE lock
    /\ UNCHANGED games

FinishSync(ok) ==
    /\ PushCatalog(games, ok)
    /\ lock' = Free
    /\ UNCHANGED games

CommitSyncStart(t) ==
    /\ pst[t] = "Committing"
    /\ StartSync(t)
    /\ UNCHANGED <<protocolVars, fileVars, del>>

\* The catalog push returned: transfer_ok, or "ROM committed, but catalog
\* refresh failed".
CommitSyncEnd(t, ok) ==
    /\ lock = t
    /\ FinishSync(ok)
    /\ reply' = [reply EXCEPT ![t] = IF ok THEN "transfer_ok" ELSE "transfer_error"]
    /\ pst' = [pst EXCEPT ![t] = "Done"]
    /\ UNCHANGED <<live, received, closing, fileVars, del>>

\* The abandoned request replaces the rows after all, acknowledged pushes that
\* overtook it included.
LateSync ==
    /\ \E snapshot \in late : catalog' = snapshot
    /\ late' = {}
    /\ synced' = FALSE
    /\ UNCHANGED <<protocolVars, fileVars, lock, games, del>>

-----------------------------------------------------------------------------
(* delete_game, restart and time.                                          *)

\* Mutant of DeleteGame: the file goes, the catalog is not pushed.
DeleteGameQuietly(n) ==
    /\ del = "idle"
    /\ n \in games
    /\ final[n] # Free
    /\ final' = [final EXCEPT ![n] = Free]
    /\ UNCHANGED <<protocolVars, written, staged, aged, catalogVars, del>>

\* handle_delete_game up to the catalog lock: the game is in the local list,
\* resolves to a file, and no session plays it.
DeleteGame(n) ==
    /\ del = "idle"
    /\ n \in games
    /\ final[n] # Free
    /\ final' = [final EXCEPT ![n] = Free]
    /\ del' = "removed"
    /\ UNCHANGED <<protocolVars, written, staged, aged, catalogVars>>

DeleteSyncStart ==
    /\ del = "removed"
    /\ StartSync("delete")
    /\ del' = "sync"
    /\ UNCHANGED <<protocolVars, fileVars>>

DeleteSyncEnd(ok) ==
    /\ lock = "delete"
    /\ FinishSync(ok)
    /\ del' = "idle"
    /\ UNCHANGED <<protocolVars, fileVars>>

\* The process dies and starts again: every sink and lock is gone, the files
\* stay, cmd_start rescans and pushes the catalog (best effort).  The gateway may
\* still be at the push the dead process had sent.
Restart(ok) ==
    /\ pst' = [t \in Transfers |-> IF pst[t] \in {"Idle", "Refused", "Done"}
                                   THEN pst[t] ELSE "Lost"]
    /\ live' = [t \in Transfers |-> FALSE]
    /\ closing' = [t \in Transfers |-> FALSE]
    /\ lock' = Free
    /\ del' = "idle"
    /\ games' = Scan(final)
    /\ \/ PushCatalog(Scan(final), ok)
       \/ /\ lock # Free
          /\ late = {}
          /\ late' = {games}
          /\ synced' = ok
          /\ catalog' \in IF ok THEN {Scan(final)}
                         ELSE {catalog} \cup SUBSET Scan(final)
    /\ UNCHANGED <<received, reply, fileVars>>

\* An hour passes without a write to the partial file.
AgePartial(t) ==
    /\ staged[t] # "absent"
    /\ ~aged[t]
    /\ aged' = [aged EXCEPT ![t] = TRUE]
    /\ UNCHANGED <<protocolVars, written, staged, final, catalogVars, del>>

TransferStep(t) ==
    \/ \E ok \in BOOLEAN : HandleRomTransfer(t, ok)
    \/ \E space \in BOOLEAN : OpenChannel(t, space)
    \/ \E good \in BOOLEAN : Auth(t, good)
    \/ BadControl(t)
    \/ \E n \in 0 .. MaxChunk + 1, io \in BOOLEAN : Chunk(t, n, io)
    \/ Cancel(t)
    \/ CloseChannel(t)
    \/ Abort(t)
    \/ \E sizeClaim \in {"absent", "authorized", "other"},
          digest \in {"absent", "match", "mismatch"},
          io, unlinked \in BOOLEAN : Complete(t, sizeClaim, digest, io, unlinked)
    \/ CommitSyncStart(t)
    \/ \E ok \in BOOLEAN : CommitSyncEnd(t, ok)
    \/ AgePartial(t)

HostStep ==
    \/ \E n \in Names : DeleteGame(n)
    \/ DeleteSyncStart
    \/ \E ok \in BOOLEAN : DeleteSyncEnd(ok)
    \/ \E ok \in BOOLEAN : Restart(ok)
    \/ LateSync

Next == (\E t \in Transfers : TransferStep(t)) \/ HostStep

\* Callbacks that hold or wait for a lock are polled by the runtime until they
\* finish; tokio's mutex queues its waiters, so a waiting commit gets its turn.
\* Nothing obliges a browser to send another frame or a host to delete a game.
Fairness ==
    /\ \A t \in Transfers :
          /\ WF_vars(Abort(t))
          /\ SF_vars(CommitSyncStart(t))
          /\ WF_vars(\E ok \in BOOLEAN : CommitSyncEnd(t, ok))
    /\ SF_vars(DeleteSyncStart)
    /\ WF_vars(\E ok \in BOOLEAN : DeleteSyncEnd(ok))

Spec == Init /\ [][Next]_vars /\ Fairness

-----------------------------------------------------------------------------
(* Properties.                                                             *)

\* The variables keep their types: counters never go below zero, and the
\* library holds transfers only.
TypeOK ==
    /\ pst \in [Transfers -> PStates]
    /\ live \in [Transfers -> BOOLEAN]
    /\ received \in [Transfers -> Nat]
    /\ written \in [Transfers -> Nat]
    /\ staged \in [Transfers -> {"absent", "present", "kept", "stuck"}]
    /\ aged \in [Transfers -> BOOLEAN]
    /\ closing \in [Transfers -> BOOLEAN]
    /\ reply \in [Transfers -> Replies]
    /\ final \in [Names -> Transfers \cup {Free}]
    /\ lock \in Transfers \cup {Free, "delete"}
    /\ games \in SUBSET Names
    /\ catalog \in SUBSET Names
    /\ synced \in BOOLEAN
    /\ late \in SUBSET SUBSET Names
    /\ del \in {"idle", "removed", "sync"}

\* Every file of the library is the complete upload authorized for that name:
\* the right basename, exactly the authorized number of bytes, and a transfer
\* that is past its data phase.  A cancelled, aborted, oversized or short
\* upload never becomes a game, whatever its peers do to the same name.
PublishedIsWhole ==
    \A n \in Names : final[n] # Free =>
        LET t == final[n] IN
        /\ Name[t] = n
        /\ written[t] = Size[t]
        /\ pst[t] \in {"Committing", "Done", "Lost"}
        /\ reply[t] # "auth_error"

\* A partial file outlives its upload in three cases only: the process died under it;
\* the unlink at the upload's end (error, cancel, close, conflict, mismatch) failed, and
\* then nothing of that transfer is in the library; or the unlink after the publication
\* failed, and then the name is the second name of what was published, so no sink
\* writes to it any more.
NoPartialLeak ==
    \A t \in Transfers :
        /\ staged[t] = "present" => live[t] \/ pst[t] = "Lost"
        /\ staged[t] = "stuck" => /\ pst[t] \in {"Done", "Lost"}
                                  /\ \A n \in Names : final[n] # t
        /\ staged[t] = "kept" => /\ pst[t] \in {"Committing", "Done", "Lost"}
                                 /\ ~live[t]
                                 /\ written[t] = Size[t]

\* The branches "no active upload" and "no upload to commit" are unreachable:
\* a protocol that still accepts frames owns its sink.
AcceptingOwnsSink ==
    \A t \in Transfers :
        pst[t] \in {"AwaitingAuth", "Receiving"} <=> live[t]

\* The catalog lock is free or in the hands of a commit or a delete whose own next
\* step needs nothing but the answer of the gateway: whoever waits for it gets it.
LockIsOwned ==
    /\ \A t \in Transfers : lock = t => pst[t] = "Committing"
    /\ lock = "delete" <=> del = "sync"

\* Staging is sound: bytes are accepted only into a sink of one's own, a partial file
\* that outlives its upload has one of the three known reasons and never becomes a game,
\* and no upload ends with the catalog lock in its hands.
NothingLeaks == AcceptingOwnsSink /\ NoPartialLeak /\ LockIsOwned

\* When nobody is between changing the library and pushing it, and the last
\* push was acknowledged, the gateway lists exactly the games on disk.  Two
\* uploads and a delete may finish in any order.  Only a push the host gave up
\* on and the gateway runs late can undo that, until the next push.
CatalogMatchesLibrary ==
    (/\ synced
     /\ del = "idle"
     /\ \A t \in Transfers : pst[t] # "Committing")
    => catalog = Scan(final)

\* transfer_ok is not a false success: until a push fails or runs late, a game whose
\* upload was acknowledged and that is still on disk is listed at the gateway.
OkIsListed ==
    \A t \in Transfers :
        reply[t] = "transfer_ok" /\ final[Name[t]] = t /\ synced
            => Name[t] \in catalog

\* What the gateway acknowledged agrees with the disk, in both directions.
CatalogAgrees == CatalogMatchesLibrary /\ OkIsListed

\* No step replaces one upload's file by another's, and only delete_game ever
\* removes one.
NoOverwrite ==
    [][\A n \in Names :
          final[n] # Free /\ final'[n] # final[n]
              => final'[n] = Free /\ del = "idle" /\ del' = "removed"]_vars

\* The transfers whose outcome is still open, for the abstract library.
Open == {t \in Transfers :
            pst[t] \in {"Idle", "Signalled", "AwaitingAuth", "Receiving"}}

Library == INSTANCE RomLibrary WITH shelf <- final, open <- Open

\* The whole upload machinery implements the abstract library: a transfer
\* publishes at most once, in one step, onto a free name, and never after it
\* failed, was cancelled or lost its process.
ImplementsLibrary == Library!LibrarySpec

\* A closed data channel releases its upload, even when it closes while the
\* commit waits for the catalog lock.
ClosedIsReleased ==
    \A t \in Transfers : closing[t] ~> (~closing[t] /\ ~live[t])

\* A commit that holds the transfer's event lock always ends.
CommitEnds ==
    \A t \in Transfers : pst[t] = "Committing" ~> pst[t] \in {"Done", "Lost"}
=============================================================================
