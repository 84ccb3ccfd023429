---------------------------- MODULE MediaStream -----------------------------
(***************************************************************************)
(* The way of a picture from the emulator to the player's tracks, and of   *)
(* the news that the emulator is gone: the one-frame shared buffer, the    *)
(* bridge thread that moves frames into a one-slot channel, run_stream,    *)
(* which drains the channel into the encoders, and the session's cancel    *)
(* token that ends all of them. A frame is its resolution.                 *)
(***************************************************************************)

CONSTANTS
  Sizes,      \* resolutions the core presents
  FitsShm,    \* those of at most MAX_PIXELS (640 x 480): the others arrive truncated
  Upscaled,   \* those small enough for a scale_factor above 1
  None

ASSUME MediaAssumption ==
  /\ FitsShm \subseteq Sizes /\ Upscaled \subseteq FitsShm
  /\ None \notin Sizes \cup {"sentinel"} /\ "sentinel" \notin Sizes

VARIABLES
  core,     \* the child process
  buffer,   \* OutputShm: the frame behind frame_ready
  bridge,   \* the bridge thread
  reason,   \* core_died_reason is set
  slot,     \* core_frame_rx
  cancel,   \* GameSession.cancel
  stream,   \* the task that runs run_stream
  encoder,  \* resolution the video encoder was built for (resolution_probed)
  news      \* what the player knows of the crash

vars == <<core, buffer, bridge, reason, slot, cancel, stream, encoder, news>>

Over == {"done", "stuck", "panicked"}

Init ==
  /\ core = "on" /\ buffer = None
  /\ bridge = "loop" /\ reason = FALSE /\ slot = None
  /\ cancel = FALSE /\ stream = "run" /\ encoder = None /\ news = "none"

-----------------------------------------------------------------------------
(* sc-core                                                                 *)

\* The buffer is written whether or not the server has read the last frame.
Present(s) ==
  /\ core = "on" /\ buffer' = s
  /\ UNCHANGED <<core, bridge, reason, slot, cancel, stream, encoder, news>>

CoreEnds ==
  /\ core = "on" /\ core' \in {"dead", "hung"}
  /\ UNCHANGED <<buffer, bridge, reason, slot, cancel, stream, encoder, news>>

-----------------------------------------------------------------------------
(* The bridge thread                                                       *)

LeavesStream == UNCHANGED <<core, stream, encoder>>

\* deliver_latest_frame: a full slot drops the frame.
Delivered == slot' = IF slot = None THEN buffer ELSE slot

ForwardFrame ==
  /\ bridge = "loop" /\ ~cancel /\ core # "dead" /\ buffer # None
  /\ buffer' = None /\ Delivered
  /\ LeavesStream /\ UNCHANGED <<bridge, reason, cancel, news>>

\* The stall watchdog is left out: only try_wait ends the loop.
SeeDeathUnwatched ==
  /\ bridge = "loop" /\ ~cancel
  /\ core = "dead"
  /\ reason' = TRUE /\ bridge' = "sentinel"
  /\ LeavesStream /\ UNCHANGED <<buffer, slot, cancel, news>>

\* try_wait saw the exit, or 45 s went by without a frame.
SeeDeath ==
  /\ bridge = "loop" /\ ~cancel
  /\ core = "dead" \/ (core = "hung" /\ buffer = None)
  /\ reason' = TRUE /\ bridge' = "sentinel"
  /\ LeavesStream /\ UNCHANGED <<buffer, slot, cancel, news>>

\* deliver_crash_sentinel retries for 200 ms while the slot is full.
DeliverSentinel ==
  /\ bridge = "sentinel" /\ bridge' = "cancel"
  /\ \/ /\ slot = None /\ slot' = "sentinel"
        /\ news' = IF stream = "run" THEN "queued" ELSE news
     \/ slot # None /\ UNCHANGED <<slot, news>>
  /\ LeavesStream /\ UNCHANGED <<buffer, reason, cancel>>

CancelSession ==
  /\ bridge = "cancel" /\ bridge' = "off"
  /\ cancel' = TRUE
  /\ LeavesStream /\ UNCHANGED <<buffer, reason, slot, news>>

SeeCancel ==
  /\ bridge = "loop" /\ cancel
  /\ bridge' = "off"
  /\ LeavesStream /\ UNCHANGED <<buffer, reason, slot, cancel, news>>

-----------------------------------------------------------------------------
(* The stream task                                                         *)

LeavesSource == UNCHANGED <<core, buffer, bridge>>

\* probe_and_rebuild_encoder runs for the first frame only: it decides the size of the
\* encoder for the rest of the session.
Probed == encoder' = IF encoder = None THEN slot ELSE encoder

\* A frame of another size is resized to that of the encoder, a small encoder upscales;
\* either reads the frame pixel by pixel over its full resolution.
Resized(s) == s # encoder'
Scaled     == encoder' \in Upscaled
ReadsPastEnd(s) == s \notin FitsShm /\ (Resized(s) \/ Scaled)

\* GstVideoEncoder::push; a frame of the right size is cut or padded.
PushFrame(s) == stream' = IF ReadsPastEnd(s) THEN "panicked" ELSE "run"

\* No H.264 pipeline can be launched, or the push fails: the loop ends, and the task then
\* cancels the session.
EncoderFails == stream' = "done" /\ cancel' = TRUE

\* A tick with a frame: it drains the channel and then pushes what it took.  Both are one
\* step, since what arrives in between is for a later tick.  A panic does not cancel.
Tick ==
  /\ stream = "run" /\ slot \in Sizes
  /\ slot' = None
  /\ Probed
  /\ \/ PushFrame(slot) /\ UNCHANGED cancel
     \/ EncoderFails
  /\ LeavesSource /\ UNCHANGED <<reason, news>>

\* relay_core_died takes the reason out of the session, if there is one.
Relay == news' = (IF reason THEN "told" ELSE "told_nothing") /\ reason' = FALSE

\* The tick that finds the sentinel relays it and then locks core_frame_rx a second time.
TickCrash ==
  /\ stream = "run" /\ slot = "sentinel"
  /\ Relay
  /\ slot' = None /\ stream' = "stuck"
  /\ LeavesSource /\ UNCHANGED <<cancel, encoder>>

\* The cancellation arm leaves at once.
CancelledAtOnce ==
  /\ stream = "run" /\ cancel
  /\ stream' = "done" /\ slot' = None
  /\ LeavesSource /\ UNCHANGED <<cancel, encoder, news, reason>>

\* The cancellation arm looks for a sentinel in the channel before it leaves.
Cancelled ==
  /\ stream = "run" /\ cancel
  /\ IF slot = "sentinel" THEN Relay ELSE UNCHANGED <<news, reason>>
  /\ slot' = None /\ stream' = "done"
  /\ LeavesSource /\ UNCHANGED <<cancel, encoder>>

\* stop_game, a disconnect, a shutdown.
Stop ==
  /\ ~cancel /\ cancel' = TRUE
  /\ UNCHANGED <<core, buffer, bridge, reason, slot, stream, encoder, news>>

-----------------------------------------------------------------------------
Bridge == ForwardFrame \/ SeeDeath \/ DeliverSentinel \/ CancelSession \/ SeeCancel
Next ==
  \/ \E s \in Sizes : Present(s)
  \/ CoreEnds \/ Bridge \/ Tick \/ TickCrash \/ Cancelled \/ Stop

\* The bridge thread and the stream task are scheduled; the core and the player owe nothing.
Fairness == WF_vars(Bridge) /\ WF_vars(Tick \/ TickCrash \/ Cancelled)
Spec == Init /\ [][Next]_vars /\ Fairness

-----------------------------------------------------------------------------
TypeOK ==
  /\ core \in {"on", "dead", "hung"} /\ buffer \in Sizes \cup {None}
  /\ bridge \in {"loop", "sentinel", "cancel", "off"} /\ reason \in BOOLEAN
  /\ slot \in Sizes \cup {None, "sentinel"} /\ cancel \in BOOLEAN
  /\ stream \in Over \cup {"run"} /\ encoder \in Sizes \cup {None}
  /\ news \in {"none", "queued", "told", "told_nothing"}

\* A crash that was handed to a running stream task reaches the player with its reason,
\* whichever arm of the select finds it, unless the encoders fail first; and no player is
\* told of a crash while the emulator still presents frames.
CrashIsToldWithReason ==
  /\ news # "told_nothing"
  /\ news = "queued" => slot = "sentinel" /\ stream = "run" /\ reason
  /\ news = "told" => core # "on"

\* A bridge thread or a stream task that is gone has cancelled the session; one that
\* hangs in the second lock does so only when the bridge thread is about to cancel it.
EndIsCancelled ==
  /\ bridge = "off" \/ stream = "done" => cancel
  /\ stream = "stuck" => cancel \/ bridge = "cancel"

\* The cancel token of a session ends its stream task (run_stream).
StreamEnds == cancel ~> stream # "stuck" /\ stream # "run"

=============================================================================
