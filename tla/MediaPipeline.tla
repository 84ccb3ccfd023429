--------------------------- MODULE MediaPipeline ---------------------------
(***************************************************************************)
(* LibretroRunner and MediaStream together: what the emulator hands to its *)
(* callbacks, all the way to the encoders.  sc-core stores width and       *)
(* height of a picture one after the other, and the bridge thread loads    *)
(* them one after the other, so it may take one of each picture.           *)
(***************************************************************************)
EXTENDS MediaStream, LibretroRunner

\* Resolutions are pairs of sides; those of a frame, those of a base size and those that
\* mix the sides of two of them are among them, and the shared buffer holds MaxPixels.
ASSUME PipelineAssumption ==
  /\ Sizes \subseteq (Nat \ {0}) \X (Nat \ {0})
  /\ FitsShm = {s \in Sizes : s[1] * s[2] <= MaxPixels}
  /\ {<<f.w, f.h>> : f \in Frames} \cup (Bases \ {Unknown}) \subseteq Sizes
  /\ \A s, t \in Sizes : <<s[1], t[2]>> \in Sizes

mediaVars    == vars
pipelineVars == <<vars, runnerVars>>

\* load_core_into_session is over: the base size, or a first picture, was there.
Serving == base # Unknown \/ shown # Unknown

\* What a load of width and height may see while the next picture is stored.
Torn == {s \in {shown[1], shown'[1]} \X {shown[2], shown'[2]} : 0 \notin {s[1], s[2]}}

PipelineInit == Init /\ RunnerInit

\* Once the bridge thread has left its loop nobody reads what the emulator shows; the
\* thread kills it in the end.
Alive == core = "on" /\ bridge = "loop"

RunnerAlone == Alive /\ RunnerQuiet /\ UNCHANGED mediaVars

\* A panic unwinds main: the process ends.
Panic ==
  /\ Alive /\ ConversionPanics /\ core' = "dead"
  /\ UNCHANGED <<buffer, bridge, reason, slot, cancel, stream, encoder, news>>

ShowPicture == Alive /\ Publish /\ \E s \in Torn : Present(s)

Crash == Serving /\ CoreEnds /\ UNCHANGED runnerVars

ServeBridge == Serving /\ Bridge /\ UNCHANGED runnerVars
ServeStream == Serving /\ (Tick \/ TickCrash \/ Cancelled) /\ UNCHANGED runnerVars
EndSession  == Serving /\ Stop /\ UNCHANGED runnerVars

PipelineNext ==
  \/ RunnerAlone \/ Panic \/ ShowPicture \/ Crash
  \/ ServeBridge \/ ServeStream \/ EndSession

PipelineSpec ==
  /\ PipelineInit /\ [][PipelineNext]_pipelineVars
  /\ WF_pipelineVars(ServeBridge) /\ WF_pipelineVars(ServeStream)

-----------------------------------------------------------------------------
\* No reader of a picture, down to the scaling of the encoder, reads past what it was
\* given, even if the width and the height it read belong to different pictures; only a
\* hardware frame or a doubled field that exceeds the buffer in one direction can do it.
PicturesFit == stream = "panicked" => beyond

\* A picture on its way is read within its bounds, but for those frames, and the server
\* knows a base size as soon as there is a picture.
PicturesHold == PicturesFit /\ GeometryKnown

\* An emulator that is gone or silent ends the session even if nobody drains the stream,
\* and a stream task that ends without a panic ends it as well.
DeathEndsSession ==
  /\ []EndIsCancelled
  /\ Serving /\ core # "on" /\ buffer = None ~> cancel
  /\ stream = "done" \/ stream = "stuck" ~> cancel
=============================================================================
