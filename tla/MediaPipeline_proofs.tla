------------------------ MODULE MediaPipeline_proofs ------------------------
(***************************************************************************)
(* Proofs about MediaStream for every set of resolutions, and about        *)
(* MediaPipeline for every buffer size, every set of frames a core may     *)
(* present, formats it may ask for and base sizes it may report.           *)
(***************************************************************************)
EXTENDS MediaPipeline, TLAPS

-----------------------------------------------------------------------------
(* MediaStream: type correctness                                           *)

LEMMA TypeInit == Init => TypeOK
<1> QED
  BY DEF Init, TypeOK, Over

LEMMA TypeNext == TypeOK /\ [Next]_vars => TypeOK'
<1> SUFFICES ASSUME TypeOK, [Next]_vars PROVE TypeOK'
  OBVIOUS
<1> USE MediaAssumption DEF TypeOK, Over, LeavesStream, LeavesSource
<1>1. ASSUME NEW s \in Sizes, Present(s) PROVE TypeOK'
  BY <1>1 DEF Present
<1>2. CASE CoreEnds
  BY <1>2 DEF CoreEnds
<1>3. CASE ForwardFrame
  BY <1>3 DEF ForwardFrame, Delivered
<1>4. CASE SeeDeath
  BY <1>4 DEF SeeDeath
<1>5. CASE DeliverSentinel
  BY <1>5 DEF DeliverSentinel
<1>6. CASE CancelSession
  BY <1>6 DEF CancelSession
<1>7. CASE SeeCancel
  BY <1>7 DEF SeeCancel
<1>8. CASE Tick
  <2>1. stream' \in {"run", "panicked", "done"} /\ cancel' \in BOOLEAN
    BY <1>8 DEF Tick, PushFrame, EncoderFails
  <2>2. slot' = None /\ encoder' \in Sizes \cup {None}
        /\ UNCHANGED <<core, buffer, bridge, reason, news>>
    BY <1>8 DEF Tick, Probed
  <2> QED
    BY <2>1, <2>2
<1>9. CASE TickCrash
  BY <1>9 DEF TickCrash, Relay
<1>10. CASE Cancelled
  BY <1>10 DEF Cancelled, Relay
<1>11. CASE Stop
  BY <1>11 DEF Stop
<1>12. CASE UNCHANGED vars
  BY <1>12 DEF vars
<1> QED
  BY <1>1, <1>2, <1>3, <1>4, <1>5, <1>6, <1>7, <1>8, <1>9, <1>10, <1>11, <1>12 DEF Next, Bridge

\* Every reachable state is well typed: a sentinel is never taken for a frame.
THEOREM MediaTypeCorrect == Spec => []TypeOK
<1> QED
  BY TypeInit, TypeNext, PTL DEF Spec

-----------------------------------------------------------------------------
(* The reason is stored before the sentinel is queued, and taken out only  *)
(* by the one reader of the sentinel.                                      *)

Told ==
  /\ CrashIsToldWithReason
  /\ bridge \in {"loop", "sentinel"} => news = "none" /\ slot # "sentinel"
  /\ bridge = "loop" => ~reason
  /\ bridge = "sentinel" => reason /\ core # "on"
  /\ bridge = "cancel" => core # "on"
  /\ slot = "sentinel" => reason /\ core # "on"
  /\ slot = "sentinel" /\ stream = "run" => news = "queued"

LEMMA ToldInit == Init => Told
<1> QED
  BY MediaAssumption DEF Init, Told, CrashIsToldWithReason

LEMMA ToldNext == TypeOK /\ Told /\ [Next]_vars => Told'
<1> SUFFICES ASSUME TypeOK, Told, [Next]_vars PROVE Told'
  OBVIOUS
<1> USE MediaAssumption DEF TypeOK, Told, CrashIsToldWithReason, LeavesStream, LeavesSource
<1>1. ASSUME NEW s \in Sizes, Present(s) PROVE Told'
  BY <1>1 DEF Present
<1>2. CASE CoreEnds
  BY <1>2 DEF CoreEnds
<1>3. CASE ForwardFrame
  BY <1>3 DEF ForwardFrame, Delivered
<1>4. CASE SeeDeath
  BY <1>4 DEF SeeDeath
<1>5. CASE DeliverSentinel
  BY <1>5 DEF DeliverSentinel
<1>6. CASE CancelSession
  BY <1>6 DEF CancelSession
<1>7. CASE SeeCancel
  BY <1>7 DEF SeeCancel
<1>8. CASE Tick
  BY <1>8 DEF Tick, PushFrame, EncoderFails
<1>9. CASE TickCrash
  BY <1>9 DEF TickCrash, Relay
<1>10. CASE Cancelled
  BY <1>10 DEF Cancelled, Relay
<1>11. CASE Stop
  BY <1>11 DEF Stop
<1>12. CASE UNCHANGED vars
  BY <1>12 DEF vars
<1> QED
  BY <1>1, <1>2, <1>3, <1>4, <1>5, <1>6, <1>7, <1>8, <1>9, <1>10, <1>11, <1>12 DEF Next, Bridge

\* A crash that was handed to a running stream task is told with its reason, whichever
\* arm of run_stream's select finds it, and no player is told of one that did not happen.
THEOREM CrashIsTold == Spec => []CrashIsToldWithReason
<1>1. Told => CrashIsToldWithReason
  BY DEF Told
<1> QED
  BY <1>1, TypeInit, TypeNext, ToldInit, ToldNext, PTL DEF Spec

-----------------------------------------------------------------------------
(* The pipeline drives MediaStream: whatever the runner does, the bridge   *)
(* and the stream see a core that presents pictures and may end.           *)

\* The runner's own state.  A picture is one of Sizes from its callback to OutputShm, a
\* software frame is bounded on both sides, nothing is shown before the loop runs, and
\* until a hardware frame or a doubled field exceeded it every picture fits the buffer.
Sized ==
  /\ geometry \in Bases \cup {Unknown} /\ av \in Bases \cup {Unknown}
  /\ raw # NoRaw => <<raw.w, raw.h>> \in Sizes
  /\ base \in Sizes \cup {Unknown} /\ shown \in Sizes \cup {Unknown}

Bounded ==
  /\ raw # NoRaw /\ ~raw.hw => raw.w <= MaxWidth /\ raw.h <= MaxHeight
  /\ ~beyond => shown[1] <= MaxWidth /\ shown[2] <= MaxHeight

NotShownEarly == at \notin {"run", "panicked"} => shown = Unknown

RunnerInv ==
  RunnerTypeOK /\ Sized /\ Bounded /\ NotShownEarly /\ GeometryKnown

\* A base size is unknown or has two sides.
LEMMA KnownSides ==
  /\ Bases \ {Unknown} \subseteq Sizes
  /\ \A s \in Sizes : s[1] \in Nat \ {0} /\ s[2] \in Nat \ {0} /\ s = <<s[1], s[2]>>
  /\ Unknown[1] = 0 /\ Unknown[2] = 0 /\ Unknown \notin Sizes
  /\ \A s \in Sizes \cup {Unknown} : s[1] \in Nat /\ s[2] \in Nat /\ s \in Nat \X Nat
<1>1. /\ Sizes \subseteq (Nat \ {0}) \X (Nat \ {0}) /\ Bases \ {Unknown} \subseteq Sizes
  BY PipelineAssumption
<1>2. Unknown = <<0, 0>>
  BY DEF Unknown
<1>3. \A s \in Sizes : s[1] \in Nat \ {0} /\ s[2] \in Nat \ {0} /\ s = <<s[1], s[2]>>
  BY <1>1
<1>4. Unknown \notin Sizes
  BY <1>2, <1>3
<1> QED
  BY <1>1, <1>2, <1>3, <1>4

\* What leaves the runner has two sides, and fits unless it is marked.
LEMMA OutgoingSized ==
  ASSUME RunnerInv, raw # NoRaw
  PROVE  Outgoing \in Sizes /\ (~Unbounded => ~Exceeds(Outgoing))
<1>1. <<raw.w, raw.h>> \in Sizes /\ raw.w \in Nat \ {0} /\ raw.h \in Nat \ {0}
  BY KnownSides DEF RunnerInv, Sized
<1>2. CASE raw.w = av[1] /\ 2 * raw.h = av[2]
  <2>1. Outgoing = av
    BY <1>2 DEF Outgoing
  <2>2. av \in Sizes
    BY <1>1, <1>2, KnownSides DEF RunnerInv, Sized
  <2>3. av # <<raw.w, raw.h>>
    BY <1>1, <1>2
  <2> QED
    BY <2>1, <2>2, <2>3 DEF Unbounded
<1>3. CASE ~(raw.w = av[1] /\ 2 * raw.h = av[2])
  <2>1. Outgoing = <<raw.w, raw.h>>
    BY <1>3 DEF Outgoing
  <2>2. ~Unbounded => raw.w <= MaxWidth /\ raw.h <= MaxHeight
    BY DEF Unbounded, RunnerInv, Bounded
  <2> QED
    BY <1>1, <2>1, <2>2, RunnerAssumption DEF Exceeds
<1> QED
  BY <1>2, <1>3

LEMMA RunnerInvInit == RunnerInit => RunnerInv
<1> SUFFICES ASSUME RunnerInit PROVE RunnerInv
  OBVIOUS
<1>1. /\ at = "open" /\ format = 2 /\ agreed = FALSE /\ geometry = Unknown /\ av = Unknown
      /\ raw = NoRaw /\ base = Unknown /\ shown = Unknown /\ beyond = FALSE
  BY DEF RunnerInit
<1>2. RunnerTypeOK
  <2>1. NoRaw \in [hw : BOOLEAN, w : Nat, h : Nat, pitch : Nat]
    BY DEF NoRaw
  <2>2. Unknown \in Nat \X Nat
    BY DEF Unknown
  <2> QED
    BY <1>1, <2>1, <2>2 DEF RunnerTypeOK
<1>3. Sized /\ NotShownEarly /\ GeometryKnown
  BY <1>1 DEF Sized, NotShownEarly, GeometryKnown
<1>4. Bounded
  BY <1>1, KnownSides, RunnerAssumption DEF Bounded
<1> QED
  BY <1>2, <1>3, <1>4 DEF RunnerInv

\* A frame that is kept is one that was accepted.
LEMMA KeptFrame ==
  ASSUME RunnerInv, NEW f \in Frames, VideoRefresh(f)
  PROVE  RunnerInv'
<1>1. /\ f.hw \in BOOLEAN /\ f.w \in Nat \ {0} /\ f.h \in Nat \ {0} /\ f.pitch \in Nat \ {0}
  BY RunnerAssumption
<1>2. <<f.w, f.h>> \in Sizes
  BY PipelineAssumption
<1>3. UNCHANGED <<at, format, agreed, geometry, av, base, shown, beyond>>
  BY DEF VideoRefresh, KeepsOutput
<1>4. raw' = Stored(f) /\ Accepted(f) /\ Calling
  BY DEF VideoRefresh
<1>5. /\ raw'.hw = f.hw /\ raw'.w = f.w /\ raw'.h = f.h /\ raw'.pitch = Pitch(f)
  BY <1>4 DEF Stored
<1>6. Pitch(f) \in Nat
  BY <1>1 DEF Pitch
<1>7. raw' \in [hw : BOOLEAN, w : Nat, h : Nat, pitch : Nat]
  BY <1>1, <1>4, <1>6 DEF Stored
<1>8. RunnerTypeOK'
  BY <1>3, <1>7 DEF RunnerInv, RunnerTypeOK
<1>9. Sized' /\ NotShownEarly' /\ GeometryKnown'
  BY <1>2, <1>3, <1>5 DEF RunnerInv, Sized, NotShownEarly, GeometryKnown
<1>10. Bounded'
  BY <1>3, <1>4, <1>5 DEF RunnerInv, Bounded, Accepted
<1> QED
  BY <1>8, <1>9, <1>10 DEF RunnerInv

LEMMA QuietKeeps == RunnerInv /\ RunnerQuiet => RunnerInv'
<1> SUFFICES ASSUME RunnerInv, RunnerQuiet PROVE RunnerInv'
  OBVIOUS
<1> USE DEF RunnerInv, KeepsCallbacks, KeepsOutput
<1>1. CASE OpenCore \/ InitCore \/ LoadGame \/ LoadGamePath
  <2>1. /\ UNCHANGED <<format, agreed, geometry, raw, av, base, shown, beyond>>
        /\ at \in {"open", "init", "load", "path"}
        /\ at' \in {"init", "load", "path", "info", "failed"}
    BY <1>1 DEF OpenCore, InitCore, LoadGame, LoadGamePath
  <2>2. RunnerTypeOK'
    BY <2>1 DEF RunnerTypeOK
  <2> QED
    BY <2>1, <2>2 DEF Sized, Bounded, NotShownEarly, GeometryKnown
<1>2. ASSUME NEW b \in Bases, ReadAvInfo(b) PROVE RunnerInv'
  <2>1. /\ UNCHANGED <<format, agreed, geometry, raw, shown, beyond>>
        /\ at = "info" /\ at' = "run" /\ av' = b /\ base' = b
    BY <1>2 DEF ReadAvInfo
  <2>2. b \in Sizes \cup {Unknown} /\ b \in Nat \X Nat /\ shown = Unknown
    BY <2>1, KnownSides DEF NotShownEarly
  <2>3. RunnerTypeOK'
    BY <2>1, <2>2 DEF RunnerTypeOK
  <2>4. Sized' /\ Bounded'
    BY <2>1, <2>2 DEF Sized, Bounded
  <2> QED
    BY <2>1, <2>2, <2>3, <2>4 DEF NotShownEarly, GeometryKnown
<1>3. ASSUME NEW b \in Formats, SetPixelFormat(b) PROVE RunnerInv'
  <2>1. /\ UNCHANGED <<at, geometry, raw, av, base, shown, beyond>>
        /\ format' = b /\ agreed' = TRUE /\ at # "panicked" /\ b \in {2, 4}
    BY <1>3, RunnerAssumption DEF SetPixelFormat, Calling
  <2>2. RunnerTypeOK'
    BY <2>1 DEF RunnerTypeOK
  <2> QED
    BY <2>1, <2>2 DEF Sized, Bounded, NotShownEarly, GeometryKnown
<1>4. ASSUME NEW b \in Bases, SetGeometry(b) PROVE RunnerInv'
  <2>1. /\ UNCHANGED <<at, format, agreed, raw, av, base, shown, beyond>>
        /\ geometry' = b
    BY <1>4 DEF SetGeometry
  <2>2. RunnerTypeOK'
    BY <2>1 DEF RunnerTypeOK
  <2> QED
    BY <2>1, <2>2 DEF Sized, Bounded, NotShownEarly, GeometryKnown
<1>5. CASE PublishNothing
  <2>1. /\ UNCHANGED <<at, format, agreed, geometry, raw, av, shown, beyond>>
        /\ base' = LateBase /\ at = "run"
    BY <1>5 DEF PublishNothing, Returns
  <2>2. /\ LateBase \in Sizes \cup {Unknown} /\ (base # Unknown => LateBase # Unknown)
        /\ LateBase \in Nat \X Nat
    BY KnownSides DEF LateBase, Sized
  <2>3. RunnerTypeOK'
    BY <2>1, <2>2 DEF RunnerTypeOK
  <2>4. GeometryKnown'
    BY <2>1, <2>2, KnownSides DEF GeometryKnown
  <2> QED
    BY <2>1, <2>2, <2>3, <2>4 DEF Sized, Bounded, NotShownEarly
<1> QED
  BY <1>1, <1>2, <1>3, <1>4, <1>5, KeptFrame DEF RunnerQuiet

LEMMA PanicKeeps == RunnerInv /\ ConversionPanics => RunnerInv'
<1> SUFFICES ASSUME RunnerInv, ConversionPanics PROVE RunnerInv'
  OBVIOUS
<1>1. /\ UNCHANGED <<format, agreed, geometry, raw, av, base, shown, beyond>>
      /\ at = "run" /\ at' = "panicked"
  BY DEF ConversionPanics, Returns, KeepsCallbacks
<1>2. RunnerTypeOK'
  BY <1>1 DEF RunnerInv, RunnerTypeOK
<1> QED
  BY <1>1, <1>2 DEF RunnerInv, Sized, Bounded, NotShownEarly, GeometryKnown

LEMMA PublishKeeps ==
  ASSUME RunnerInv, Publish
  PROVE  RunnerInv' /\ shown' \in Sizes
<1>1. /\ UNCHANGED <<at, format, agreed, geometry, raw, av>> /\ at = "run" /\ raw # NoRaw
      /\ shown' = Outgoing
      /\ base' = IF LateBase[1] = 0 THEN shown' ELSE LateBase
  BY DEF Publish, Returns, KeepsCallbacks
<1>2. Outgoing \in Sizes /\ (~Unbounded => ~Exceeds(Outgoing))
  BY <1>1, OutgoingSized
<1>3. LateBase \in Sizes \cup {Unknown}
  BY KnownSides DEF LateBase, RunnerInv, Sized
<1>4. base' \in Sizes
  BY <1>1, <1>2, <1>3, KnownSides
<1>5. beyond' \in BOOLEAN /\ (~beyond' => ~Exceeds(shown'))
  BY <1>1, <1>2 DEF Publish, RunnerInv, RunnerTypeOK
<1>6. RunnerTypeOK'
  <2>1. base' \in Nat \X Nat /\ shown' \in Nat \X Nat
    BY <1>1, <1>2, <1>4, KnownSides
  <2> QED
    BY <1>1, <1>5, <2>1 DEF RunnerInv, RunnerTypeOK
<1>7. Sized' /\ NotShownEarly'
  BY <1>1, <1>2, <1>4 DEF RunnerInv, Sized, NotShownEarly
<1>8. Bounded'
  <2>1. shown'[1] \in Nat /\ shown'[2] \in Nat
    BY <1>1, <1>2, KnownSides
  <2>2. ~Exceeds(shown') => shown'[1] <= MaxWidth /\ shown'[2] <= MaxHeight
    BY <2>1, RunnerAssumption DEF Exceeds
  <2> QED
    BY <1>1, <1>5, <2>2 DEF RunnerInv, Bounded
<1>9. GeometryKnown'
  BY <1>4, KnownSides DEF GeometryKnown
<1> QED
  BY <1>1, <1>2, <1>6, <1>7, <1>8, <1>9 DEF RunnerInv

\* What a reader of width and height may see is a resolution, and fits like the pictures.
LEMMA TornSized ==
  ASSUME RunnerInv, Publish, NEW s \in Torn
  PROVE  s \in Sizes /\ (~beyond' => s \in FitsShm)
<1>1. /\ s[1] \in {shown[1], shown'[1]} /\ s[2] \in {shown[2], shown'[2]} /\ s = <<s[1], s[2]>>
      /\ s[1] # 0 /\ s[2] # 0
  BY DEF Torn
<1>2. RunnerInv' /\ shown' \in Sizes /\ shown \in Sizes \cup {Unknown}
  BY PublishKeeps DEF RunnerInv, Sized
<1>3. s \in Sizes
  <2>1. \E x \in Sizes : s[1] = x[1]
    BY <1>1, <1>2, KnownSides
  <2>2. \E y \in Sizes : s[2] = y[2]
    BY <1>1, <1>2, KnownSides
  <2>3. PICK x \in Sizes, y \in Sizes : s[1] = x[1] /\ s[2] = y[2]
    BY <2>1, <2>2
  <2>4. <<x[1], y[2]>> \in Sizes
    BY PipelineAssumption
  <2> QED
    BY <1>1, <2>3, <2>4
<1>4. ASSUME ~beyond' PROVE s \in FitsShm
  <2>1. ~beyond
    BY <1>4 DEF Publish
  <2>2. /\ shown[1] <= MaxWidth /\ shown[2] <= MaxHeight
        /\ shown'[1] <= MaxWidth /\ shown'[2] <= MaxHeight
    BY <1>2, <1>4, <2>1 DEF RunnerInv, Bounded
  <2>3. s[1] \in Nat /\ s[2] \in Nat /\ s[1] <= MaxWidth /\ s[2] <= MaxHeight
    BY <1>1, <1>3, <2>2, KnownSides
  <2>4. s[1] * s[2] <= MaxWidth * s[2] /\ MaxWidth * s[2] <= MaxWidth * MaxHeight
    BY <2>3, RunnerAssumption
  <2>5. s[1] * s[2] <= MaxPixels
    BY <2>3, <2>4, RunnerAssumption DEF MaxPixels
  <2> QED
    BY <1>3, <2>5, PipelineAssumption
<1> QED
  BY <1>3, <1>4

\* Each step of the pipeline is one of MediaStream, or leaves it alone.
LEMMA StepOfMedia == RunnerInv /\ [PipelineNext]_pipelineVars => [Next]_vars
<1> SUFFICES ASSUME RunnerInv, [PipelineNext]_pipelineVars PROVE [Next]_vars
  OBVIOUS
<1>1. CASE RunnerAlone
  BY <1>1 DEF RunnerAlone, mediaVars
<1>2. CASE Panic
  <2>1. CoreEnds
    BY <1>2 DEF Panic, Alive, CoreEnds
  <2> QED
    BY <2>1 DEF Next
<1>3. CASE ShowPicture
  <2>1. PICK s \in Torn : Present(s)
    BY <1>3 DEF ShowPicture
  <2>2. s \in Sizes
    BY <1>3, <2>1, TornSized DEF ShowPicture
  <2> QED
    BY <2>1, <2>2 DEF Next
<1>4. CASE Crash \/ ServeBridge \/ ServeStream \/ EndSession
  BY <1>4 DEF Crash, ServeBridge, ServeStream, EndSession, Next
<1>5. CASE UNCHANGED pipelineVars
  BY <1>5 DEF pipelineVars
<1> QED
  BY <1>1, <1>2, <1>3, <1>4, <1>5 DEF PipelineNext

LEMMA RunnerInvNext == RunnerInv /\ [PipelineNext]_pipelineVars => RunnerInv'
<1> SUFFICES ASSUME RunnerInv, [PipelineNext]_pipelineVars PROVE RunnerInv'
  OBVIOUS
<1>1. CASE RunnerAlone
  BY <1>1, QuietKeeps DEF RunnerAlone
<1>2. CASE Panic
  BY <1>2, PanicKeeps DEF Panic
<1>3. CASE ShowPicture
  BY <1>3, PublishKeeps DEF ShowPicture
<1>4. ASSUME UNCHANGED runnerVars PROVE RunnerInv'
  <2>1. UNCHANGED <<at, format, agreed, geometry, av, raw, base, shown, beyond>>
    BY <1>4 DEF runnerVars
  <2>2. RunnerTypeOK' /\ Sized' /\ Bounded'
    BY <2>1 DEF RunnerInv, RunnerTypeOK, Sized, Bounded
  <2>3. NotShownEarly' /\ GeometryKnown'
    BY <2>1 DEF RunnerInv, NotShownEarly, GeometryKnown
  <2> QED
    BY <2>2, <2>3 DEF RunnerInv
<1>5. CASE Crash \/ ServeBridge \/ ServeStream \/ EndSession
  BY <1>4, <1>5 DEF Crash, ServeBridge, ServeStream, EndSession
<1>6. CASE UNCHANGED pipelineVars
  BY <1>4, <1>6 DEF pipelineVars
<1> QED
  BY <1>1, <1>2, <1>3, <1>5, <1>6 DEF PipelineNext

\* The pipeline implements MediaStream: a runner with its callbacks and its conversion is
\* a core that presents pictures and may end, so what holds of the stream holds here.
THEOREM PipelineImplementsStream == PipelineSpec => Init /\ [][Next]_vars
<1>1. PipelineInit => Init /\ RunnerInv
  BY RunnerInvInit DEF PipelineInit
<1> QED
  BY <1>1, RunnerInvNext, StepOfMedia, PTL DEF PipelineSpec

\* Also with the emulator's side of it: no crash is told that did not happen or without
\* its reason, be it a panic of the conversion or an emulator that hangs.
THEOREM PipelineTellsCrashes == PipelineSpec => []CrashIsToldWithReason
<1>1. Told => CrashIsToldWithReason
  BY DEF Told
<1> QED
  BY <1>1, PipelineImplementsStream, TypeInit, TypeNext, ToldInit, ToldNext, PTL

-----------------------------------------------------------------------------
(* Pictures                                                                *)

\* Until a picture went beyond the buffer, whatever is on its way fits, and nobody panicked.
OnItsWay ==
  ~beyond => {buffer, slot} \cap Sizes \subseteq FitsShm /\ stream # "panicked"

LEMMA OnItsWayNext ==
  TypeOK /\ RunnerInv /\ OnItsWay /\ [PipelineNext]_pipelineVars => OnItsWay'
<1> SUFFICES ASSUME TypeOK, RunnerInv, OnItsWay, [PipelineNext]_pipelineVars PROVE OnItsWay'
  OBVIOUS
<1> USE MediaAssumption DEF OnItsWay
<1>1. ASSUME UNCHANGED <<beyond, stream>>, {buffer', slot'} \subseteq {buffer, slot, None, "sentinel"}
      PROVE  OnItsWay'
  BY <1>1
<1>2. CASE RunnerAlone
  BY <1>1, <1>2 DEF RunnerAlone, mediaVars, vars, RunnerQuiet, OpenCore, InitCore, LoadGame,
                    LoadGamePath, ReadAvInfo, SetPixelFormat, SetGeometry, VideoRefresh,
                    PublishNothing, KeepsOutput
<1>3. CASE Panic
  BY <1>1, <1>3 DEF Panic, ConversionPanics
<1>4. CASE ShowPicture
  <2>1. PICK s \in Torn : Present(s)
    BY <1>4 DEF ShowPicture
  <2>2. /\ buffer' = s /\ UNCHANGED <<slot, stream>> /\ (~beyond' => ~beyond)
        /\ (~beyond' => s \in FitsShm)
    BY <1>4, <2>1, TornSized DEF ShowPicture, Publish, Present
  <2> QED
    BY <2>2
<1>5. CASE ServeStream
  <2>1. UNCHANGED <<beyond, buffer>>
    BY <1>5 DEF ServeStream, Tick, TickCrash, Cancelled, LeavesSource, runnerVars
  <2>2. slot' = None /\ (stream' = "panicked" => stream = "panicked" \/ slot \in Sizes \ FitsShm)
    BY <1>5 DEF ServeStream, Tick, TickCrash, Cancelled, PushFrame, ReadsPastEnd, EncoderFails
  <2> QED
    BY <2>1, <2>2
<1>6. CASE ServeBridge
  BY <1>1, <1>6 DEF ServeBridge, Bridge, ForwardFrame, Delivered, SeeDeath, DeliverSentinel,
                    CancelSession, SeeCancel, LeavesStream, runnerVars
<1>7. CASE Crash \/ EndSession \/ UNCHANGED pipelineVars
  BY <1>1, <1>7 DEF Crash, CoreEnds, EndSession, Stop, pipelineVars, vars, runnerVars
<1> QED
  BY <1>2, <1>3, <1>4, <1>5, <1>6, <1>7 DEF PipelineNext

\* Every reader of a picture stays within it, even when its two sides belong to different
\* pictures, unless a hardware frame or a doubled field went beyond the shared buffer; and
\* the server knows a base size as soon as there is a picture.
THEOREM PipelinePictures == PipelineSpec => []PicturesHold
<1>1. PipelineInit => TypeOK /\ RunnerInv /\ OnItsWay
  <2>1. PipelineInit => buffer = None /\ slot = None /\ stream = "run"
    BY DEF PipelineInit, Init
  <2>2. PipelineInit => OnItsWay
    BY <2>1, MediaAssumption DEF OnItsWay
  <2> QED
    BY <2>2, TypeInit, RunnerInvInit DEF PipelineInit
<1>2. RunnerInv /\ OnItsWay => PicturesHold
  BY DEF RunnerInv, OnItsWay, PicturesHold, PicturesFit
<1>3. TypeOK /\ RunnerInv /\ OnItsWay /\ [PipelineNext]_pipelineVars
        => (TypeOK /\ RunnerInv /\ OnItsWay)'
  BY StepOfMedia, TypeNext, RunnerInvNext, OnItsWayNext
<1> QED
  BY <1>1, <1>2, <1>3, PTL DEF PipelineSpec

-----------------------------------------------------------------------------
(* Ends                                                                    *)

\* Before the bridge thread has taken note of a death there is no sentinel to hang on.
EndInv ==
  /\ EndIsCancelled
  /\ slot = "sentinel" => bridge \in {"cancel", "off"}

LEMMA EndInvInit == Init => EndInv
<1> QED
  BY MediaAssumption DEF Init, EndInv, EndIsCancelled

LEMMA EndInvNext == TypeOK /\ EndInv /\ [Next]_vars => EndInv'
<1> SUFFICES ASSUME TypeOK, EndInv, [Next]_vars PROVE EndInv'
  OBVIOUS
<1> USE MediaAssumption DEF TypeOK, EndInv, EndIsCancelled, LeavesStream, LeavesSource
<1>1. ASSUME NEW s \in Sizes, Present(s) PROVE EndInv'
  BY <1>1 DEF Present
<1>2. CASE CoreEnds
  BY <1>2 DEF CoreEnds
<1>3. CASE ForwardFrame
  BY <1>3 DEF ForwardFrame, Delivered
<1>4. CASE SeeDeath
  BY <1>4 DEF SeeDeath
<1>5. CASE DeliverSentinel
  BY <1>5 DEF DeliverSentinel
<1>6. CASE CancelSession
  BY <1>6 DEF CancelSession
<1>7. CASE SeeCancel
  BY <1>7 DEF SeeCancel
<1>8. CASE Tick
  BY <1>8 DEF Tick, PushFrame, EncoderFails
<1>9. CASE TickCrash
  BY <1>9 DEF TickCrash, Relay
<1>10. CASE Cancelled
  BY <1>10 DEF Cancelled, Relay
<1>11. CASE Stop
  BY <1>11 DEF Stop
<1>12. CASE UNCHANGED vars
  BY <1>12 DEF vars
<1> QED
  BY <1>1, <1>2, <1>3, <1>4, <1>5, <1>6, <1>7, <1>8, <1>9, <1>10, <1>11, <1>12 DEF Next, Bridge

\* With any emulator at the other end: a bridge thread or a stream task that is gone left a
\* cancelled session, and a stream task hangs only while that is done or about to be done.
THEOREM PipelineEndsAreCancelled == PipelineSpec => []EndIsCancelled
<1>1. EndInv => EndIsCancelled
  BY DEF EndInv
<1> QED
  BY <1>1, PipelineImplementsStream, TypeInit, TypeNext, EndInvInit, EndInvNext, PTL
=============================================================================
