-------------------------- MODULE LibretroRunner ---------------------------
(***************************************************************************)
(* sc-core's side of a picture: libretro_runner::Core loads the emulator,  *)
(* answers its environment and video callbacks, and converts what it       *)
(* captured; main publishes the result in OutputShm.  Everything runs on   *)
(* one thread, one Core per process, with a content path.                  *)
(* Sizes are pixels, pitches bytes; the colours of a picture, sound and    *)
(* input are left out.                                                     *)
(***************************************************************************)
EXTENDS Naturals

CONSTANTS
  MaxWidth, MaxHeight,  \* MAX_FRAME_WIDTH and MAX_FRAME_HEIGHT, of the callbacks and of OutputShm
  Frames,               \* what a core may pass to video_refresh: [hw, w, h, pitch]
  Formats,              \* pixel formats it may ask for, in bytes per pixel
  Bases                 \* base sizes it may report, <<0, 0>> if it does not know yet

ASSUME RunnerAssumption ==
  /\ MaxWidth \in Nat \ {0} /\ MaxHeight \in Nat \ {0}
  /\ Frames \subseteq [hw : BOOLEAN, w : Nat \ {0}, h : Nat \ {0}, pitch : Nat \ {0}]
  /\ Formats \subseteq {2, 4}
  /\ \A b \in Bases : b = <<0, 0>> \/ b \in (Nat \ {0}) \X (Nat \ {0})

MaxPixels == MaxWidth * MaxHeight

VARIABLES
  at,        \* what sc-core is doing
  format,    \* PIXEL_FORMAT, in bytes per pixel
  agreed,    \* PIXEL_FORMAT_NEGOTIATED
  geometry,  \* LATEST_GEOMETRY
  av,        \* av_info's base size
  raw,       \* RAW_FRAME and RAW_FRAME_DIMS
  base,      \* OutputShm.base_width, base_height
  shown,     \* OutputShm.width, height
  beyond     \* a picture that the callbacks do not bound was published over MaxWidth x MaxHeight

runnerVars == <<at, format, agreed, geometry, av, raw, base, shown, beyond>>

Unknown == <<0, 0>>
NoRaw   == [hw |-> FALSE, w |-> 0, h |-> 0, pitch |-> 0]

\* The thread-locals as load() resets them; 0RGB1555 is libretro's default.
RunnerInit ==
  /\ at = "open" /\ format = 2 /\ agreed = FALSE
  /\ geometry = Unknown /\ av = Unknown
  /\ raw = NoRaw
  /\ base = Unknown /\ shown = Unknown
  /\ beyond = FALSE

KeepsCallbacks == UNCHANGED <<format, agreed, geometry, raw>>
KeepsOutput    == UNCHANGED <<av, base, shown, beyond>>

-----------------------------------------------------------------------------
(* Core::load                                                              *)

\* dlopen and the required symbols; a failure is process::exit(3).
OpenCore ==
  /\ at = "open" /\ at' \in {"init", "failed"}
  /\ KeepsCallbacks /\ KeepsOutput

\* The callbacks are registered, then retro_init.
InitCore ==
  /\ at = "init" /\ at' = "load"
  /\ KeepsCallbacks /\ KeepsOutput

\* With need_fullpath, or without a readable file, the path is the only try; the bytes
\* of the file are followed by a second try with the path.
LoadGame ==
  /\ at = "load" /\ at' \in {"info", "path", "failed"}
  /\ KeepsCallbacks /\ KeepsOutput

LoadGamePath ==
  /\ at = "path" /\ at' \in {"info", "failed"}
  /\ KeepsCallbacks /\ KeepsOutput

\* retro_get_system_av_info, or its fallback; main publishes the base size at once.
ReadAvInfo(b) ==
  /\ at = "info" /\ at' = "run"
  /\ av' = b /\ base' = b
  /\ KeepsCallbacks /\ UNCHANGED <<shown, beyond>>

-----------------------------------------------------------------------------
(* Callbacks: from retro_init, retro_load_game and retro_run               *)

Calling == at \in {"init", "load", "path", "run"}

\* Bytes per pixel that convert_and_store_frame takes a frame for: without a
\* negotiated format, rows of exactly four bytes per pixel are XRGB8888.
PixelBytes(w, pitch) == IF ~agreed /\ pitch = 4 * w THEN 4 ELSE format

\* A new format takes effect for the frame that is kept as well.
SetPixelFormat(b) ==
  /\ Calling
  /\ format' = b /\ agreed' = TRUE
  /\ KeepsOutput /\ UNCHANGED <<at, geometry, raw>>

\* Only plausible base sizes are kept.
SetGeometry(b) ==
  /\ Calling /\ b # Unknown
  /\ geometry' = b
  /\ KeepsOutput /\ UNCHANGED <<at, format, agreed, raw>>

\* Mutant of Accepted: only the bytes of a software frame are bounded.
AcceptedBytes(f) ==
  IF f.hw THEN f.w * f.h <= MaxPixels ELSE f.pitch * f.h <= 4 * MaxPixels

\* bounded_raw_frame_len bounds both sides of a software frame; a hardware frame only
\* has its bytes bounded.
Accepted(f) ==
  IF f.hw THEN f.w * f.h <= MaxPixels
          ELSE f.w <= MaxWidth /\ f.h <= MaxHeight /\ f.pitch * f.h <= 4 * MaxPixels

\* The frame as it is stored: the readback of a hardware frame is packed.
Pitch(f)  == IF f.hw THEN 4 * f.w ELSE f.pitch
Stored(f) == [hw |-> f.hw, w |-> f.w, h |-> f.h, pitch |-> Pitch(f)]

\* video_refresh_callback: NULL, a refused frame and a failed readback (or no GL bridge)
\* keep the last one.
VideoRefresh(f) ==
  /\ Calling /\ at # "init" /\ Accepted(f)
  /\ raw' = Stored(f)
  /\ KeepsOutput /\ UNCHANGED <<at, format, agreed, geometry>>

-----------------------------------------------------------------------------
(* run_frame and main's loop: retro_run is over, what is kept is converted *)
(* and published                                                           *)

Returns == at = "run" /\ KeepsCallbacks /\ UNCHANGED av

\* convert_and_store_frame slices the kept frame row by row: a row shorter than its
\* pixels, or rows that are not aligned to a pixel, are not what it expects.
Misfit(bytes) == raw.pitch < raw.w * bytes \/ (raw.h > 1 /\ raw.pitch % bytes # 0)
Unfit == raw # NoRaw /\ Misfit(PixelBytes(raw.w, raw.pitch))

ConversionPanics ==
  /\ Returns /\ Unfit /\ at' = "panicked"
  /\ UNCHANGED <<base, shown, beyond>>

\* SET_GEOMETRY corrects the base size at any time.
LateBase == IF geometry # Unknown THEN geometry ELSE base

\* There is no picture to publish yet.
PublishNothing ==
  /\ Returns /\ raw = NoRaw
  /\ base' = LateBase
  /\ UNCHANGED <<at, shown, beyond>>

\* A field of half the base height is shown with every line twice.
Outgoing == IF raw.w = av[1] /\ 2 * raw.h = av[2] THEN av ELSE <<raw.w, raw.h>>

\* bounded_raw_frame_len looks at neither a hardware frame nor a doubled field.
Unbounded  == raw.hw \/ Outgoing # <<raw.w, raw.h>>
Exceeds(s) == s[1] > MaxWidth \/ s[2] > MaxHeight

\* The picture, its size and frame_ready; without a base size it becomes the base size.
Publish ==
  /\ Returns /\ raw # NoRaw /\ ~Unfit
  /\ shown' = Outgoing
  /\ beyond' = (beyond \/ (Unbounded /\ Exceeds(shown')))
  /\ base' = IF LateBase[1] = 0 THEN shown' ELSE LateBase
  /\ UNCHANGED at

-----------------------------------------------------------------------------
\* What the runner does without a picture leaving it.
RunnerQuiet ==
  \/ OpenCore \/ InitCore \/ LoadGame \/ LoadGamePath \/ \E b \in Bases : ReadAvInfo(b)
  \/ \E b \in Formats : SetPixelFormat(b)
  \/ \E b \in Bases : SetGeometry(b)
  \/ \E f \in Frames : VideoRefresh(f)
  \/ PublishNothing

RunnerTypeOK ==
  /\ at \in {"open", "init", "load", "path", "info", "run", "failed", "panicked"}
  /\ format \in {2, 4} /\ agreed \in BOOLEAN
  /\ geometry \in Bases \cup {Unknown} /\ av \in Bases \cup {Unknown}
  /\ raw \in [hw : BOOLEAN, w : Nat, h : Nat, pitch : Nat]
  /\ {base, shown} \subseteq Nat \X Nat
  /\ beyond \in BOOLEAN

\* Once a picture was published the server can read a base size, whether the core
\* reported one at load, late, or never.
GeometryKnown == shown # Unknown => base[1] # 0 /\ base[2] # 0
=============================================================================
