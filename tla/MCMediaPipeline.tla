-------------------------- MODULE MCMediaPipeline --------------------------
(* A buffer of 1 x 2 pixels.  The frames: a field that is shown doubled if the base size
   is 1 x 2, a full picture in 32 bits (or padded 16), one that the callback refuses, and
   a hardware frame wider than the buffer. *)
EXTENDS MediaPipeline

MCFrames ==
  {[hw |-> FALSE, w |-> 1, h |-> 1, pitch |-> 2],
   [hw |-> FALSE, w |-> 1, h |-> 2, pitch |-> 4],
   [hw |-> FALSE, w |-> 2, h |-> 2, pitch |-> 4],
   [hw |-> TRUE,  w |-> 2, h |-> 1, pitch |-> 2]}
MCBases == {<<0, 0>>, <<1, 2>>}
MCSizes == {1, 2} \X {1, 2}
MCFits  == {s \in MCSizes : s[1] * s[2] <= MaxPixels}
MCSmall == {<<1, 1>>}
=============================================================================
