---------------------------- MODULE MCMediaStream ---------------------------
(* Three resolutions: one that is upscaled, one that is not, and one larger *)
(* than the shared frame buffer.                                           *)
EXTENDS MediaStream
=============================================================================
