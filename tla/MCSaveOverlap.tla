--------------------------- MODULE MCSaveOverlap ----------------------------
(* Two sessions that save into one directory: both play one ROM without an  *)
(* account ("shared"), as two games of the LAN player do.                   *)
EXTENDS SaveStack
=============================================================================
