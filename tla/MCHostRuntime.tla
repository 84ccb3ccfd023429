--------------------------- MODULE MCHostRuntime ---------------------------
(* Small instances of HostRuntime for TLC.                                 *)
EXTENDS HostRuntime

CONSTANTS u1

OneUser == {u1}
OneGame == {1}
NoGames == {}
=============================================================================
