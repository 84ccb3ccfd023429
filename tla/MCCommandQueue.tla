--------------------------- MODULE MCCommandQueue ---------------------------
(* Small instances of CommandQueue for TLC.                                *)
EXTENDS CommandQueue

CONSTANTS u1, u2

OneUser  == {u1}
OneGame  == {1}
TwoGames == {1, 2}
NoGames  == {}
=============================================================================
