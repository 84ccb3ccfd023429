--------------------------- MODULE MCSessionPeers ---------------------------
(* Small instances of SessionPeers: a viewer and a player.                 *)
EXTENDS SessionPeers

CONSTANTS v1, p1

BothTokens == {v1, p1}
OnePlayer  == {p1}
=============================================================================
