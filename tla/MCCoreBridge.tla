---------------------------- MODULE MCCoreBridge ----------------------------
(* CoreBridge on a small instance; the cfg files choose the bounds.        *)
EXTENDS CoreBridge
=============================================================================
