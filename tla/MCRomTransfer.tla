--------------------------- MODULE MCRomTransfer ---------------------------
(* A bounded instance of RomTransfer: a file of two units and an empty one *)
(* uploaded to one basename.                                               *)
EXTENDS RomTransfer, TLC

CONSTANTS t1, t2, n1

OneName       == (t1 :> n1) @@ (t2 :> n1)
TwoAndNothing == (t1 :> 2) @@ (t2 :> 0)
=============================================================================
