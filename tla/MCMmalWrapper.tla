--------------------------- MODULE MCMmalWrapper ---------------------------
(* Instances of MmalWrapper for TLC. *)
EXTENDS MmalWrapper, TLC

CONSTANTS in, out, a, b

OneEach == a :> in @@ b :> out
=============================================================================
