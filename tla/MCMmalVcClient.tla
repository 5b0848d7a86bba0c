-------------------------- MODULE MCMmalVcClient --------------------------
(* Instances of MmalVcClient for TLC. *)
EXTENDS MmalVcClient

CONSTANTS t1, t2, w1, b1, b2

=============================================================================
