----------------------------- MODULE MCMmalPool -----------------------------
(* Instances of MmalPool for TLC. *)
EXTENDS MmalPool

CONSTANTS b1, b2, b3

TwoHeaders == <<b1, b2>>

ThreeHeaders == <<b1, b2, b3>>
=============================================================================
