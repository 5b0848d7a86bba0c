-------------------------- MODULE MCMmalComponent --------------------------
(* Instances of MmalComponent for TLC. *)
EXTENDS MmalComponent

CONSTANTS p1, p2

OnePort == <<p1>>

TwoPorts == <<p1, p2>>
=============================================================================
