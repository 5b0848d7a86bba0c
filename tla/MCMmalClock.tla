---------------------------- MODULE MCMmalClock ----------------------------
(* Instances of MmalClock for TLC. *)
EXTENDS MmalClock

CONSTANTS c1, c2, s1, s2

Forward == {0, 1}

BothWays == {-1, 1}
=============================================================================
