---------------------------- MODULE MCMmalGraph ----------------------------
(* Instances of MmalGraph for TLC. *)
EXTENDS MmalGraph, TLC

CONSTANTS a1, b1, e1, x1

MCHeaders == <<{a1}, {b1}>>
MCEvents  == <<{e1}, {}>>

\* A single connection.
OneHeaders == <<{a1, b1}>>
OneEvents  == <<{e1}>>

=============================================================================
