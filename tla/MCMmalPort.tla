----------------------------- MODULE MCMmalPort -----------------------------
(* Instances of MmalPort for TLC. *)
EXTENDS MmalPort, TLC

CONSTANTS b1, b2, b3, p1, p2, c1, f1, m1, s1, s2

\* Two pools of one header each: a header taken from one has no successor.
SinglePools == p1 :> <<b1>> @@ p2 :> <<b2>>

\* One pool of three headers, as a camera port's.
OnePool == p1 :> <<b1, b2, b3>>

=============================================================================
