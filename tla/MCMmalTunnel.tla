---------------------------- MODULE MCMmalTunnel ----------------------------
EXTENDS MmalTunnel, TLC

CONSTANTS c1, c2, p1, p2, b1, b2, e1

MCCalls   == c1 :> Operations @@ c2 :> {"disconnect"}
MCEnds    == c1 :> {"out"} @@ c2 :> {"out"}
MCHeaders == p1 :> {b1, b2} @@ p2 :> {}
=============================================================================
