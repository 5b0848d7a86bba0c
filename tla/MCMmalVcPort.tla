---------------------------- MODULE MCMmalVcPort ----------------------------
(* Instances of MmalVcPort for TLC. *)
EXTENDS MmalVcPort, TLC

CONSTANTS c1, c2, i1, o1, o2, e1

\* One thread does everything to the output port, a second one flushes it.
Sequential == c1 :> {<<"enable", "out">>, <<"disable", "out">>, <<"format", "in">>}
              @@ c2 :> {<<"flush", "out">>}

\* A second thread commits a format on the input port.
Racing == c1 :> {<<"enable", "out">>, <<"disable", "out">>} @@ c2 :> {<<"format", "in">>}

=============================================================================
