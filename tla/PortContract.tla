---------------------------- MODULE PortContract ----------------------------
(***************************************************************************)
(* What an MMAL port promises to the client that sends buffer headers to   *)
(* it, with nothing said of locks, counters or queues (mmal_port.h): an    *)
(* enabled port takes the buffers it is sent, gives each of them back at   *)
(* most once per time it was sent, and mmal_port_disable() comes back      *)
(* successfully only when the port holds no buffer any more.  MmalPort     *)
(* implements this module.                                                 *)
(***************************************************************************)
CONSTANT Buffers   \* the buffer headers of the client

VARIABLES phase,   \* "disabled", "enabled", or "disabling" while a disable runs
          held     \* the buffers the port owes to the client

vars == <<phase, held>>

TypeOK == /\ phase \in {"disabled", "enabled", "disabling"}
          /\ held \in SUBSET Buffers

Init == /\ phase = "disabled"
        /\ held = {}

Enable == /\ phase = "disabled"
          /\ phase' = "enabled"
          /\ UNCHANGED held

\* mmal_port_send_buffer() on an enabled port, of a buffer the client owns.
Accept(b) == /\ phase = "enabled"
             /\ b \notin held
             /\ held' = held \cup {b}
             /\ UNCHANGED phase

\* The client's callback is called with a buffer the port was given.
GiveBack(b) == /\ b \in held
               /\ held' = held \ {b}
               /\ UNCHANGED phase

BeginDisable == /\ phase = "enabled"
                /\ phase' = "disabling"
                /\ UNCHANGED held

\* The component refused to stop: the port is enabled as before.
AbandonDisable == /\ phase = "disabling"
                  /\ phase' = "enabled"
                  /\ UNCHANGED held

\* A successful disable has returned every buffer.
EndDisable == /\ phase = "disabling"
              /\ held = {}
              /\ phase' = "disabled"
              /\ UNCHANGED held

Next == \/ Enable \/ BeginDisable \/ AbandonDisable \/ EndDisable
        \/ \E b \in Buffers : Accept(b) \/ GiveBack(b)

Spec == Init /\ [][Next]_vars
=============================================================================
