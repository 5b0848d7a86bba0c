---------------------------- MODULE MmalWrapper ----------------------------
(***************************************************************************)
(* The component wrapper of util/mmal_component_wrapper.c: pools and       *)
(* output queues for the ports of one component, and one semaphore that    *)
(* turns its callbacks into calls that wait.                               *)
(*                                                                         *)
(* One client thread calls the wrapper.  A thread of the component         *)
(* delivers the callbacks of each port, another those of the control port. *)
(* A callback queues a header, posts the semaphore and only then is the    *)
(* header no longer in transit, so these are three steps.  The client      *)
(* reads the status, the queue and the semaphore in three steps too.       *)
(* A queue is the set of headers that are in it: their order is left out.  *)
(***************************************************************************)
EXTENDS Naturals, FiniteSets

CONSTANTS
  Inputs, Outputs,  \* the component's ports
  Headers,          \* the headers of the ports' pools
  PortOf,           \* the port each header belongs to
  Events,           \* the headers of the component's own event pool
  NoBuffer,
  MaxPosts          \* the count at which the semaphore refuses a post

Ports == Inputs \cup Outputs

Buffers == Headers \cup Events

ASSUME WrapperAssumption ==
  /\ Inputs \cap Outputs = {} /\ Headers \cap Events = {}
  /\ NoBuffer \notin Buffers
  /\ PortOf \in [Headers -> Ports]
  /\ MaxPosts \in Nat \ {0}

VARIABLES
  alive,     \* the wrapper exists
  status,    \* wrapper->status
  sema,      \* the count of the private semaphore
  enabled,   \* is_enabled of each port
  where,     \* where each header is
  queuedOn,  \* the output queue an event header was put in
  callback,  \* how far the callback that runs for each port has come
  control,   \* how far the control port's callback has come
  pc,        \* how far the client's call has come
  call,      \* the arguments of the client's call
  got        \* *buffer of a get, or the header a release has put back

vars == <<alive, status, sema, enabled, where, queuedOn, callback, control, pc, call, got>>

Client == <<pc, call, got>>

\* A header is nowhere before its pool is sized and after it is destroyed.  One
\* that a failed get had already taken is lost.
Places == {"nowhere", "pool", "port", "queue", "client", "lost", "component"}

Labels == {"idle", "check", "take", "wait", "result", "post", "drain", "flush",
           "flushpost", "verify", "destroy", "destroydrain", "join"}

Destroying == {"destroy", "destroydrain", "join"}

Calls == [port : Ports, from : {"pool", "queue"}, waits : BOOLEAN]

TypeOK ==
  /\ alive \in BOOLEAN
  /\ status \in {"success", "error"}
  /\ sema \in 0 .. MaxPosts
  /\ enabled \in [Ports -> BOOLEAN]
  /\ where \in [Buffers -> Places]
  /\ queuedOn \in [Events -> Ports]
  /\ callback \in [Ports -> {"idle", "post", "count", "eventpost"}]
  /\ control \in {"idle", "post"}
  /\ pc \in Labels
  /\ call \in Calls
  /\ got \in Buffers \cup {NoBuffer}

-----------------------------------------------------------------------------
(* What the queues hold and when a port is quiet. *)

HomeOf(b) == IF b \in Headers THEN PortOf[b] ELSE queuedOn[b]

Pool(p) == {b \in Headers : PortOf[b] = p /\ where[b] = "pool"}

OutputQueue(p) == {b \in Buffers : HomeOf(b) = p /\ where[b] = "queue"}

\* The queue a get looks at.
Queue(c) == IF c.from = "pool" THEN Pool(c.port) ELSE OutputQueue(c.port)

\* No header is in transit: none is with the component or in a callback.
Drained(p) ==
  /\ \A b \in Headers : PortOf[b] = p => where[b] # "port"
  /\ callback[p] \notin {"post", "count"}

Post == sema' = IF sema < MaxPosts THEN sema + 1 ELSE sema

\* A call that only has a port.
Call(p) == [port |-> p, from |-> "pool", waits |-> FALSE]

GoTo(l) == pc' = l /\ UNCHANGED <<call, got>>

Released(b) == IF b \in Headers THEN "pool" ELSE "component"

-----------------------------------------------------------------------------
(* Creation. *)

Init ==
  /\ alive = FALSE /\ status = "success" /\ sema = 0
  /\ enabled = [p \in Ports |-> FALSE]
  /\ where = [b \in Buffers |-> "nowhere"]
  /\ queuedOn \in [Events -> Outputs]
  /\ callback = [p \in Ports |-> "idle"] /\ control = "idle"
  /\ pc = "idle" /\ call \in {Call(p) : p \in Ports}
  /\ got = NoBuffer

\* The pools are created without headers; the control port is enabled.
Create ==
  /\ ~alive /\ pc = "idle"
  /\ alive' = TRUE /\ status' = "success" /\ sema' = 0
  /\ where' = [b \in Buffers |-> IF b \in Events THEN "component" ELSE "nowhere"]
  /\ UNCHANGED <<enabled, queuedOn, callback, control, Client>>

-----------------------------------------------------------------------------
(* Callbacks, each on a thread of the component. *)

\* The input port is done with a header: it is released into its pool.
InputCallback(b) ==
  /\ where[b] = "port" /\ PortOf[b] \in Inputs /\ callback[PortOf[b]] = "idle"
  /\ where' = [where EXCEPT ![b] = "pool"]
  /\ callback' = [callback EXCEPT ![PortOf[b]] = "post"]
  /\ UNCHANGED <<alive, status, sema, enabled, queuedOn, control, Client>>

\* The output port returns a header: it is queued for the client.
OutputCallback(b) ==
  /\ where[b] = "port" /\ PortOf[b] \in Outputs /\ callback[PortOf[b]] = "idle"
  /\ where' = [where EXCEPT ![b] = "queue"]
  /\ callback' = [callback EXCEPT ![PortOf[b]] = "post"]
  /\ UNCHANGED <<alive, status, sema, enabled, queuedOn, control, Client>>

\* An event of an output port takes the same way but is never in transit.  The
\* callback stays set until a disable has drained the port.
RaiseEvent(e, p) ==
  /\ where[e] = "component" /\ callback[p] = "idle"
  /\ enabled[p] \/ (pc \in {"drain", "destroydrain"} /\ call.port = p)
  /\ where' = [where EXCEPT ![e] = "queue"]
  /\ queuedOn' = [queuedOn EXCEPT ![e] = p]
  /\ callback' = [callback EXCEPT ![p] = "eventpost"]
  /\ UNCHANGED <<alive, status, sema, enabled, control, Client>>

CallbackPost(p) ==
  /\ callback[p] \in {"post", "eventpost"}
  /\ Post
  /\ callback' = [callback EXCEPT ![p] = IF @ = "post" THEN "count" ELSE "idle"]
  /\ UNCHANGED <<alive, status, enabled, where, queuedOn, control, Client>>

\* The port counts the header as returned, after its callback.
CallbackDone(p) ==
  /\ callback[p] = "count"
  /\ callback' = [callback EXCEPT ![p] = "idle"]
  /\ UNCHANGED <<alive, status, sema, enabled, where, queuedOn, control, Client>>

\* Mutant: the error sets the status without a post.
AfterErrorSilent == "idle"

AfterError == "post"

\* An error event sets the status for good; only the first one is modelled.
ControlError ==
  /\ alive /\ pc # "join" /\ control = "idle" /\ status = "success"
  /\ status' = "error" /\ control' = AfterError
  /\ UNCHANGED <<alive, sema, enabled, where, queuedOn, callback, Client>>

ControlPost ==
  /\ control = "post" /\ control' = "idle"
  /\ Post
  /\ UNCHANGED <<alive, status, enabled, where, queuedOn, callback, Client>>

-----------------------------------------------------------------------------
(* mmal_wrapper_buffer_get_empty and mmal_wrapper_buffer_get_full. *)

Get ==
  /\ alive /\ pc = "idle"
  /\ \E p \in Ports, f \in {"pool", "queue"}, w \in BOOLEAN :
       /\ f = "queue" => p \in Outputs
       /\ call' = [port |-> p, from |-> f, waits |-> w]
  /\ pc' = "check" /\ got' = NoBuffer
  /\ UNCHANGED <<alive, status, sema, enabled, where, queuedOn, callback, control>>

GetCheck ==
  /\ pc = "check"
  /\ GoTo(IF status = "success" THEN "take" ELSE "result")
  /\ UNCHANGED <<alive, status, sema, enabled, where, queuedOn, callback, control>>

GetTake ==
  /\ pc = "take"
  /\ \E b \in Queue(call) :
       /\ where' = [where EXCEPT ![b] = "client"]
       /\ got' = b
  /\ pc' = "result"
  /\ UNCHANGED <<alive, status, sema, enabled, queuedOn, callback, control, call>>

GetNothing ==
  /\ pc = "take" /\ Queue(call) = {}
  /\ GoTo(IF call.waits THEN "wait" ELSE "result")
  /\ UNCHANGED <<alive, status, sema, enabled, where, queuedOn, callback, control>>

\* A wakeup may be that of another port: the get looks again.
GetWakes ==
  /\ pc = "wait" /\ sema > 0
  /\ sema' = sema - 1
  /\ GoTo("check")
  /\ UNCHANGED <<alive, status, enabled, where, queuedOn, callback, control>>

\* The status is read again: an error here hides the header that was taken.
GetResult ==
  /\ pc = "result"
  /\ where' = IF got # NoBuffer /\ status = "error"
              THEN [where EXCEPT ![got] = "lost"] ELSE where
  /\ pc' = "idle" /\ got' = NoBuffer
  /\ UNCHANGED <<alive, status, sema, enabled, queuedOn, callback, control, call>>

-----------------------------------------------------------------------------
(* What the client does with a header it holds. *)

\* mmal_port_send_buffer
SendBuffer(b) ==
  /\ pc = "idle" /\ b \in Headers /\ where[b] = "client" /\ enabled[PortOf[b]]
  /\ where' = [where EXCEPT ![b] = "port"]
  /\ UNCHANGED <<alive, status, sema, enabled, queuedOn, callback, control, Client>>

\* mmal_buffer_header_release: only the wrapper's own pools post the semaphore.
ReleaseBuffer(b) ==
  /\ pc = "idle" /\ where[b] = "client"
  /\ where' = [where EXCEPT ![b] = Released(b)]
  /\ pc' = IF b \in Headers THEN "post" ELSE "idle"
  /\ UNCHANGED <<alive, status, sema, enabled, queuedOn, callback, control, call, got>>

ReleasePost ==
  /\ pc = "post"
  /\ Post
  /\ GoTo("idle")
  /\ UNCHANGED <<alive, status, enabled, where, queuedOn, callback, control>>

-----------------------------------------------------------------------------
(* mmal_wrapper_port_enable and mmal_wrapper_port_disable. *)

\* The pool gets its headers the first time; later the size is the same and
\* resizing does nothing.  Enabling may then fail.
PortEnable(p) ==
  /\ alive /\ pc = "idle" /\ ~enabled[p]
  /\ where' = [b \in Buffers |->
                 IF b \in Headers /\ HomeOf(b) = p /\ where[b] = "nowhere"
                 THEN "pool" ELSE where[b]]
  /\ \E ok \in BOOLEAN : enabled' = [enabled EXCEPT ![p] = ok]
  /\ UNCHANGED <<alive, status, sema, queuedOn, callback, control, Client>>

\* mmal_port_disable: the port takes no more headers and gives back those it has.
PortDisable(p) ==
  /\ alive /\ pc = "idle" /\ enabled[p]
  /\ enabled' = [enabled EXCEPT ![p] = FALSE]
  /\ pc' = "drain" /\ call' = Call(p)
  /\ UNCHANGED <<alive, status, sema, where, queuedOn, callback, control, got>>

\* The component refuses: the port stays enabled.
DisableRefused ==
  /\ pc = "drain"
  /\ enabled' = [enabled EXCEPT ![call.port] = TRUE]
  /\ GoTo("idle")
  /\ UNCHANGED <<alive, status, sema, where, queuedOn, callback, control>>

\* Mutant: the output queue is not flushed.
AfterDrainUnflushed(p) == "idle"

AfterDrain(p) == IF p \in Outputs THEN "flush" ELSE "idle"

DisableDrained ==
  /\ pc = "drain" /\ Drained(call.port)
  /\ GoTo(AfterDrain(call.port))
  /\ UNCHANGED <<alive, status, sema, enabled, where, queuedOn, callback, control>>

Flush ==
  /\ pc = "flush"
  /\ \E b \in OutputQueue(call.port) :
       /\ where' = [where EXCEPT ![b] = Released(b)]
       /\ pc' = IF b \in Headers THEN "flushpost" ELSE "flush"
  /\ UNCHANGED <<alive, status, sema, enabled, queuedOn, callback, control, call, got>>

FlushPost ==
  /\ pc = "flushpost"
  /\ Post
  /\ GoTo("flush")
  /\ UNCHANGED <<alive, status, enabled, where, queuedOn, callback, control>>

Flushed ==
  /\ pc = "flush" /\ OutputQueue(call.port) = {}
  /\ GoTo("verify")
  /\ UNCHANGED <<alive, status, sema, enabled, where, queuedOn, callback, control>>

\* vcos_verify counts the headers of the pool: an error is only logged.
Verify ==
  /\ pc = "verify"
  /\ GoTo("idle")
  /\ UNCHANGED <<alive, status, sema, enabled, where, queuedOn, callback, control>>

-----------------------------------------------------------------------------
(* mmal_wrapper_destroy.  The client has the only reference to the component. *)

Destroy ==
  /\ alive /\ pc = "idle"
  /\ GoTo("destroy")
  /\ UNCHANGED <<alive, status, sema, enabled, where, queuedOn, callback, control>>

\* The component disables the ports that still are enabled, inputs first.
DestroyDisable(p) ==
  /\ pc = "destroy" /\ enabled[p]
  /\ p \in Outputs => \A q \in Inputs : ~enabled[q]
  /\ enabled' = [enabled EXCEPT ![p] = FALSE]
  /\ pc' = "destroydrain" /\ call' = Call(p)
  /\ UNCHANGED <<alive, status, sema, where, queuedOn, callback, control, got>>

DestroyDrained ==
  /\ pc = "destroydrain" /\ Drained(call.port)
  /\ GoTo("destroy")
  /\ UNCHANGED <<alive, status, sema, enabled, where, queuedOn, callback, control>>

DestroyControl ==
  /\ pc = "destroy" /\ \A p \in Ports : ~enabled[p]
  /\ GoTo("join")
  /\ UNCHANGED <<alive, status, sema, enabled, where, queuedOn, callback, control>>

\* Mutant: the component's thread is not joined.
JoinedAlways == TRUE

\* The component's thread is joined before its ports are freed.
Joined == control = "idle" /\ \A p \in Ports : callback[p] = "idle"

\* The pools, with the headers the client still holds, the queues and the
\* semaphore go.
Free ==
  /\ pc = "join" /\ Joined
  /\ alive' = FALSE /\ sema' = 0
  /\ where' = [b \in Buffers |-> "nowhere"]
  /\ GoTo("idle")
  /\ UNCHANGED <<status, enabled, queuedOn, callback, control>>

-----------------------------------------------------------------------------
(* The specification. *)

GetGoesOn == GetCheck \/ GetTake \/ GetNothing \/ GetWakes \/ GetResult

DisableGoesOn ==
  ReleasePost \/ DisableDrained \/ Flush \/ FlushPost \/ Flushed \/ Verify

DestroyGoesOn ==
  (\E p \in Ports : DestroyDisable(p)) \/ DestroyDrained \/ DestroyControl \/ Free

Starts ==
  \/ Create \/ Get \/ Destroy
  \/ \E p \in Ports : PortEnable(p) \/ PortDisable(p)
  \/ \E b \in Buffers : SendBuffer(b) \/ ReleaseBuffer(b)

Returned(b) == InputCallback(b) \/ OutputCallback(b)

Component ==
  \/ \E b \in Headers : Returned(b)
  \/ \E e \in Events, p \in Outputs : RaiseEvent(e, p)
  \/ \E p \in Ports : CallbackPost(p) \/ CallbackDone(p)
  \/ ControlError \/ ControlPost

Next == Starts \/ GetGoesOn \/ DisableGoesOn \/ DisableRefused \/ DestroyGoesOn \/ Component

Spec == Init /\ [][Next]_vars

\* The threads run, and a component gives back the headers of a disabled port.
\* Nothing is assumed of the client's next call, nor that a frame ever arrives.
Fairness ==
  /\ WF_vars(GetGoesOn) /\ WF_vars(DisableGoesOn) /\ WF_vars(DestroyGoesOn)
  /\ \A p \in Ports : WF_vars(CallbackPost(p) \/ CallbackDone(p))
  /\ \A b \in Headers : SF_vars(~enabled[PortOf[b]] /\ Returned(b))
  /\ WF_vars(ControlPost)

FairSpec == Spec /\ Fairness

-----------------------------------------------------------------------------
(* Properties. *)

Posting == control = "post" \/ \E p \in Ports : callback[p] \in {"post", "eventpost"}

\* There is something for a get that waits: a header or the error.
Available == Queue(call) # {} \/ status = "error"

\* mmal_wrapper_buffer_get_*: between finding its queue empty and waiting the
\* client holds no lock.  A header that arrives, or an error that is reported,
\* in between or later leaves a post, though posts of all ports share the count.
NoLostWakeup == pc = "wait" /\ Available => sema > 0 \/ Posting

\* mmal_wrapper_port_disable: once a disabled port is drained and its output
\* queue flushed, each header is in its pool except those the client took.
PoolWhole ==
  \A b \in Headers :
    alive /\ ~enabled[PortOf[b]] /\ pc \notin {"drain", "flush", "flushpost"} \cup Destroying =>
      where[b] \in {"nowhere", "pool", "client", "lost"}

\* mmal_wrapper_destroy frees the semaphore and the queues: when it joins the
\* component's thread no header is with the component, and from then on no
\* callback is left that would use what is freed.
FreedQuiet ==
  /\ pc = "join" => \A b \in Headers : where[b] # "port"
  /\ ~alive => control = "idle" /\ \A p \in Ports : callback[p] = "idle"

WrapperInv == TypeOK /\ FreedQuiet

\* A get with nothing to get.
Starved == pc = "wait" /\ sema = 0 /\ ~Available

\* Every call returns, or waits with its queue empty and no error reported.
CallsReturn == pc # "idle" ~> pc = "idle" \/ Starved
=============================================================================
