------------------------------ MODULE MmalGraph ------------------------------
(***************************************************************************)
(* Connections that are not tunnelled (util/mmal_connection.c) and the     *)
(* graph that serves them (util/mmal_graph.c).                             *)
(*                                                                         *)
(* Connection i leads from the output port of component i to the input     *)
(* port of component i + 1, for i in 1 .. N: a pipeline.  It has a pool of *)
(* empty buffers for the output port and a queue of those this port has    *)
(* filled.  One thread moves the buffers of all connections, and sleeps on *)
(* a semaphore that every callback of a port or a pool posts.              *)
(*                                                                         *)
(* A graph is used in one of two ways.  mmal_graph_enable() starts a       *)
(* worker thread and enables the connections; mmal_graph_build() makes a   *)
(* component of it, whose action thread does the work of the worker, and   *)
(* whose ports stand for the two ends of the pipeline: enabling, disabling *)
(* or flushing one of them propagates along the connections.               *)
(*                                                                         *)
(* The components are external: they return a buffer whenever they like    *)
(* and may refuse any call.  Where mmal_port.c synchronises the calls of a *)
(* port, steps are atomic; MmalPort and MmalTunnel look inside.            *)
(***************************************************************************)
EXTENDS Integers, Sequences, FiniteSets

CONSTANTS
  N,              \* connections
  Headers,        \* Headers[i]: the buffer headers of the pool of connection i
  Events,         \* Events[i]: the format changed events of component i
  ClientBuffers,  \* what a client of the built component sends to its input port
  Ways,           \* how the graph may be used: {"graph", "component"}
  Held,           \* connections the client keeps a reference to
  EarlyEvents,    \* events may precede the first buffer of a port
  MaxEnables,     \* bound on calls that enable
  MaxEvents,      \* bound on format changes
  MaxFaults,      \* bound on calls that fail
  SemaMax,        \* bound on the count of the semaphore
  NoBuffer

Connections == 1 .. N
InPorts     == {<<"in", i>> : i \in 0 .. N}
OutPorts    == {<<"out", i>> : i \in 1 .. N + 1}
Ports       == InPorts \cup OutPorts
GraphIn     == <<"in", 0>>        \* the ends of the pipeline
GraphOut    == <<"out", N + 1>>
GraphPorts  == {GraphIn, GraphOut}

AllHeaders == UNION {Headers[i] : i \in Connections}
AllEvents  == UNION {Events[i] : i \in Connections}
Buffers    == AllHeaders \cup AllEvents \cup ClientBuffers
Of(b)      == CHOOSE i \in Connections : b \in Headers[i] \cup Events[i]

Threads == {"client", "worker"}

ASSUME GraphAssumption ==
  /\ N \in Nat \ {0}
  /\ \A i, j \in Connections : i # j => (Headers[i] \cup Events[i]) \cap (Headers[j] \cup Events[j]) = {}
  /\ AllHeaders \cap AllEvents = {} /\ ClientBuffers \cap (AllHeaders \cup AllEvents) = {}
  /\ Ways \subseteq {"graph", "component"} /\ Held \subseteq Connections
  /\ EarlyEvents \in BOOLEAN
  /\ MaxEnables \in Nat /\ MaxEvents \in Nat /\ MaxFaults \in Nat /\ SemaMax \in Nat \ {0}
  /\ NoBuffer \notin Buffers

VARIABLES
  way,
  \* ports and connections
  enabled,               \* per port
  graph_enabled,         \* per port of the built component
  is_enabled, sized,     \* per connection; sized: its pool has been resized
  refcount,
  queue,
  at,                    \* where each buffer is
  returning,             \* the callback a port is in: it has put a buffer, and not posted yet
  \* the thread that serves the connections
  sema, stop_thread, wpc, wcx, wbuffer, run_again,
  \* calls on connections in progress, and their result
  step, cx, ok,
  \* the client
  op, pc, port, todo,
  started, freed,        \* the graph is enabled; it has been destroyed
  enables, raised, faults

ports   == <<enabled, graph_enabled>>
links   == <<is_enabled, sized, refcount>>
data    == <<queue, at>>
worker  == <<stop_thread, wpc, wcx, wbuffer, run_again>>
calls   == <<step, cx, ok>>
client  == <<op, pc, port, todo, started, freed, enables>>
vars    == <<way, ports, links, data, returning, sema, worker, calls, client, raised, faults>>

TypeOK ==
  /\ way \in {"graph", "component"}
  /\ enabled \in [Ports -> BOOLEAN] /\ graph_enabled \in [GraphPorts -> BOOLEAN]
  /\ is_enabled \in [Connections -> BOOLEAN] /\ sized \in [Connections -> BOOLEAN]
  /\ refcount \in [Connections -> 0 .. 2]
  /\ queue \in [Connections -> Seq(Buffers)]
  /\ at \in [Buffers -> Ports \cup {<<"none">>, <<"pool">>, <<"queue">>, <<"worker">>}]
  /\ returning \in [Ports -> {"no", "buffer", "event"}]
  /\ sema \in 0 .. SemaMax /\ stop_thread \in BOOLEAN
  /\ wpc \in {"none", "wait", "queue", "send", "event", "disable", "enable", "pool", "fill"}
  /\ wcx \in Connections /\ wbuffer \in Buffers \cup {NoBuffer} /\ run_again \in BOOLEAN
  /\ step \in [Threads -> {"none", "enable", "out", "in", "undo", "disable", "wait_in", "stop_out",
                           "wait_out", "drain", "check"}]
  /\ cx \in [Threads -> Connections] /\ ok \in [Threads -> BOOLEAN]
  /\ op \in {"none", "enable", "disable", "destroy", "release", "port_enable", "port_disable"}
  /\ pc \in {"idle", "next", "call", "stop", "join", "depth", "back", "port", "wait"}
  /\ port \in GraphPorts /\ todo \in 0 .. N + 1
  /\ started \in BOOLEAN /\ freed \in BOOLEAN
  /\ enables \in 0 .. MaxEnables /\ raised \in 0 .. MaxEvents /\ faults \in 0 .. MaxFaults

\* mmal_connection_create(): the ports are disabled, the pool is empty until the
\* connection is enabled, nothing is queued.
InitConnections ==
  /\ enabled = [p \in Ports |-> FALSE]
  /\ is_enabled = [i \in Connections |-> FALSE] /\ sized = [i \in Connections |-> FALSE]
  /\ queue = [i \in Connections |-> <<>>]
  /\ at = [b \in Buffers |-> IF b \in AllHeaders THEN <<"none">> ELSE <<"pool">>]
  /\ returning = [p \in Ports |-> "no"]
  /\ step = [t \in Threads |-> "none"] /\ cx = [t \in Threads |-> 1] /\ ok = [t \in Threads |-> TRUE]

\* mmal_graph_new_connection() hands the connection to the client as well, if it is asked for.
InitReferences == refcount = [i \in Connections |-> IF i \in Held THEN 2 ELSE 1]

\* mmal_graph_create(): a semaphore, and no thread.
InitGraph ==
  /\ sema = 0 /\ stop_thread = FALSE
  /\ wcx = 1 /\ wbuffer = NoBuffer /\ run_again = FALSE
  /\ started = FALSE /\ freed = FALSE

\* mmal_graph_build(): the component's action thread serves the connections.
InitComponent ==
  /\ graph_enabled = [p \in GraphPorts |-> FALSE]
  /\ wpc = IF way = "component" THEN "wait" ELSE "none"

Init ==
  /\ way \in Ways
  /\ InitConnections /\ InitReferences /\ InitGraph /\ InitComponent
  /\ op = "none" /\ pc = "idle" /\ port = GraphIn /\ todo = 0
  /\ enables = 0 /\ raised = 0 /\ faults = 0

Fault == faults < MaxFaults /\ faults' = faults + 1

\* graph_connection_cb() and graph_component_connection_cb()
Posted == sema' = IF sema < SemaMax THEN sema + 1 ELSE sema

-----------------------------------------------------------------------------
(* Callbacks of the ports, on threads of their components.                 *)

\* mmal_connection_bh_in_cb(): the buffer is released, to the pool it came from; a buffer
\* of the client comes back to it.
ReturnInput(i) ==
  /\ returning[<<"in", i>>] = "no"
  /\ \E b \in Buffers :
       /\ at[b] = <<"in", i>>
       /\ at' = [at EXCEPT ![b] = <<"pool">>]
       /\ returning' = [returning EXCEPT ![<<"in", i>>] = IF b \in AllHeaders THEN "buffer" ELSE @]
  /\ UNCHANGED <<way, ports, links, queue, sema, worker, calls, client, raised, faults>>

\* mmal_connection_bh_out_cb(): the buffer is queued.
ReturnOutput(i) ==
  /\ returning[<<"out", i>>] = "no"
  /\ \E b \in Buffers :
       /\ at[b] = <<"out", i>>
       /\ at' = [at EXCEPT ![b] = <<"queue">>]
       /\ queue' = [queue EXCEPT ![i] = Append(@, b)]
       /\ returning' = [returning EXCEPT ![<<"out", i>>] = "buffer"]
  /\ UNCHANGED <<way, ports, links, sema, worker, calls, client, raised, faults>>

\* The output port changes its format, in general once it has been given a buffer.
RaiseEvent(i) ==
  /\ raised < MaxEvents
  /\ enabled[<<"out", i>>] /\ returning[<<"out", i>>] = "no"
  /\ EarlyEvents \/ \E b \in Buffers : at[b] = <<"out", i>>
  /\ \E e \in Events[i] :
       /\ at[e] = <<"pool">>
       /\ at' = [at EXCEPT ![e] = <<"queue">>]
       /\ queue' = [queue EXCEPT ![i] = Append(@, e)]
  /\ returning' = [returning EXCEPT ![<<"out", i>>] = "event"]
  /\ raised' = raised + 1
  /\ UNCHANGED <<way, ports, links, sema, worker, calls, client, faults>>

\* Mutant: only the output port's callback wakes the thread.
WakesOutputOnly(p) == IF p \in OutPorts THEN Posted ELSE UNCHANGED sema

Wakes(p) == Posted

\* The callback of the connection; the buffer is in transit until it returns.
Notify(p) ==
  /\ returning[p] # "no"
  /\ Wakes(p)
  /\ returning' = [returning EXCEPT ![p] = "no"]
  /\ UNCHANGED <<way, ports, links, data, worker, calls, client, raised, faults>>

\* IN_TRANSIT_WAIT: no buffer is with the port, or in its callback; an event that is
\* raised does not count.
Drained(p) == (\A b \in Buffers : at[b] # p) /\ returning[p] # "buffer"

Components ==
  \/ \E i \in 0 .. N : ReturnInput(i)
  \/ \E i \in Connections : ReturnOutput(i) \/ RaiseEvent(i)
  \/ \E p \in Ports : Notify(p)

-----------------------------------------------------------------------------
(* mmal_connection_enable() and mmal_connection_disable(), by thread t.    *)

Step(t, s) == step' = [step EXCEPT ![t] = s]

Begin(t, s, i) == Step(t, s) /\ cx' = [cx EXCEPT ![t] = i] /\ ok' = [ok EXCEPT ![t] = TRUE]

Return(t, success, is) ==
  /\ Step(t, "none")
  /\ ok' = [ok EXCEPT ![t] = success]
  /\ is_enabled' = [is_enabled EXCEPT ![cx[t]] = is]

\* mmal_pool_resize() does nothing to a pool that has its size already.
EnableConnection(t) ==
  /\ step[t] = "enable"
  /\ LET i == cx[t]
     IN \/ /\ is_enabled[i]
           /\ Return(t, TRUE, TRUE) /\ UNCHANGED <<sized, at, faults>>
        \/ /\ ~is_enabled[i]
           /\ sized' = [sized EXCEPT ![i] = TRUE]
           /\ at' = [b \in Buffers |-> IF b \in Headers[i] /\ ~sized[i] THEN <<"pool">> ELSE at[b]]
           /\ Step(t, "out") /\ UNCHANGED <<is_enabled, ok, faults>>
        \/ /\ ~is_enabled[i] /\ ~sized[i] /\ Fault
           /\ Return(t, FALSE, FALSE) /\ UNCHANGED <<sized, at>>
  /\ UNCHANGED <<way, ports, refcount, queue, returning, sema, worker, cx, client, raised>>

\* mmal_port_enable() fails on a port that is enabled.
EnableFails(p) == (enabled[p] /\ UNCHANGED faults) \/ (~enabled[p] /\ Fault)

EnableOutput(t) ==
  /\ step[t] = "out"
  /\ LET p == <<"out", cx[t]>>
     IN \/ ~enabled[p] /\ enabled' = [enabled EXCEPT ![p] = TRUE] /\ Step(t, "in")
           /\ UNCHANGED <<is_enabled, ok, faults>>
        \/ /\ EnableFails(p)
           /\ Return(t, FALSE, FALSE) /\ UNCHANGED enabled
  /\ UNCHANGED <<way, graph_enabled, sized, refcount, data, returning, sema, worker, cx, client, raised>>

\* When the input port cannot be enabled, the output port is disabled again.
EnableInput(t) ==
  /\ step[t] = "in"
  /\ LET p == <<"in", cx[t]>>
     IN \/ ~enabled[p] /\ enabled' = [enabled EXCEPT ![p] = TRUE] /\ Return(t, TRUE, TRUE)
           /\ UNCHANGED faults
        \/ /\ EnableFails(p)
           /\ enabled' = [enabled EXCEPT ![<<"out", cx[t]>>] = FALSE]
           /\ Step(t, "undo") /\ UNCHANGED <<is_enabled, ok>>
  /\ UNCHANGED <<way, graph_enabled, sized, refcount, data, returning, sema, worker, cx, client, raised>>

EnableUndone(t) ==
  /\ step[t] = "undo"
  /\ Drained(<<"out", cx[t]>>)
  /\ Return(t, FALSE, FALSE)
  /\ UNCHANGED <<way, ports, sized, refcount, data, returning, sema, worker, cx, client, raised, faults>>

\* The input port first: mmal_port_disable() fails on a port that is not enabled.
DisableConnection(t) ==
  /\ step[t] = "disable"
  /\ LET p == <<"in", cx[t]>>
     IN \/ /\ ~is_enabled[cx[t]]
           /\ Return(t, TRUE, FALSE) /\ UNCHANGED enabled
        \/ /\ is_enabled[cx[t]] /\ ~enabled[p]
           /\ Return(t, FALSE, TRUE) /\ UNCHANGED enabled
        \/ /\ is_enabled[cx[t]] /\ enabled[p]
           /\ enabled' = [enabled EXCEPT ![p] = FALSE]
           /\ Step(t, "wait_in") /\ UNCHANGED <<is_enabled, ok>>
  /\ UNCHANGED <<way, graph_enabled, sized, refcount, data, returning, sema, worker, cx, client, raised, faults>>

WaitInput(t) ==
  /\ step[t] = "wait_in" /\ Drained(<<"in", cx[t]>>)
  /\ Step(t, "stop_out")
  /\ UNCHANGED <<way, ports, links, data, returning, sema, worker, cx, ok, client, raised, faults>>

DisableOutput(t) ==
  /\ step[t] = "stop_out"
  /\ LET p == <<"out", cx[t]>>
     IN IF enabled[p]
          THEN /\ enabled' = [enabled EXCEPT ![p] = FALSE]
               /\ Step(t, "wait_out") /\ UNCHANGED <<is_enabled, ok>>
          ELSE Return(t, FALSE, TRUE) /\ UNCHANGED enabled
  /\ UNCHANGED <<way, graph_enabled, sized, refcount, data, returning, sema, worker, cx, client, raised, faults>>

WaitOutput(t) ==
  /\ step[t] = "wait_out" /\ Drained(<<"out", cx[t]>>)
  /\ Step(t, "drain")
  /\ UNCHANGED <<way, ports, links, data, returning, sema, worker, cx, ok, client, raised, faults>>

\* Every buffer in the queue is released to its pool, with the callback of the pool.
ReleaseQueued(i) ==
  /\ queue' = [queue EXCEPT ![i] = <<>>]
  /\ at' = [b \in Buffers |-> IF \E k \in DOMAIN queue[i] : queue[i][k] = b THEN <<"pool">> ELSE at[b]]
  /\ IF queue[i] # <<>> THEN Posted ELSE UNCHANGED sema

DrainQueue(t) ==
  /\ step[t] = "drain"
  /\ ReleaseQueued(cx[t])
  /\ Step(t, "check")
  /\ UNCHANGED <<way, ports, links, returning, worker, cx, ok, client, raised, faults>>

DisableDone(t) ==
  /\ step[t] = "check"
  /\ Return(t, TRUE, FALSE)
  /\ UNCHANGED <<way, ports, sized, refcount, data, returning, sema, worker, cx, client, raised, faults>>

ConnectionCall(t) ==
  \/ EnableConnection(t) \/ EnableOutput(t) \/ EnableInput(t) \/ EnableUndone(t)
  \/ DisableConnection(t) \/ WaitInput(t) \/ DisableOutput(t) \/ WaitOutput(t)
  \/ DrainQueue(t) \/ DisableDone(t)

-----------------------------------------------------------------------------
(* The thread that serves the connections: graph_do_processing().          *)

Accepts(p, b) == enabled[p] /\ at' = [at EXCEPT ![b] = p] /\ UNCHANGED faults
Refuses(p) == (~enabled[p] /\ UNCHANGED faults) \/ (enabled[p] /\ Fault)

\* Mutant: the disabling of a port of the built component does not lock its action.
ActionNeverLocked == op = "locked"

\* The calls that hold the action lock of the built component keep its action thread out.
ActionLocked == op = "port_disable"

\* graph_worker_thread(), and mmal_component_action_thread_func() of the built component.
WorkerWakes ==
  /\ wpc = "wait" /\ sema > 0 /\ ~ActionLocked
  /\ sema' = sema - 1
  /\ wpc' = IF stop_thread THEN "none" ELSE "queue"
  /\ wcx' = 1 /\ run_again' = FALSE
  /\ UNCHANGED <<way, ports, links, data, returning, stop_thread, wbuffer, calls, client, raised, faults>>

\* The first buffer of the queue of connection wcx.
TakeQueued ==
  /\ wpc = "queue"
  /\ IF queue[wcx] = <<>>
       THEN wpc' = "pool" /\ UNCHANGED <<wbuffer, run_again, data>>
       ELSE /\ wbuffer' = Head(queue[wcx]) /\ run_again' = TRUE
            /\ queue' = [queue EXCEPT ![wcx] = Tail(@)]
            /\ at' = [at EXCEPT ![Head(queue[wcx])] = <<"worker">>]
            /\ wpc' = IF Head(queue[wcx]) \in AllEvents THEN "event" ELSE "send"
  /\ UNCHANGED <<way, ports, links, returning, sema, stop_thread, wcx, calls, client, raised, faults>>

\* mmal_buffer_header_release() of the buffer at hand.
Released(b) ==
  /\ at' = [at EXCEPT ![b] = <<"pool">>]
  /\ IF b \in AllHeaders THEN Posted ELSE UNCHANGED sema

SendQueued ==
  /\ wpc = "send"
  /\ \/ Accepts(<<"in", wcx>>, wbuffer) /\ UNCHANGED sema
     \/ Refuses(<<"in", wcx>>) /\ Released(wbuffer)
  /\ wpc' = "queue" /\ wbuffer' = NoBuffer
  /\ UNCHANGED <<way, ports, links, queue, returning, stop_thread, wcx, run_again, calls, client, raised>>

\* graph_port_event_handler() and mmal_connection_event_format_changed(): an input port
\* that can follow the change is sent the event, once the output port has committed the
\* format; otherwise the connection is configured anew.
HandleEvent ==
  /\ wpc = "event"
  /\ \/ /\ Accepts(<<"in", wcx>>, wbuffer)
        /\ wpc' = "queue" /\ wbuffer' = NoBuffer /\ UNCHANGED calls
     \/ /\ Fault \/ (~enabled[<<"in", wcx>>] /\ UNCHANGED faults)
        /\ at' = [at EXCEPT ![wbuffer] = <<"pool">>]
        /\ wpc' = "queue" /\ wbuffer' = NoBuffer /\ UNCHANGED calls
     \/ /\ wpc' = "disable"
        /\ Begin("worker", "disable", wcx)
        /\ UNCHANGED <<at, wbuffer, faults>>
  /\ UNCHANGED <<way, ports, links, queue, returning, sema, stop_thread, wcx, run_again, client, raised>>

\* mmal_connection_reconfigure(): disable, commit both formats, enable.  A failure
\* leaves the connection as it is then.
Reconfigure ==
  /\ wpc \in {"disable", "enable"} /\ step["worker"] = "none"
  /\ \/ /\ wpc = "disable" /\ ok["worker"]
        /\ Begin("worker", "enable", wcx)
        /\ wpc' = "enable" /\ UNCHANGED <<at, wbuffer, faults>>
     \/ /\ \/ wpc = "disable" /\ ok["worker"] /\ Fault
           \/ (wpc = "enable" \/ ~ok["worker"]) /\ UNCHANGED faults
        /\ at' = [at EXCEPT ![wbuffer] = <<"pool">>]
        /\ wpc' = "queue" /\ wbuffer' = NoBuffer /\ UNCHANGED calls
  /\ UNCHANGED <<way, ports, links, queue, returning, sema, stop_thread, wcx, run_again, client, raised>>

\* After the last connection, another round if anything moved in this one.
NextConnection(again) ==
  IF wcx < N
    THEN wcx' = wcx + 1 /\ wpc' = "queue" /\ run_again' = again
    ELSE wcx' = 1 /\ run_again' = FALSE /\ wpc' = IF again THEN "queue" ELSE "wait"

InPool == {b \in Headers[wcx] : at[b] = <<"pool">>}

TakeEmpty ==
  /\ wpc = "pool"
  /\ \/ /\ InPool = {}
        /\ NextConnection(run_again) /\ UNCHANGED <<at, wbuffer>>
     \/ /\ \E b \in InPool : wbuffer' = b /\ at' = [at EXCEPT ![b] = <<"worker">>]
        /\ wpc' = "fill" /\ run_again' = TRUE /\ UNCHANGED wcx
  /\ UNCHANGED <<way, ports, links, queue, returning, sema, stop_thread, calls, client, raised, faults>>

\* An empty buffer the output port refuses goes back into the pool, without callback.
SendEmpty ==
  /\ wpc = "fill"
  /\ \/ /\ Accepts(<<"out", wcx>>, wbuffer)
        /\ wpc' = "pool" /\ UNCHANGED <<wcx, run_again>>
     \/ /\ Refuses(<<"out", wcx>>) /\ at' = [at EXCEPT ![wbuffer] = <<"pool">>]
        /\ NextConnection(FALSE)
  /\ wbuffer' = NoBuffer
  /\ UNCHANGED <<way, ports, links, queue, returning, sema, stop_thread, calls, client, raised>>

Worker ==
  \/ WorkerWakes \/ TakeQueued \/ SendQueued \/ HandleEvent \/ Reconfigure \/ TakeEmpty \/ SendEmpty
  \/ ConnectionCall("worker")

-----------------------------------------------------------------------------
(* The client of a graph.                                                  *)

Finish == op' = "none" /\ pc' = "idle" /\ todo' = 0

Idle == op = "none" /\ step["client"] = "none"

\* mmal_graph_enable(): the worker thread first, then the connections in their order.
GraphEnable ==
  /\ Idle /\ way = "graph" /\ ~started /\ ~freed /\ enables < MaxEnables
  /\ enables' = enables + 1
  /\ \/ /\ wpc' = "wait"
        /\ op' = "enable" /\ pc' = "next" /\ todo' = 1 /\ UNCHANGED faults
     \/ Fault /\ UNCHANGED <<wpc, op, pc, todo>>
  /\ UNCHANGED <<way, ports, links, data, returning, sema, stop_thread, wcx, wbuffer, run_again, calls,
                 port, started, freed, raised>>

\* "Trigger the worker thread to populate the output ports with empty buffers"
Triggered == Posted

GraphEnableNext ==
  /\ op = "enable" /\ pc = "next"
  /\ IF todo \in Connections
       THEN Begin("client", "enable", todo) /\ pc' = "call" /\ UNCHANGED <<sema, op, todo, started>>
       ELSE Triggered /\ started' = TRUE /\ Finish /\ UNCHANGED calls
  /\ UNCHANGED <<way, ports, links, data, returning, worker, port, freed, enables, raised, faults>>

\* A connection that cannot be enabled: those before it stay enabled.
GraphEnableCalled ==
  /\ op = "enable" /\ pc = "call" /\ step["client"] = "none"
  /\ IF ok["client"] THEN pc' = "next" /\ todo' = todo + 1
                     ELSE pc' = "stop" /\ UNCHANGED todo
  /\ UNCHANGED <<way, ports, links, data, returning, sema, worker, calls, op, port, started, freed, enables,
                 raised, faults>>

\* graph_stop_worker_thread(), also the end of an action thread.
StopWorker ==
  /\ pc = "stop"
  /\ stop_thread' = TRUE
  /\ Posted
  /\ pc' = "join"
  /\ UNCHANGED <<way, ports, links, data, returning, wpc, wcx, wbuffer, run_again, calls, op, port, todo,
                 started, freed, enables, raised, faults>>

\* Mutant: the thread is told to stop and not waited for.
JoinedAlways == pc = "join"

Joined == wpc = "none"

JoinWorker ==
  /\ pc = "join" /\ Joined
  /\ IF op = "enable" THEN Finish ELSE pc' = "next" /\ todo' = 1 /\ UNCHANGED op
  /\ UNCHANGED <<way, ports, links, data, returning, sema, worker, calls, port, started, freed, enables,
                 raised, faults>>

\* mmal_graph_disable()
GraphDisable ==
  /\ Idle /\ started
  /\ op' = "disable" /\ pc' = "stop"
  /\ UNCHANGED <<way, ports, links, data, returning, sema, worker, calls, port, todo, started, freed, enables,
                 raised, faults>>

GraphDisableNext ==
  /\ op = "disable"
  /\ \/ /\ pc = "next" /\ todo \in Connections
        /\ Begin("client", "disable", todo) /\ pc' = "call" /\ UNCHANGED <<op, todo, started>>
     \/ /\ pc = "call" /\ step["client"] = "none" /\ ok["client"]
        /\ pc' = "next" /\ todo' = todo + 1 /\ UNCHANGED <<calls, op, started>>
     \/ /\ \/ pc = "next" /\ todo \notin Connections
           \/ pc = "call" /\ step["client"] = "none" /\ ~ok["client"]
        /\ started' = FALSE /\ Finish /\ UNCHANGED calls
  /\ UNCHANGED <<way, ports, links, data, returning, sema, worker, port, freed, enables, raised, faults>>

-----------------------------------------------------------------------------
(* References on connections, and the destruction of the graph.            *)

\* mmal_graph_destroy(), or the destruction of the built component, whose ports have
\* been disabled and whose action thread is stopped first.
GraphDestroy ==
  /\ Idle /\ ~started /\ ~freed
  /\ \A p \in GraphPorts : ~graph_enabled[p]
  /\ op' = "destroy" /\ pc' = IF way = "component" THEN "stop" ELSE "next"
  /\ todo' = 1
  /\ UNCHANGED <<way, ports, links, data, returning, sema, worker, calls, port, started, freed, enables,
                 raised, faults>>

\* mmal_connection_destroy() by the client, of a connection it has a reference to.
ClientRelease(i) ==
  /\ Idle /\ i \in Held
  /\ refcount[i] = (IF freed THEN 1 ELSE 2)
  /\ op' = "release" /\ pc' = "next" /\ todo' = i
  /\ UNCHANGED <<way, ports, links, data, returning, sema, worker, calls, port, started, freed, enables,
                 raised, faults>>

LastReference(i) == refcount[i] = 1

\* The last reference disables the connection before its pool and queue are destroyed.
ReleaseNext ==
  /\ op \in {"destroy", "release"} /\ pc = "next" /\ todo \in Connections
  /\ refcount' = [refcount EXCEPT ![todo] = @ - 1]
  /\ IF LastReference(todo)
       THEN Begin("client", "disable", todo) /\ pc' = "call" /\ UNCHANGED <<op, todo>>
       ELSE /\ IF op = "destroy" THEN todo' = todo + 1 /\ UNCHANGED <<op, pc>> ELSE Finish
            /\ UNCHANGED calls
  /\ UNCHANGED <<way, ports, is_enabled, sized, data, returning, sema, worker, port, started, freed, enables,
                 raised, faults>>

\* A connection that cannot be disabled stays as it is.
ReleaseCalled ==
  /\ op \in {"destroy", "release"} /\ pc = "call" /\ step["client"] = "none"
  /\ IF ok["client"]
       THEN /\ at' = [b \in Buffers |-> IF b \in Headers[todo] THEN <<"none">> ELSE at[b]]
            /\ sized' = [sized EXCEPT ![todo] = FALSE]
       ELSE UNCHANGED <<at, sized>>
  /\ IF op = "destroy" THEN todo' = todo + 1 /\ pc' = "next" /\ UNCHANGED op ELSE Finish
  /\ UNCHANGED <<way, ports, is_enabled, refcount, queue, returning, sema, worker, calls, port, started, freed,
                 enables, raised, faults>>

\* The semaphore is deleted and the memory of the graph is freed.
Destroyed ==
  /\ op = "destroy" /\ pc = "next" /\ todo \notin Connections
  /\ freed' = TRUE /\ Finish
  /\ UNCHANGED <<way, ports, links, data, returning, sema, worker, calls, port, started, enables, raised, faults>>

-----------------------------------------------------------------------------
(* The client of the component built from a graph, and its ports.          *)

\* The port of connection i that graph_port_state_propagate() meets first, on its way
\* from port p of the graph, and the connection it looks at next.
Near(p, i) == IF p = GraphIn THEN <<"out", i>> ELSE <<"in", i>>
Onward(p, i) == IF p = GraphIn THEN i + 1 ELSE i - 1
First(p) == IF p = GraphIn THEN 1 ELSE N

\* graph_port_enable(): the port at this end, then the connections one after another.
PortEnable(p) ==
  /\ Idle /\ way = "component" /\ ~freed /\ ~graph_enabled[p] /\ ~enabled[p] /\ enables < MaxEnables
  /\ enables' = enables + 1
  /\ \/ /\ enabled' = [enabled EXCEPT ![p] = TRUE]
        /\ op' = "port_enable" /\ pc' = "next" /\ port' = p /\ todo' = First(p) /\ UNCHANGED faults
     \/ Fault /\ UNCHANGED <<enabled, op, pc, port, todo>>
  /\ UNCHANGED <<way, graph_enabled, links, data, returning, sema, worker, calls, started, freed, raised>>

\* The action is triggered even if a connection could not be enabled; the port at this
\* end stays enabled then.
PortEnabled(success) ==
  /\ graph_enabled' = [graph_enabled EXCEPT ![port] = success]
  /\ Triggered
  /\ Finish

PortEnableNext ==
  /\ op = "port_enable"
  /\ \/ /\ pc = "next" /\ todo \in Connections /\ ~enabled[Near(port, todo)]
        /\ Begin("client", "enable", todo) /\ pc' = "call" /\ UNCHANGED <<graph_enabled, sema, op, todo>>
     \/ /\ pc = "call" /\ step["client"] = "none" /\ ok["client"]
        /\ pc' = "next" /\ todo' = Onward(port, todo) /\ UNCHANGED <<graph_enabled, sema, calls, op>>
     \/ /\ pc = "next" /\ (todo \notin Connections \/ enabled[Near(port, todo)])
        /\ PortEnabled(TRUE) /\ UNCHANGED calls
     \/ /\ pc = "call" /\ step["client"] = "none" /\ ~ok["client"]
        /\ PortEnabled(FALSE) /\ UNCHANGED calls
  /\ UNCHANGED <<way, enabled, links, data, returning, worker, port, started, freed, enables, raised, faults>>

\* mmal_port_disable() of a port of the component: it stops accepting buffers, locks the
\* action and calls graph_port_disable().  Only the input port acts on the connections,
\* and goes to the end of those that are enabled first.
PortDisable(p) ==
  /\ Idle /\ graph_enabled[p] /\ wpc \in {"wait", "none"}
  /\ graph_enabled' = [graph_enabled EXCEPT ![p] = FALSE]
  /\ op' = "port_disable" /\ port' = p /\ todo' = 1
  /\ pc' = IF p = GraphIn THEN "depth" ELSE "port"
  /\ UNCHANGED <<way, enabled, links, data, returning, sema, worker, calls, started, freed, enables, raised,
                 faults>>

PortDisableNext ==
  /\ op = "port_disable"
  /\ \/ /\ pc = "depth"
        /\ IF todo \in Connections /\ enabled[Near(port, todo)]
             THEN todo' = todo + 1 /\ UNCHANGED pc
             ELSE todo' = todo - 1 /\ pc' = "back"
        /\ UNCHANGED <<calls, ports, op>>
     \/ /\ pc = "back" /\ todo > 0
        /\ Begin("client", "disable", todo) /\ pc' = "call" /\ UNCHANGED <<ports, op, todo>>
     \/ /\ pc = "call" /\ step["client"] = "none" /\ ok["client"]
        /\ todo' = todo - 1 /\ pc' = "back" /\ UNCHANGED <<calls, ports, op>>
     \/ /\ pc = "call" /\ step["client"] = "none" /\ ~ok["client"]
        /\ graph_enabled' = [graph_enabled EXCEPT ![port] = TRUE] /\ Finish /\ UNCHANGED <<calls, enabled>>
     \/ /\ pc = "back" /\ todo = 0
        /\ pc' = "port" /\ UNCHANGED <<calls, ports, op, todo>>
     \/ /\ pc = "port"
        /\ enabled' = [enabled EXCEPT ![port] = FALSE]
        /\ pc' = "wait" /\ UNCHANGED <<calls, graph_enabled, op, todo>>
     \/ /\ pc = "wait" /\ Drained(port)
        /\ Finish /\ UNCHANGED <<calls, ports>>
  /\ UNCHANGED <<way, links, data, returning, sema, worker, port, started, freed, enables, raised, faults>>

\* graph_port_send()
PortSend(b) ==
  /\ graph_enabled[GraphIn] /\ at[b] = <<"pool">> /\ Accepts(GraphIn, b)
  /\ UNCHANGED <<way, ports, links, queue, returning, sema, worker, calls, client, raised>>

\* The connections whose queue a flush of the input port reaches: it goes on as long as
\* output ports are enabled, and stops at an input port that cannot be flushed.
FlushReach == {k \in 0 .. N : \A i \in 1 .. k : enabled[<<"out", i>>]}

\* graph_port_flush(): what the input ports hold goes back, what is queued is released.
PortFlush ==
  /\ Idle /\ graph_enabled[GraphIn] /\ wpc \in {"wait", "none"}
  /\ \E k \in FlushReach :
       /\ \/ (\A j \in FlushReach : j <= k) /\ UNCHANGED faults
          \/ Fault
       /\ LET flushed == {b \in Buffers : \/ \E i \in 0 .. k : at[b] = <<"in", i>>
                                          \/ \E i \in 1 .. k : \E n \in DOMAIN queue[i] : queue[i][n] = b}
          IN /\ at' = [b \in Buffers |-> IF b \in flushed THEN <<"pool">> ELSE at[b]]
             /\ IF flushed \cap AllHeaders # {} THEN Posted ELSE UNCHANGED sema
       /\ queue' = [i \in Connections |-> IF i <= k THEN <<>> ELSE queue[i]]
  /\ UNCHANGED <<way, ports, links, returning, worker, calls, client, raised>>

-----------------------------------------------------------------------------
ClientStep ==
  \/ GraphEnableNext \/ GraphEnableCalled \/ StopWorker \/ JoinWorker \/ GraphDisableNext
  \/ ReleaseNext \/ ReleaseCalled \/ Destroyed \/ PortEnableNext \/ PortDisableNext
  \/ ConnectionCall("client")

Next ==
  \/ Components \/ Worker \/ ClientStep
  \/ GraphEnable \/ GraphDisable \/ GraphDestroy
  \/ \E i \in Connections : ClientRelease(i)
  \/ \E p \in GraphPorts : PortEnable(p) \/ PortDisable(p)
  \/ \E b \in ClientBuffers : PortSend(b)
  \/ PortFlush

\* Components give buffers back, threads run, and a call that is made goes on.
Fairness ==
  /\ \A i \in 0 .. N : WF_vars(ReturnInput(i))
  /\ \A i \in Connections : WF_vars(ReturnOutput(i))
  /\ \A p \in Ports : WF_vars(Notify(p))
  /\ WF_vars(Worker) /\ WF_vars(ClientStep)

Spec == Init /\ [][Next]_vars /\ Fairness

-----------------------------------------------------------------------------
(* Properties.                                                             *)

\* A connection that has been disabled has all its headers in its pool: the assertion at
\* the end of mmal_connection_disable().  Its memory may be freed or its pool resized.
PoolComplete ==
  \A t \in Threads : step[t] = "check" =>
     \A b \in Headers[cx[t]] : at[b] = <<"pool">>

\* Once the semaphore is deleted, no thread waits for it, and no callback of a connection
\* is left that would post it, however far the enabling of the graph had come.  (A
\* connection the client has a reference to is not disabled, and still calls back.)
DestroyedQuiet ==
  freed => /\ wpc = "none"
           /\ \A i \in Connections : i \notin Held \/ ~sized[i] =>
                \A p \in {<<"in", i>>, <<"out", i>>} : Drained(p) /\ returning[p] = "no"

\* The thread works for the connections: no call of the client holds it off.
Serving == (started \/ graph_enabled[GraphIn]) /\ Idle

\* No wakeup is lost: when the thread sleeps, or has ended, no buffer waits for it but
\* one whose callback is still to post the semaphore, or that a port has refused.
NoLostWakeup ==
  Serving /\ ((wpc = "wait" /\ sema = 0) \/ wpc = "none") =>
    \A i \in Connections :
      /\ queue[i] # <<>> => returning[<<"out", i>>] # "no"
      /\ (faults = 0 /\ \E b \in Headers[i] : at[b] = <<"pool">>) => returning[<<"in", i>>] # "no"

\* is_enabled "specifies whether the connection is enabled or not": when no call on a
\* connection is in progress, it says the same as its ports.
IsEnabledTrue ==
  \A i \in Connections :
    (\A t \in Threads : step[t] # "none" => cx[t] # i) =>
      (is_enabled[i] <=> (enabled[<<"in", i>>] /\ enabled[<<"out", i>>]))

\* Every call on the graph or on a port of it returns.
CallsReturn == op # "none" ~> op = "none"

\* It does if the worker runs out of buffers again and again: the worker looks at
\* stop_thread only when it wakes up, and a call that joins it waits as long as the
\* components keep it busy.
WorkerRests == []<>(wpc \in {"wait", "none"})

CallsReturnAtRest == WorkerRests => CallsReturn

\* The connections are sound: the pool of one that is disabled is complete.
GraphInv == TypeOK /\ PoolComplete
=============================================================================
