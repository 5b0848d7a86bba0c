----------------------------- MODULE MmalTunnel -----------------------------
(***************************************************************************)
(* Two MMAL ports connected to each other (core/mmal_port.c): an output    *)
(* port and an input port of two components, connected, enabled, disabled  *)
(* and disconnected together by client threads, while the core carries     *)
(* buffers from one component to the other: the pool of the connection     *)
(* feeds the output port, connected_output_cb() forwards what it returns   *)
(* to the input port, and the pool callback gives a released header to the *)
(* output port again.                                                      *)
(*                                                                         *)
(* A component is external: it returns, on a thread of its own, any buffer *)
(* it was sent, and its pf_* functions may fail, MaxFaults times in a      *)
(* behaviour.  The counter of buffers in transit is waited for as a        *)
(* number; MmalPort has its semaphore and the port and sending locks,      *)
(* which here are the atomicity of the steps that hold them.               *)
(***************************************************************************)
EXTENDS Integers, Sequences, FiniteSets

CONSTANTS
  Controllers,     \* client threads
  Calls,           \* Calls[c]: what controller c calls, and
  Ends,            \* Ends[c]: on which of the ports
  Pools,           \* memory for the pools of the connection
  Headers,         \* Headers[p]: the buffer headers of pool p
  Events,          \* event buffers of the output port's component
  PoolAtOutput,    \* the output port has MMAL_PORT_CAPABILITY_ALLOCATION
  MaxFaults,       \* bound on the pf_* calls and allocations that fail
  NoThread, NoPool, NoBuffer

Ports      == {"out", "in"}
Operations == {"connect", "enable", "disable", "disconnect"}
Buffers    == Events \cup UNION {Headers[p] : p \in Pools}
Other(p)  == CHOOSE q \in Ports : q # p
PoolOf(b) == CHOOSE p \in Pools : b \in Headers[p]

ASSUME TunnelAssumption ==
  /\ Calls \in [Controllers -> SUBSET Operations]
  /\ Ends \in [Controllers -> SUBSET Ports]
  /\ \A p, q \in Pools : p # q => Headers[p] \cap Headers[q] = {}
  /\ \A p \in Pools : Headers[p] \cap Events = {}
  /\ PoolAtOutput \in BOOLEAN
  /\ MaxFaults \in Nat
  /\ NoThread \notin Controllers /\ NoPool \notin Pools /\ NoBuffer \notin Buffers

VARIABLES
  connected, core_owns_connection,
  is_enabled, callback, transit,         \* per port
  connection_lock,                       \* per port: its holder, or NoThread
  pool_for_connection,
  pool_cb,                               \* the pools with mmal_port_connected_pool_cb set
  live,                                  \* the pools that are allocated
  at,                                    \* where each buffer header is
  cpc, cbuffer,                          \* the thread of each component
  op, pc, end, todo,                     \* controllers; todo: the ports still to be disabled
  faults                                 \* failures so far

link    == <<connected, core_owns_connection>>
port    == <<is_enabled, callback, transit>>
pool    == <<pool_for_connection, pool_cb, live>>
carrier == <<cpc, cbuffer>>
control == <<op, pc, end, todo>>
vars    == <<link, port, connection_lock, pool, at, carrier, control, faults>>

TypeOK ==
  /\ connected \in BOOLEAN /\ core_owns_connection \in BOOLEAN
  /\ is_enabled \in [Ports -> BOOLEAN] /\ callback \in [Ports -> BOOLEAN]
  /\ transit \in [Ports -> Nat]
  /\ connection_lock \in [Ports -> Controllers \cup {NoThread}]
  /\ pool_for_connection \in Pools \cup {NoPool}
  /\ pool_cb \subseteq Pools /\ live \subseteq Pools
  /\ at \in [Buffers -> {"pool", "out", "in", "callback"}]
  /\ cpc \in [Ports -> {"idle", "callback", "event", "send", "release", "resend", "decrement"}]
  /\ cbuffer \in [Ports -> Buffers \cup {NoBuffer}]
  /\ op \in [Controllers -> Operations \cup {"none"}]
  /\ pc \in [Controllers -> {"idle", "lock", "other", "first", "second", "start",
                             "stop", "disable", "wait", "clear", "unlock"}]
  /\ end \in [Controllers -> Ports]
  /\ todo \in [Controllers -> Seq(Ports)]
  /\ faults \in 0 .. MaxFaults

Init ==
  /\ connected = FALSE /\ core_owns_connection = FALSE
  /\ is_enabled = [p \in Ports |-> FALSE] /\ callback = [p \in Ports |-> FALSE]
  /\ transit = [p \in Ports |-> 0]
  /\ connection_lock = [p \in Ports |-> NoThread]
  /\ pool_for_connection = NoPool /\ pool_cb = {} /\ live = {}
  /\ at = [b \in Buffers |-> "pool"]
  /\ cpc = [p \in Ports |-> "idle"] /\ cbuffer = [p \in Ports |-> NoBuffer]
  /\ op = [c \in Controllers |-> "none"] /\ pc = [c \in Controllers |-> "idle"]
  /\ end = [c \in Controllers |-> "out"] /\ todo = [c \in Controllers |-> <<>>]
  /\ faults = 0

-----------------------------------------------------------------------------
(* Sending, and what the component threads do with the buffers.            *)

Fault == faults < MaxFaults /\ faults' = faults + 1

\* mmal_port_send_buffer() succeeds: the component has the buffer.
Accepted(p, b) ==
  /\ is_enabled[p]
  /\ at' = [at EXCEPT ![b] = p]
  /\ transit' = [transit EXCEPT ![p] = @ + 1]
  /\ UNCHANGED <<is_enabled, callback, faults>>

\* It fails: the port is disabled, or pf_send refuses the buffer.
Refused(p) ==
  \/ ~is_enabled[p] /\ UNCHANGED faults
  \/ is_enabled[p] /\ Fault

\* The component is done with a buffer: mmal_port_buffer_header_callback().
Return(p) ==
  /\ cpc[p] = "idle"
  /\ \E b \in Buffers :
       /\ at[b] = p
       /\ at' = [at EXCEPT ![b] = "callback"]
       /\ cbuffer' = [cbuffer EXCEPT ![p] = b]
  /\ cpc' = [cpc EXCEPT ![p] = IF p = "out" THEN "callback" ELSE "release"]
  /\ UNCHANGED <<link, port, connection_lock, pool, control, faults>>

\* The format of the output changes: mmal_port_event_send(), without accounting.
RaiseEvent ==
  /\ cpc["out"] = "idle"
  /\ callback["out"]
  /\ \E e \in Events :
       /\ at[e] = "pool"
       /\ at' = [at EXCEPT ![e] = "callback"]
       /\ cbuffer' = [cbuffer EXCEPT !["out"] = e]
  /\ cpc' = [cpc EXCEPT !["out"] = "event"]
  /\ UNCHANGED <<link, port, connection_lock, pool, control, faults>>

\* A buffer the output port returns once disabled is a flushed one.
Forward ==
  /\ cpc' = [cpc EXCEPT !["out"] = IF is_enabled["out"] THEN "send" ELSE "release"]
  /\ UNCHANGED faults

\* The new format is committed on the output port before the event goes on.
ForwardEvent ==
  \/ cpc' = [cpc EXCEPT !["out"] = IF connected THEN "send" ELSE "release"] /\ UNCHANGED faults
  \/ cpc' = [cpc EXCEPT !["out"] = "release"] /\ Fault

ConnectedOutputCallback ==
  /\ \/ cpc["out"] = "callback" /\ Forward
     \/ cpc["out"] = "event" /\ ForwardEvent
  /\ UNCHANGED <<link, port, connection_lock, pool, at, cbuffer, control>>

\* An event has left no trace in the count of the output port.
Uncounted(p) == p = "out" /\ cbuffer[p] \in Events

Leave(p) ==
  /\ cpc' = [cpc EXCEPT ![p] = IF Uncounted(p) THEN "idle" ELSE "decrement"]
  /\ cbuffer' = [cbuffer EXCEPT ![p] = NoBuffer]

SendOn ==
  /\ cpc["out"] = "send"
  /\ \/ Accepted("in", cbuffer["out"]) /\ Leave("out")
     \/ /\ Refused("in")
        /\ cpc' = [cpc EXCEPT !["out"] = "release"]
        /\ UNCHANGED <<port, at, cbuffer>>
  /\ UNCHANGED <<link, connection_lock, pool, control>>

\* mmal_buffer_header_release(): the pool callback, where there is one, decides.
Release(p) ==
  /\ cpc[p] = "release"
  /\ IF cbuffer[p] \notin Events /\ PoolOf(cbuffer[p]) \in pool_cb
       THEN cpc' = [cpc EXCEPT ![p] = "resend"] /\ UNCHANGED <<at, cbuffer>>
       ELSE at' = [at EXCEPT ![cbuffer[p]] = "pool"] /\ Leave(p)
  /\ UNCHANGED <<link, port, connection_lock, pool, control, faults>>

\* mmal_port_connected_pool_cb(): to the output port again, or into the pool.
ConnectedPoolCallback(p) ==
  /\ cpc[p] = "resend"
  /\ \/ Accepted("out", cbuffer[p])
     \/ Refused("out") /\ at' = [at EXCEPT ![cbuffer[p]] = "pool"] /\ UNCHANGED port
  /\ Leave(p)
  /\ UNCHANGED <<link, connection_lock, pool, control>>

\* IN_TRANSIT_DECREMENT, once the callback has returned.
ReturnDone(p) ==
  /\ cpc[p] = "decrement"
  /\ transit' = [transit EXCEPT ![p] = @ - 1]
  /\ cpc' = [cpc EXCEPT ![p] = "idle"]
  /\ UNCHANGED <<link, is_enabled, callback, connection_lock, pool, at, cbuffer, control, faults>>

Carry == \/ RaiseEvent \/ ConnectedOutputCallback \/ SendOn
         \/ \E p \in Ports : Return(p) \/ Release(p) \/ ConnectedPoolCallback(p) \/ ReturnDone(p)

-----------------------------------------------------------------------------
(* The controllers: locks first, that of their own port before the other.  *)

Goto(c, l) == pc' = [pc EXCEPT ![c] = l]

Call(c) ==
  /\ pc[c] = "idle"
  /\ \E o \in Calls[c], p \in Ends[c] :
       /\ op' = [op EXCEPT ![c] = o]
       /\ end' = [end EXCEPT ![c] = p]
  /\ Goto(c, "lock")
  /\ UNCHANGED <<link, port, connection_lock, pool, at, carrier, todo, faults>>

\* What each call refuses of its own port, before it takes the other lock.
RefusesOwn(c) ==
  CASE op[c] = "connect"    -> connected \/ is_enabled[end[c]]
    [] op[c] = "enable"     -> is_enabled[end[c]] \/ ~connected
    [] op[c] = "disable"    -> ~is_enabled[end[c]] \/ ~connected
    [] op[c] = "disconnect" -> ~connected

\* LOCK_CONNECTION on the port, its checks, and the unlock of an early return.
LockOwn(c) ==
  /\ pc[c] = "lock"
  /\ connection_lock[end[c]] = NoThread
  /\ IF RefusesOwn(c)
       THEN Goto(c, "idle") /\ UNCHANGED connection_lock
       ELSE Goto(c, "other") /\ connection_lock' = [connection_lock EXCEPT ![end[c]] = c]
  /\ UNCHANGED <<link, port, pool, at, carrier, op, end, todo, faults>>

HasOther(c) == pc[c] = "other" /\ connection_lock[Other(end[c])] \in {NoThread}

LockOther(c) == connection_lock' = [connection_lock EXCEPT ![Other(end[c])] = c]

\* mmal_port_connect(): the components may manage the connection, or leave it to the core.
Connect(c) ==
  /\ HasOther(c) /\ op[c] = "connect"
  /\ LockOther(c)
  /\ IF is_enabled[Other(end[c])]
       THEN UNCHANGED link
       ELSE connected' = TRUE /\ core_owns_connection' \in BOOLEAN
  /\ Goto(c, "unlock")
  /\ UNCHANGED <<port, pool, at, carrier, op, end, todo, faults>>

\* mmal_port_connection_enable(): a connection the core owns gets its pool.
EnableConnection(c) ==
  /\ HasOther(c) /\ op[c] = "enable"
  /\ LockOther(c)
  /\ \/ /\ ~core_owns_connection
        /\ Goto(c, "first")
        /\ UNCHANGED <<pool, faults>>
     \/ /\ core_owns_connection
        /\ \E p \in Pools \ live :
             /\ live' = live \cup {p}
             /\ pool_cb' = pool_cb \cup {p}
             /\ pool_for_connection' = p
        /\ Goto(c, "first")
        /\ UNCHANGED faults
     \/ /\ core_owns_connection
        /\ Fault \/ (Pools \subseteq live /\ UNCHANGED faults)
        /\ Goto(c, "unlock")
        /\ UNCHANGED pool
  /\ UNCHANGED <<link, port, at, carrier, op, end, todo>>

\* The error path of mmal_port_enable(): the connected port is disabled first.
EnableError(c) == todo' = [todo EXCEPT ![c] = <<Other(end[c]), end[c]>>] /\ Goto(c, "stop")

\* mmal_port_enable_internal(): nothing to do on a port that is enabled.
EnablePort(c, p, l) ==
  \/ /\ is_enabled[p]
     /\ Goto(c, l)
     /\ UNCHANGED <<port, todo, faults>>
  \/ /\ ~is_enabled[p]
     /\ is_enabled' = [is_enabled EXCEPT ![p] = TRUE]
     /\ callback' = [callback EXCEPT ![p] = TRUE]
     /\ Goto(c, l)
     /\ UNCHANGED <<transit, todo, faults>>
  \/ /\ ~is_enabled[p] /\ Fault
     /\ callback' = [callback EXCEPT ![p] = TRUE]
     /\ EnableError(c)
     /\ UNCHANGED <<is_enabled, transit>>

\* The input port of a connection first, the output port last.
EnableFirst(c) ==
  /\ pc[c] = "first"
  /\ EnablePort(c, "in", "second")
  /\ UNCHANGED <<link, connection_lock, pool, at, carrier, op, end>>

EnableSecond(c) ==
  /\ pc[c] = "second"
  /\ EnablePort(c, "out", IF core_owns_connection THEN "start" ELSE "unlock")
  /\ UNCHANGED <<link, connection_lock, pool, at, carrier, op, end>>

\* mmal_port_populate_from_pool(): the headers of the pool go to the output port.
Populate(c) ==
  /\ pc[c] = "start"
  /\ LET free == {b \in Headers[pool_for_connection] : at[b] = "pool"}
     IN \/ /\ free = {}
           /\ Goto(c, "unlock")
           /\ UNCHANGED <<port, at, todo, faults>>
        \/ /\ \E b \in free : Accepted("out", b)
           /\ UNCHANGED <<pc, todo>>
        \/ /\ free # {} /\ Refused("out") /\ EnableError(c)
           /\ UNCHANGED <<port, at>>
  /\ UNCHANGED <<link, connection_lock, pool, carrier, op, end>>

-----------------------------------------------------------------------------
(* Disabling: mmal_port_disable_internal() on each port of todo.           *)

\* Mutant: the input port is left running.
DisableOrderOutputOnly == <<"out">>

\* The output port of a connection first, the input port last.
DisableOrder == <<"out", "in">>

Disable(c) ==
  /\ HasOther(c) /\ op[c] \in {"disable", "disconnect"}
  /\ LockOther(c)
  /\ IF is_enabled[end[c]]
       THEN todo' = [todo EXCEPT ![c] = DisableOrder] /\ Goto(c, "stop")
       ELSE Goto(c, "clear") /\ UNCHANGED todo
  /\ UNCHANGED <<link, port, pool, at, carrier, op, end, faults>>

\* The port whose core structure holds the pool.
PoolPort == IF PoolAtOutput THEN "out" ELSE "in"

StopPort(c) ==
  /\ pc[c] = "stop" /\ todo[c] # <<>>
  /\ LET p == Head(todo[c])
     IN IF is_enabled[p]
          THEN /\ is_enabled' = [is_enabled EXCEPT ![p] = FALSE]
               /\ pool_cb' = IF p = PoolPort THEN pool_cb \ {pool_for_connection} ELSE pool_cb
               /\ Goto(c, "disable") /\ UNCHANGED todo
          ELSE /\ todo' = [todo EXCEPT ![c] = Tail(@)]
               /\ UNCHANGED <<is_enabled, pool_cb, pc>>
  /\ UNCHANGED <<link, callback, transit, connection_lock, pool_for_connection, live, at,
                 carrier, op, end, faults>>

\* pf_disable refuses: the port is enabled again.  The error path of an enable
\* goes on with the other port, a disable gives up.
DisableRefused(c) ==
  /\ pc[c] = "disable" /\ Fault
  /\ is_enabled' = [is_enabled EXCEPT ![Head(todo[c])] = TRUE]
  /\ IF op[c] = "enable"
       THEN todo' = [todo EXCEPT ![c] = Tail(@)] /\ Goto(c, "stop")
       ELSE todo' = [todo EXCEPT ![c] = <<>>] /\ Goto(c, "unlock")
  /\ UNCHANGED <<link, callback, transit, connection_lock, pool, at, carrier, op, end>>

DisableAccepted(c) ==
  /\ pc[c] = "disable"
  /\ Goto(c, "wait")
  /\ UNCHANGED <<link, port, connection_lock, pool, at, carrier, op, end, todo, faults>>

\* IN_TRANSIT_WAIT
Drained(p) == transit[p] = 0

WaitForBuffers(c) ==
  /\ pc[c] = "wait"
  /\ Drained(Head(todo[c]))
  /\ callback' = [callback EXCEPT ![Head(todo[c])] = FALSE]
  /\ todo' = [todo EXCEPT ![c] = Tail(@)]
  /\ Goto(c, "stop")
  /\ UNCHANGED <<link, is_enabled, transit, connection_lock, pool, at, carrier, op, end, faults>>

\* mmal_port_connection_disable(): the pool is destroyed with its headers.
DisableConnection(c) ==
  /\ pc[c] = "stop" /\ todo[c] = <<>>
  /\ live' = live \ {pool_for_connection}
  /\ pool_cb' = pool_cb \ {pool_for_connection}
  /\ pool_for_connection' = NoPool
  /\ Goto(c, IF op[c] = "disconnect" THEN "clear" ELSE "unlock")
  /\ UNCHANGED <<link, port, connection_lock, at, carrier, op, end, todo, faults>>

\* The end of mmal_port_disconnect(): a connection the components manage may stay.
Disconnect(c) ==
  /\ pc[c] = "clear"
  /\ \/ connected' = FALSE /\ UNCHANGED faults
     \/ ~core_owns_connection /\ Fault /\ UNCHANGED connected
  /\ Goto(c, "unlock")
  /\ UNCHANGED <<core_owns_connection, port, connection_lock, pool, at, carrier, op, end, todo>>

\* Mutant: the lock of the connected port is kept.
UnlockedOwn(c) == [connection_lock EXCEPT ![end[c]] = NoThread]

Unlocked(c) == [p \in Ports |-> NoThread]

Unlock(c) ==
  /\ pc[c] = "unlock"
  /\ connection_lock' = Unlocked(c)
  /\ op' = [op EXCEPT ![c] = "none"]
  /\ Goto(c, "idle")
  /\ UNCHANGED <<link, port, pool, at, carrier, end, todo, faults>>

Proceed(c) ==
  \/ LockOwn(c) \/ Connect(c)
  \/ EnableConnection(c) \/ EnableFirst(c) \/ EnableSecond(c) \/ Populate(c)
  \/ Disable(c) \/ StopPort(c) \/ DisableRefused(c) \/ DisableAccepted(c) \/ WaitForBuffers(c)
  \/ DisableConnection(c) \/ Disconnect(c) \/ Unlock(c)

Next == Carry \/ \E c \in Controllers : Call(c) \/ Proceed(c)

\* Components return what they were sent, however many events they raise, calls run
\* until they return, and the mutexes are fair to a thread that keeps asking.
Fairness ==
  /\ \A p \in Ports : SF_vars(Return(p)) /\ WF_vars(Release(p))
                      /\ WF_vars(ConnectedPoolCallback(p)) /\ WF_vars(ReturnDone(p))
  /\ WF_vars(ConnectedOutputCallback) /\ WF_vars(SendOn)
  /\ \A c \in Controllers : WF_vars(Proceed(c)) /\ SF_vars(LockOwn(c))

Spec == Init /\ [][Next]_vars /\ Fairness

-----------------------------------------------------------------------------
(* Properties.                                                             *)

\* When the pool of a connection has been destroyed, all its headers had come
\* home: neither component, nor a callback that still runs, holds one.
HeadersHome ==
  \A p \in Pools \ live : \A b \in Headers[p] : at[b] = "pool"

\* Stopping p: from the reset of is_enabled to the end of the wait.
Stopping(p) ==
  \E c \in Controllers : todo[c] # <<>> /\ Head(todo[c]) = p /\ pc[c] \in {"disable", "wait"}

\* A port that is disabled and is not being disabled has no buffer left: none is
\* with its component, and none of its buffers is in a callback.
DisabledIsEmpty ==
  \A p \in Ports : ~is_enabled[p] /\ ~Stopping(p) =>
     /\ \A b \in Buffers : at[b] # p
     /\ cpc[p] # "idle" => Uncounted(p)

\* Every connect, enable, disable and disconnect returns, whatever the other
\* controller calls meanwhile and although buffers keep circulating.
CallsReturn ==
  \A c \in Controllers : (pc[c] = "lock") ~> (pc[c] = "idle")

\* The tunnel is sound: what is destroyed or disabled holds no header.
TunnelInv == TypeOK /\ HeadersHome /\ DisabledIsEmpty
=============================================================================
