-------------------------- MODULE MmalGraphProofs ---------------------------
(***************************************************************************)
(* Theorems about MmalGraph, for any number of connections and buffers.    *)
(*                                                                         *)
(* GraphIsSound: a connection that has been disabled has all its headers   *)
(* in its pool, whatever fails, and however often a graph is enabled.      *)
(*                                                                         *)
(* QueuesAreServed: what is queued has a wakeup, until the thread of the   *)
(* graph is told to stop.                                                  *)
(*                                                                         *)
(* WakeupsCorrect, DestroyedCorrect: no wakeup is lost, and a destroyed    *)
(* graph is quiet, where a graph is enabled once, and by its client alone. *)
(***************************************************************************)
EXTENDS MmalGraph, TLAPS

None  == <<"none">>
Pool  == <<"pool">>
Queue == <<"queue">>
Hand  == <<"worker">>

In(i)  == <<"in", i>>
Out(i) == <<"out", i>>

Own(i) == Headers[i] \cup Events[i]

Asleep == {"none", "wait"}

\* The steps of an enabling, and those of a disabling that has found the connection enabled.
Enabling  == {"enable", "out", "in", "undo"}
Disabling == {"wait_in", "stop_out", "wait_out", "drain", "check"}
Midway    == {"out", "in", "undo"} \cup Disabling

-----------------------------------------------------------------------------
(* The types, in parts. *)

PortTypes ==
  /\ enabled \in [Ports -> BOOLEAN] /\ graph_enabled \in [GraphPorts -> BOOLEAN]
  /\ returning \in [Ports -> {"no", "buffer", "event"}]

LinkTypes ==
  /\ is_enabled \in [Connections -> BOOLEAN] /\ sized \in [Connections -> BOOLEAN]
  /\ refcount \in [Connections -> 0 .. 2]

QueueTypes == queue \in [Connections -> Seq(Buffers)]

PlaceTypes == at \in [Buffers -> Ports \cup {None, Pool, Queue, Hand}]

ThreadTypes ==
  /\ sema \in 0 .. SemaMax /\ stop_thread \in BOOLEAN
  /\ wpc \in {"none", "wait", "queue", "send", "event", "disable", "enable", "pool", "fill"}
  /\ wcx \in Connections /\ wbuffer \in Buffers \cup {NoBuffer} /\ run_again \in BOOLEAN

CallTypes ==
  /\ step \in [Threads -> {"none", "enable", "out", "in", "undo", "disable", "wait_in", "stop_out",
                           "wait_out", "drain", "check"}]
  /\ cx \in [Threads -> Connections] /\ ok \in [Threads -> BOOLEAN]

ClientTypes ==
  /\ way \in {"graph", "component"}
  /\ op \in {"none", "enable", "disable", "destroy", "release", "port_enable", "port_disable"}
  /\ pc \in {"idle", "next", "call", "stop", "join", "depth", "back", "port", "wait"}
  /\ port \in GraphPorts /\ todo \in 0 .. N + 1
  /\ started \in BOOLEAN /\ freed \in BOOLEAN

BoundTypes == enables \in 0 .. MaxEnables /\ raised \in 0 .. MaxEvents /\ faults \in 0 .. MaxFaults

GraphTypes ==
  PortTypes /\ LinkTypes /\ QueueTypes /\ PlaceTypes /\ ThreadTypes /\ CallTypes /\ ClientTypes /\ BoundTypes

-----------------------------------------------------------------------------
(* The invariant behind the pools. *)

\* Where the buffers of a connection may be.
Kinds ==
  /\ \A i \in Connections : \A b \in Headers[i] : at[b] \in {None, Pool, Queue, Hand, Out(i), In(i)}
  /\ \A i \in Connections : \A b \in Events[i] : at[b] \in {Pool, Queue, Hand, In(i)}
  /\ \A b \in ClientBuffers : at[b] \in {Pool, GraphIn}

\* The queue of a connection has what came out of its output port.
Queued ==
  /\ \A i \in Connections : \A k \in DOMAIN queue[i] : queue[i][k] \in Own(i)
  /\ \A i \in Connections : \A b \in Headers[i] :
       at[b] = Queue => \E k \in DOMAIN queue[i] : queue[i][k] = b

\* The thread that serves the connections has one buffer at a time in its hands.
Hands ==
  /\ wpc \in {"none", "wait", "queue", "pool"} => wbuffer = NoBuffer
  /\ wpc \in {"send", "fill"} => wbuffer \in Headers[wcx]
  /\ wpc \in {"event", "disable", "enable"} => wbuffer \in Events[wcx]
  /\ \A b \in Buffers : at[b] = Hand => b = wbuffer

\* Where a call on a connection is made.
Calls ==
  /\ step["worker"] # "none" => wpc \in {"disable", "enable"}
  /\ wpc \in {"disable", "enable"} => cx["worker"] = wcx
  /\ wpc = "disable" => step["worker"] \notin Enabling
  /\ wpc = "enable" => step["worker"] \in Enabling \cup {"none"}
  /\ step["client"] # "none" => pc = "call"
  /\ pc = "call" => todo \in Connections /\ cx["client"] = todo
  /\ op \in {"enable", "port_enable"} => step["client"] \in Enabling \cup {"none"}
  /\ op \notin {"enable", "port_enable"} => step["client"] \notin Enabling

\* The places of the operations of the client.
Places ==
  /\ op = "none" => pc = "idle"
  /\ op = "enable" => pc \in {"next", "call", "stop", "join"}
  /\ op = "disable" => pc \in {"stop", "join", "next", "call"}
  /\ op = "destroy" => pc \in {"stop", "join", "next", "call"} /\ todo # 0
  /\ op = "destroy" /\ pc \in {"stop", "join"} => todo = 1
  /\ op = "release" => pc \in {"next", "call"}
  /\ op = "port_enable" => pc \in {"next", "call"}
  /\ op = "port_disable" => pc \in {"depth", "back", "call", "port", "wait"}
  /\ pc = "join" => stop_thread
  /\ pc = "depth" => todo > 0
  /\ pc = "back" => todo <= N

\* The thread does not run while the client disables a connection.
Stopped ==
  /\ freed => wpc = "none"
  /\ op \in {"disable", "destroy"} /\ pc \in {"next", "call"} => wpc = "none"
  /\ op = "release" /\ pc = "call" => freed
  /\ op = "release" /\ pc = "next" => /\ todo \in Held
                                      /\ refcount[todo] = (IF freed THEN 1 ELSE 2)
  /\ op = "port_disable" => wpc \in Asleep
  /\ way = "graph" /\ ~started /\ op # "enable" => wpc = "none"

\* A connection that the graph has not released has a reference.
References ==
  /\ op = "destroy" => ~freed
  /\ \A i \in Connections :
       /\ ~freed /\ op # "destroy" => refcount[i] > 0
       /\ op = "destroy" /\ i > todo => refcount[i] > 0
       /\ op = "destroy" /\ i = todo /\ pc # "call" => refcount[i] > 0

\* A connection that is enabled, or midway, has its headers.
Resized ==
  /\ \A i \in Connections : sized[i] => \A b \in Headers[i] : at[b] # None
  /\ \A i \in Connections : is_enabled[i] => sized[i]
  /\ \A t \in Threads : step[t] \in Midway => sized[cx[t]]
  /\ op \in {"destroy", "release"} /\ pc = "call" /\ step["client"] = "none" /\ ok["client"] => ~is_enabled[todo]

\* What a call that disables a connection has passed holds no header any more.
Emptied ==
  \A t \in Threads :
    /\ step[t] \in {"stop_out", "wait_out", "drain", "check"} => \A b \in Headers[cx[t]] : at[b] # In(cx[t])
    /\ step[t] \in {"drain", "check"} => \A b \in Headers[cx[t]] : at[b] # Out(cx[t])
    /\ step[t] = "check" => \A b \in Headers[cx[t]] : at[b] # Queue

GraphIInv ==
  GraphTypes /\ Kinds /\ Queued /\ Hands /\ Calls /\ Places /\ Stopped /\ References /\ Resized /\ Emptied

-----------------------------------------------------------------------------
(* The invariant behind the wakeups. *)

\* The thread has yet to look at the queue, or the pool, of connection i in this round.
VisitsQueue(i) == wpc \notin Asleep /\ (wcx < i \/ (wcx = i /\ wpc \notin {"pool", "fill"}))
VisitsPool(i)  == wpc \notin Asleep /\ wcx <= i

QueueCovered ==
  ~stop_thread =>
    \A i \in Connections :
      queue[i] # <<>> => returning[Out(i)] # "no" \/ sema > 0 \/ VisitsQueue(i)

\* An empty buffer waits for the thread, if its port takes it.
PoolCovered ==
  faults = 0 /\ ~stop_thread /\ op \notin {"enable", "port_enable"} =>
    \A i \in Connections : \A b \in Headers[i] :
      at[b] = Pool /\ enabled[Out(i)] => returning[In(i)] # "no" \/ sema > 0 \/ VisitsPool(i)

WakeupInv == QueueCovered /\ PoolCovered

-----------------------------------------------------------------------------
(* A graph that is enabled once, before any of its ports sends an event. *)

OneEnabling == MaxEnables <= 1 /\ ~EarlyEvents

\* Until the client has enabled the graph nothing moves.
Fresh ==
  \/ enables = 0 /\ ~freed /\ op \in {"none", "release"}
  \/ op \in {"enable", "port_enable"} /\ pc \in {"next", "call"}

Untouched ==
  /\ Fresh => /\ wpc \in Asleep /\ sema = 0 /\ ~stop_thread
              /\ \A p \in Ports : returning[p] = "no"
              /\ \A b \in Buffers : at[b] \notin Ports
              /\ ~started /\ \A p \in GraphPorts : ~graph_enabled[p]
  /\ Fresh /\ enables = 0 => \A i \in Connections : ~is_enabled[i]
  /\ op \notin {"none", "release", "destroy"} => enables > 0

\* What the ports of a connection and its flag are at a step of a call on it.
PortsAt(i, in, out, is) == enabled[In(i)] = in /\ enabled[Out(i)] = out /\ is_enabled[i] = is

Switching ==
  /\ \A t \in Threads :
       /\ step[t] \in {"out", "undo"} => PortsAt(cx[t], FALSE, FALSE, FALSE)
       /\ step[t] = "in" => PortsAt(cx[t], FALSE, TRUE, FALSE)
       /\ step[t] \in {"wait_in", "stop_out"} => PortsAt(cx[t], FALSE, TRUE, TRUE)
       /\ step[t] \in {"wait_out", "drain", "check"} => PortsAt(cx[t], FALSE, FALSE, TRUE)
       /\ step[t] = "undo" => faults > 0
  /\ \A i \in Connections :
       (\A t \in Threads : step[t] \in Midway => cx[t] # i) => PortsAt(i, is_enabled[i], is_enabled[i], is_enabled[i])

\* No disabling is refused, and without failures no enabling is.
Succeeds ==
  /\ pc = "call" /\ step["client"] = "none" /\ op \notin {"enable", "port_enable"} => ok["client"]
  /\ pc = "call" /\ step["client"] = "none" /\ op \in {"enable", "port_enable"} =>
       ok["client"] = is_enabled[todo]
  /\ wpc = "disable" /\ step["worker"] = "none" => ok["worker"]
  /\ wpc = "enable" /\ step["worker"] = "none" /\ faults = 0 => is_enabled[wcx]

\* How far the client has come, enabling the graph.
Progress ==
  /\ op = "enable" /\ pc \in {"next", "call"} => todo > 0 /\ \A i \in Connections : i < todo => is_enabled[i]
  /\ op = "port_enable" /\ port = GraphIn =>
       /\ todo > 0
       /\ \A i \in Connections : i < todo => is_enabled[i]
       /\ \A i \in Connections : i > todo \/ (i = todo /\ pc = "next") => ~is_enabled[i]
  /\ op = "port_disable" /\ pc \in {"depth", "back", "call"} => port = GraphIn /\ ~graph_enabled[GraphIn]

\* A graph that is in use has all its connections enabled, but for the one that its thread
\* is configuring anew.
InUse ==
  /\ (started /\ op # "disable") \/ graph_enabled[GraphIn] =>
       /\ ~stop_thread
       /\ faults = 0 => \A i \in Connections : is_enabled[i] \/ (wcx = i /\ wpc \in {"disable", "enable"})
  /\ started \/ (\E p \in GraphPorts : graph_enabled[p]) => enables > 0
  /\ started \/ op \in {"enable", "disable"} => way = "graph"
  /\ op = "enable" => ~started
  /\ way = "component" \/ started \/ op = "enable" => wpc # "none" \/ stop_thread
  /\ op \in {"port_enable", "port_disable"} \/ (\E p \in GraphPorts : graph_enabled[p]) => way = "component"
  /\ freed \/ op = "destroy" => ~started /\ \A p \in GraphPorts : ~graph_enabled[p]
  /\ freed => op \in {"none", "release"}

\* A port that is disabled is quiet once the call that disables it has waited for it, and
\* a connection that is disabled has nothing queued.
Quiet(p) == (\A b \in Buffers : at[b] # p) /\ returning[p] = "no"

QuietPorts ==
  /\ \A i \in Connections :
       /\ enabled[In(i)] \/ Quiet(In(i)) \/ \E t \in Threads : step[t] = "wait_in" /\ cx[t] = i
       /\ is_enabled[i] \/ (Quiet(Out(i)) /\ queue[i] = <<>>)
       /\ returning[In(i)] # "event"
       /\ returning[Out(i)] = "event" => \E b \in Buffers : at[b] = Out(i)
  /\ \A t \in Threads :
       /\ step[t] \in {"drain", "check"} => Quiet(Out(cx[t]))
       /\ step[t] = "check" => queue[cx[t]] = <<>>

\* Every buffer is where its queue, its pool or the thread says.
Holds ==
  /\ \A i \in Connections : \A k, l \in DOMAIN queue[i] :
       at[queue[i][k]] = Queue /\ (queue[i][k] = queue[i][l] => k = l)
  /\ wbuffer # NoBuffer => at[wbuffer] = Hand
  /\ \A i \in Connections : ~sized[i] => \A b \in Headers[i] : at[b] = None

\* A connection that nobody but the graph has a reference to is gone with it.
Gone ==
  \A i \in Connections : i \notin Held =>
    /\ ~freed /\ op # "destroy" => refcount[i] = 1
    /\ op = "destroy" /\ (i > todo \/ (i = todo /\ pc # "call")) => refcount[i] = 1
    /\ freed \/ (op = "destroy" /\ i < todo) => ~sized[i]

OnceInv == Untouched /\ Switching /\ Succeeds /\ Progress /\ InUse /\ QuietPorts /\ Holds /\ Gone

-----------------------------------------------------------------------------
(* Lemmas. *)

\* The places of a buffer are different.
LEMMA PlacesApart ==
  /\ None # Pool /\ None # Queue /\ None # Hand /\ Pool # Queue /\ Pool # Hand /\ Queue # Hand
  /\ \A i : In(i) \notin {None, Pool, Queue, Hand} /\ Out(i) \notin {None, Pool, Queue, Hand}
  /\ \A i, j : In(i) # Out(j) /\ (In(i) = In(j) => i = j) /\ (Out(i) = Out(j) => i = j)
BY DEF None, Pool, Queue, Hand, In, Out

\* The ports of a pipeline.
LEMMA PortsOf ==
  /\ 0 \in Nat /\ Connections \subseteq 0 .. N /\ Connections \subseteq 1 .. N + 1
  /\ \A i \in 0 .. N : In(i) \in Ports
  /\ \A i \in 1 .. N + 1 : Out(i) \in Ports
  /\ GraphIn = In(0) /\ GraphOut = Out(N + 1) /\ GraphPorts \subseteq Ports
  /\ \A i \in Connections : In(i) \notin GraphPorts /\ Out(i) \notin GraphPorts
  /\ \A p \in Ports : (\E i \in 0 .. N : p = In(i)) \/ (\E i \in 1 .. N + 1 : p = Out(i))
<1>1. N \in Nat \ {0}
  BY GraphAssumption
<1>2. Connections \subseteq 0 .. N /\ Connections \subseteq 1 .. N + 1 /\ 0 \in 0 .. N /\ N + 1 \in 1 .. N + 1
  BY <1>1 DEF Connections
<1>3. 0 \notin Connections /\ N + 1 \notin Connections
  BY <1>1 DEF Connections
<1>4. /\ \A i \in 0 .. N : In(i) \in Ports
      /\ \A i \in 1 .. N + 1 : Out(i) \in Ports
      /\ \A p \in Ports : (\E i \in 0 .. N : p = In(i)) \/ (\E i \in 1 .. N + 1 : p = Out(i))
  BY DEF Ports, InPorts, OutPorts, In, Out
<1>5. GraphIn = In(0) /\ GraphOut = Out(N + 1) /\ GraphPorts = {In(0), Out(N + 1)}
  BY DEF GraphIn, GraphOut, GraphPorts, In, Out
<1> QED BY <1>2, <1>3, <1>4, <1>5, PlacesApart

\* Whose the buffers are.
LEMMA Owners ==
  /\ \A i \in Connections : Headers[i] \subseteq Buffers /\ Events[i] \subseteq Buffers
  /\ \A i \in Connections : Headers[i] \subseteq AllHeaders /\ Events[i] \subseteq AllEvents
  /\ ClientBuffers \subseteq Buffers /\ NoBuffer \notin Buffers
  /\ \A b \in AllHeaders : \E i \in Connections : b \in Headers[i]
  /\ \A b \in AllEvents : \E i \in Connections : b \in Events[i]
  /\ AllHeaders \cup AllEvents \cup ClientBuffers = Buffers
  /\ AllHeaders \cap AllEvents = {} /\ ClientBuffers \cap (AllHeaders \cup AllEvents) = {}
  /\ \A i, j \in Connections : i # j => Own(i) \cap Own(j) = {}
BY GraphAssumption DEF AllHeaders, AllEvents, Buffers, Own

-----------------------------------------------------------------------------
(* Types. *)

\* What the graph starts with has its types.
LEMMA TypesInit == Init => TypeOK
<1> SUFFICES ASSUME Init PROVE TypeOK
  OBVIOUS
<1>1. 1 \in Connections /\ 0 \in 0 .. SemaMax /\ Ways \subseteq {"graph", "component"} /\ SemaMax \in Nat \ {0}
  BY GraphAssumption DEF Connections
<1>2. /\ MaxEnables \in Nat /\ MaxEvents \in Nat /\ MaxFaults \in Nat /\ N \in Nat
  BY GraphAssumption
<1> USE <1>1, <1>2 DEF Init
<1>3. /\ way \in {"graph", "component"}
      /\ enabled \in [Ports -> BOOLEAN] /\ is_enabled \in [Connections -> BOOLEAN]
      /\ sized \in [Connections -> BOOLEAN] /\ queue \in [Connections -> Seq(Buffers)]
      /\ at \in [Buffers -> Ports \cup {<<"none">>, <<"pool">>, <<"queue">>, <<"worker">>}]
      /\ returning \in [Ports -> {"no", "buffer", "event"}]
  BY DEF InitConnections
<1>4. /\ step \in [Threads -> {"none", "enable", "out", "in", "undo", "disable", "wait_in", "stop_out",
                               "wait_out", "drain", "check"}]
      /\ cx \in [Threads -> Connections] /\ ok \in [Threads -> BOOLEAN]
  BY DEF InitConnections
<1>5. graph_enabled \in [GraphPorts -> BOOLEAN] /\ wpc \in {"none", "wait"}
  BY DEF InitComponent
<1>6. refcount \in [Connections -> 0 .. 2]
  BY DEF InitReferences
<1>7. sema \in 0 .. SemaMax /\ wcx \in Connections
  BY DEF InitGraph
<1>10. /\ stop_thread \in BOOLEAN /\ wbuffer \in Buffers \cup {NoBuffer} /\ run_again \in BOOLEAN
      /\ started \in BOOLEAN /\ freed \in BOOLEAN
  BY DEF InitGraph
<1>8. /\ op \in {"none", "enable", "disable", "destroy", "release", "port_enable", "port_disable"}
      /\ pc \in {"idle", "next", "call", "stop", "join", "depth", "back", "port", "wait"}
      /\ wpc \in {"none", "wait", "queue", "send", "event", "disable", "enable", "pool", "fill"}
  BY <1>5
<1>9. /\ port \in GraphPorts /\ todo \in 0 .. N + 1
      /\ enables \in 0 .. MaxEnables /\ raised \in 0 .. MaxEvents /\ faults \in 0 .. MaxFaults
  BY DEF GraphPorts
<1> QED BY <1>3, <1>4, <1>5, <1>6, <1>7, <1>8, <1>9, <1>10 DEF TypeOK

\* The type invariant is the conjunction of its parts.
LEMMA TypeParts ==
  TypeOK <=> /\ PortTypes /\ LinkTypes /\ QueueTypes /\ PlaceTypes
             /\ ThreadTypes /\ CallTypes /\ ClientTypes /\ BoundTypes
BY DEF TypeOK, PortTypes, LinkTypes, QueueTypes, PlaceTypes, ThreadTypes, CallTypes, ClientTypes,
   BoundTypes, None, Pool, Queue, Hand

\* The constants.
LEMMA Sizes ==
  /\ N \in Nat /\ N > 0 /\ SemaMax \in Nat /\ SemaMax > 0
  /\ MaxEnables \in Nat /\ MaxEvents \in Nat /\ MaxFaults \in Nat
  /\ 1 \in Connections /\ N \in Connections /\ Connections = 1 .. N
BY GraphAssumption DEF Connections

\* A thread begins a call on a connection.
LEMMA BeginTypes ==
  ASSUME CallTypes, NEW t \in Threads, NEW i \in Connections, NEW s \in {"enable", "disable"}, Begin(t, s, i)
  PROVE  CallTypes'
BY DEF CallTypes, Begin, Step

\* The thread goes on to the next connection, or to rest.
LEMMA NextTypes ==
  ASSUME GraphTypes, NEW again \in BOOLEAN, NextConnection(again)
  PROVE  wcx' \in Connections /\ run_again' \in BOOLEAN /\ wpc' \in {"queue", "wait"}
<1>1. wcx \in 1 .. N /\ N \in Nat /\ N > 0
  BY Sizes DEF GraphTypes, ThreadTypes
<1>2. CASE wcx < N
  BY <1>1, <1>2, Sizes DEF NextConnection
<1>3. CASE ~(wcx < N)
  BY <1>1, <1>3, Sizes DEF NextConnection
<1> QED BY <1>2, <1>3

-----------------------------------------------------------------------------
(* What every action leaves of the types. *)

\* ReturnInput keeps the types.
LEMMA ReturnInputTypes ==
  ASSUME GraphTypes, Places, Calls, Stopped, References, Hands, NEW i \in 0 .. N, ReturnInput(i)
  PROVE  GraphTypes'
<1>1. PortTypes'
  BY DEF PortTypes, GraphTypes, ReturnInput, ports, links, worker, calls, client
<1>2. PlaceTypes'
  BY DEF PlaceTypes, GraphTypes, ReturnInput, Pool
<1>3. LinkTypes' /\ QueueTypes' /\ ThreadTypes' /\ CallTypes' /\ ClientTypes' /\ BoundTypes'
  BY DEF LinkTypes, QueueTypes, ThreadTypes, CallTypes, ClientTypes, BoundTypes, GraphTypes,
     ReturnInput, links, worker, calls, client
<1> QED BY <1>1, <1>2, <1>3 DEF GraphTypes

\* ReturnOutput keeps the types.
LEMMA ReturnOutputTypes ==
  ASSUME GraphTypes, Places, Calls, Stopped, References, Hands, NEW i \in Connections, ReturnOutput(i)
  PROVE  GraphTypes'
<1>1. PortTypes'
  BY DEF PortTypes, GraphTypes, ReturnOutput, ports, links, worker, calls, client
<1>2. QueueTypes'
  BY DEF QueueTypes, GraphTypes, ReturnOutput
<1>3. PlaceTypes'
  BY DEF PlaceTypes, GraphTypes, ReturnOutput, Queue
<1>4. LinkTypes' /\ ThreadTypes' /\ CallTypes' /\ ClientTypes' /\ BoundTypes'
  BY DEF LinkTypes, ThreadTypes, CallTypes, ClientTypes, BoundTypes, GraphTypes, ReturnOutput,
     links, worker, calls, client
<1> QED BY <1>1, <1>2, <1>3, <1>4 DEF GraphTypes

\* RaiseEvent keeps the types.
LEMMA RaiseEventTypes ==
  ASSUME GraphTypes, Places, Calls, Stopped, References, Hands, NEW i \in Connections, RaiseEvent(i)
  PROVE  GraphTypes'
<1>1. PortTypes'
  BY DEF PortTypes, GraphTypes, RaiseEvent, ports, links, worker, calls, client
<1>2. QueueTypes'
  <2>1. PICK e \in Events[i] : queue' = [queue EXCEPT ![i] = Append(@, e)]
    BY DEF RaiseEvent
  <2>2. queue[i] \in Seq(Buffers) /\ e \in Buffers
    BY Owners DEF GraphTypes, QueueTypes
  <2>3. Append(queue[i], e) \in Seq(Buffers)
    BY <2>2
  <2> QED BY <2>1, <2>3 DEF GraphTypes, QueueTypes
<1>3. PlaceTypes'
  BY Owners DEF PlaceTypes, GraphTypes, RaiseEvent, Queue
<1>4. BoundTypes'
  BY Sizes DEF BoundTypes, GraphTypes, RaiseEvent, client
<1>5. LinkTypes' /\ ThreadTypes' /\ CallTypes' /\ ClientTypes'
  BY DEF LinkTypes, ThreadTypes, CallTypes, ClientTypes, GraphTypes, RaiseEvent, links, worker,
     calls, client
<1> QED BY <1>1, <1>2, <1>3, <1>4, <1>5 DEF GraphTypes

\* Notify keeps the types.
LEMMA NotifyTypes ==
  ASSUME GraphTypes, Places, Calls, Stopped, References, Hands, NEW p \in Ports, Notify(p)
  PROVE  GraphTypes'
<1>1. PortTypes'
  BY DEF PortTypes, GraphTypes, Notify, ports
<1>2. ThreadTypes'
  BY Sizes DEF ThreadTypes, GraphTypes, Notify, Wakes, Posted, worker
<1>3. LinkTypes' /\ QueueTypes' /\ PlaceTypes' /\ CallTypes' /\ ClientTypes' /\ BoundTypes'
  BY DEF LinkTypes, QueueTypes, PlaceTypes, CallTypes, ClientTypes, BoundTypes, GraphTypes,
     Notify, links, data, calls, client
<1> QED BY <1>1, <1>2, <1>3 DEF GraphTypes

\* EnableConnection keeps the types.
LEMMA EnableConnectionTypes ==
  ASSUME GraphTypes, Places, Calls, Stopped, References, Hands, NEW t \in Threads, EnableConnection(t)
  PROVE  GraphTypes'
<1>1. LinkTypes'
  BY DEF LinkTypes, GraphTypes, EnableConnection, Return, Step, Fault, ports, worker, client
<1>2. PlaceTypes'
  BY DEF PlaceTypes, GraphTypes, EnableConnection, Return, Pool
<1>3. CallTypes'
  BY DEF CallTypes, GraphTypes, EnableConnection, Return, Step, Fault, ports, worker, client
<1>4. BoundTypes'
  BY Sizes DEF BoundTypes, GraphTypes, EnableConnection, Return, Fault, client
<1>5. PortTypes' /\ QueueTypes' /\ ThreadTypes' /\ ClientTypes'
  BY DEF PortTypes, QueueTypes, ThreadTypes, ClientTypes, GraphTypes, EnableConnection, ports,
     worker, client
<1> QED BY <1>1, <1>2, <1>3, <1>4, <1>5 DEF GraphTypes

\* EnableOutput keeps the types.
LEMMA EnableOutputTypes ==
  ASSUME GraphTypes, Places, Calls, Stopped, References, Hands, NEW t \in Threads, EnableOutput(t)
  PROVE  GraphTypes'
<1>1. PortTypes'
  BY DEF PortTypes, GraphTypes, EnableOutput, Step, EnableFails, Fault, Return, data, worker,
     client
<1>2. LinkTypes'
  BY DEF LinkTypes, GraphTypes, EnableOutput, Step, EnableFails, Fault, Return, data, worker,
     client
<1>3. CallTypes'
  BY DEF CallTypes, GraphTypes, EnableOutput, Step, EnableFails, Fault, Return, data, worker,
     client
<1>4. BoundTypes'
  BY Sizes DEF BoundTypes, GraphTypes, EnableOutput, EnableFails, Fault, Return, client
<1>5. QueueTypes' /\ PlaceTypes' /\ ThreadTypes' /\ ClientTypes'
  BY DEF QueueTypes, PlaceTypes, ThreadTypes, ClientTypes, GraphTypes, EnableOutput, data,
     worker, client
<1> QED BY <1>1, <1>2, <1>3, <1>4, <1>5 DEF GraphTypes

\* EnableInput keeps the types.
LEMMA EnableInputTypes ==
  ASSUME GraphTypes, Places, Calls, Stopped, References, Hands, NEW t \in Threads, EnableInput(t)
  PROVE  GraphTypes'
<1>1. PortTypes'
  BY DEF PortTypes, GraphTypes, EnableInput, Return, Step, EnableFails, Fault, data, worker,
     client
<1>2. LinkTypes'
  BY DEF LinkTypes, GraphTypes, EnableInput, Return, Step, EnableFails, Fault, data, worker,
     client
<1>3. CallTypes'
  BY DEF CallTypes, GraphTypes, EnableInput, Return, Step, EnableFails, Fault, data, worker,
     client
<1>4. BoundTypes'
  BY Sizes DEF BoundTypes, GraphTypes, EnableInput, Return, EnableFails, Fault, client
<1>5. QueueTypes' /\ PlaceTypes' /\ ThreadTypes' /\ ClientTypes'
  BY DEF QueueTypes, PlaceTypes, ThreadTypes, ClientTypes, GraphTypes, EnableInput, data, worker,
     client
<1> QED BY <1>1, <1>2, <1>3, <1>4, <1>5 DEF GraphTypes

\* EnableUndone keeps the types.
LEMMA EnableUndoneTypes ==
  ASSUME GraphTypes, Places, Calls, Stopped, References, Hands, NEW t \in Threads, EnableUndone(t)
  PROVE  GraphTypes'
<1>1. LinkTypes'
  BY DEF LinkTypes, GraphTypes, EnableUndone, Return, Step, ports, data, worker, client
<1>2. CallTypes'
  BY DEF CallTypes, GraphTypes, EnableUndone, Return, Step
<1>3. PortTypes' /\ QueueTypes' /\ PlaceTypes' /\ ThreadTypes' /\ ClientTypes' /\ BoundTypes'
  BY DEF PortTypes, QueueTypes, PlaceTypes, ThreadTypes, ClientTypes, BoundTypes, GraphTypes,
     EnableUndone, ports, data, worker, client
<1> QED BY <1>1, <1>2, <1>3 DEF GraphTypes

\* DisableConnection keeps the types.
LEMMA DisableConnectionTypes ==
  ASSUME GraphTypes, Places, Calls, Stopped, References, Hands, NEW t \in Threads, DisableConnection(t)
  PROVE  GraphTypes'
<1>1. PortTypes'
  BY DEF PortTypes, GraphTypes, DisableConnection, Return, Step, data, worker, client
<1>2. LinkTypes'
  BY DEF LinkTypes, GraphTypes, DisableConnection, Return, Step, data, worker, client
<1>3. CallTypes'
  BY DEF CallTypes, GraphTypes, DisableConnection, Return, Step, data, worker, client
<1>4. QueueTypes' /\ PlaceTypes' /\ ThreadTypes' /\ ClientTypes' /\ BoundTypes'
  BY DEF QueueTypes, PlaceTypes, ThreadTypes, ClientTypes, BoundTypes, GraphTypes,
     DisableConnection, data, worker, client
<1> QED BY <1>1, <1>2, <1>3, <1>4 DEF GraphTypes

\* WaitInput keeps the types.
LEMMA WaitInputTypes ==
  ASSUME GraphTypes, Places, Calls, Stopped, References, Hands, NEW t \in Threads, WaitInput(t)
  PROVE  GraphTypes'
<1>1. CallTypes'
  BY DEF CallTypes, GraphTypes, WaitInput, Step
<1>2. PortTypes' /\ LinkTypes' /\ QueueTypes' /\ PlaceTypes' /\ ThreadTypes' /\ ClientTypes' /\ BoundTypes'
  BY DEF PortTypes, LinkTypes, QueueTypes, PlaceTypes, ThreadTypes, ClientTypes, BoundTypes,
     GraphTypes, WaitInput, ports, links, data, worker, client
<1> QED BY <1>1, <1>2 DEF GraphTypes

\* DisableOutput keeps the types.
LEMMA DisableOutputTypes ==
  ASSUME GraphTypes, Places, Calls, Stopped, References, Hands, NEW t \in Threads, DisableOutput(t)
  PROVE  GraphTypes'
<1>1. PortTypes'
  BY DEF PortTypes, GraphTypes, DisableOutput, Step, Return, data, worker, client
<1>2. LinkTypes'
  BY DEF LinkTypes, GraphTypes, DisableOutput, Step, Return, data, worker, client
<1>3. CallTypes'
  BY DEF CallTypes, GraphTypes, DisableOutput, Step, Return, data, worker, client
<1>4. QueueTypes' /\ PlaceTypes' /\ ThreadTypes' /\ ClientTypes' /\ BoundTypes'
  BY DEF QueueTypes, PlaceTypes, ThreadTypes, ClientTypes, BoundTypes, GraphTypes, DisableOutput,
     data, worker, client
<1> QED BY <1>1, <1>2, <1>3, <1>4 DEF GraphTypes

\* WaitOutput keeps the types.
LEMMA WaitOutputTypes ==
  ASSUME GraphTypes, Places, Calls, Stopped, References, Hands, NEW t \in Threads, WaitOutput(t)
  PROVE  GraphTypes'
<1>1. CallTypes'
  BY DEF CallTypes, GraphTypes, WaitOutput, Step
<1>2. PortTypes' /\ LinkTypes' /\ QueueTypes' /\ PlaceTypes' /\ ThreadTypes' /\ ClientTypes' /\ BoundTypes'
  BY DEF PortTypes, LinkTypes, QueueTypes, PlaceTypes, ThreadTypes, ClientTypes, BoundTypes,
     GraphTypes, WaitOutput, ports, links, data, worker, client
<1> QED BY <1>1, <1>2 DEF GraphTypes

\* DrainQueue keeps the types.
LEMMA DrainQueueTypes ==
  ASSUME GraphTypes, Places, Calls, Stopped, References, Hands, NEW t \in Threads, DrainQueue(t)
  PROVE  GraphTypes'
<1>1. QueueTypes'
  <2>1. queue' = [queue EXCEPT ![cx[t]] = <<>>]
    BY DEF DrainQueue, ReleaseQueued
  <2>2. <<>> \in Seq(Buffers)
    OBVIOUS
  <2> QED BY <2>1, <2>2 DEF GraphTypes, QueueTypes
<1>2. PlaceTypes'
  BY DEF PlaceTypes, GraphTypes, DrainQueue, ReleaseQueued, Pool
<1>3. ThreadTypes'
  BY Sizes DEF ThreadTypes, GraphTypes, DrainQueue, ReleaseQueued, Posted, worker
<1>4. CallTypes'
  BY DEF CallTypes, GraphTypes, DrainQueue, Step
<1>5. PortTypes' /\ LinkTypes' /\ ClientTypes' /\ BoundTypes'
  BY DEF PortTypes, LinkTypes, ClientTypes, BoundTypes, GraphTypes, DrainQueue, ports, links,
     client
<1> QED BY <1>1, <1>2, <1>3, <1>4, <1>5 DEF GraphTypes

\* DisableDone keeps the types.
LEMMA DisableDoneTypes ==
  ASSUME GraphTypes, Places, Calls, Stopped, References, Hands, NEW t \in Threads, DisableDone(t)
  PROVE  GraphTypes'
<1>1. LinkTypes'
  BY DEF LinkTypes, GraphTypes, DisableDone, Return, Step, ports, data, worker, client
<1>2. CallTypes'
  BY DEF CallTypes, GraphTypes, DisableDone, Return, Step
<1>3. PortTypes' /\ QueueTypes' /\ PlaceTypes' /\ ThreadTypes' /\ ClientTypes' /\ BoundTypes'
  BY DEF PortTypes, QueueTypes, PlaceTypes, ThreadTypes, ClientTypes, BoundTypes, GraphTypes,
     DisableDone, ports, data, worker, client
<1> QED BY <1>1, <1>2, <1>3 DEF GraphTypes

\* WorkerWakes keeps the types.
LEMMA WorkerWakesTypes ==
  ASSUME GraphTypes, Places, Calls, Stopped, References, Hands, WorkerWakes
  PROVE  GraphTypes'
<1>1. ThreadTypes'
  <2>1. /\ sema > 0 /\ sema' = sema - 1 /\ wcx' = 1
        /\ wpc' \in {"none", "queue"} /\ run_again' = FALSE /\ UNCHANGED <<stop_thread, wbuffer>>
    BY DEF WorkerWakes
  <2>2. sema' \in 0 .. SemaMax /\ wcx' \in Connections
    BY <2>1, Sizes DEF GraphTypes, ThreadTypes
  <2> QED BY <2>1, <2>2 DEF GraphTypes, ThreadTypes
<1>2. PortTypes' /\ LinkTypes' /\ QueueTypes' /\ PlaceTypes' /\ CallTypes' /\ ClientTypes' /\ BoundTypes'
  BY DEF PortTypes, LinkTypes, QueueTypes, PlaceTypes, CallTypes, ClientTypes, BoundTypes,
     GraphTypes, WorkerWakes, ports, links, data, calls, client
<1> QED BY <1>1, <1>2 DEF GraphTypes

\* TakeQueued keeps the types.
LEMMA TakeQueuedTypes ==
  ASSUME GraphTypes, Places, Calls, Stopped, References, Hands, TakeQueued
  PROVE  GraphTypes'
<1>1. QueueTypes'
  <2>1. queue' = queue \/ (queue[wcx] # <<>> /\ queue' = [queue EXCEPT ![wcx] = Tail(@)])
    BY DEF TakeQueued, data
  <2>2. queue[wcx] \in Seq(Buffers)
    BY DEF GraphTypes, QueueTypes, ThreadTypes
  <2>3. queue[wcx] # <<>> => Tail(queue[wcx]) \in Seq(Buffers)
    BY <2>2
  <2> QED BY <2>1, <2>3 DEF GraphTypes, QueueTypes
<1>2. PlaceTypes'
  <2>1. at' = at \/ \E b : at' = [at EXCEPT ![b] = Hand]
    BY DEF TakeQueued, data, Hand
  <2> QED BY <2>1 DEF GraphTypes, PlaceTypes
<1>3. ThreadTypes'
  <2>1. /\ UNCHANGED <<sema, stop_thread, wcx>>
        /\ \/ wpc' = "pool" /\ UNCHANGED <<wbuffer, run_again>>
           \/ /\ queue[wcx] # <<>> /\ wbuffer' = Head(queue[wcx]) /\ run_again' = TRUE
              /\ wpc' \in {"event", "send"}
    BY DEF TakeQueued
  <2>2. queue[wcx] \in Seq(Buffers)
    BY DEF GraphTypes, QueueTypes, ThreadTypes
  <2>3. queue[wcx] # <<>> => Head(queue[wcx]) \in Buffers
    BY <2>2
  <2> QED BY <2>1, <2>3 DEF GraphTypes, ThreadTypes
<1>4. PortTypes' /\ LinkTypes' /\ CallTypes' /\ ClientTypes' /\ BoundTypes'
  BY DEF PortTypes, LinkTypes, CallTypes, ClientTypes, BoundTypes, GraphTypes, TakeQueued, ports,
     links, calls, client
<1> QED BY <1>1, <1>2, <1>3, <1>4 DEF GraphTypes

\* SendQueued keeps the types.
LEMMA SendQueuedTypes ==
  ASSUME GraphTypes, Places, Calls, Stopped, References, Hands, SendQueued
  PROVE  GraphTypes'
<1>1. PlaceTypes'
  <2>1. at' = [at EXCEPT ![wbuffer] = In(wcx)] \/ at' = [at EXCEPT ![wbuffer] = Pool]
    BY DEF SendQueued, Accepts, Released, In, Pool
  <2>2. In(wcx) \in Ports
    BY PortsOf DEF GraphTypes, ThreadTypes
  <2> QED BY <2>1, <2>2 DEF GraphTypes, PlaceTypes
<1>2. ThreadTypes'
  BY Sizes DEF ThreadTypes, GraphTypes, SendQueued, Released, Posted
<1>3. BoundTypes'
  BY Sizes DEF BoundTypes, GraphTypes, SendQueued, Accepts, Refuses, Fault, client
<1>4. PortTypes' /\ LinkTypes' /\ QueueTypes' /\ CallTypes' /\ ClientTypes'
  BY DEF PortTypes, LinkTypes, QueueTypes, CallTypes, ClientTypes, GraphTypes, SendQueued, ports,
     links, calls, client
<1> QED BY <1>1, <1>2, <1>3, <1>4 DEF GraphTypes

\* HandleEvent keeps the types.
LEMMA HandleEventTypes ==
  ASSUME GraphTypes, Places, Calls, Stopped, References, Hands, HandleEvent
  PROVE  GraphTypes'
<1>1. PlaceTypes'
  <2>1. at' = at \/ at' = [at EXCEPT ![wbuffer] = In(wcx)] \/ at' = [at EXCEPT ![wbuffer] = Pool]
    BY DEF HandleEvent, Accepts, In, Pool
  <2>2. In(wcx) \in Ports
    BY PortsOf DEF GraphTypes, ThreadTypes
  <2> QED BY <2>1, <2>2 DEF GraphTypes, PlaceTypes
<1>2. ThreadTypes'
  BY DEF ThreadTypes, GraphTypes, HandleEvent
<1>3. CallTypes'
  <2>1. UNCHANGED <<step, cx, ok>> \/ Begin("worker", "disable", wcx)
    BY DEF HandleEvent, calls
  <2>2. CASE UNCHANGED <<step, cx, ok>>
    BY <2>2 DEF GraphTypes, CallTypes
  <2>3. CASE Begin("worker", "disable", wcx)
    BY <2>3, BeginTypes DEF GraphTypes, ThreadTypes, Threads
  <2> QED BY <2>1, <2>2, <2>3
<1>4. BoundTypes'
  BY Sizes DEF BoundTypes, GraphTypes, HandleEvent, Accepts, Fault, client
<1>5. PortTypes' /\ LinkTypes' /\ QueueTypes' /\ ClientTypes'
  BY DEF PortTypes, LinkTypes, QueueTypes, ClientTypes, GraphTypes, HandleEvent, ports, links,
     client
<1> QED BY <1>1, <1>2, <1>3, <1>4, <1>5 DEF GraphTypes

\* Reconfigure keeps the types.
LEMMA ReconfigureTypes ==
  ASSUME GraphTypes, Places, Calls, Stopped, References, Hands, Reconfigure
  PROVE  GraphTypes'
<1>1. PlaceTypes'
  BY DEF PlaceTypes, GraphTypes, Reconfigure, Pool
<1>2. ThreadTypes'
  BY DEF ThreadTypes, GraphTypes, Reconfigure
<1>3. CallTypes'
  <2>1. UNCHANGED <<step, cx, ok>> \/ Begin("worker", "enable", wcx)
    BY DEF Reconfigure, calls
  <2>2. CASE UNCHANGED <<step, cx, ok>>
    BY <2>2 DEF GraphTypes, CallTypes
  <2>3. CASE Begin("worker", "enable", wcx)
    BY <2>3, BeginTypes DEF GraphTypes, ThreadTypes, Threads
  <2> QED BY <2>1, <2>2, <2>3
<1>4. BoundTypes'
  BY Sizes DEF BoundTypes, GraphTypes, Reconfigure, Fault, client
<1>5. PortTypes' /\ LinkTypes' /\ QueueTypes' /\ ClientTypes'
  BY DEF PortTypes, LinkTypes, QueueTypes, ClientTypes, GraphTypes, Reconfigure, ports, links,
     client
<1> QED BY <1>1, <1>2, <1>3, <1>4, <1>5 DEF GraphTypes

\* TakeEmpty keeps the types.
LEMMA TakeEmptyTypes ==
  ASSUME GraphTypes, Places, Calls, Stopped, References, Hands, TakeEmpty
  PROVE  GraphTypes'
<1>1. PlaceTypes'
  BY DEF PlaceTypes, GraphTypes, TakeEmpty, Hand
<1>2. ThreadTypes'
  <2>1. /\ UNCHANGED <<sema, stop_thread>>
        /\ \/ NextConnection(run_again) /\ UNCHANGED wbuffer
           \/ /\ \E b \in InPool : wbuffer' = b
              /\ wpc' = "fill" /\ run_again' = TRUE /\ UNCHANGED wcx
    BY DEF TakeEmpty
  <2>2. InPool \subseteq Buffers
    BY Owners DEF InPool, GraphTypes, ThreadTypes
  <2>3. CASE NextConnection(run_again) /\ UNCHANGED wbuffer
    BY <2>1, <2>3, NextTypes DEF GraphTypes, ThreadTypes
  <2>4. CASE wpc' = "fill" /\ run_again' = TRUE /\ UNCHANGED wcx /\ \E b \in InPool : wbuffer' = b
    BY <2>1, <2>2, <2>4 DEF GraphTypes, ThreadTypes
  <2> QED BY <2>1, <2>3, <2>4
<1>3. PortTypes' /\ LinkTypes' /\ QueueTypes' /\ CallTypes' /\ ClientTypes' /\ BoundTypes'
  BY DEF PortTypes, LinkTypes, QueueTypes, CallTypes, ClientTypes, BoundTypes, GraphTypes,
     TakeEmpty, ports, links, calls, client
<1> QED BY <1>1, <1>2, <1>3 DEF GraphTypes

\* SendEmpty keeps the types.
LEMMA SendEmptyTypes ==
  ASSUME GraphTypes, Places, Calls, Stopped, References, Hands, SendEmpty
  PROVE  GraphTypes'
<1>1. PlaceTypes'
  <2>1. at' = [at EXCEPT ![wbuffer] = Out(wcx)] \/ at' = [at EXCEPT ![wbuffer] = Pool]
    BY DEF SendEmpty, Accepts, Out, Pool
  <2>2. Out(wcx) \in Ports
    BY PortsOf DEF GraphTypes, ThreadTypes
  <2> QED BY <2>1, <2>2 DEF GraphTypes, PlaceTypes
<1>2. ThreadTypes'
  <2>1. /\ UNCHANGED <<sema, stop_thread>> /\ wbuffer' = NoBuffer
        /\ \/ wpc' = "pool" /\ UNCHANGED <<wcx, run_again>>
           \/ NextConnection(FALSE)
    BY DEF SendEmpty
  <2> QED BY <2>1, NextTypes DEF GraphTypes, ThreadTypes
<1>3. BoundTypes'
  BY Sizes DEF BoundTypes, GraphTypes, SendEmpty, Accepts, Refuses, Fault, NextConnection, client
<1>4. PortTypes' /\ LinkTypes' /\ QueueTypes' /\ CallTypes' /\ ClientTypes'
  BY DEF PortTypes, LinkTypes, QueueTypes, CallTypes, ClientTypes, GraphTypes, SendEmpty, ports,
     links, calls, client
<1> QED BY <1>1, <1>2, <1>3, <1>4 DEF GraphTypes

\* GraphEnableNext keeps the types.
LEMMA GraphEnableNextTypes ==
  ASSUME GraphTypes, Places, Calls, Stopped, References, Hands, GraphEnableNext
  PROVE  GraphTypes'
<1>1. ThreadTypes'
  BY Sizes DEF ThreadTypes, GraphTypes, GraphEnableNext, Triggered, Posted, worker
<1>2. CallTypes'
  BY DEF CallTypes, GraphTypes, GraphEnableNext, Begin, Step, client, Triggered, Posted, Finish,
     calls, ports, links, data, worker
<1>3. ClientTypes'
  <2>1. /\ UNCHANGED <<way, port, freed>>
        /\ \/ pc' = "call" /\ UNCHANGED <<op, todo, started>>
           \/ started' = TRUE /\ op' = "none" /\ pc' = "idle" /\ todo' = 0
    BY DEF GraphEnableNext, Finish
  <2>2. todo' \in 0 .. N + 1
    BY <2>1, Sizes DEF GraphTypes, ClientTypes
  <2> QED BY <2>1, <2>2 DEF GraphTypes, ClientTypes
<1>4. PortTypes' /\ LinkTypes' /\ QueueTypes' /\ PlaceTypes' /\ BoundTypes'
  BY DEF PortTypes, LinkTypes, QueueTypes, PlaceTypes, BoundTypes, GraphTypes, GraphEnableNext,
     ports, links, data
<1> QED BY <1>1, <1>2, <1>3, <1>4 DEF GraphTypes

\* GraphEnableCalled keeps the types.
LEMMA GraphEnableCalledTypes ==
  ASSUME GraphTypes, Places, Calls, Stopped, References, Hands, GraphEnableCalled
  PROVE  GraphTypes'
<1>1. ClientTypes'
  BY Sizes DEF ClientTypes, GraphTypes, GraphEnableCalled, Calls
<1>2. PortTypes' /\ LinkTypes' /\ QueueTypes' /\ PlaceTypes' /\ ThreadTypes' /\ CallTypes' /\ BoundTypes'
  BY DEF PortTypes, LinkTypes, QueueTypes, PlaceTypes, ThreadTypes, CallTypes, BoundTypes,
     GraphTypes, GraphEnableCalled, ports, links, data, worker, calls
<1> QED BY <1>1, <1>2 DEF GraphTypes

\* StopWorker keeps the types.
LEMMA StopWorkerTypes ==
  ASSUME GraphTypes, Places, Calls, Stopped, References, Hands, StopWorker
  PROVE  GraphTypes'
<1>1. ThreadTypes'
  BY Sizes DEF ThreadTypes, GraphTypes, StopWorker, Posted
<1>2. ClientTypes'
  BY DEF ClientTypes, GraphTypes, StopWorker
<1>3. PortTypes' /\ LinkTypes' /\ QueueTypes' /\ PlaceTypes' /\ CallTypes' /\ BoundTypes'
  BY DEF PortTypes, LinkTypes, QueueTypes, PlaceTypes, CallTypes, BoundTypes, GraphTypes,
     StopWorker, ports, links, data, calls
<1> QED BY <1>1, <1>2, <1>3 DEF GraphTypes

\* JoinWorker keeps the types.
LEMMA JoinWorkerTypes ==
  ASSUME GraphTypes, Places, Calls, Stopped, References, Hands, JoinWorker
  PROVE  GraphTypes'
<1>1. ClientTypes'
  BY Sizes DEF ClientTypes, GraphTypes, JoinWorker, Finish
<1>2. PortTypes' /\ LinkTypes' /\ QueueTypes' /\ PlaceTypes' /\ ThreadTypes' /\ CallTypes' /\ BoundTypes'
  BY DEF PortTypes, LinkTypes, QueueTypes, PlaceTypes, ThreadTypes, CallTypes, BoundTypes,
     GraphTypes, JoinWorker, ports, links, data, worker, calls
<1> QED BY <1>1, <1>2 DEF GraphTypes

\* GraphDisableNext keeps the types.
LEMMA GraphDisableNextTypes ==
  ASSUME GraphTypes, Places, Calls, Stopped, References, Hands, GraphDisableNext
  PROVE  GraphTypes'
<1>1. CallTypes'
  BY DEF CallTypes, GraphTypes, GraphDisableNext, Begin, Step, client, calls, Finish, ports,
     links, data, worker
<1>2. ClientTypes'
  <2>1. /\ UNCHANGED <<way, port, freed>>
        /\ \/ pc' = "call" /\ UNCHANGED <<op, todo, started>>
           \/ pc = "call" /\ pc' = "next" /\ todo' = todo + 1 /\ UNCHANGED <<op, started>>
           \/ started' = FALSE /\ op' = "none" /\ pc' = "idle" /\ todo' = 0
    BY DEF GraphDisableNext, Finish
  <2>2. todo' \in 0 .. N + 1
    BY <2>1, Sizes DEF GraphTypes, ClientTypes, Calls
  <2> QED BY <2>1, <2>2 DEF GraphTypes, ClientTypes
<1>3. PortTypes' /\ LinkTypes' /\ QueueTypes' /\ PlaceTypes' /\ ThreadTypes' /\ BoundTypes'
  BY DEF PortTypes, LinkTypes, QueueTypes, PlaceTypes, ThreadTypes, BoundTypes, GraphTypes,
     GraphDisableNext, ports, links, data, worker
<1> QED BY <1>1, <1>2, <1>3 DEF GraphTypes

\* ReleaseNext keeps the types.
LEMMA ReleaseNextTypes ==
  ASSUME GraphTypes, Places, Calls, Stopped, References, Hands, ReleaseNext
  PROVE  GraphTypes'
<1>1. LinkTypes'
  <2>1. /\ todo \in Connections /\ pc = "next" /\ op \in {"destroy", "release"}
        /\ refcount' = [refcount EXCEPT ![todo] = @ - 1] /\ UNCHANGED <<is_enabled, sized>>
    BY DEF ReleaseNext
  <2>2. refcount[todo] \in 0 .. 2 /\ refcount[todo] > 0
    BY <2>1 DEF GraphTypes, LinkTypes, References, Stopped
  <2>3. refcount[todo] - 1 \in 0 .. 2
    BY <2>2
  <2> QED BY <2>1, <2>3 DEF GraphTypes, LinkTypes
<1>2. CallTypes'
  BY DEF CallTypes, GraphTypes, ReleaseNext, Begin, Step, client, Finish, calls, ports, data,
     worker
<1>3. ClientTypes'
  BY Sizes DEF ClientTypes, GraphTypes, ReleaseNext, Finish
<1>4. PortTypes' /\ QueueTypes' /\ PlaceTypes' /\ ThreadTypes' /\ BoundTypes'
  BY DEF PortTypes, QueueTypes, PlaceTypes, ThreadTypes, BoundTypes, GraphTypes, ReleaseNext,
     ports, data, worker
<1> QED BY <1>1, <1>2, <1>3, <1>4 DEF GraphTypes

\* ReleaseCalled keeps the types.
LEMMA ReleaseCalledTypes ==
  ASSUME GraphTypes, Places, Calls, Stopped, References, Hands, ReleaseCalled
  PROVE  GraphTypes'
<1>1. LinkTypes'
  BY DEF LinkTypes, GraphTypes, ReleaseCalled, client, Finish, ports, worker, calls
<1>2. PlaceTypes'
  BY DEF PlaceTypes, GraphTypes, ReleaseCalled, None
<1>3. ClientTypes'
  BY Sizes DEF ClientTypes, GraphTypes, ReleaseCalled, Finish, Calls
<1>4. PortTypes' /\ QueueTypes' /\ ThreadTypes' /\ CallTypes' /\ BoundTypes'
  BY DEF PortTypes, QueueTypes, ThreadTypes, CallTypes, BoundTypes, GraphTypes, ReleaseCalled,
     ports, worker, calls
<1> QED BY <1>1, <1>2, <1>3, <1>4 DEF GraphTypes

\* Destroyed keeps the types.
LEMMA DestroyedTypes ==
  ASSUME GraphTypes, Places, Calls, Stopped, References, Hands, Destroyed
  PROVE  GraphTypes'
<1>1. ClientTypes'
  BY Sizes DEF ClientTypes, GraphTypes, Destroyed, Finish
<1>2. PortTypes' /\ LinkTypes' /\ QueueTypes' /\ PlaceTypes' /\ ThreadTypes' /\ CallTypes' /\ BoundTypes'
  BY DEF PortTypes, LinkTypes, QueueTypes, PlaceTypes, ThreadTypes, CallTypes, BoundTypes,
     GraphTypes, Destroyed, ports, links, data, worker, calls
<1> QED BY <1>1, <1>2 DEF GraphTypes

\* PortEnableNext keeps the types.
LEMMA PortEnableNextTypes ==
  ASSUME GraphTypes, Places, Calls, Stopped, References, Hands, PortEnableNext
  PROVE  GraphTypes'
<1>1. PortTypes'
  BY DEF PortTypes, GraphTypes, PortEnableNext, Near, Begin, Step, client, Onward, calls,
     PortEnabled, Triggered, Posted, Finish, links, data, worker
<1>2. ThreadTypes'
  BY Sizes DEF ThreadTypes, GraphTypes, PortEnableNext, PortEnabled, Triggered, Posted, worker
<1>3. CallTypes'
  BY DEF CallTypes, GraphTypes, PortEnableNext, Near, Begin, Step, client, Onward, calls,
     PortEnabled, Triggered, Posted, Finish, links, data, worker
<1>4. ClientTypes'
  BY Sizes DEF ClientTypes, GraphTypes, PortEnableNext, Onward, PortEnabled, Finish, Calls
<1>5. LinkTypes' /\ QueueTypes' /\ PlaceTypes' /\ BoundTypes'
  BY DEF LinkTypes, QueueTypes, PlaceTypes, BoundTypes, GraphTypes, PortEnableNext, links, data
<1> QED BY <1>1, <1>2, <1>3, <1>4, <1>5 DEF GraphTypes

\* PortDisableNext keeps the types.
LEMMA PortDisableNextTypes ==
  ASSUME GraphTypes, Places, Calls, Stopped, References, Hands, PortDisableNext
  PROVE  GraphTypes'
<1>1. PortTypes'
  BY DEF PortTypes, GraphTypes, PortDisableNext, Near, calls, ports, Begin, Step, client, Finish,
     links, data, worker
<1>2. CallTypes'
  <2>1. UNCHANGED <<step, cx, ok>> \/ (todo > 0 /\ pc = "back" /\ Begin("client", "disable", todo))
    BY DEF PortDisableNext, calls
  <2>2. pc = "back" /\ todo > 0 => todo \in Connections
    <3>1. todo \in 0 .. N + 1 /\ (pc = "back" => todo <= N)
      BY DEF GraphTypes, ClientTypes, Places
    <3> QED BY <3>1, Sizes DEF Connections
  <2>3. CASE UNCHANGED <<step, cx, ok>>
    BY <2>3 DEF GraphTypes, CallTypes
  <2>4. CASE todo > 0 /\ pc = "back" /\ Begin("client", "disable", todo)
    BY <2>2, <2>4, BeginTypes DEF GraphTypes, Threads
  <2> QED BY <2>1, <2>3, <2>4
<1>3. ClientTypes'
  <2>1. /\ UNCHANGED <<way, port, started, freed>>
        /\ \/ todo \in Connections /\ todo' = todo + 1 /\ UNCHANGED <<op, pc>>
           \/ todo' = todo - 1 /\ pc' = "back" /\ pc = "depth" /\ UNCHANGED op
           \/ pc = "call" /\ todo' = todo - 1 /\ pc' = "back" /\ UNCHANGED op
           \/ pc' \in {"call", "port", "wait"} /\ UNCHANGED <<op, todo>>
           \/ op' = "none" /\ pc' = "idle" /\ todo' = 0
    BY DEF PortDisableNext, Finish
  <2>2. todo' \in 0 .. N + 1
    BY <2>1, Sizes DEF GraphTypes, ClientTypes, Calls, Places
  <2> QED BY <2>1, <2>2 DEF GraphTypes, ClientTypes
<1>4. LinkTypes' /\ QueueTypes' /\ PlaceTypes' /\ ThreadTypes' /\ BoundTypes'
  BY DEF LinkTypes, QueueTypes, PlaceTypes, ThreadTypes, BoundTypes, GraphTypes, PortDisableNext,
     links, data, worker
<1> QED BY <1>1, <1>2, <1>3, <1>4 DEF GraphTypes

\* GraphEnable keeps the types.
LEMMA GraphEnableTypes ==
  ASSUME GraphTypes, Places, Calls, Stopped, References, Hands, GraphEnable
  PROVE  GraphTypes'
<1>1. ThreadTypes'
  BY DEF ThreadTypes, GraphTypes, GraphEnable
<1>2. ClientTypes'
  BY Sizes DEF ClientTypes, GraphTypes, GraphEnable
<1>3. BoundTypes'
  BY Sizes DEF BoundTypes, GraphTypes, GraphEnable, Fault
<1>4. PortTypes' /\ LinkTypes' /\ QueueTypes' /\ PlaceTypes' /\ CallTypes'
  BY DEF PortTypes, LinkTypes, QueueTypes, PlaceTypes, CallTypes, GraphTypes, GraphEnable, ports,
     links, data, calls
<1> QED BY <1>1, <1>2, <1>3, <1>4 DEF GraphTypes

\* GraphDisable keeps the types.
LEMMA GraphDisableTypes ==
  ASSUME GraphTypes, Places, Calls, Stopped, References, Hands, GraphDisable
  PROVE  GraphTypes'
<1>1. ClientTypes'
  BY DEF ClientTypes, GraphTypes, GraphDisable
<1>2. PortTypes' /\ LinkTypes' /\ QueueTypes' /\ PlaceTypes' /\ ThreadTypes' /\ CallTypes' /\ BoundTypes'
  BY DEF PortTypes, LinkTypes, QueueTypes, PlaceTypes, ThreadTypes, CallTypes, BoundTypes,
     GraphTypes, GraphDisable, ports, links, data, worker, calls
<1> QED BY <1>1, <1>2 DEF GraphTypes

\* GraphDestroy keeps the types.
LEMMA GraphDestroyTypes ==
  ASSUME GraphTypes, Places, Calls, Stopped, References, Hands, GraphDestroy
  PROVE  GraphTypes'
<1>1. ClientTypes'
  BY Sizes DEF ClientTypes, GraphTypes, GraphDestroy
<1>2. PortTypes' /\ LinkTypes' /\ QueueTypes' /\ PlaceTypes' /\ ThreadTypes' /\ CallTypes' /\ BoundTypes'
  BY DEF PortTypes, LinkTypes, QueueTypes, PlaceTypes, ThreadTypes, CallTypes, BoundTypes,
     GraphTypes, GraphDestroy, ports, links, data, worker, calls
<1> QED BY <1>1, <1>2 DEF GraphTypes

\* PortFlush keeps the types.
LEMMA PortFlushTypes ==
  ASSUME GraphTypes, Places, Calls, Stopped, References, Hands, PortFlush
  PROVE  GraphTypes'
<1>1. QueueTypes'
  BY DEF QueueTypes, GraphTypes, PortFlush
<1>2. PlaceTypes'
  BY DEF PlaceTypes, GraphTypes, PortFlush, Pool
<1>3. ThreadTypes'
  BY Sizes DEF ThreadTypes, GraphTypes, PortFlush, Posted, worker
<1>4. BoundTypes'
  BY Sizes DEF BoundTypes, GraphTypes, PortFlush, client, Fault
<1>5. PortTypes' /\ LinkTypes' /\ CallTypes' /\ ClientTypes'
  BY DEF PortTypes, LinkTypes, CallTypes, ClientTypes, GraphTypes, PortFlush, client, ports,
     links, calls
<1> QED BY <1>1, <1>2, <1>3, <1>4, <1>5 DEF GraphTypes

\* ClientRelease keeps the types.
LEMMA ClientReleaseTypes ==
  ASSUME GraphTypes, Places, Calls, Stopped, References, Hands, NEW i \in Connections, ClientRelease(i)
  PROVE  GraphTypes'
<1>1. ClientTypes'
  BY Sizes DEF ClientTypes, GraphTypes, ClientRelease
<1>2. PortTypes' /\ LinkTypes' /\ QueueTypes' /\ PlaceTypes' /\ ThreadTypes' /\ CallTypes' /\ BoundTypes'
  BY DEF PortTypes, LinkTypes, QueueTypes, PlaceTypes, ThreadTypes, CallTypes, BoundTypes,
     GraphTypes, ClientRelease, ports, links, data, worker, calls
<1> QED BY <1>1, <1>2 DEF GraphTypes

\* PortEnable keeps the types.
LEMMA PortEnableTypes ==
  ASSUME GraphTypes, Places, Calls, Stopped, References, Hands, NEW p \in GraphPorts, PortEnable(p)
  PROVE  GraphTypes'
<1>1. PortTypes'
  BY DEF PortTypes, GraphTypes, PortEnable, client, First, Fault, links, data, worker, calls
<1>2. ClientTypes'
  BY Sizes DEF ClientTypes, GraphTypes, PortEnable, First
<1>3. BoundTypes'
  BY Sizes DEF BoundTypes, GraphTypes, PortEnable, Fault
<1>4. LinkTypes' /\ QueueTypes' /\ PlaceTypes' /\ ThreadTypes' /\ CallTypes'
  BY DEF LinkTypes, QueueTypes, PlaceTypes, ThreadTypes, CallTypes, GraphTypes, PortEnable,
     links, data, worker, calls
<1> QED BY <1>1, <1>2, <1>3, <1>4 DEF GraphTypes

\* PortDisable keeps the types.
LEMMA PortDisableTypes ==
  ASSUME GraphTypes, Places, Calls, Stopped, References, Hands, NEW p \in GraphPorts, PortDisable(p)
  PROVE  GraphTypes'
<1>1. PortTypes'
  BY DEF PortTypes, GraphTypes, PortDisable
<1>2. ClientTypes'
  BY Sizes DEF ClientTypes, GraphTypes, PortDisable
<1>3. LinkTypes' /\ QueueTypes' /\ PlaceTypes' /\ ThreadTypes' /\ CallTypes' /\ BoundTypes'
  BY DEF LinkTypes, QueueTypes, PlaceTypes, ThreadTypes, CallTypes, BoundTypes, GraphTypes,
     PortDisable, links, data, worker, calls
<1> QED BY <1>1, <1>2, <1>3 DEF GraphTypes

\* PortSend keeps the types.
LEMMA PortSendTypes ==
  ASSUME GraphTypes, Places, Calls, Stopped, References, Hands, NEW b \in ClientBuffers, PortSend(b)
  PROVE  GraphTypes'
<1>1. PlaceTypes'
  BY PortsOf, Owners, Sizes DEF PlaceTypes, GraphTypes, PortSend, Accepts
<1>2. PortTypes' /\ LinkTypes' /\ QueueTypes' /\ ThreadTypes' /\ CallTypes' /\ ClientTypes' /\ BoundTypes'
  BY DEF PortTypes, LinkTypes, QueueTypes, ThreadTypes, CallTypes, ClientTypes, BoundTypes,
     GraphTypes, PortSend, Accepts, ports, links, worker, calls, client
<1> QED BY <1>1, <1>2 DEF GraphTypes

-----------------------------------------------------------------------------
(* The places of the client and of the thread, and the references. *)

\* ReturnInput keeps the client and the thread in their places.
LEMMA ReturnInputControl ==
  ASSUME GraphTypes, Calls, Places, Stopped, References, NEW i \in 0 .. N, ReturnInput(i)
  PROVE  Calls' /\ Places' /\ Stopped' /\ References'
<1>1. Calls'
  BY DEF Calls, ReturnInput, worker, calls, client
<1>2. Places'
  BY DEF Places, ReturnInput, worker, client
<1>3. Stopped'
  BY DEF Stopped, ReturnInput, links, worker, client
<1>4. References'
  BY DEF References, ReturnInput, links, client
<1> QED BY <1>1, <1>2, <1>3, <1>4

\* ReturnOutput keeps the client and the thread in their places.
LEMMA ReturnOutputControl ==
  ASSUME GraphTypes, Calls, Places, Stopped, References, NEW i \in Connections, ReturnOutput(i)
  PROVE  Calls' /\ Places' /\ Stopped' /\ References'
<1>1. Calls'
  BY DEF Calls, ReturnOutput, worker, calls, client
<1>2. Places'
  BY DEF Places, ReturnOutput, worker, client
<1>3. Stopped'
  BY DEF Stopped, ReturnOutput, links, worker, client
<1>4. References'
  BY DEF References, ReturnOutput, links, client
<1> QED BY <1>1, <1>2, <1>3, <1>4

\* RaiseEvent keeps the client and the thread in their places.
LEMMA RaiseEventControl ==
  ASSUME GraphTypes, Calls, Places, Stopped, References, NEW i \in Connections, RaiseEvent(i)
  PROVE  Calls' /\ Places' /\ Stopped' /\ References'
<1>1. Calls'
  BY DEF Calls, RaiseEvent, worker, calls, client
<1>2. Places'
  BY DEF Places, RaiseEvent, worker, client
<1>3. Stopped'
  BY DEF Stopped, RaiseEvent, links, worker, client
<1>4. References'
  BY DEF References, RaiseEvent, links, client
<1> QED BY <1>1, <1>2, <1>3, <1>4

\* Notify keeps the client and the thread in their places.
LEMMA NotifyControl ==
  ASSUME GraphTypes, Calls, Places, Stopped, References, NEW p \in Ports, Notify(p)
  PROVE  Calls' /\ Places' /\ Stopped' /\ References'
<1>1. Calls'
  BY DEF Calls, Notify, worker, calls, client
<1>2. Places'
  BY DEF Places, Notify, worker, client
<1>3. Stopped'
  BY DEF Stopped, Notify, links, worker, client
<1>4. References'
  BY DEF References, Notify, links, client
<1> QED BY <1>1, <1>2, <1>3, <1>4

\* EnableConnection keeps the client and the thread in their places.
LEMMA EnableConnectionControl ==
  ASSUME GraphTypes, Calls, Places, Stopped, References, NEW t \in Threads, EnableConnection(t)
  PROVE  Calls' /\ Places' /\ Stopped' /\ References'
<1>1. Calls'
  BY DEF Calls, GraphTypes, CallTypes, EnableConnection, Return, Step, worker, client, Threads,
     Enabling
<1>2. Places'
  BY DEF Places, EnableConnection, worker, client
<1>3. Stopped'
  BY DEF Stopped, EnableConnection, worker, client
<1>4. References'
  BY DEF References, EnableConnection, client
<1> QED BY <1>1, <1>2, <1>3, <1>4

\* EnableOutput keeps the client and the thread in their places.
LEMMA EnableOutputControl ==
  ASSUME GraphTypes, Calls, Places, Stopped, References, NEW t \in Threads, EnableOutput(t)
  PROVE  Calls' /\ Places' /\ Stopped' /\ References'
<1>1. Calls'
  BY DEF Calls, GraphTypes, CallTypes, EnableOutput, Step, Return, worker, client, Threads,
     Enabling
<1>2. Places'
  BY DEF Places, EnableOutput, worker, client
<1>3. Stopped'
  BY DEF Stopped, EnableOutput, worker, client
<1>4. References'
  BY DEF References, EnableOutput, client
<1> QED BY <1>1, <1>2, <1>3, <1>4

\* EnableInput keeps the client and the thread in their places.
LEMMA EnableInputControl ==
  ASSUME GraphTypes, Calls, Places, Stopped, References, NEW t \in Threads, EnableInput(t)
  PROVE  Calls' /\ Places' /\ Stopped' /\ References'
<1>1. Calls'
  BY DEF Calls, GraphTypes, CallTypes, EnableInput, Return, Step, worker, client, Threads,
     Enabling
<1>2. Places'
  BY DEF Places, EnableInput, worker, client
<1>3. Stopped'
  BY DEF Stopped, EnableInput, worker, client
<1>4. References'
  BY DEF References, EnableInput, client
<1> QED BY <1>1, <1>2, <1>3, <1>4

\* EnableUndone keeps the client and the thread in their places.
LEMMA EnableUndoneControl ==
  ASSUME GraphTypes, Calls, Places, Stopped, References, NEW t \in Threads, EnableUndone(t)
  PROVE  Calls' /\ Places' /\ Stopped' /\ References'
<1>1. Calls'
  BY DEF Calls, EnableUndone, Return, Step, worker, client, Enabling
<1>2. Places'
  BY DEF Places, EnableUndone, worker, client
<1>3. Stopped'
  BY DEF Stopped, EnableUndone, worker, client
<1>4. References'
  BY DEF References, EnableUndone, client
<1> QED BY <1>1, <1>2, <1>3, <1>4

\* DisableConnection keeps the client and the thread in their places.
LEMMA DisableConnectionControl ==
  ASSUME GraphTypes, Calls, Places, Stopped, References, NEW t \in Threads, DisableConnection(t)
  PROVE  Calls' /\ Places' /\ Stopped' /\ References'
<1>1. Calls'
  BY DEF Calls, GraphTypes, CallTypes, DisableConnection, Return, Step, worker, client, Threads,
     Enabling
<1>2. Places'
  BY DEF Places, DisableConnection, worker, client
<1>3. Stopped'
  BY DEF Stopped, DisableConnection, worker, client
<1>4. References'
  BY DEF References, DisableConnection, client
<1> QED BY <1>1, <1>2, <1>3, <1>4

\* WaitInput keeps the client and the thread in their places.
LEMMA WaitInputControl ==
  ASSUME GraphTypes, Calls, Places, Stopped, References, NEW t \in Threads, WaitInput(t)
  PROVE  Calls' /\ Places' /\ Stopped' /\ References'
<1>1. Calls'
  BY DEF Calls, WaitInput, Step, worker, client, Enabling
<1>2. Places'
  BY DEF Places, WaitInput, worker, client
<1>3. Stopped'
  BY DEF Stopped, WaitInput, links, worker, client
<1>4. References'
  BY DEF References, WaitInput, links, client
<1> QED BY <1>1, <1>2, <1>3, <1>4

\* DisableOutput keeps the client and the thread in their places.
LEMMA DisableOutputControl ==
  ASSUME GraphTypes, Calls, Places, Stopped, References, NEW t \in Threads, DisableOutput(t)
  PROVE  Calls' /\ Places' /\ Stopped' /\ References'
<1>1. Calls'
  BY DEF Calls, GraphTypes, CallTypes, DisableOutput, Step, Return, worker, client, Threads,
     Enabling
<1>2. Places'
  BY DEF Places, DisableOutput, worker, client
<1>3. Stopped'
  BY DEF Stopped, DisableOutput, worker, client
<1>4. References'
  BY DEF References, DisableOutput, client
<1> QED BY <1>1, <1>2, <1>3, <1>4

\* WaitOutput keeps the client and the thread in their places.
LEMMA WaitOutputControl ==
  ASSUME GraphTypes, Calls, Places, Stopped, References, NEW t \in Threads, WaitOutput(t)
  PROVE  Calls' /\ Places' /\ Stopped' /\ References'
<1>1. Calls'
  BY DEF Calls, WaitOutput, Step, worker, client, Enabling
<1>2. Places'
  BY DEF Places, WaitOutput, worker, client
<1>3. Stopped'
  BY DEF Stopped, WaitOutput, links, worker, client
<1>4. References'
  BY DEF References, WaitOutput, links, client
<1> QED BY <1>1, <1>2, <1>3, <1>4

\* DrainQueue keeps the client and the thread in their places.
LEMMA DrainQueueControl ==
  ASSUME GraphTypes, Calls, Places, Stopped, References, NEW t \in Threads, DrainQueue(t)
  PROVE  Calls' /\ Places' /\ Stopped' /\ References'
<1>1. Calls'
  BY DEF Calls, DrainQueue, Step, worker, client, Enabling
<1>2. Places'
  BY DEF Places, DrainQueue, worker, client
<1>3. Stopped'
  BY DEF Stopped, DrainQueue, links, worker, client
<1>4. References'
  BY DEF References, DrainQueue, links, client
<1> QED BY <1>1, <1>2, <1>3, <1>4

\* DisableDone keeps the client and the thread in their places.
LEMMA DisableDoneControl ==
  ASSUME GraphTypes, Calls, Places, Stopped, References, NEW t \in Threads, DisableDone(t)
  PROVE  Calls' /\ Places' /\ Stopped' /\ References'
<1>1. Calls'
  BY DEF Calls, DisableDone, Return, Step, worker, client, Enabling
<1>2. Places'
  BY DEF Places, DisableDone, worker, client
<1>3. Stopped'
  BY DEF Stopped, DisableDone, worker, client
<1>4. References'
  BY DEF References, DisableDone, client
<1> QED BY <1>1, <1>2, <1>3, <1>4

\* WorkerWakes keeps the client and the thread in their places.
LEMMA WorkerWakesControl ==
  ASSUME GraphTypes, Calls, Places, Stopped, References, WorkerWakes
  PROVE  Calls' /\ Places' /\ Stopped' /\ References'
<1>1. Calls'
  BY DEF Calls, WorkerWakes, calls, client
<1>2. Places'
  BY DEF Places, WorkerWakes, client
<1>3. Stopped'
  BY DEF Stopped, WorkerWakes, links, client, ActionLocked
<1>4. References'
  BY DEF References, WorkerWakes, links, client
<1> QED BY <1>1, <1>2, <1>3, <1>4

\* TakeQueued keeps the client and the thread in their places.
LEMMA TakeQueuedControl ==
  ASSUME GraphTypes, Calls, Places, Stopped, References, TakeQueued
  PROVE  Calls' /\ Places' /\ Stopped' /\ References'
<1>1. Calls'
  BY DEF Calls, TakeQueued, calls, client
<1>2. Places'
  BY DEF Places, TakeQueued, client
<1>3. Stopped'
  BY DEF Stopped, TakeQueued, links, client, Asleep
<1>4. References'
  BY DEF References, TakeQueued, links, client
<1> QED BY <1>1, <1>2, <1>3, <1>4

\* SendQueued keeps the client and the thread in their places.
LEMMA SendQueuedControl ==
  ASSUME GraphTypes, Calls, Places, Stopped, References, SendQueued
  PROVE  Calls' /\ Places' /\ Stopped' /\ References'
<1>1. Calls'
  BY DEF Calls, SendQueued, calls, client
<1>2. Places'
  BY DEF Places, SendQueued, client
<1>3. Stopped'
  BY DEF Stopped, SendQueued, links, client, Asleep
<1>4. References'
  BY DEF References, SendQueued, links, client
<1> QED BY <1>1, <1>2, <1>3, <1>4

\* HandleEvent keeps the client and the thread in their places.
LEMMA HandleEventControl ==
  ASSUME GraphTypes, Calls, Places, Stopped, References, HandleEvent
  PROVE  Calls' /\ Places' /\ Stopped' /\ References'
<1>1. Calls'
  BY DEF Calls, GraphTypes, CallTypes, HandleEvent, calls, Begin, Step, client, Threads, Enabling
<1>2. Places'
  BY DEF Places, HandleEvent, client
<1>3. Stopped'
  BY DEF Stopped, HandleEvent, links, client, Asleep
<1>4. References'
  BY DEF References, HandleEvent, links, client
<1> QED BY <1>1, <1>2, <1>3, <1>4

\* Reconfigure keeps the client and the thread in their places.
LEMMA ReconfigureControl ==
  ASSUME GraphTypes, Calls, Places, Stopped, References, Reconfigure
  PROVE  Calls' /\ Places' /\ Stopped' /\ References'
<1>1. Calls'
  BY DEF Calls, GraphTypes, CallTypes, Reconfigure, Begin, Step, calls, client, Threads, Enabling
<1>2. Places'
  BY DEF Places, Reconfigure, client
<1>3. Stopped'
  BY DEF Stopped, Reconfigure, links, client, Asleep
<1>4. References'
  BY DEF References, Reconfigure, links, client
<1> QED BY <1>1, <1>2, <1>3, <1>4

\* TakeEmpty keeps the client and the thread in their places.
LEMMA TakeEmptyControl ==
  ASSUME GraphTypes, Calls, Places, Stopped, References, TakeEmpty
  PROVE  Calls' /\ Places' /\ Stopped' /\ References'
<1>1. Calls'
  BY DEF Calls, TakeEmpty, NextConnection, calls, client
<1>2. Places'
  BY DEF Places, TakeEmpty, client
<1>3. Stopped'
  BY DEF Stopped, TakeEmpty, links, client, Asleep
<1>4. References'
  BY DEF References, TakeEmpty, links, client
<1> QED BY <1>1, <1>2, <1>3, <1>4

\* SendEmpty keeps the client and the thread in their places.
LEMMA SendEmptyControl ==
  ASSUME GraphTypes, Calls, Places, Stopped, References, SendEmpty
  PROVE  Calls' /\ Places' /\ Stopped' /\ References'
<1>1. Calls'
  BY DEF Calls, SendEmpty, NextConnection, calls, client
<1>2. Places'
  BY DEF Places, SendEmpty, client
<1>3. Stopped'
  BY DEF Stopped, SendEmpty, links, client, Asleep
<1>4. References'
  BY DEF References, SendEmpty, links, client
<1> QED BY <1>1, <1>2, <1>3, <1>4

\* GraphEnableNext keeps the client and the thread in their places.
LEMMA GraphEnableNextControl ==
  ASSUME GraphTypes, Calls, Places, Stopped, References, GraphEnableNext
  PROVE  Calls' /\ Places' /\ Stopped' /\ References'
<1>1. Calls'
  BY DEF Calls, GraphTypes, CallTypes, GraphEnableNext, Begin, Step, Finish, calls, worker,
     Threads, Enabling
<1>2. Places'
  BY DEF Places, GraphEnableNext, Finish
<1>3. Stopped'
  BY DEF Stopped, GraphEnableNext, Finish, worker
<1>4. References'
  BY DEF References, GraphEnableNext, Finish, links
<1> QED BY <1>1, <1>2, <1>3, <1>4

\* GraphEnableCalled keeps the client and the thread in their places.
LEMMA GraphEnableCalledControl ==
  ASSUME GraphTypes, Calls, Places, Stopped, References, GraphEnableCalled
  PROVE  Calls' /\ Places' /\ Stopped' /\ References'
<1>1. Calls'
  BY DEF Calls, GraphEnableCalled, worker, calls
<1>2. Places'
  BY DEF Places, GraphEnableCalled
<1>3. Stopped'
  BY DEF Stopped, GraphEnableCalled, worker
<1>4. References'
  BY DEF References, GraphEnableCalled, links
<1> QED BY <1>1, <1>2, <1>3, <1>4

\* StopWorker keeps the client and the thread in their places.
LEMMA StopWorkerControl ==
  ASSUME GraphTypes, Calls, Places, Stopped, References, StopWorker
  PROVE  Calls' /\ Places' /\ Stopped' /\ References'
<1>1. Calls'
  BY DEF Calls, StopWorker, calls
<1>2. Places'
  BY DEF Places, StopWorker
<1>3. Stopped'
  BY DEF Stopped, StopWorker
<1>4. References'
  BY DEF References, StopWorker, links
<1> QED BY <1>1, <1>2, <1>3, <1>4

\* JoinWorker keeps the client and the thread in their places.
LEMMA JoinWorkerControl ==
  ASSUME GraphTypes, Calls, Places, Stopped, References, JoinWorker
  PROVE  Calls' /\ Places' /\ Stopped' /\ References'
<1>1. Calls'
  BY DEF Calls, JoinWorker, Finish, worker, calls, Enabling
<1>2. Places'
  BY DEF Places, JoinWorker, Finish
<1>3. Stopped'
  BY DEF Stopped, Places, JoinWorker, Finish, worker, Joined
<1>4. References'
  BY DEF References, Places, JoinWorker, Finish, links
<1> QED BY <1>1, <1>2, <1>3, <1>4

\* GraphDisableNext keeps the client and the thread in their places.
LEMMA GraphDisableNextControl ==
  ASSUME GraphTypes, Calls, Places, Stopped, References, GraphDisableNext
  PROVE  Calls' /\ Places' /\ Stopped' /\ References'
<1>1. Calls'
  BY DEF Calls, GraphTypes, CallTypes, GraphDisableNext, Begin, Step, calls, Finish, worker,
     Threads, Enabling
<1>2. Places'
  BY DEF Places, GraphDisableNext, Finish
<1>3. Stopped'
  BY DEF Stopped, GraphDisableNext, Finish, worker
<1>4. References'
  BY DEF References, GraphDisableNext, Finish, links
<1> QED BY <1>1, <1>2, <1>3, <1>4

\* ReleaseNext keeps the client and the thread in their places.
LEMMA ReleaseNextControl ==
  ASSUME GraphTypes, Calls, Places, Stopped, References, ReleaseNext
  PROVE  Calls' /\ Places' /\ Stopped' /\ References'
<1>1. Calls'
  BY DEF Calls, GraphTypes, CallTypes, ReleaseNext, Begin, Step, Finish, calls, worker, Threads,
     Enabling
<1>2. Places'
  BY DEF Places, GraphTypes, ClientTypes, ReleaseNext, Finish
<1>3. Stopped'
  BY DEF Stopped, ReleaseNext, Finish, worker, LastReference
<1>4. References'
  <2>1. /\ todo \in Connections /\ pc = "next" /\ UNCHANGED freed
        /\ refcount' = [refcount EXCEPT ![todo] = @ - 1]
    BY DEF ReleaseNext
  <2>2. refcount \in [Connections -> 0 .. 2]
    BY DEF GraphTypes, LinkTypes
  <2>3. CASE op = "destroy"
    <3>1. \/ op' = op /\ todo' = todo /\ pc' = "call"
          \/ op' = op /\ todo' = todo + 1
      BY <2>3 DEF ReleaseNext
    <3> QED BY <2>1, <2>2, <2>3, <3>1, Sizes DEF References
  <2>4. CASE op = "release"
    <3>1. op' \in {"none", "release"}
      BY <2>4 DEF ReleaseNext, Finish
    <3>2. ~freed => refcount[todo] = 2
      BY <2>1, <2>4 DEF Stopped
    <3> QED BY <2>1, <2>2, <2>4, <3>1, <3>2 DEF References
  <2> QED BY <2>3, <2>4 DEF ReleaseNext
<1> QED BY <1>1, <1>2, <1>3, <1>4

\* ReleaseCalled keeps the client and the thread in their places.
LEMMA ReleaseCalledControl ==
  ASSUME GraphTypes, Calls, Places, Stopped, References, ReleaseCalled
  PROVE  Calls' /\ Places' /\ Stopped' /\ References'
<1>1. Calls'
  BY DEF Calls, ReleaseCalled, Finish, worker, calls
<1>2. Places'
  BY DEF Places, GraphTypes, ClientTypes, ReleaseCalled, Finish
<1>3. Stopped'
  BY DEF Stopped, ReleaseCalled, Finish, worker
<1>4. References'
  BY Sizes DEF References, Calls, ReleaseCalled, Finish
<1> QED BY <1>1, <1>2, <1>3, <1>4

\* Destroyed keeps the client and the thread in their places.
LEMMA DestroyedControl ==
  ASSUME GraphTypes, Calls, Places, Stopped, References, Destroyed
  PROVE  Calls' /\ Places' /\ Stopped' /\ References'
<1>1. Calls'
  BY DEF Calls, Destroyed, Finish, worker, calls
<1>2. Places'
  BY DEF Places, Destroyed, Finish
<1>3. Stopped'
  BY DEF Stopped, Destroyed, Finish, worker
<1>4. References'
  BY DEF References, Destroyed, Finish
<1> QED BY <1>1, <1>2, <1>3, <1>4

\* PortEnableNext keeps the client and the thread in their places.
LEMMA PortEnableNextControl ==
  ASSUME GraphTypes, Calls, Places, Stopped, References, PortEnableNext
  PROVE  Calls' /\ Places' /\ Stopped' /\ References'
<1>1. Calls'
  BY DEF Calls, GraphTypes, CallTypes, PortEnableNext, Begin, Step, calls, PortEnabled, Finish,
     worker, Threads, Enabling
<1>2. Places'
  BY DEF Places, PortEnableNext, PortEnabled, Finish
<1>3. Stopped'
  BY DEF Stopped, PortEnableNext, PortEnabled, Finish, worker
<1>4. References'
  BY DEF References, PortEnableNext, PortEnabled, Finish, links
<1> QED BY <1>1, <1>2, <1>3, <1>4

\* PortDisableNext keeps the client and the thread in their places.
LEMMA PortDisableNextControl ==
  ASSUME GraphTypes, Calls, Places, Stopped, References, PortDisableNext
  PROVE  Calls' /\ Places' /\ Stopped' /\ References'
<1>1. Calls'
  BY Sizes DEF Calls, Places, GraphTypes, CallTypes, ClientTypes, PortDisableNext, calls, Begin,
     Step, Finish, worker, Threads, Enabling
<1>2. Places'
  BY Sizes DEF Places, GraphTypes, ClientTypes, PortDisableNext, Finish
<1>3. Stopped'
  BY DEF Stopped, PortDisableNext, Finish, worker
<1>4. References'
  BY DEF References, PortDisableNext, Finish, links
<1> QED BY <1>1, <1>2, <1>3, <1>4

\* GraphEnable keeps the client and the thread in their places.
LEMMA GraphEnableControl ==
  ASSUME GraphTypes, Calls, Places, Stopped, References, GraphEnable
  PROVE  Calls' /\ Places' /\ Stopped' /\ References'
<1>1. Calls'
  <2>1. step["client"] = "none" /\ UNCHANGED <<step, cx>>
    BY DEF GraphEnable, Idle, calls
  <2>2. \/ op' = "enable" /\ pc' = "next" /\ wpc' = "wait"
        \/ UNCHANGED <<wpc, op, pc, todo>>
    BY DEF GraphEnable
  <2>3. UNCHANGED wcx /\ op = "none" /\ wpc = "none" 
    BY DEF GraphEnable, Idle, Stopped
  <2> QED BY <2>1, <2>2, <2>3 DEF Calls, Enabling
<1>2. Places'
  BY DEF Places, GraphEnable
<1>3. Stopped'
  BY DEF Stopped, GraphEnable, links
<1>4. References'
  BY DEF References, GraphEnable, links, Idle
<1> QED BY <1>1, <1>2, <1>3, <1>4

\* GraphDisable keeps the client and the thread in their places.
LEMMA GraphDisableControl ==
  ASSUME GraphTypes, Calls, Places, Stopped, References, GraphDisable
  PROVE  Calls' /\ Places' /\ Stopped' /\ References'
<1>1. Calls'
  BY DEF Calls, GraphDisable, worker, calls, Idle
<1>2. Places'
  BY DEF Places, GraphDisable
<1>3. Stopped'
  BY DEF Stopped, GraphDisable, worker
<1>4. References'
  BY DEF References, GraphDisable, links, Idle
<1> QED BY <1>1, <1>2, <1>3, <1>4

\* GraphDestroy keeps the client and the thread in their places.
LEMMA GraphDestroyControl ==
  ASSUME GraphTypes, Calls, Places, Stopped, References, GraphDestroy
  PROVE  Calls' /\ Places' /\ Stopped' /\ References'
<1>1. Calls'
  BY DEF Calls, GraphDestroy, worker, calls, Idle
<1>2. Places'
  BY DEF Places, GraphDestroy
<1>3. Stopped'
  BY DEF Stopped, GraphTypes, ClientTypes, GraphDestroy, worker, Idle
<1>4. References'
  BY DEF References, GraphDestroy, links, Idle
<1> QED BY <1>1, <1>2, <1>3, <1>4

\* PortFlush keeps the client and the thread in their places.
LEMMA PortFlushControl ==
  ASSUME GraphTypes, Calls, Places, Stopped, References, PortFlush
  PROVE  Calls' /\ Places' /\ Stopped' /\ References'
<1>1. Calls'
  BY DEF Calls, PortFlush, client, worker, calls
<1>2. Places'
  BY DEF Places, PortFlush, client, worker
<1>3. Stopped'
  BY DEF Stopped, PortFlush, client, links, worker
<1>4. References'
  BY DEF References, PortFlush, client, links
<1> QED BY <1>1, <1>2, <1>3, <1>4

\* ClientRelease keeps the client and the thread in their places.
LEMMA ClientReleaseControl ==
  ASSUME GraphTypes, Calls, Places, Stopped, References, NEW i \in Connections, ClientRelease(i)
  PROVE  Calls' /\ Places' /\ Stopped' /\ References'
<1>1. Calls'
  BY DEF Calls, ClientRelease, worker, calls, Idle
<1>2. Places'
  BY DEF Places, ClientRelease
<1>3. Stopped'
  BY DEF Stopped, ClientRelease, links, worker, Idle
<1>4. References'
  BY DEF References, ClientRelease, links, Idle
<1> QED BY <1>1, <1>2, <1>3, <1>4

\* PortEnable keeps the client and the thread in their places.
LEMMA PortEnableControl ==
  ASSUME GraphTypes, Calls, Places, Stopped, References, NEW p \in GraphPorts, PortEnable(p)
  PROVE  Calls' /\ Places' /\ Stopped' /\ References'
<1>1. Calls'
  BY DEF Calls, PortEnable, worker, calls, Idle
<1>2. Places'
  BY DEF Places, PortEnable, worker
<1>3. Stopped'
  BY DEF Stopped, PortEnable, links, worker
<1>4. References'
  BY DEF References, PortEnable, links, Idle
<1> QED BY <1>1, <1>2, <1>3, <1>4

\* PortDisable keeps the client and the thread in their places.
LEMMA PortDisableControl ==
  ASSUME GraphTypes, Calls, Places, Stopped, References, NEW p \in GraphPorts, PortDisable(p)
  PROVE  Calls' /\ Places' /\ Stopped' /\ References'
<1>1. Calls'
  BY DEF Calls, PortDisable, worker, calls, Idle
<1>2. Places'
  BY DEF Places, PortDisable
<1>3. Stopped'
  BY DEF Stopped, PortDisable, worker, Asleep, Idle
<1>4. References'
  BY DEF References, PortDisable, links, Idle
<1> QED BY <1>1, <1>2, <1>3, <1>4

\* PortSend keeps the client and the thread in their places.
LEMMA PortSendControl ==
  ASSUME GraphTypes, Calls, Places, Stopped, References, NEW b \in ClientBuffers, PortSend(b)
  PROVE  Calls' /\ Places' /\ Stopped' /\ References'
<1>1. Calls'
  BY DEF Calls, PortSend, worker, calls, client
<1>2. Places'
  BY DEF Places, PortSend, worker, client
<1>3. Stopped'
  BY DEF Stopped, PortSend, links, worker, client
<1>4. References'
  BY DEF References, PortSend, links, client
<1> QED BY <1>1, <1>2, <1>3, <1>4

-----------------------------------------------------------------------------
(* Where the buffers are. *)

\* What a buffer that has been at an output port is.
LEMMA AtOutput ==
  ASSUME Kinds, NEW i \in Connections, NEW b \in Buffers, at[b] = Out(i)
  PROVE  b \in Headers[i]
<1>1. b \in AllHeaders \/ b \in AllEvents \/ b \in ClientBuffers
  BY Owners
<1>2. CASE b \in AllHeaders
  BY <1>2, Owners, PlacesApart DEF Kinds
<1>3. CASE b \in AllEvents
  BY <1>3, Owners, PlacesApart DEF Kinds
<1>4. CASE b \in ClientBuffers
  BY <1>4, PortsOf, PlacesApart DEF Kinds
<1> QED BY <1>1, <1>2, <1>3, <1>4

\* A buffer goes to a place that is one for its kind.
LEMMA KindsMove ==
  ASSUME GraphTypes, Kinds, NEW b \in Buffers, NEW l, at' = [at EXCEPT ![b] = l],
         \A i \in Connections : b \in Headers[i] => l \in {None, Pool, Queue, Hand, Out(i), In(i)},
         \A i \in Connections : b \in Events[i] => l \in {Pool, Queue, Hand, In(i)},
         b \in ClientBuffers => l \in {Pool, GraphIn}
  PROVE  Kinds'
BY Owners DEF Kinds, GraphTypes, PlaceTypes

\* Buffers are released, or headers destroyed.
LEMMA KindsRelease ==
  ASSUME GraphTypes, Kinds, NEW S, NEW l \in {Pool, None}, l = None => S \subseteq AllHeaders,
         at' = [b \in Buffers |-> IF b \in S THEN l ELSE at[b]]
  PROVE  Kinds'
BY Owners DEF Kinds, GraphTypes, PlaceTypes

\* A buffer that moves, but not into a queue, leaves the queues as they are described.
LEMMA QueuedMove ==
  ASSUME GraphTypes, Queued, NEW b \in Buffers, NEW l, l # Queue, at' = [at EXCEPT ![b] = l], UNCHANGED queue
  PROVE  Queued'
BY Owners DEF Queued, GraphTypes, PlaceTypes

\* So do buffers that are given back together, with the queues that are emptied.
LEMMA QueuedRelease ==
  ASSUME GraphTypes, Queued, NEW S, NEW l, l # Queue,
         at' = [b \in Buffers |-> IF b \in S THEN l ELSE at[b]],
         \A i \in Connections : \/ queue'[i] = queue[i]
                                \/ queue'[i] = <<>> /\ \A k \in DOMAIN queue[i] : queue[i][k] \in S
  PROVE  Queued'
<1>1. \A b \in Buffers : at'[b] = Queue => at[b] = Queue /\ b \notin S
  OBVIOUS
<1>2. ASSUME NEW i \in Connections
      PROVE  /\ \A k \in DOMAIN queue'[i] : queue'[i][k] \in Own(i)
             /\ \A b \in Headers[i] : at'[b] = Queue => \E k \in DOMAIN queue'[i] : queue'[i][k] = b
  <2>1. CASE queue'[i] = queue[i]
    BY <1>1, <2>1, Owners DEF Queued
  <2>2. CASE queue'[i] = <<>> /\ \A k \in DOMAIN queue[i] : queue[i][k] \in S
    BY <1>1, <2>2, Owners DEF Queued
  <2> QED BY <2>1, <2>2
<1> QED BY <1>2 DEF Queued

\* A buffer is put at the end of a queue.
LEMMA QueuedAppend ==
  ASSUME GraphTypes, Queued, NEW i \in Connections, NEW b \in Own(i), at' = [at EXCEPT ![b] = Queue],
         queue' = [queue EXCEPT ![i] = Append(@, b)]
  PROVE  Queued'
<1>1. queue[i] \in Seq(Buffers) /\ b \in Buffers
  BY Owners DEF GraphTypes, QueueTypes, Own
<1> DEFINE s == Append(queue[i], b)
<1>2. /\ Len(s) = Len(queue[i]) + 1 /\ Len(queue[i]) \in Nat /\ DOMAIN s = 1 .. Len(s)
      /\ DOMAIN queue[i] = 1 .. Len(queue[i])
      /\ s[Len(s)] = b /\ \A k \in 1 .. Len(queue[i]) : s[k] = queue[i][k]
  BY <1>1
<1>3. queue'[i] = s /\ \A j \in Connections : j # i => queue'[j] = queue[j]
  BY DEF GraphTypes, QueueTypes
<1>4. \A c \in Buffers : c # b => at'[c] = at[c]
  BY DEF GraphTypes, PlaceTypes
<1> HIDE DEF s
<1>5. ASSUME NEW j \in Connections
      PROVE  /\ \A k \in DOMAIN queue'[j] : queue'[j][k] \in Own(j)
             /\ \A c \in Headers[j] : at'[c] = Queue => \E k \in DOMAIN queue'[j] : queue'[j][k] = c
  <2>1. CASE j = i
    <3>1. \A k \in DOMAIN s : s[k] \in Own(i)
      BY <1>2 DEF Queued
    <3>2. ASSUME NEW c \in Headers[i], at'[c] = Queue PROVE \E k \in DOMAIN s : s[k] = c
      <4>1. CASE c = b
        BY <1>2, <4>1
      <4>2. CASE c # b
        <5>1. PICK k \in DOMAIN queue[i] : queue[i][k] = c
          BY <1>4, <3>2, <4>2, Owners DEF Queued
        <5> QED BY <1>2, <5>1
      <4> QED BY <4>1, <4>2
    <3> QED BY <1>3, <2>1, <3>1, <3>2
  <2>2. CASE j # i
    <3>1. \A c \in Headers[j] : c # b /\ c \in Buffers
      BY <2>2, Owners DEF Own
    <3> QED BY <1>3, <1>4, <2>2, <3>1 DEF Queued
  <2> QED BY <2>1, <2>2
<1> QED BY <1>5 DEF Queued

\* A buffer that moves, but not into the hands of the thread, is none that it has.
LEMMA HandsMove ==
  ASSUME GraphTypes, Hands, NEW b \in Buffers, NEW l, l # Hand, at' = [at EXCEPT ![b] = l],
         UNCHANGED <<wpc, wcx, wbuffer>>
  PROVE  Hands'
BY DEF Hands, GraphTypes, PlaceTypes

\* So do buffers that are given back together.
LEMMA HandsRelease ==
  ASSUME GraphTypes, Hands, NEW S, NEW l, l # Hand, UNCHANGED <<wpc, wcx, wbuffer>>,
         at' = [b \in Buffers |-> IF b \in S THEN l ELSE at[b]]
  PROVE  Hands'
BY DEF Hands

\* The thread passes on the buffer it has.
LEMMA HandEmptied ==
  ASSUME GraphTypes, Hands, wbuffer \in Buffers, NEW l, l # Hand, at' = [at EXCEPT ![wbuffer] = l],
         wbuffer' = NoBuffer, wpc' \in {"none", "wait", "queue", "pool"}
  PROVE  Hands'
BY DEF Hands, GraphTypes, PlaceTypes

\* The thread takes a buffer.
LEMMA HandFilled ==
  ASSUME GraphTypes, Hands, wpc \in {"queue", "pool"}, UNCHANGED wcx, NEW b \in Buffers,
         at' = [at EXCEPT ![b] = Hand], wbuffer' = b,
         \/ wpc' \in {"send", "fill"} /\ b \in Headers[wcx]
         \/ wpc' = "event" /\ b \in Events[wcx]
  PROVE  Hands'
<1>1. \A c \in Buffers : at[c] # Hand
  BY Owners DEF Hands
<1> QED BY <1>1 DEF Hands, GraphTypes, PlaceTypes

\* What the thread has at hand.
LEMMA HandHolds ==
  ASSUME GraphTypes, Hands
  PROVE  /\ wcx \in Connections
         /\ wpc \in {"send", "fill"} => /\ wbuffer \in Buffers /\ wbuffer \in Headers[wcx]
                                        /\ wbuffer \notin ClientBuffers
                                        /\ \A i \in Connections : wbuffer \notin Events[i]
                                        /\ \A i \in Connections : wbuffer \in Headers[i] => i = wcx
         /\ wpc \in {"event", "disable", "enable"} =>
              /\ wbuffer \in Buffers /\ wbuffer \in Events[wcx]
              /\ wbuffer \notin ClientBuffers
              /\ \A i \in Connections : wbuffer \notin Headers[i]
              /\ \A i \in Connections : wbuffer \in Events[i] => i = wcx
<1>1. wcx \in Connections
  BY DEF GraphTypes, ThreadTypes
<1>2. ASSUME NEW b \in Headers[wcx]
      PROVE  /\ b \in Buffers /\ b \notin ClientBuffers
             /\ \A i \in Connections : b \notin Events[i]
             /\ \A i \in Connections : b \in Headers[i] => i = wcx
  BY <1>1, Owners DEF Own
<1>3. ASSUME NEW b \in Events[wcx]
      PROVE  /\ b \in Buffers /\ b \notin ClientBuffers
             /\ \A i \in Connections : b \notin Headers[i]
             /\ \A i \in Connections : b \in Events[i] => i = wcx
  BY <1>1, Owners DEF Own
<1> QED BY <1>1, <1>2, <1>3 DEF Hands

\* ReturnInput keeps the buffers where they may be.
LEMMA ReturnInputData ==
  ASSUME GraphIInv, NEW i \in 0 .. N, ReturnInput(i)
  PROVE  Kinds' /\ Queued' /\ Hands' /\ Resized' /\ Emptied'
<1>1. Kinds'
  <2>1. \E b \in Buffers : at' = [at EXCEPT ![b] = Pool]
    BY DEF ReturnInput, Pool
  <2> QED BY <2>1, KindsMove DEF GraphIInv
<1>2. Queued'
  <2>1. UNCHANGED queue /\ \E b \in Buffers : at' = [at EXCEPT ![b] = Pool]
    BY DEF ReturnInput, Pool
  <2> QED BY <2>1, QueuedMove, PlacesApart DEF GraphIInv
<1>3. Hands'
  <2>1. UNCHANGED worker /\ \E b \in Buffers : at' = [at EXCEPT ![b] = Pool]
    BY DEF ReturnInput, Pool
  <2> QED BY <2>1, HandsMove, PlacesApart DEF GraphIInv, worker
<1>4. Resized'
  BY DEF Resized, GraphIInv, ReturnInput, links, calls, client, None
<1>5. Emptied'
  BY DEF Emptied, GraphIInv, GraphTypes, CallTypes, Kinds, Hands, ReturnInput, ports, calls,
     client, Enabling, Asleep, None, Pool, Hand, In, Out
<1> QED BY <1>1, <1>2, <1>3, <1>4, <1>5

\* ReturnOutput keeps the buffers where they may be.
LEMMA ReturnOutputData ==
  ASSUME GraphIInv, NEW i \in Connections, ReturnOutput(i)
  PROVE  Kinds' /\ Queued' /\ Hands' /\ Resized' /\ Emptied'
<1>1. Kinds'
  <2>1. PICK b \in Buffers : /\ at[b] = Out(i) /\ at' = [at EXCEPT ![b] = Queue]
                              /\ queue' = [queue EXCEPT ![i] = Append(@, b)]
    BY DEF ReturnOutput, Queue, Out
  <2>2. b \in Headers[i] /\ b \in Own(i)
    BY <2>1, AtOutput DEF GraphIInv, Own
  <2>3. /\ \A j \in Connections : b \notin Events[j]
        /\ b \notin ClientBuffers
    BY <2>2, Owners
  <2> QED BY <2>1, <2>3, KindsMove DEF GraphIInv
<1>2. Queued'
  <2>1. PICK b \in Buffers : /\ at[b] = Out(i) /\ at' = [at EXCEPT ![b] = Queue]
                              /\ queue' = [queue EXCEPT ![i] = Append(@, b)]
    BY DEF ReturnOutput, Queue, Out
  <2>2. b \in Headers[i] /\ b \in Own(i)
    BY <2>1, AtOutput DEF GraphIInv, Own
  <2> QED BY <2>1, <2>2, QueuedAppend DEF GraphIInv
<1>3. Hands'
  BY Owners, PlacesApart DEF Hands, GraphIInv, ReturnOutput, worker, Pool, Queue, Out
<1>4. Resized'
  BY DEF Resized, GraphIInv, ReturnOutput, links, calls, client, None
<1>5. Emptied'
  BY DEF Emptied, GraphIInv, GraphTypes, CallTypes, Kinds, Places, ClientTypes, ReturnOutput,
     worker, calls, client, Threads, Enabling, Asleep, None, Pool, Queue, Hand, In, Out
<1> QED BY <1>1, <1>2, <1>3, <1>4, <1>5

\* RaiseEvent keeps the buffers where they may be.
LEMMA RaiseEventData ==
  ASSUME GraphIInv, NEW i \in Connections, RaiseEvent(i)
  PROVE  Kinds' /\ Queued' /\ Hands' /\ Resized' /\ Emptied'
<1>1. Kinds'
  <2>1. PICK e \in Events[i] : /\ at' = [at EXCEPT ![e] = Queue]
                                /\ queue' = [queue EXCEPT ![i] = Append(@, e)]
    BY DEF RaiseEvent, Queue
  <2>2. e \in Own(i) /\ e \in Buffers
    BY Owners DEF Own
  <2>3. /\ \A j \in Connections : e \notin Headers[j]
        /\ e \notin ClientBuffers
    BY <2>2, Owners
  <2> QED BY <2>1, <2>2, <2>3, KindsMove DEF GraphIInv
<1>2. Queued'
  <2>1. PICK e \in Events[i] : /\ at' = [at EXCEPT ![e] = Queue]
                                /\ queue' = [queue EXCEPT ![i] = Append(@, e)]
    BY DEF RaiseEvent, Queue
  <2>2. e \in Own(i) /\ e \in Buffers
    BY Owners DEF Own
  <2> QED BY <2>1, <2>2, QueuedAppend DEF GraphIInv
<1>3. Hands'
  <2>1. PICK e \in Events[i] : /\ at' = [at EXCEPT ![e] = Queue]
                                /\ queue' = [queue EXCEPT ![i] = Append(@, e)]
    BY DEF RaiseEvent, Queue
  <2>2. e \in Own(i) /\ e \in Buffers
    BY Owners DEF Own
  <2>3. UNCHANGED worker
    BY DEF RaiseEvent
  <2> QED BY <2>1, <2>2, <2>3, HandsMove, PlacesApart DEF GraphIInv, worker
<1>4. Resized'
  BY DEF Resized, GraphIInv, RaiseEvent, links, calls, client, None
<1>5. Emptied'
  <2>1. PICK e \in Events[i] : /\ at' = [at EXCEPT ![e] = Queue]
                                /\ queue' = [queue EXCEPT ![i] = Append(@, e)]
    BY DEF RaiseEvent, Queue
  <2>2. e \in Own(i) /\ e \in Buffers
    BY Owners DEF Own
  <2>3. \A j \in Connections : e \notin Headers[j]
    BY <2>2, Owners
  <2>4. \A j \in Connections : \A b \in Headers[j] : at'[b] = at[b]
    BY <2>1, <2>3, Owners DEF GraphIInv, GraphTypes, PlaceTypes
  <2>5. UNCHANGED <<step, cx>> /\ \A t \in Threads : cx[t] \in Connections
    BY DEF RaiseEvent, calls, GraphIInv, GraphTypes, CallTypes
  <2> QED BY <2>4, <2>5 DEF Emptied, GraphIInv
<1> QED BY <1>1, <1>2, <1>3, <1>4, <1>5

\* Notify keeps the buffers where they may be.
LEMMA NotifyData ==
  ASSUME GraphIInv, NEW p \in Ports, Notify(p)
  PROVE  Kinds' /\ Queued' /\ Hands' /\ Resized' /\ Emptied'
<1>1. Kinds'
  BY DEF Kinds, GraphIInv, Notify, data
<1>2. Queued'
  BY DEF Queued, GraphIInv, Notify, data
<1>3. Hands'
  BY DEF Hands, GraphIInv, Notify, data, worker
<1>4. Resized'
  BY DEF Resized, GraphIInv, Notify, links, data, calls, client
<1>5. Emptied'
  BY DEF Emptied, GraphIInv, Notify, data, calls
<1> QED BY <1>1, <1>2, <1>3, <1>4, <1>5

\* EnableConnection keeps the buffers where they may be.
LEMMA EnableConnectionData ==
  ASSUME GraphIInv, NEW t \in Threads, EnableConnection(t)
  PROVE  Kinds' /\ Queued' /\ Hands' /\ Resized' /\ Emptied'
<1>1. Kinds'
  <2> DEFINE S == {b \in Buffers : b \in Headers[cx[t]] /\ ~sized[cx[t]]}
  <2>1. at' = at \/ at' = [b \in Buffers |-> IF b \in S THEN Pool ELSE at[b]]
    BY DEF EnableConnection, Pool
  <2>2. UNCHANGED <<queue, wpc, wcx, wbuffer>>
    BY DEF EnableConnection, worker
  <2> HIDE DEF S
  <2>3. CASE at' = at
    BY <2>3 DEF GraphIInv, Kinds
  <2>4. CASE at' = [b \in Buffers |-> IF b \in S THEN Pool ELSE at[b]]
    BY <2>4, KindsRelease, PlacesApart DEF GraphIInv
  <2> QED BY <2>1, <2>3, <2>4
<1>2. Queued'
  <2> DEFINE S == {b \in Buffers : b \in Headers[cx[t]] /\ ~sized[cx[t]]}
  <2>1. at' = at \/ at' = [b \in Buffers |-> IF b \in S THEN Pool ELSE at[b]]
    BY DEF EnableConnection, Pool
  <2>2. UNCHANGED <<queue, wpc, wcx, wbuffer>>
    BY DEF EnableConnection, worker
  <2> HIDE DEF S
  <2>3. CASE at' = at
    BY <2>2, <2>3 DEF GraphIInv, Queued
  <2>4. CASE at' = [b \in Buffers |-> IF b \in S THEN Pool ELSE at[b]]
    BY <2>2, <2>4, QueuedRelease, PlacesApart DEF GraphIInv
  <2> QED BY <2>1, <2>3, <2>4
<1>3. Hands'
  <2> DEFINE S == {b \in Buffers : b \in Headers[cx[t]] /\ ~sized[cx[t]]}
  <2>1. at' = at \/ at' = [b \in Buffers |-> IF b \in S THEN Pool ELSE at[b]]
    BY DEF EnableConnection, Pool
  <2>2. UNCHANGED <<queue, wpc, wcx, wbuffer>>
    BY DEF EnableConnection, worker
  <2> HIDE DEF S
  <2>3. CASE at' = at
    BY <2>2, <2>3 DEF GraphIInv, Hands
  <2>4. CASE at' = [b \in Buffers |-> IF b \in S THEN Pool ELSE at[b]]
    BY <2>2, <2>4, HandsRelease, PlacesApart DEF GraphIInv
  <2> QED BY <2>1, <2>3, <2>4
<1>4. Resized'
  BY Owners, PlacesApart DEF Resized, GraphIInv, GraphTypes, LinkTypes, CallTypes, Calls,
     ClientTypes, EnableConnection, Return, Step, Fault, client, Threads, Enabling, Disabling,
     Midway, None, In, Out
<1>5. Emptied'
  BY Owners DEF Emptied, GraphIInv, GraphTypes, CallTypes, EnableConnection, Return, Step,
     Threads, Asleep, Pool, Queue, In, Out
<1> QED BY <1>1, <1>2, <1>3, <1>4, <1>5

\* EnableOutput keeps the buffers where they may be.
LEMMA EnableOutputData ==
  ASSUME GraphIInv, NEW t \in Threads, EnableOutput(t)
  PROVE  Kinds' /\ Queued' /\ Hands' /\ Resized' /\ Emptied'
<1>1. Kinds'
  BY DEF Kinds, GraphIInv, EnableOutput, data
<1>2. Queued'
  BY DEF Queued, GraphIInv, EnableOutput, data
<1>3. Hands'
  BY DEF Hands, GraphIInv, EnableOutput, data, worker
<1>4. Resized'
  BY DEF Resized, GraphIInv, GraphTypes, LinkTypes, CallTypes, Calls, EnableOutput, Step, Return,
     data, client, Threads, Midway
<1>5. Emptied'
  BY DEF Emptied, GraphIInv, GraphTypes, CallTypes, EnableOutput, Step, Return, data
<1> QED BY <1>1, <1>2, <1>3, <1>4, <1>5

\* EnableInput keeps the buffers where they may be.
LEMMA EnableInputData ==
  ASSUME GraphIInv, NEW t \in Threads, EnableInput(t)
  PROVE  Kinds' /\ Queued' /\ Hands' /\ Resized' /\ Emptied'
<1>1. Kinds'
  BY DEF Kinds, GraphIInv, EnableInput, data
<1>2. Queued'
  BY DEF Queued, GraphIInv, EnableInput, data
<1>3. Hands'
  BY DEF Hands, GraphIInv, EnableInput, data, worker
<1>4. Resized'
  BY DEF Resized, GraphIInv, GraphTypes, LinkTypes, CallTypes, Calls, Stopped, EnableInput,
     Return, Step, data, client, Threads, Enabling, Midway
<1>5. Emptied'
  BY DEF Emptied, GraphIInv, GraphTypes, CallTypes, EnableInput, Return, Step, data
<1> QED BY <1>1, <1>2, <1>3, <1>4, <1>5

\* EnableUndone keeps the buffers where they may be.
LEMMA EnableUndoneData ==
  ASSUME GraphIInv, NEW t \in Threads, EnableUndone(t)
  PROVE  Kinds' /\ Queued' /\ Hands' /\ Resized' /\ Emptied'
<1>1. Kinds'
  BY DEF Kinds, GraphIInv, EnableUndone, data
<1>2. Queued'
  BY DEF Queued, GraphIInv, EnableUndone, data
<1>3. Hands'
  BY DEF Hands, GraphIInv, EnableUndone, data, worker
<1>4. Resized'
  BY DEF Resized, GraphIInv, GraphTypes, CallTypes, EnableUndone, Return, Step, data, client,
     Midway
<1>5. Emptied'
  BY DEF Emptied, GraphIInv, EnableUndone, Return, Step, data
<1> QED BY <1>1, <1>2, <1>3, <1>4, <1>5

\* DisableConnection keeps the buffers where they may be.
LEMMA DisableConnectionData ==
  ASSUME GraphIInv, NEW t \in Threads, DisableConnection(t)
  PROVE  Kinds' /\ Queued' /\ Hands' /\ Resized' /\ Emptied'
<1>1. Kinds'
  BY DEF Kinds, GraphIInv, DisableConnection, data
<1>2. Queued'
  BY DEF Queued, GraphIInv, DisableConnection, data
<1>3. Hands'
  BY DEF Hands, GraphIInv, DisableConnection, data, worker
<1>4. Resized'
  BY DEF Resized, GraphIInv, GraphTypes, LinkTypes, CallTypes, Calls, DisableConnection, Return,
     Step, data, client, Threads, Disabling, Midway
<1>5. Emptied'
  BY DEF Emptied, GraphIInv, GraphTypes, CallTypes, DisableConnection, Return, Step, data
<1> QED BY <1>1, <1>2, <1>3, <1>4, <1>5

\* WaitInput keeps the buffers where they may be.
LEMMA WaitInputData ==
  ASSUME GraphIInv, NEW t \in Threads, WaitInput(t)
  PROVE  Kinds' /\ Queued' /\ Hands' /\ Resized' /\ Emptied'
<1>1. Kinds'
  BY DEF Kinds, GraphIInv, WaitInput, data
<1>2. Queued'
  BY DEF Queued, GraphIInv, WaitInput, data
<1>3. Hands'
  BY DEF Hands, GraphIInv, WaitInput, data, worker
<1>4. Resized'
  BY DEF Resized, GraphIInv, WaitInput, Step, links, data, client, Disabling, Midway
<1>5. Emptied'
  <2>1. /\ step[t] = "wait_in" /\ step' = [step EXCEPT ![t] = "stop_out"] /\ UNCHANGED <<at, cx>>
        /\ \A b \in Buffers : at[b] # In(cx[t])
    BY DEF WaitInput, Drained, Step, data, In
  <2>2. Headers[cx[t]] \subseteq Buffers
    BY Owners DEF GraphIInv, GraphTypes, CallTypes
  <2>3. ASSUME NEW u \in Threads
        PROVE  /\ step'[u] \in {"stop_out", "wait_out", "drain", "check"} => \A b \in Headers[cx[u]] : at[b] # In(cx[u])
               /\ step'[u] \in {"drain", "check"} => \A b \in Headers[cx[u]] : at[b] # Out(cx[u])
               /\ step'[u] = "check" => \A b \in Headers[cx[u]] : at[b] # Queue
    <3>1. CASE u = t
      BY <2>1, <2>2, <3>1
    <3>2. CASE u # t
      BY <2>1, <3>2 DEF GraphIInv, GraphTypes, CallTypes, Emptied
    <3> QED BY <3>1, <3>2
  <2> QED BY <2>1, <2>3 DEF Emptied
<1> QED BY <1>1, <1>2, <1>3, <1>4, <1>5

\* DisableOutput keeps the buffers where they may be.
LEMMA DisableOutputData ==
  ASSUME GraphIInv, NEW t \in Threads, DisableOutput(t)
  PROVE  Kinds' /\ Queued' /\ Hands' /\ Resized' /\ Emptied'
<1>1. Kinds'
  BY DEF Kinds, GraphIInv, DisableOutput, data
<1>2. Queued'
  BY DEF Queued, GraphIInv, DisableOutput, data
<1>3. Hands'
  BY DEF Hands, GraphIInv, DisableOutput, data, worker
<1>4. Resized'
  BY DEF Resized, GraphIInv, GraphTypes, LinkTypes, CallTypes, Calls, Stopped, DisableOutput,
     Step, Return, data, client, Threads, Disabling, Midway
<1>5. Emptied'
  BY DEF Emptied, GraphIInv, GraphTypes, CallTypes, DisableOutput, Step, Return, data
<1> QED BY <1>1, <1>2, <1>3, <1>4, <1>5

\* WaitOutput keeps the buffers where they may be.
LEMMA WaitOutputData ==
  ASSUME GraphIInv, NEW t \in Threads, WaitOutput(t)
  PROVE  Kinds' /\ Queued' /\ Hands' /\ Resized' /\ Emptied'
<1>1. Kinds'
  BY DEF Kinds, GraphIInv, WaitOutput, data
<1>2. Queued'
  BY DEF Queued, GraphIInv, WaitOutput, data
<1>3. Hands'
  BY DEF Hands, GraphIInv, WaitOutput, data, worker
<1>4. Resized'
  BY DEF Resized, GraphIInv, WaitOutput, Step, links, data, client, Disabling, Midway
<1>5. Emptied'
  <2>1. /\ step[t] = "wait_out" /\ step' = [step EXCEPT ![t] = "drain"] /\ UNCHANGED <<at, cx>>
        /\ \A b \in Buffers : at[b] # Out(cx[t])
    BY DEF WaitOutput, Drained, Step, data, Out
  <2>2. Headers[cx[t]] \subseteq Buffers
    BY Owners DEF GraphIInv, GraphTypes, CallTypes
  <2>3. ASSUME NEW u \in Threads
        PROVE  /\ step'[u] \in {"stop_out", "wait_out", "drain", "check"} => \A b \in Headers[cx[u]] : at[b] # In(cx[u])
               /\ step'[u] \in {"drain", "check"} => \A b \in Headers[cx[u]] : at[b] # Out(cx[u])
               /\ step'[u] = "check" => \A b \in Headers[cx[u]] : at[b] # Queue
    <3>1. CASE u = t
      BY <2>1, <2>2, <3>1 DEF GraphIInv, Emptied
    <3>2. CASE u # t
      BY <2>1, <3>2 DEF GraphIInv, GraphTypes, CallTypes, Emptied
    <3> QED BY <3>1, <3>2
  <2> QED BY <2>1, <2>3 DEF Emptied
<1> QED BY <1>1, <1>2, <1>3, <1>4, <1>5

\* DrainQueue keeps the buffers where they may be.
LEMMA DrainQueueData ==
  ASSUME GraphIInv, NEW t \in Threads, DrainQueue(t)
  PROVE  Kinds' /\ Queued' /\ Hands' /\ Resized' /\ Emptied'
<1>1. Kinds'
  <2> DEFINE S == {b \in Buffers : \E k \in DOMAIN queue[cx[t]] : queue[cx[t]][k] = b}
  <2>1. /\ at' = [b \in Buffers |-> IF b \in S THEN Pool ELSE at[b]]
        /\ queue' = [queue EXCEPT ![cx[t]] = <<>>] /\ UNCHANGED worker
    BY DEF DrainQueue, ReleaseQueued, Pool
  <2> HIDE DEF S
  <2> QED BY <2>1, KindsRelease, PlacesApart DEF GraphIInv
<1>2. Queued'
  <2> DEFINE S == {b \in Buffers : \E k \in DOMAIN queue[cx[t]] : queue[cx[t]][k] = b}
  <2>1. /\ at' = [b \in Buffers |-> IF b \in S THEN Pool ELSE at[b]]
        /\ queue' = [queue EXCEPT ![cx[t]] = <<>>] /\ UNCHANGED worker
    BY DEF DrainQueue, ReleaseQueued, Pool
  <2>2. cx[t] \in Connections /\ queue \in [Connections -> Seq(Buffers)]
    BY DEF GraphIInv, GraphTypes, CallTypes, QueueTypes
  <2>3. \A k \in DOMAIN queue[cx[t]] : queue[cx[t]][k] \in S
    BY <2>2
  <2> HIDE DEF S
  <2>4. \A i \in Connections : \/ queue'[i] = queue[i]
                               \/ queue'[i] = <<>> /\ \A k \in DOMAIN queue[i] : queue[i][k] \in S
    BY <2>1, <2>2, <2>3
  <2> QED BY <2>1, <2>4, QueuedRelease, PlacesApart DEF GraphIInv
<1>3. Hands'
  <2> DEFINE S == {b \in Buffers : \E k \in DOMAIN queue[cx[t]] : queue[cx[t]][k] = b}
  <2>1. /\ at' = [b \in Buffers |-> IF b \in S THEN Pool ELSE at[b]]
        /\ queue' = [queue EXCEPT ![cx[t]] = <<>>] /\ UNCHANGED worker
    BY DEF DrainQueue, ReleaseQueued, Pool
  <2> HIDE DEF S
  <2> QED BY <2>1, HandsRelease, PlacesApart DEF GraphIInv, worker
<1>4. Resized'
  BY Owners, PlacesApart DEF Resized, GraphIInv, DrainQueue, ReleaseQueued, Step, links, client,
     Disabling, Midway, Pool, Hand, In, Out
<1>5. Emptied'
  <2> DEFINE S == {b \in Buffers : \E k \in DOMAIN queue[cx[t]] : queue[cx[t]][k] = b}
  <2>1. /\ at' = [b \in Buffers |-> IF b \in S THEN Pool ELSE at[b]]
        /\ queue' = [queue EXCEPT ![cx[t]] = <<>>] /\ UNCHANGED worker
    BY DEF DrainQueue, ReleaseQueued, Pool
  <2>2. step[t] = "drain" /\ step' = [step EXCEPT ![t] = "check"] /\ UNCHANGED cx /\ cx[t] \in Connections
    BY DEF DrainQueue, Step, GraphIInv, GraphTypes, CallTypes
  <2>3. \A u \in Threads : Headers[cx[u]] \subseteq Buffers
    BY Owners DEF GraphIInv, GraphTypes, CallTypes
  <2>4. \A b \in Headers[cx[t]] : at[b] = Queue => b \in S
    BY <2>2, <2>3 DEF GraphIInv, Queued
  <2> HIDE DEF S
  <2>5. \A u \in Threads : \A b \in Headers[cx[u]] : at'[b] = (IF b \in S THEN Pool ELSE at[b])
    BY <2>1, <2>3
  <2>6. ASSUME NEW u \in Threads
        PROVE  /\ step'[u] \in {"stop_out", "wait_out", "drain", "check"} => \A b \in Headers[cx[u]] : at'[b] # In(cx[u])
               /\ step'[u] \in {"drain", "check"} => \A b \in Headers[cx[u]] : at'[b] # Out(cx[u])
               /\ step'[u] = "check" => \A b \in Headers[cx[u]] : at'[b] # Queue
    <3>1. CASE u = t
      <4>1. /\ \A b \in Headers[cx[t]] : at[b] # In(cx[t])
            /\ \A b \in Headers[cx[t]] : at[b] # Out(cx[t])
        BY <2>2 DEF GraphIInv, Emptied
      <4> QED BY <2>4, <2>5, <3>1, <4>1, PlacesApart
    <3>2. CASE u # t
      <4>1. step'[u] = step[u]
        BY <2>2, <3>2 DEF GraphIInv, GraphTypes, CallTypes
      <4> QED BY <2>5, <4>1, PlacesApart DEF GraphIInv, Emptied
    <3> QED BY <3>1, <3>2
  <2> QED BY <2>2, <2>6 DEF Emptied
<1> QED BY <1>1, <1>2, <1>3, <1>4, <1>5

\* DisableDone keeps the buffers where they may be.
LEMMA DisableDoneData ==
  ASSUME GraphIInv, NEW t \in Threads, DisableDone(t)
  PROVE  Kinds' /\ Queued' /\ Hands' /\ Resized' /\ Emptied'
<1>1. Kinds'
  BY DEF Kinds, GraphIInv, DisableDone, data
<1>2. Queued'
  BY DEF Queued, GraphIInv, DisableDone, data
<1>3. Hands'
  BY DEF Hands, GraphIInv, DisableDone, data, worker
<1>4. Resized'
  BY DEF Resized, GraphIInv, GraphTypes, LinkTypes, Calls, DisableDone, Return, Step, data,
     client, Disabling, Midway
<1>5. Emptied'
  BY DEF Emptied, GraphIInv, DisableDone, Return, Step, data
<1> QED BY <1>1, <1>2, <1>3, <1>4, <1>5

\* WorkerWakes keeps the buffers where they may be.
LEMMA WorkerWakesData ==
  ASSUME GraphIInv, WorkerWakes
  PROVE  Kinds' /\ Queued' /\ Hands' /\ Resized' /\ Emptied'
<1>1. Kinds'
  BY DEF Kinds, GraphIInv, WorkerWakes, data
<1>2. Queued'
  BY DEF Queued, GraphIInv, WorkerWakes, data
<1>3. Hands'
  BY DEF Hands, GraphIInv, WorkerWakes, data
<1>4. Resized'
  BY DEF Resized, GraphIInv, WorkerWakes, links, data, calls, client
<1>5. Emptied'
  BY DEF Emptied, GraphIInv, WorkerWakes, data, calls
<1> QED BY <1>1, <1>2, <1>3, <1>4, <1>5

\* TakeQueued keeps the buffers where they may be.
LEMMA TakeQueuedData ==
  ASSUME GraphIInv, TakeQueued
  PROVE  Kinds' /\ Queued' /\ Hands' /\ Resized' /\ Emptied'
<1>1. Kinds'
  <2>1. CASE UNCHANGED data /\ wpc' = "pool" /\ UNCHANGED wbuffer
    BY <2>1 DEF Kinds, data, GraphIInv, TakeQueued
  <2>2. CASE queue[wcx] # <<>>
    <3> DEFINE b == Head(queue[wcx])
    <3>1. /\ wpc = "queue" /\ wbuffer' = b /\ UNCHANGED wcx
          /\ queue' = [queue EXCEPT ![wcx] = Tail(@)] /\ at' = [at EXCEPT ![b] = Hand]
          /\ wpc' = IF b \in AllEvents THEN "event" ELSE "send"
      BY <2>2 DEF TakeQueued, Hand
    <3>2. wcx \in Connections /\ queue[wcx] \in Seq(Buffers) /\ queue \in [Connections -> Seq(Buffers)]
      BY DEF GraphIInv, GraphTypes, ThreadTypes, QueueTypes
    <3>3. 1 \in DOMAIN queue[wcx] /\ b = queue[wcx][1] /\ b \in Buffers
      BY <2>2, <3>2
    <3>4. b \in Own(wcx)
      BY <3>2, <3>3 DEF GraphIInv, Queued
    <3> HIDE DEF b
    <3>5. b \notin ClientBuffers
      BY <3>2, <3>4, Owners DEF Own
    <3> QED BY <3>1, <3>3, <3>5, KindsMove DEF GraphIInv
  <2> QED BY <2>1, <2>2 DEF TakeQueued
<1>2. Queued'
  <2>1. CASE UNCHANGED data /\ wpc' = "pool" /\ UNCHANGED wbuffer
    BY <2>1 DEF Queued, data, GraphIInv, TakeQueued
  <2>2. CASE queue[wcx] # <<>>
    <3> DEFINE b == Head(queue[wcx])
    <3>1. /\ wpc = "queue" /\ wbuffer' = b /\ UNCHANGED wcx
          /\ queue' = [queue EXCEPT ![wcx] = Tail(@)] /\ at' = [at EXCEPT ![b] = Hand]
          /\ wpc' = IF b \in AllEvents THEN "event" ELSE "send"
      BY <2>2 DEF TakeQueued, Hand
    <3>2. wcx \in Connections /\ queue[wcx] \in Seq(Buffers) /\ queue \in [Connections -> Seq(Buffers)]
      BY DEF GraphIInv, GraphTypes, ThreadTypes, QueueTypes
    <3>3. 1 \in DOMAIN queue[wcx] /\ b = queue[wcx][1] /\ b \in Buffers
      BY <2>2, <3>2
    <3>4. b \in Own(wcx)
      BY <3>2, <3>3 DEF GraphIInv, Queued
    <3> HIDE DEF b
    <3>5. ASSUME NEW i \in Connections
          PROVE  /\ \A k \in DOMAIN queue'[i] : queue'[i][k] \in Own(i)
                 /\ \A c \in Headers[i] : at'[c] = Queue => \E k \in DOMAIN queue'[i] : queue'[i][k] = c
      <4>1. \A c \in Headers[i] : at'[c] = Queue => c # b /\ at[c] = Queue
        BY <3>1, Owners, PlacesApart DEF GraphIInv, GraphTypes, PlaceTypes
      <4>2. CASE i = wcx
        <5> DEFINE q == queue[wcx]
        <5>1. /\ queue'[i] = Tail(q) /\ DOMAIN Tail(q) = 1 .. Len(q) - 1 /\ DOMAIN q = 1 .. Len(q)
              /\ Len(q) \in Nat /\ \A k \in 1 .. Len(q) - 1 : Tail(q)[k] = q[k + 1]
          BY <2>2, <3>1, <3>2, <4>2
        <5>2. \A k \in DOMAIN q : q[k] \in Own(i)
          BY <4>2 DEF GraphIInv, Queued
        <5>3. \A c \in Headers[i] : at[c] = Queue => \E k \in DOMAIN q : q[k] = c
          BY <4>2 DEF GraphIInv, Queued
        <5>4. q[1] = b
          BY <3>3
        <5> HIDE DEF q
        <5>5. \A k \in DOMAIN Tail(q) : Tail(q)[k] \in Own(i)
          BY <5>1, <5>2
        <5>6. ASSUME NEW c \in Headers[i], at'[c] = Queue PROVE \E k \in DOMAIN Tail(q) : Tail(q)[k] = c
          <6>1. PICK k \in DOMAIN q : q[k] = c
            BY <4>1, <5>3, <5>6
          <6>2. k # 1
            BY <4>1, <5>4, <5>6, <6>1
          <6>3. k - 1 \in DOMAIN Tail(q) /\ Tail(q)[k - 1] = c
            BY <5>1, <6>1, <6>2
          <6> QED BY <6>3
        <5> QED BY <5>1, <5>5, <5>6
      <4>3. CASE i # wcx
        <5>1. queue'[i] = queue[i]
          BY <3>1, <3>2, <4>3
        <5> QED BY <4>1, <5>1 DEF GraphIInv, Queued
      <4> QED BY <4>2, <4>3
    <3> QED BY <3>5 DEF Queued
  <2> QED BY <2>1, <2>2 DEF TakeQueued
<1>3. Hands'
  <2>1. CASE UNCHANGED data /\ wpc' = "pool" /\ UNCHANGED wbuffer
    BY <2>1 DEF Hands, data, GraphIInv, TakeQueued
  <2>2. CASE queue[wcx] # <<>>
    <3> DEFINE b == Head(queue[wcx])
    <3>1. /\ wpc = "queue" /\ wbuffer' = b /\ UNCHANGED wcx
          /\ queue' = [queue EXCEPT ![wcx] = Tail(@)] /\ at' = [at EXCEPT ![b] = Hand]
          /\ wpc' = IF b \in AllEvents THEN "event" ELSE "send"
      BY <2>2 DEF TakeQueued, Hand
    <3>2. wcx \in Connections /\ queue[wcx] \in Seq(Buffers) /\ queue \in [Connections -> Seq(Buffers)]
      BY DEF GraphIInv, GraphTypes, ThreadTypes, QueueTypes
    <3>3. 1 \in DOMAIN queue[wcx] /\ b = queue[wcx][1] /\ b \in Buffers
      BY <2>2, <3>2
    <3>4. b \in Own(wcx)
      BY <3>2, <3>3 DEF GraphIInv, Queued
    <3> HIDE DEF b
    <3>5. \/ wpc' = "send" /\ b \in Headers[wcx]
          \/ wpc' = "event" /\ b \in Events[wcx]
      BY <3>1, <3>2, <3>4, Owners DEF Own
    <3> QED BY <3>1, <3>3, <3>5, HandFilled DEF GraphIInv
  <2> QED BY <2>1, <2>2 DEF TakeQueued
<1>4. Resized'
  BY Owners DEF Resized, GraphIInv, GraphTypes, PlaceTypes, TakeQueued, data, links, calls,
     client, Threads, Asleep, None
<1>5. Emptied'
  BY DEF Emptied, GraphIInv, GraphTypes, Calls, Stopped, Places, ClientTypes, TakeQueued, calls,
     Threads, Enabling, Asleep
<1> QED BY <1>1, <1>2, <1>3, <1>4, <1>5

\* SendQueued keeps the buffers where they may be.
LEMMA SendQueuedData ==
  ASSUME GraphIInv, SendQueued
  PROVE  Kinds' /\ Queued' /\ Hands' /\ Resized' /\ Emptied'
<1>1. Kinds'
  <2>1. /\ UNCHANGED <<queue, wcx>> /\ wbuffer' = NoBuffer /\ wpc = "send" /\ wpc' = "queue"
        /\ at' = [at EXCEPT ![wbuffer] = In(wcx)] \/ at' = [at EXCEPT ![wbuffer] = Pool]
    BY DEF SendQueued, Accepts, Released, In, Pool
  <2> QED BY <2>1, KindsMove, HandHolds, PlacesApart DEF GraphIInv
<1>2. Queued'
  <2>1. /\ UNCHANGED <<queue, wcx>> /\ wbuffer' = NoBuffer /\ wpc = "send" /\ wpc' = "queue"
        /\ at' = [at EXCEPT ![wbuffer] = In(wcx)] \/ at' = [at EXCEPT ![wbuffer] = Pool]
    BY DEF SendQueued, Accepts, Released, In, Pool
  <2> QED BY <2>1, QueuedMove, HandHolds, PlacesApart DEF GraphIInv
<1>3. Hands'
  <2>1. /\ UNCHANGED <<queue, wcx>> /\ wbuffer' = NoBuffer /\ wpc = "send" /\ wpc' = "queue"
        /\ at' = [at EXCEPT ![wbuffer] = In(wcx)] \/ at' = [at EXCEPT ![wbuffer] = Pool]
    BY DEF SendQueued, Accepts, Released, In, Pool
  <2> QED BY <2>1, HandEmptied, HandHolds, PlacesApart DEF GraphIInv
<1>4. Resized'
  BY Owners DEF Resized, GraphIInv, GraphTypes, PlaceTypes, SendQueued, Accepts, Released, links,
     calls, client, None, Hand
<1>5. Emptied'
  BY DEF Emptied, GraphIInv, GraphTypes, Calls, Stopped, Places, ClientTypes, SendQueued, calls,
     Threads, Enabling, Asleep
<1> QED BY <1>1, <1>2, <1>3, <1>4, <1>5

\* HandleEvent keeps the buffers where they may be.
LEMMA HandleEventData ==
  ASSUME GraphIInv, HandleEvent
  PROVE  Kinds' /\ Queued' /\ Hands' /\ Resized' /\ Emptied'
<1>1. Kinds'
  <2>1. wpc = "event" /\ UNCHANGED <<queue, wcx>>
    BY DEF HandleEvent
  <2>2. \/ UNCHANGED <<at, wbuffer>> /\ wpc' = "disable"
        \/ /\ wbuffer' = NoBuffer /\ wpc' = "queue"
           /\ at' = [at EXCEPT ![wbuffer] = In(wcx)] \/ at' = [at EXCEPT ![wbuffer] = Pool]
    BY DEF HandleEvent, Accepts, In, Pool
  <2>3. CASE UNCHANGED <<at, wbuffer>> /\ wpc' = "disable"
    BY <2>1, <2>3 DEF GraphIInv, Kinds
  <2> QED BY <2>1, <2>2, <2>3, KindsMove, HandHolds DEF GraphIInv
<1>2. Queued'
  <2>1. wpc = "event" /\ UNCHANGED <<queue, wcx>>
    BY DEF HandleEvent
  <2>2. \/ UNCHANGED <<at, wbuffer>> /\ wpc' = "disable"
        \/ /\ wbuffer' = NoBuffer /\ wpc' = "queue"
           /\ at' = [at EXCEPT ![wbuffer] = In(wcx)] \/ at' = [at EXCEPT ![wbuffer] = Pool]
    BY DEF HandleEvent, Accepts, In, Pool
  <2>3. CASE UNCHANGED <<at, wbuffer>> /\ wpc' = "disable"
    BY <2>1, <2>3 DEF GraphIInv, Queued
  <2> QED BY <2>1, <2>2, <2>3, QueuedMove, HandHolds, PlacesApart DEF GraphIInv
<1>3. Hands'
  <2>1. wpc = "event" /\ UNCHANGED <<queue, wcx>>
    BY DEF HandleEvent
  <2>2. \/ UNCHANGED <<at, wbuffer>> /\ wpc' = "disable"
        \/ /\ wbuffer' = NoBuffer /\ wpc' = "queue"
           /\ at' = [at EXCEPT ![wbuffer] = In(wcx)] \/ at' = [at EXCEPT ![wbuffer] = Pool]
    BY DEF HandleEvent, Accepts, In, Pool
  <2>3. CASE UNCHANGED <<at, wbuffer>> /\ wpc' = "disable"
    BY <2>1, <2>3 DEF GraphIInv, Hands
  <2> QED BY <2>1, <2>2, <2>3, HandEmptied, HandHolds, PlacesApart DEF GraphIInv
<1>4. Resized'
  BY Owners DEF Resized, GraphIInv, GraphTypes, PlaceTypes, CallTypes, HandleEvent, Accepts,
     calls, Begin, Step, links, client, Threads, Disabling, Midway, None
<1>5. Emptied'
  BY DEF Emptied, GraphIInv, GraphTypes, CallTypes, Calls, Stopped, Places, ClientTypes,
     HandleEvent, calls, Begin, Step, Threads, Enabling, Asleep
<1> QED BY <1>1, <1>2, <1>3, <1>4, <1>5

\* Reconfigure keeps the buffers where they may be.
LEMMA ReconfigureData ==
  ASSUME GraphIInv, Reconfigure
  PROVE  Kinds' /\ Queued' /\ Hands' /\ Resized' /\ Emptied'
<1>1. Kinds'
  <2>1. wpc \in {"disable", "enable"} /\ UNCHANGED <<queue, wcx>>
    BY DEF Reconfigure
  <2>2. \/ UNCHANGED <<at, wbuffer>> /\ wpc' = "enable"
        \/ /\ wbuffer' = NoBuffer /\ wpc' = "queue"
           /\ at' = [at EXCEPT ![wbuffer] = Pool]
    BY DEF Reconfigure, Pool
  <2>3. CASE UNCHANGED <<at, wbuffer>> /\ wpc' = "enable"
    BY <2>1, <2>3 DEF GraphIInv, Kinds, GraphTypes
  <2> QED BY <2>1, <2>2, <2>3, KindsMove, HandHolds DEF GraphIInv
<1>2. Queued'
  <2>1. wpc \in {"disable", "enable"} /\ UNCHANGED <<queue, wcx>>
    BY DEF Reconfigure
  <2>2. \/ UNCHANGED <<at, wbuffer>> /\ wpc' = "enable"
        \/ /\ wbuffer' = NoBuffer /\ wpc' = "queue"
           /\ at' = [at EXCEPT ![wbuffer] = Pool]
    BY DEF Reconfigure, Pool
  <2>3. CASE UNCHANGED <<at, wbuffer>> /\ wpc' = "enable"
    BY <2>1, <2>3 DEF GraphIInv, Queued, GraphTypes
  <2> QED BY <2>1, <2>2, <2>3, QueuedMove, HandHolds, PlacesApart DEF GraphIInv
<1>3. Hands'
  <2>1. wpc \in {"disable", "enable"} /\ UNCHANGED <<queue, wcx>>
    BY DEF Reconfigure
  <2>2. \/ UNCHANGED <<at, wbuffer>> /\ wpc' = "enable"
        \/ /\ wbuffer' = NoBuffer /\ wpc' = "queue"
           /\ at' = [at EXCEPT ![wbuffer] = Pool]
    BY DEF Reconfigure, Pool
  <2>3. CASE UNCHANGED <<at, wbuffer>> /\ wpc' = "enable"
    BY <2>1, <2>3 DEF GraphIInv, Hands, GraphTypes
  <2> QED BY <2>1, <2>2, <2>3, HandEmptied, HandHolds, PlacesApart DEF GraphIInv
<1>4. Resized'
  BY Owners DEF Resized, GraphIInv, GraphTypes, PlaceTypes, CallTypes, Reconfigure, Begin, Step,
     calls, links, client, Threads, Enabling, Disabling, Midway, None
<1>5. Emptied'
  BY DEF Emptied, GraphIInv, GraphTypes, CallTypes, Calls, Stopped, Places, ClientTypes,
     Reconfigure, Begin, Step, calls, Threads, Enabling, Asleep
<1> QED BY <1>1, <1>2, <1>3, <1>4, <1>5

\* TakeEmpty keeps the buffers where they may be.
LEMMA TakeEmptyData ==
  ASSUME GraphIInv, TakeEmpty
  PROVE  Kinds' /\ Queued' /\ Hands' /\ Resized' /\ Emptied'
<1>1. Kinds'
  <2>1. wpc = "pool" /\ UNCHANGED queue
    BY DEF TakeEmpty
  <2>2. \/ UNCHANGED <<at, wbuffer>> /\ wpc' \in {"queue", "wait"}
        \/ \E b \in Headers[wcx] : /\ wbuffer' = b /\ at' = [at EXCEPT ![b] = Hand]
                                   /\ wpc' = "fill" /\ UNCHANGED wcx
    BY DEF TakeEmpty, NextConnection, InPool, Hand
  <2>3. CASE UNCHANGED <<at, wbuffer>> /\ wpc' \in {"queue", "wait"}
    BY <2>1, <2>3 DEF GraphIInv, Kinds
  <2>4. ASSUME NEW b \in Headers[wcx], wbuffer' = b, at' = [at EXCEPT ![b] = Hand],
               wpc' = "fill", UNCHANGED wcx
        PROVE  Kinds'
    <3>1. b \in Buffers /\ b \notin ClientBuffers /\ \A i \in Connections : b \notin Events[i]
      BY Owners DEF GraphIInv, GraphTypes, ThreadTypes
    <3> QED BY <2>1, <2>4, <3>1, KindsMove, PlacesApart DEF GraphIInv
  <2> QED BY <2>2, <2>3, <2>4
<1>2. Queued'
  <2>1. wpc = "pool" /\ UNCHANGED queue
    BY DEF TakeEmpty
  <2>2. \/ UNCHANGED <<at, wbuffer>> /\ wpc' \in {"queue", "wait"}
        \/ \E b \in Headers[wcx] : /\ wbuffer' = b /\ at' = [at EXCEPT ![b] = Hand]
                                   /\ wpc' = "fill" /\ UNCHANGED wcx
    BY DEF TakeEmpty, NextConnection, InPool, Hand
  <2>3. CASE UNCHANGED <<at, wbuffer>> /\ wpc' \in {"queue", "wait"}
    BY <2>1, <2>3 DEF GraphIInv, Queued
  <2>4. ASSUME NEW b \in Headers[wcx], wbuffer' = b, at' = [at EXCEPT ![b] = Hand],
               wpc' = "fill", UNCHANGED wcx
        PROVE  Queued'
    <3>1. b \in Buffers /\ b \notin ClientBuffers /\ \A i \in Connections : b \notin Events[i]
      BY Owners DEF GraphIInv, GraphTypes, ThreadTypes
    <3> QED BY <2>1, <2>4, <3>1, QueuedMove, PlacesApart DEF GraphIInv
  <2> QED BY <2>2, <2>3, <2>4
<1>3. Hands'
  <2>1. wpc = "pool" /\ UNCHANGED queue
    BY DEF TakeEmpty
  <2>2. \/ UNCHANGED <<at, wbuffer>> /\ wpc' \in {"queue", "wait"}
        \/ \E b \in Headers[wcx] : /\ wbuffer' = b /\ at' = [at EXCEPT ![b] = Hand]
                                   /\ wpc' = "fill" /\ UNCHANGED wcx
    BY DEF TakeEmpty, NextConnection, InPool, Hand
  <2>3. CASE UNCHANGED <<at, wbuffer>> /\ wpc' \in {"queue", "wait"}
    BY <2>1, <2>3 DEF GraphIInv, Hands
  <2>4. ASSUME NEW b \in Headers[wcx], wbuffer' = b, at' = [at EXCEPT ![b] = Hand],
               wpc' = "fill", UNCHANGED wcx
        PROVE  Hands'
    <3>1. b \in Buffers /\ b \notin ClientBuffers /\ \A i \in Connections : b \notin Events[i]
      BY Owners DEF GraphIInv, GraphTypes, ThreadTypes
    <3> QED BY <2>1, <2>4, <3>1, HandFilled, PlacesApart DEF GraphIInv
  <2> QED BY <2>2, <2>3, <2>4
<1>4. Resized'
  BY Owners DEF Resized, GraphIInv, GraphTypes, PlaceTypes, Places, TakeEmpty, links, calls,
     client, Enabling, None
<1>5. Emptied'
  BY DEF Emptied, GraphIInv, GraphTypes, Calls, Stopped, Places, ClientTypes, TakeEmpty, calls,
     Threads, Enabling, Asleep
<1> QED BY <1>1, <1>2, <1>3, <1>4, <1>5

\* SendEmpty keeps the buffers where they may be.
LEMMA SendEmptyData ==
  ASSUME GraphIInv, SendEmpty
  PROVE  Kinds' /\ Queued' /\ Hands' /\ Resized' /\ Emptied'
<1>1. Kinds'
  <2>1. /\ UNCHANGED queue /\ wbuffer' = NoBuffer /\ wpc = "fill" /\ wpc' \in {"pool", "queue", "wait"}
        /\ at' = [at EXCEPT ![wbuffer] = Out(wcx)] \/ at' = [at EXCEPT ![wbuffer] = Pool]
    BY DEF SendEmpty, Accepts, NextConnection, Out, Pool
  <2> QED BY <2>1, KindsMove, HandHolds, PlacesApart DEF GraphIInv
<1>2. Queued'
  <2>1. /\ UNCHANGED queue /\ wbuffer' = NoBuffer /\ wpc = "fill" /\ wpc' \in {"pool", "queue", "wait"}
        /\ at' = [at EXCEPT ![wbuffer] = Out(wcx)] \/ at' = [at EXCEPT ![wbuffer] = Pool]
    BY DEF SendEmpty, Accepts, NextConnection, Out, Pool
  <2> QED BY <2>1, QueuedMove, HandHolds, PlacesApart DEF GraphIInv
<1>3. Hands'
  <2>1. /\ UNCHANGED queue /\ wbuffer' = NoBuffer /\ wpc = "fill" /\ wpc' \in {"pool", "queue", "wait"}
        /\ at' = [at EXCEPT ![wbuffer] = Out(wcx)] \/ at' = [at EXCEPT ![wbuffer] = Pool]
    BY DEF SendEmpty, Accepts, NextConnection, Out, Pool
  <2> QED BY <2>1, HandEmptied, HandHolds, PlacesApart DEF GraphIInv
<1>4. Resized'
  BY Owners DEF Resized, GraphIInv, GraphTypes, PlaceTypes, ThreadTypes, SendEmpty, Accepts,
     NextConnection, links, calls, client, None
<1>5. Emptied'
  BY DEF Emptied, GraphIInv, GraphTypes, Calls, Stopped, Places, ClientTypes, SendEmpty, calls,
     Threads, Enabling, Asleep
<1> QED BY <1>1, <1>2, <1>3, <1>4, <1>5

\* GraphEnableNext keeps the buffers where they may be.
LEMMA GraphEnableNextData ==
  ASSUME GraphIInv, GraphEnableNext
  PROVE  Kinds' /\ Queued' /\ Hands' /\ Resized' /\ Emptied'
<1>1. Kinds'
  BY DEF Kinds, GraphIInv, GraphEnableNext, data
<1>2. Queued'
  BY DEF Queued, GraphIInv, GraphEnableNext, data
<1>3. Hands'
  BY DEF Hands, GraphIInv, GraphEnableNext, data, worker
<1>4. Resized'
  BY DEF Resized, GraphIInv, GraphTypes, CallTypes, GraphEnableNext, Begin, Step, Finish, calls,
     links, data, Disabling, Midway
<1>5. Emptied'
  BY DEF Emptied, GraphIInv, GraphTypes, CallTypes, GraphEnableNext, Begin, Step, calls, data
<1> QED BY <1>1, <1>2, <1>3, <1>4, <1>5

\* GraphEnableCalled keeps the buffers where they may be.
LEMMA GraphEnableCalledData ==
  ASSUME GraphIInv, GraphEnableCalled
  PROVE  Kinds' /\ Queued' /\ Hands' /\ Resized' /\ Emptied'
<1>1. Kinds'
  BY DEF Kinds, GraphIInv, GraphEnableCalled, data
<1>2. Queued'
  BY DEF Queued, GraphIInv, GraphEnableCalled, data
<1>3. Hands'
  BY DEF Hands, GraphIInv, GraphEnableCalled, data, worker
<1>4. Resized'
  BY DEF Resized, GraphIInv, GraphEnableCalled, links, data, calls
<1>5. Emptied'
  BY DEF Emptied, GraphIInv, GraphEnableCalled, data, calls
<1> QED BY <1>1, <1>2, <1>3, <1>4, <1>5

\* StopWorker keeps the buffers where they may be.
LEMMA StopWorkerData ==
  ASSUME GraphIInv, StopWorker
  PROVE  Kinds' /\ Queued' /\ Hands' /\ Resized' /\ Emptied'
<1>1. Kinds'
  BY DEF Kinds, GraphIInv, StopWorker, data
<1>2. Queued'
  BY DEF Queued, GraphIInv, StopWorker, data
<1>3. Hands'
  BY DEF Hands, GraphIInv, StopWorker, data
<1>4. Resized'
  BY DEF Resized, GraphIInv, StopWorker, links, data, calls
<1>5. Emptied'
  BY DEF Emptied, GraphIInv, StopWorker, data, calls
<1> QED BY <1>1, <1>2, <1>3, <1>4, <1>5

\* JoinWorker keeps the buffers where they may be.
LEMMA JoinWorkerData ==
  ASSUME GraphIInv, JoinWorker
  PROVE  Kinds' /\ Queued' /\ Hands' /\ Resized' /\ Emptied'
<1>1. Kinds'
  BY DEF Kinds, GraphIInv, JoinWorker, data
<1>2. Queued'
  BY DEF Queued, GraphIInv, JoinWorker, data
<1>3. Hands'
  BY DEF Hands, GraphIInv, JoinWorker, data, worker
<1>4. Resized'
  BY DEF Resized, GraphIInv, JoinWorker, Finish, links, data, calls
<1>5. Emptied'
  BY DEF Emptied, GraphIInv, JoinWorker, data, calls
<1> QED BY <1>1, <1>2, <1>3, <1>4, <1>5

\* GraphDisableNext keeps the buffers where they may be.
LEMMA GraphDisableNextData ==
  ASSUME GraphIInv, GraphDisableNext
  PROVE  Kinds' /\ Queued' /\ Hands' /\ Resized' /\ Emptied'
<1>1. Kinds'
  BY DEF Kinds, GraphIInv, GraphDisableNext, data
<1>2. Queued'
  BY DEF Queued, GraphIInv, GraphDisableNext, data
<1>3. Hands'
  BY DEF Hands, GraphIInv, GraphDisableNext, data, worker
<1>4. Resized'
  BY DEF Resized, GraphIInv, GraphTypes, CallTypes, GraphDisableNext, Begin, Step, calls, Finish,
     links, data, Disabling, Midway
<1>5. Emptied'
  BY DEF Emptied, GraphIInv, GraphTypes, CallTypes, GraphDisableNext, Begin, Step, calls, data
<1> QED BY <1>1, <1>2, <1>3, <1>4, <1>5

\* ReleaseNext keeps the buffers where they may be.
LEMMA ReleaseNextData ==
  ASSUME GraphIInv, ReleaseNext
  PROVE  Kinds' /\ Queued' /\ Hands' /\ Resized' /\ Emptied'
<1>1. Kinds'
  BY DEF Kinds, GraphIInv, ReleaseNext, data
<1>2. Queued'
  BY DEF Queued, GraphIInv, ReleaseNext, data
<1>3. Hands'
  BY DEF Hands, GraphIInv, ReleaseNext, data, worker
<1>4. Resized'
  BY DEF Resized, GraphIInv, GraphTypes, CallTypes, ReleaseNext, Begin, Step, Finish, calls,
     data, Threads, Disabling, Midway
<1>5. Emptied'
  BY DEF Emptied, GraphIInv, GraphTypes, CallTypes, ReleaseNext, Begin, Step, calls, data
<1> QED BY <1>1, <1>2, <1>3, <1>4, <1>5

\* ReleaseCalled keeps the buffers where they may be.
LEMMA ReleaseCalledData ==
  ASSUME GraphIInv, ReleaseCalled
  PROVE  Kinds' /\ Queued' /\ Hands' /\ Resized' /\ Emptied'
<1>1. Kinds'
  <2>1. UNCHANGED <<queue, worker>>
    BY DEF ReleaseCalled
  <2>2. \/ at' = at
        \/ at' = [b \in Buffers |-> IF b \in Headers[todo] THEN None ELSE at[b]]
    BY DEF ReleaseCalled, None
  <2>3. CASE at' = at
    BY <2>1, <2>3 DEF GraphIInv, Kinds, worker
  <2>4. CASE at' = [b \in Buffers |-> IF b \in Headers[todo] THEN None ELSE at[b]]
    <3>1. Headers[todo] \subseteq AllHeaders
      BY Owners DEF GraphIInv, Calls, ReleaseCalled
    <3> QED BY <2>1, <2>4, <3>1, KindsRelease DEF GraphIInv
  <2> QED BY <2>2, <2>3, <2>4
<1>2. Queued'
  <2>1. UNCHANGED <<queue, worker>>
    BY DEF ReleaseCalled
  <2>2. \/ at' = at
        \/ at' = [b \in Buffers |-> IF b \in Headers[todo] THEN None ELSE at[b]]
    BY DEF ReleaseCalled, None
  <2>3. CASE at' = at
    BY <2>1, <2>3 DEF GraphIInv, Queued, worker
  <2>4. CASE at' = [b \in Buffers |-> IF b \in Headers[todo] THEN None ELSE at[b]]
    <3>1. Headers[todo] \subseteq AllHeaders
      BY Owners DEF GraphIInv, Calls, ReleaseCalled
    <3> QED BY <2>1, <2>4, <3>1, QueuedRelease, PlacesApart DEF GraphIInv
  <2> QED BY <2>2, <2>3, <2>4
<1>3. Hands'
  <2>1. UNCHANGED <<queue, worker>>
    BY DEF ReleaseCalled
  <2>2. \/ at' = at
        \/ at' = [b \in Buffers |-> IF b \in Headers[todo] THEN None ELSE at[b]]
    BY DEF ReleaseCalled, None
  <2>3. CASE at' = at
    BY <2>1, <2>3 DEF GraphIInv, Hands, worker
  <2>4. CASE at' = [b \in Buffers |-> IF b \in Headers[todo] THEN None ELSE at[b]]
    <3>1. Headers[todo] \subseteq AllHeaders
      BY Owners DEF GraphIInv, Calls, ReleaseCalled
    <3> QED BY <2>1, <2>4, <3>1, HandsRelease, PlacesApart DEF GraphIInv, worker
  <2> QED BY <2>2, <2>3, <2>4
<1>4. Resized'
  <2>1. /\ op \in {"destroy", "release"} /\ pc = "call" /\ step["client"] = "none"
        /\ op' \in {op, "none"} /\ (op' = "none" => pc' = "idle") /\ (op' = op => pc' = "next")
        /\ UNCHANGED <<is_enabled, step, cx, ok>>
        /\ \/ /\ ok["client"] /\ at' = [b \in Buffers |-> IF b \in Headers[todo] THEN None ELSE at[b]]
              /\ sized' = [sized EXCEPT ![todo] = FALSE]
           \/ UNCHANGED <<at, sized>>
    BY DEF ReleaseCalled, Finish, None, calls
  <2>2. CASE UNCHANGED <<at, sized>>
    BY <2>1, <2>2 DEF GraphIInv, Resized
  <2>3. CASE /\ ok["client"] /\ at' = [b \in Buffers |-> IF b \in Headers[todo] THEN None ELSE at[b]]
             /\ sized' = [sized EXCEPT ![todo] = FALSE]
    <3>1. todo \in Connections /\ ~is_enabled[todo]
      BY <2>1, <2>3 DEF GraphIInv, Calls, Resized
    <3>2. wpc = "none" /\ step["worker"] = "none"
      BY <2>1 DEF GraphIInv, Stopped, Calls
    <3>3. /\ \A i \in Connections : i # todo => sized'[i] = sized[i] /\ \A b \in Headers[i] : at'[b] = at[b]
          /\ sized'[todo] = FALSE
      BY <2>3, <3>1, Owners DEF GraphIInv, GraphTypes, LinkTypes, Own
    <3>4. \A u \in Threads : step[u] = "none"
      BY <2>1, <3>2 DEF Threads
    <3> QED BY <2>1, <3>1, <3>3, <3>4 DEF GraphIInv, Resized, Midway, Disabling
  <2> QED BY <2>1, <2>2, <2>3
<1>5. Emptied'
  BY DEF Emptied, GraphIInv, Calls, Stopped, ReleaseCalled, calls, Threads
<1> QED BY <1>1, <1>2, <1>3, <1>4, <1>5

\* Destroyed keeps the buffers where they may be.
LEMMA DestroyedData ==
  ASSUME GraphIInv, Destroyed
  PROVE  Kinds' /\ Queued' /\ Hands' /\ Resized' /\ Emptied'
<1>1. Kinds'
  BY DEF Kinds, GraphIInv, Destroyed, data
<1>2. Queued'
  BY DEF Queued, GraphIInv, Destroyed, data
<1>3. Hands'
  BY DEF Hands, GraphIInv, Destroyed, data, worker
<1>4. Resized'
  BY DEF Resized, GraphIInv, Destroyed, Finish, links, data, calls
<1>5. Emptied'
  BY DEF Emptied, GraphIInv, Destroyed, data, calls
<1> QED BY <1>1, <1>2, <1>3, <1>4, <1>5

\* PortEnableNext keeps the buffers where they may be.
LEMMA PortEnableNextData ==
  ASSUME GraphIInv, PortEnableNext
  PROVE  Kinds' /\ Queued' /\ Hands' /\ Resized' /\ Emptied'
<1>1. Kinds'
  BY DEF Kinds, GraphIInv, PortEnableNext, data
<1>2. Queued'
  BY DEF Queued, GraphIInv, PortEnableNext, data
<1>3. Hands'
  BY DEF Hands, GraphIInv, PortEnableNext, data, worker
<1>4. Resized'
  BY DEF Resized, GraphIInv, GraphTypes, CallTypes, PortEnableNext, Begin, Step, calls,
     PortEnabled, Finish, links, data, Disabling, Midway
<1>5. Emptied'
  BY DEF Emptied, GraphIInv, GraphTypes, CallTypes, PortEnableNext, Begin, Step, calls,
     PortEnabled, data
<1> QED BY <1>1, <1>2, <1>3, <1>4, <1>5

\* PortDisableNext keeps the buffers where they may be.
LEMMA PortDisableNextData ==
  ASSUME GraphIInv, PortDisableNext
  PROVE  Kinds' /\ Queued' /\ Hands' /\ Resized' /\ Emptied'
<1>1. Kinds'
  BY DEF Kinds, GraphIInv, PortDisableNext, data
<1>2. Queued'
  BY DEF Queued, GraphIInv, PortDisableNext, data
<1>3. Hands'
  BY DEF Hands, GraphIInv, PortDisableNext, data, worker
<1>4. Resized'
  BY DEF Resized, GraphIInv, GraphTypes, CallTypes, PortDisableNext, calls, Begin, Step, Finish,
     links, data, Disabling, Midway
<1>5. Emptied'
  BY DEF Emptied, GraphIInv, GraphTypes, CallTypes, PortDisableNext, calls, Begin, Step, data
<1> QED BY <1>1, <1>2, <1>3, <1>4, <1>5

\* GraphEnable keeps the buffers where they may be.
LEMMA GraphEnableData ==
  ASSUME GraphIInv, GraphEnable
  PROVE  Kinds' /\ Queued' /\ Hands' /\ Resized' /\ Emptied'
<1>1. Kinds'
  BY DEF Kinds, GraphIInv, GraphEnable, data
<1>2. Queued'
  BY DEF Queued, GraphIInv, GraphEnable, data
<1>3. Hands'
  <2>1. wpc = "none" /\ wpc' \in Asleep /\ UNCHANGED <<at, wbuffer>>
    BY DEF GraphEnable, Idle, GraphIInv, Stopped, data, Asleep
  <2> QED BY <2>1 DEF GraphIInv, Hands, Asleep
<1>4. Resized'
  BY DEF Resized, GraphIInv, GraphEnable, links, data, calls
<1>5. Emptied'
  BY DEF Emptied, GraphIInv, GraphEnable, data, calls
<1> QED BY <1>1, <1>2, <1>3, <1>4, <1>5

\* GraphDisable keeps the buffers where they may be.
LEMMA GraphDisableData ==
  ASSUME GraphIInv, GraphDisable
  PROVE  Kinds' /\ Queued' /\ Hands' /\ Resized' /\ Emptied'
<1>1. Kinds'
  BY DEF Kinds, GraphIInv, GraphDisable, data
<1>2. Queued'
  BY DEF Queued, GraphIInv, GraphDisable, data
<1>3. Hands'
  BY DEF Hands, GraphIInv, GraphDisable, data, worker
<1>4. Resized'
  BY DEF Resized, GraphIInv, GraphDisable, links, data, calls
<1>5. Emptied'
  BY DEF Emptied, GraphIInv, GraphDisable, data, calls
<1> QED BY <1>1, <1>2, <1>3, <1>4, <1>5

\* GraphDestroy keeps the buffers where they may be.
LEMMA GraphDestroyData ==
  ASSUME GraphIInv, GraphDestroy
  PROVE  Kinds' /\ Queued' /\ Hands' /\ Resized' /\ Emptied'
<1>1. Kinds'
  BY DEF Kinds, GraphIInv, GraphDestroy, data
<1>2. Queued'
  BY DEF Queued, GraphIInv, GraphDestroy, data
<1>3. Hands'
  BY DEF Hands, GraphIInv, GraphDestroy, data, worker
<1>4. Resized'
  BY DEF Resized, GraphIInv, GraphDestroy, links, data, calls
<1>5. Emptied'
  BY DEF Emptied, GraphIInv, GraphDestroy, data, calls
<1> QED BY <1>1, <1>2, <1>3, <1>4, <1>5

\* PortFlush keeps the buffers where they may be.
LEMMA PortFlushData ==
  ASSUME GraphIInv, PortFlush
  PROVE  Kinds' /\ Queued' /\ Hands' /\ Resized' /\ Emptied'
<1>1. Kinds'
  <2>1. PICK k \in FlushReach :
          /\ LET flushed == {b \in Buffers : \/ \E i \in 0 .. k : at[b] = In(i)
                                             \/ \E i \in 1 .. k : \E n \in DOMAIN queue[i] : queue[i][n] = b}
             IN at' = [b \in Buffers |-> IF b \in flushed THEN Pool ELSE at[b]]
          /\ queue' = [i \in Connections |-> IF i <= k THEN <<>> ELSE queue[i]]
    BY DEF PortFlush, In, Pool
  <2> DEFINE S == {b \in Buffers : \/ \E i \in 0 .. k : at[b] = In(i)
                                   \/ \E i \in 1 .. k : \E n \in DOMAIN queue[i] : queue[i][n] = b}
  <2>2. /\ at' = [b \in Buffers |-> IF b \in S THEN Pool ELSE at[b]]
        /\ UNCHANGED <<worker, sized, is_enabled, step, cx, op, pc, todo, ok>>
    BY <2>1 DEF PortFlush, links, calls, client
  <2> HIDE DEF S
  <2> QED BY <2>2, KindsRelease, PlacesApart DEF GraphIInv
<1>2. Queued'
  <2>1. PICK k \in FlushReach :
          /\ LET flushed == {b \in Buffers : \/ \E i \in 0 .. k : at[b] = In(i)
                                             \/ \E i \in 1 .. k : \E n \in DOMAIN queue[i] : queue[i][n] = b}
             IN at' = [b \in Buffers |-> IF b \in flushed THEN Pool ELSE at[b]]
          /\ queue' = [i \in Connections |-> IF i <= k THEN <<>> ELSE queue[i]]
    BY DEF PortFlush, In, Pool
  <2> DEFINE S == {b \in Buffers : \/ \E i \in 0 .. k : at[b] = In(i)
                                   \/ \E i \in 1 .. k : \E n \in DOMAIN queue[i] : queue[i][n] = b}
  <2>2. /\ at' = [b \in Buffers |-> IF b \in S THEN Pool ELSE at[b]]
        /\ UNCHANGED <<worker, sized, is_enabled, step, cx, op, pc, todo, ok>>
    BY <2>1 DEF PortFlush, links, calls, client
  <2>3. ASSUME NEW i \in Connections
        PROVE  \/ queue'[i] = queue[i]
               \/ queue'[i] = <<>> /\ \A n \in DOMAIN queue[i] : queue[i][n] \in S
    <3>1. k \in 0 .. N /\ i \in 1 .. N
      BY Sizes DEF FlushReach
    <3>2. \A n \in DOMAIN queue[i] : queue[i][n] \in Buffers
      BY DEF GraphIInv, GraphTypes, QueueTypes
    <3>3. CASE i <= k
      BY <2>1, <3>1, <3>2, <3>3
    <3>4. CASE ~(i <= k)
      BY <2>1, <3>4
    <3> QED BY <3>3, <3>4
  <2> HIDE DEF S
  <2> QED BY <2>2, <2>3, QueuedRelease, PlacesApart DEF GraphIInv
<1>3. Hands'
  <2>1. PICK k \in FlushReach :
          /\ LET flushed == {b \in Buffers : \/ \E i \in 0 .. k : at[b] = In(i)
                                             \/ \E i \in 1 .. k : \E n \in DOMAIN queue[i] : queue[i][n] = b}
             IN at' = [b \in Buffers |-> IF b \in flushed THEN Pool ELSE at[b]]
          /\ queue' = [i \in Connections |-> IF i <= k THEN <<>> ELSE queue[i]]
    BY DEF PortFlush, In, Pool
  <2> DEFINE S == {b \in Buffers : \/ \E i \in 0 .. k : at[b] = In(i)
                                   \/ \E i \in 1 .. k : \E n \in DOMAIN queue[i] : queue[i][n] = b}
  <2>2. /\ at' = [b \in Buffers |-> IF b \in S THEN Pool ELSE at[b]]
        /\ UNCHANGED <<worker, sized, is_enabled, step, cx, op, pc, todo, ok>>
    BY <2>1 DEF PortFlush, links, calls, client
  <2> HIDE DEF S
  <2> QED BY <2>2, HandsRelease, PlacesApart DEF GraphIInv, worker
<1>4. Resized'
  <2>1. PICK k \in FlushReach :
          /\ LET flushed == {b \in Buffers : \/ \E i \in 0 .. k : at[b] = In(i)
                                             \/ \E i \in 1 .. k : \E n \in DOMAIN queue[i] : queue[i][n] = b}
             IN at' = [b \in Buffers |-> IF b \in flushed THEN Pool ELSE at[b]]
          /\ queue' = [i \in Connections |-> IF i <= k THEN <<>> ELSE queue[i]]
    BY DEF PortFlush, In, Pool
  <2> DEFINE S == {b \in Buffers : \/ \E i \in 0 .. k : at[b] = In(i)
                                   \/ \E i \in 1 .. k : \E n \in DOMAIN queue[i] : queue[i][n] = b}
  <2>2. /\ at' = [b \in Buffers |-> IF b \in S THEN Pool ELSE at[b]]
        /\ UNCHANGED <<worker, sized, is_enabled, step, cx, op, pc, todo, ok>>
    BY <2>1 DEF PortFlush, links, calls, client
  <2> HIDE DEF S
  <2>3. \A i \in Connections : \A b \in Headers[i] : at[b] # None => at'[b] # None
    BY <2>2, Owners, PlacesApart
  <2> QED BY <2>2, <2>3 DEF GraphIInv, Resized
<1>5. Emptied'
  <2>1. PICK k \in FlushReach :
          /\ LET flushed == {b \in Buffers : \/ \E i \in 0 .. k : at[b] = In(i)
                                             \/ \E i \in 1 .. k : \E n \in DOMAIN queue[i] : queue[i][n] = b}
             IN at' = [b \in Buffers |-> IF b \in flushed THEN Pool ELSE at[b]]
          /\ queue' = [i \in Connections |-> IF i <= k THEN <<>> ELSE queue[i]]
    BY DEF PortFlush, In, Pool
  <2> DEFINE S == {b \in Buffers : \/ \E i \in 0 .. k : at[b] = In(i)
                                   \/ \E i \in 1 .. k : \E n \in DOMAIN queue[i] : queue[i][n] = b}
  <2>2. /\ at' = [b \in Buffers |-> IF b \in S THEN Pool ELSE at[b]]
        /\ UNCHANGED <<worker, sized, is_enabled, step, cx, op, pc, todo, ok>>
    BY <2>1 DEF PortFlush, links, calls, client
  <2> HIDE DEF S
  <2>3. \A i \in Connections : \A b \in Headers[i] : at'[b] \in {at[b], Pool}
    BY <2>2, Owners
  <2>4. \A t \in Threads : cx[t] \in Connections
    BY DEF GraphIInv, GraphTypes, CallTypes
  <2> QED BY <2>2, <2>3, <2>4, PlacesApart DEF GraphIInv, Emptied
<1> QED BY <1>1, <1>2, <1>3, <1>4, <1>5

\* ClientRelease keeps the buffers where they may be.
LEMMA ClientReleaseData ==
  ASSUME GraphIInv, NEW i \in Connections, ClientRelease(i)
  PROVE  Kinds' /\ Queued' /\ Hands' /\ Resized' /\ Emptied'
<1>1. Kinds'
  BY DEF Kinds, GraphIInv, ClientRelease, data
<1>2. Queued'
  BY DEF Queued, GraphIInv, ClientRelease, data
<1>3. Hands'
  BY DEF Hands, GraphIInv, ClientRelease, data, worker
<1>4. Resized'
  BY DEF Resized, GraphIInv, ClientRelease, links, data, calls
<1>5. Emptied'
  BY DEF Emptied, GraphIInv, ClientRelease, data, calls
<1> QED BY <1>1, <1>2, <1>3, <1>4, <1>5

\* PortEnable keeps the buffers where they may be.
LEMMA PortEnableData ==
  ASSUME GraphIInv, NEW p \in GraphPorts, PortEnable(p)
  PROVE  Kinds' /\ Queued' /\ Hands' /\ Resized' /\ Emptied'
<1>1. Kinds'
  BY DEF Kinds, GraphIInv, PortEnable, data
<1>2. Queued'
  BY DEF Queued, GraphIInv, PortEnable, data
<1>3. Hands'
  BY DEF Hands, GraphIInv, PortEnable, data, worker
<1>4. Resized'
  BY DEF Resized, GraphIInv, PortEnable, links, data, calls
<1>5. Emptied'
  BY DEF Emptied, GraphIInv, PortEnable, data, calls
<1> QED BY <1>1, <1>2, <1>3, <1>4, <1>5

\* PortDisable keeps the buffers where they may be.
LEMMA PortDisableData ==
  ASSUME GraphIInv, NEW p \in GraphPorts, PortDisable(p)
  PROVE  Kinds' /\ Queued' /\ Hands' /\ Resized' /\ Emptied'
<1>1. Kinds'
  BY DEF Kinds, GraphIInv, PortDisable, data
<1>2. Queued'
  BY DEF Queued, GraphIInv, PortDisable, data
<1>3. Hands'
  BY DEF Hands, GraphIInv, PortDisable, data, worker
<1>4. Resized'
  BY DEF Resized, GraphIInv, PortDisable, links, data, calls
<1>5. Emptied'
  BY DEF Emptied, GraphIInv, PortDisable, data, calls
<1> QED BY <1>1, <1>2, <1>3, <1>4, <1>5

\* PortSend keeps the buffers where they may be.
LEMMA PortSendData ==
  ASSUME GraphIInv, NEW b \in ClientBuffers, PortSend(b)
  PROVE  Kinds' /\ Queued' /\ Hands' /\ Resized' /\ Emptied'
<1>1. Kinds'
  <2>1. at' = [at EXCEPT ![b] = GraphIn]
    BY DEF PortSend, Accepts
  <2>2. b \in Buffers /\ \A i \in Connections : b \notin Headers[i] /\ b \notin Events[i]
    BY Owners
  <2> QED BY <2>1, <2>2, KindsMove DEF GraphIInv
<1>2. Queued'
  <2>1. at' = [at EXCEPT ![b] = GraphIn] /\ UNCHANGED queue
    BY DEF PortSend, Accepts
  <2>2. b \in Buffers /\ GraphIn # Queue
    BY Owners, PlacesApart, PortsOf
  <2> QED BY <2>1, <2>2, QueuedMove DEF GraphIInv
<1>3. Hands'
  <2>1. at' = [at EXCEPT ![b] = GraphIn] /\ UNCHANGED worker
    BY DEF PortSend, Accepts
  <2>2. b \in Buffers /\ GraphIn # Hand
    BY Owners, PlacesApart, PortsOf
  <2> QED BY <2>1, <2>2, HandsMove DEF GraphIInv, worker
<1>4. Resized'
  BY Owners DEF Resized, GraphIInv, PortSend, Accepts, links, calls, client
<1>5. Emptied'
  BY Owners DEF Emptied, GraphIInv, GraphTypes, CallTypes, PortSend, Accepts, calls
<1> QED BY <1>1, <1>2, <1>3, <1>4, <1>5

-----------------------------------------------------------------------------
(* Wakeups. *)

\* What wakes the thread for the pool of connection i, and when it has to be awake.
Watched(i) == returning[In(i)] # "no" \/ sema > 0 \/ VisitsPool(i)
Watching   == faults = 0 /\ ~stop_thread /\ op \notin {"enable", "port_enable"}

\* Buffers that come into a pool, and ports that are enabled, are watched.
LEMMA PoolStep ==
  ASSUME PoolCovered, Watching' => Watching,
         \A i \in Connections : Watching' /\ Watched(i) =>
            Watched(i)' \/ (\A b \in Headers[i] : at'[b] # Pool) \/ ~enabled'[Out(i)],
         \A i \in Connections : \A b \in Headers[i] :
            Watching' /\ at'[b] = Pool /\ enabled'[Out(i)] => (at[b] = Pool /\ enabled[Out(i)]) \/ Watched(i)'
  PROVE  PoolCovered'
BY DEF PoolCovered, Watching, Watched

\* A buffer that moves elsewhere does not come into a pool.
LEMMA PoolTaken ==
  ASSUME GraphTypes, NEW b \in Buffers, NEW l, l # Pool, at' = [at EXCEPT ![b] = l]
  PROVE  \A i \in Connections : \A c \in Headers[i] : at'[c] = Pool => at[c] = Pool
BY Owners DEF GraphTypes, PlaceTypes

\* What has no part in it.
LEMMA PoolSame ==
  ASSUME WakeupInv, UNCHANGED <<wpc, wcx, sema>>,
         \A i \in Connections : returning'[In(i)] = returning[In(i)]
  PROVE  \A i \in Connections : Watched(i)' <=> Watched(i)
BY DEF Watched, VisitsPool, Asleep

\* ReturnInput loses no wakeup.
LEMMA ReturnInputWakes ==
  ASSUME GraphIInv, WakeupInv, NEW i \in 0 .. N, ReturnInput(i)
  PROVE  QueueCovered' /\ PoolCovered'
<1>1. QueueCovered'
  BY DEF QueueCovered, WakeupInv, ReturnInput, worker, VisitsQueue, Out
<1>2. PoolCovered'
  <2>1. PICK b \in Buffers : /\ at[b] = In(i) /\ at' = [at EXCEPT ![b] = Pool]
                              /\ returning' = [returning EXCEPT ![In(i)] = IF b \in AllHeaders THEN "buffer" ELSE @]
    BY DEF ReturnInput, In, Pool
  <2>2. UNCHANGED <<enabled, sema, wpc, wcx, stop_thread, op, faults>>
    BY DEF ReturnInput, ports, worker, client
  <2>3. In(i) \in Ports /\ returning \in [Ports -> {"no", "buffer", "event"}]
    BY PortsOf DEF GraphIInv, GraphTypes, PortTypes
  <2>4. \A j \in Connections : returning[In(j)] # "no" => returning'[In(j)] # "no"
    BY <2>1, <2>3, PortsOf
  <2>5. ASSUME NEW j \in Connections, NEW c \in Headers[j], at'[c] = Pool PROVE at[c] = Pool \/ Watched(j)'
    <3>1. CASE c # b
      BY <2>1, <2>5, <3>1
    <3>2. CASE c = b
      <4>1. In(i) = In(j) /\ b \in AllHeaders
        BY <2>1, <3>2, PlacesApart, Owners DEF GraphIInv, Kinds
      <4>2. returning'[In(j)] = "buffer"
        BY <2>1, <2>3, <4>1
      <4> QED BY <4>2 DEF Watched
    <3> QED BY <3>1, <3>2
  <2> QED BY <2>2, <2>4, <2>5, PoolStep DEF WakeupInv, Watching, Watched, VisitsPool
<1> QED BY <1>1, <1>2

\* ReturnOutput loses no wakeup.
LEMMA ReturnOutputWakes ==
  ASSUME GraphIInv, WakeupInv, NEW i \in Connections, ReturnOutput(i)
  PROVE  QueueCovered' /\ PoolCovered'
<1>1. QueueCovered'
  BY PortsOf DEF QueueCovered, WakeupInv, GraphIInv, GraphTypes, PortTypes, ReturnOutput, worker,
     VisitsQueue, Out
<1>2. PoolCovered'
  <2>1. \E b \in Buffers : at' = [at EXCEPT ![b] = Queue]
    BY DEF ReturnOutput, Queue
  <2>2. /\ UNCHANGED <<enabled, sema, wpc, wcx, stop_thread, op, faults>>
        /\ \A j \in Connections : returning'[In(j)] = returning[In(j)]
    BY DEF ReturnOutput, ports, worker, client, In
  <2>3. \A j \in Connections : Watched(j)' <=> Watched(j)
    BY <2>2, PoolSame
  <2>4. \A j \in Connections : \A c \in Headers[j] : at'[c] = Pool => at[c] = Pool
    BY <2>1, PoolTaken, PlacesApart DEF GraphIInv
  <2> QED BY <2>2, <2>3, <2>4, PoolStep DEF WakeupInv, Watching
<1> QED BY <1>1, <1>2

\* RaiseEvent loses no wakeup.
LEMMA RaiseEventWakes ==
  ASSUME GraphIInv, WakeupInv, NEW i \in Connections, RaiseEvent(i)
  PROVE  QueueCovered' /\ PoolCovered'
<1>1. QueueCovered'
  BY PortsOf DEF QueueCovered, WakeupInv, GraphIInv, GraphTypes, PortTypes, RaiseEvent, worker,
     VisitsQueue, Out
<1>2. PoolCovered'
  <2>1. \E e \in Buffers : at' = [at EXCEPT ![e] = Queue]
    BY Owners DEF RaiseEvent, Queue
  <2>2. /\ UNCHANGED <<enabled, sema, wpc, wcx, stop_thread, op, faults>>
        /\ \A j \in Connections : returning'[In(j)] = returning[In(j)]
    BY DEF RaiseEvent, ports, worker, client, In
  <2>3. \A j \in Connections : Watched(j)' <=> Watched(j)
    BY <2>2, PoolSame
  <2>4. \A j \in Connections : \A c \in Headers[j] : at'[c] = Pool => at[c] = Pool
    BY <2>1, PoolTaken, PlacesApart DEF GraphIInv
  <2> QED BY <2>2, <2>3, <2>4, PoolStep DEF WakeupInv, Watching
<1> QED BY <1>1, <1>2

\* Notify loses no wakeup.
LEMMA NotifyWakes ==
  ASSUME GraphIInv, WakeupInv, NEW p \in Ports, Notify(p)
  PROVE  QueueCovered' /\ PoolCovered'
<1>1. QueueCovered'
  BY Sizes DEF QueueCovered, GraphIInv, GraphTypes, ThreadTypes, Notify, Wakes, Posted
<1>2. PoolCovered'
  BY Sizes DEF PoolCovered, GraphIInv, GraphTypes, ThreadTypes, Notify, Wakes, Posted
<1> QED BY <1>1, <1>2

\* EnableConnection loses no wakeup.
LEMMA EnableConnectionWakes ==
  ASSUME GraphIInv, WakeupInv, NEW t \in Threads, EnableConnection(t)
  PROVE  QueueCovered' /\ PoolCovered'
<1>1. QueueCovered'
  BY DEF QueueCovered, WakeupInv, EnableConnection, worker, VisitsQueue
<1>2. PoolCovered'
  <2>1. step[t] = "enable" /\ t \in {"client", "worker"}
    BY DEF EnableConnection, Threads
  <2>2. UNCHANGED <<enabled, returning, sema, wpc, wcx, stop_thread, op>>
    BY DEF EnableConnection, ports, worker, client
  <2>3. \A j \in Connections : Watched(j)' <=> Watched(j)
    BY <2>2, PoolSame
  <2>4. \A j \in Connections : \A b \in Headers[j] : at'[b] = at[b] \/ (j = cx[t] /\ at'[b] = Pool)
    <3>1. \/ at' = at
          \/ at' = [b \in Buffers |-> IF b \in Headers[cx[t]] /\ ~sized[cx[t]] THEN Pool ELSE at[b]]
      BY DEF EnableConnection, Pool
    <3>2. cx[t] \in Connections
      BY DEF GraphIInv, GraphTypes, CallTypes
    <3> QED BY <3>1, <3>2, Owners DEF Own
  <2>5. t = "client" => ~Watching'
    BY <2>1, <2>2 DEF GraphIInv, Calls, Enabling, Watching
  <2>6. t = "worker" => cx[t] = wcx /\ wpc = "enable"
    BY <2>1 DEF GraphIInv, Calls, Enabling
  <2>7. t = "worker" => Watched(cx[t])
    BY <2>6, Sizes DEF Watched, VisitsPool, Asleep, GraphIInv, GraphTypes, ThreadTypes
  <2>8. Watching' => Watching
    BY <2>2 DEF EnableConnection, Return, Fault, Watching, GraphIInv, GraphTypes, BoundTypes
  <2> QED BY <2>1, <2>2, <2>3, <2>4, <2>5, <2>7, <2>8, PoolStep DEF WakeupInv
<1> QED BY <1>1, <1>2

\* EnableOutput loses no wakeup.
LEMMA EnableOutputWakes ==
  ASSUME GraphIInv, WakeupInv, NEW t \in Threads, EnableOutput(t)
  PROVE  QueueCovered' /\ PoolCovered'
<1>1. QueueCovered'
  BY DEF QueueCovered, WakeupInv, EnableOutput, data, worker, VisitsQueue
<1>2. PoolCovered'
  <2>1. step[t] = "out" /\ t \in {"client", "worker"}
    BY DEF EnableOutput, Threads
  <2>2. UNCHANGED <<at, returning, sema, wpc, wcx, stop_thread, op>>
    BY DEF EnableOutput, data, worker, client
  <2>3. \A j \in Connections : Watched(j)' <=> Watched(j)
    BY <2>2, PoolSame
  <2>4. \A j \in Connections : enabled'[Out(j)] = enabled[Out(j)] \/ j = cx[t]
    BY PortsOf, PlacesApart DEF EnableOutput, Out, GraphIInv, GraphTypes, PortTypes, CallTypes
  <2>5. t = "client" => ~Watching'
    BY <2>1, <2>2 DEF GraphIInv, Calls, Enabling, Watching
  <2>6. t = "worker" => cx[t] = wcx /\ wpc = "enable"
    BY <2>1 DEF GraphIInv, Calls, Enabling
  <2>7. t = "worker" => Watched(cx[t])
    BY <2>6, Sizes DEF Watched, VisitsPool, Asleep, GraphIInv, GraphTypes, ThreadTypes
  <2>8. Watching' => Watching
    <3>1. faults' = faults \/ Fault
      BY DEF EnableOutput, EnableFails
    <3> QED BY <2>2, <3>1 DEF Fault, Watching, GraphIInv, GraphTypes, BoundTypes
  <2> QED BY <2>1, <2>2, <2>3, <2>4, <2>5, <2>7, <2>8, PoolStep DEF WakeupInv
<1> QED BY <1>1, <1>2

\* EnableInput loses no wakeup.
LEMMA EnableInputWakes ==
  ASSUME GraphIInv, WakeupInv, NEW t \in Threads, EnableInput(t)
  PROVE  QueueCovered' /\ PoolCovered'
<1>1. QueueCovered'
  BY DEF QueueCovered, WakeupInv, EnableInput, data, worker, VisitsQueue
<1>2. PoolCovered'
  <2>2. UNCHANGED <<at, returning, sema, wpc, wcx, stop_thread, op>>
    BY DEF EnableInput, data, worker, client
  <2>3. \A j \in Connections : Watched(j)' <=> Watched(j)
    BY <2>2, PoolSame
  <2>4. \A j \in Connections : enabled'[Out(j)] => enabled[Out(j)]
    BY PortsOf, PlacesApart DEF EnableInput, Out, In, GraphIInv, GraphTypes, PortTypes, CallTypes
  <2>8. Watching' => Watching
    BY <2>2 DEF EnableInput, Return, EnableFails, Fault, Watching, GraphIInv, GraphTypes,
       BoundTypes
  <2> QED BY <2>2, <2>3, <2>4, <2>8, PoolStep DEF WakeupInv
<1> QED BY <1>1, <1>2

\* EnableUndone loses no wakeup.
LEMMA EnableUndoneWakes ==
  ASSUME GraphIInv, WakeupInv, NEW t \in Threads, EnableUndone(t)
  PROVE  QueueCovered' /\ PoolCovered'
<1>1. QueueCovered'
  BY DEF QueueCovered, WakeupInv, EnableUndone, data, worker, VisitsQueue
<1>2. PoolCovered'
  BY DEF PoolCovered, WakeupInv, EnableUndone, ports, data, worker, client, VisitsPool
<1> QED BY <1>1, <1>2

\* DisableConnection loses no wakeup.
LEMMA DisableConnectionWakes ==
  ASSUME GraphIInv, WakeupInv, NEW t \in Threads, DisableConnection(t)
  PROVE  QueueCovered' /\ PoolCovered'
<1>1. QueueCovered'
  BY DEF QueueCovered, WakeupInv, DisableConnection, data, worker, VisitsQueue
<1>2. PoolCovered'
  <2>2. UNCHANGED <<at, returning, sema, wpc, wcx, stop_thread, op>>
    BY DEF DisableConnection, data, worker, client
  <2>3. \A j \in Connections : Watched(j)' <=> Watched(j)
    BY <2>2, PoolSame
  <2>4. \A j \in Connections : enabled'[Out(j)] => enabled[Out(j)]
    BY PortsOf, PlacesApart DEF DisableConnection, Out, In, GraphIInv, GraphTypes, PortTypes,
       CallTypes
  <2>8. Watching' => Watching
    BY <2>2 DEF DisableConnection, Watching
  <2> QED BY <2>2, <2>3, <2>4, <2>8, PoolStep DEF WakeupInv
<1> QED BY <1>1, <1>2

\* WaitInput loses no wakeup.
LEMMA WaitInputWakes ==
  ASSUME GraphIInv, WakeupInv, NEW t \in Threads, WaitInput(t)
  PROVE  QueueCovered' /\ PoolCovered'
<1>1. QueueCovered'
  BY DEF QueueCovered, WakeupInv, WaitInput, data, worker, VisitsQueue
<1>2. PoolCovered'
  BY DEF PoolCovered, WakeupInv, WaitInput, ports, data, worker, client, VisitsPool
<1> QED BY <1>1, <1>2

\* DisableOutput loses no wakeup.
LEMMA DisableOutputWakes ==
  ASSUME GraphIInv, WakeupInv, NEW t \in Threads, DisableOutput(t)
  PROVE  QueueCovered' /\ PoolCovered'
<1>1. QueueCovered'
  BY DEF QueueCovered, WakeupInv, DisableOutput, data, worker, VisitsQueue
<1>2. PoolCovered'
  <2>2. UNCHANGED <<at, returning, sema, wpc, wcx, stop_thread, op>>
    BY DEF DisableOutput, data, worker, client
  <2>3. \A j \in Connections : Watched(j)' <=> Watched(j)
    BY <2>2, PoolSame
  <2>4. \A j \in Connections : enabled'[Out(j)] => enabled[Out(j)]
    BY PortsOf, PlacesApart DEF DisableOutput, Out, In, GraphIInv, GraphTypes, PortTypes,
       CallTypes
  <2>8. Watching' => Watching
    BY <2>2 DEF DisableOutput, Watching
  <2> QED BY <2>2, <2>3, <2>4, <2>8, PoolStep DEF WakeupInv
<1> QED BY <1>1, <1>2

\* WaitOutput loses no wakeup.
LEMMA WaitOutputWakes ==
  ASSUME GraphIInv, WakeupInv, NEW t \in Threads, WaitOutput(t)
  PROVE  QueueCovered' /\ PoolCovered'
<1>1. QueueCovered'
  BY DEF QueueCovered, WakeupInv, WaitOutput, data, worker, VisitsQueue
<1>2. PoolCovered'
  BY DEF PoolCovered, WakeupInv, WaitOutput, ports, data, worker, client, VisitsPool
<1> QED BY <1>1, <1>2

\* DrainQueue loses no wakeup.
LEMMA DrainQueueWakes ==
  ASSUME GraphIInv, WakeupInv, NEW t \in Threads, DrainQueue(t)
  PROVE  QueueCovered' /\ PoolCovered'
<1>1. QueueCovered'
  BY DEF QueueCovered, WakeupInv, GraphIInv, GraphTypes, ThreadTypes, DrainQueue, ReleaseQueued,
     Posted, worker, VisitsQueue
<1>2. PoolCovered'
  <2>2. UNCHANGED <<enabled, returning, wpc, wcx, stop_thread, op, faults>>
    BY DEF DrainQueue, ports, worker, client
  <2>3. sema \in Nat
    BY Sizes DEF GraphIInv, GraphTypes, ThreadTypes
  <2>4. \/ sema' > 0
        \/ sema' = sema /\ queue[cx[t]] = <<>>
    BY <2>3, Sizes DEF DrainQueue, ReleaseQueued, Posted
  <2>5. sema > 0 => sema' > 0
    BY <2>3, <2>4
  <2>6. sema' = sema => \A j \in Connections : \A b \in Headers[j] : at'[b] = Pool => at[b] = Pool \/ sema' > 0
    <3>1. queue[cx[t]] = <<>> => at' = [b \in Buffers |-> at[b]]
      BY DEF DrainQueue, ReleaseQueued
    <3> QED BY <2>4, <3>1, Owners
  <2> QED BY <2>2, <2>4, <2>5, <2>6, PoolStep DEF WakeupInv, Watching, Watched, VisitsPool
<1> QED BY <1>1, <1>2

\* DisableDone loses no wakeup.
LEMMA DisableDoneWakes ==
  ASSUME GraphIInv, WakeupInv, NEW t \in Threads, DisableDone(t)
  PROVE  QueueCovered' /\ PoolCovered'
<1>1. QueueCovered'
  BY DEF QueueCovered, WakeupInv, DisableDone, data, worker, VisitsQueue
<1>2. PoolCovered'
  BY DEF PoolCovered, WakeupInv, DisableDone, ports, data, worker, client, VisitsPool
<1> QED BY <1>1, <1>2

\* WorkerWakes loses no wakeup.
LEMMA WorkerWakesWakes ==
  ASSUME GraphIInv, WakeupInv, WorkerWakes
  PROVE  QueueCovered' /\ PoolCovered'
<1>1. QueueCovered'
  BY Sizes DEF QueueCovered, WorkerWakes, VisitsQueue, Asleep
<1>2. PoolCovered'
  BY Sizes DEF PoolCovered, WorkerWakes, VisitsPool, Asleep
<1> QED BY <1>1, <1>2

\* TakeQueued loses no wakeup.
LEMMA TakeQueuedWakes ==
  ASSUME GraphIInv, WakeupInv, TakeQueued
  PROVE  QueueCovered' /\ PoolCovered'
<1>1. QueueCovered'
  BY PlacesApart DEF QueueCovered, WakeupInv, GraphIInv, GraphTypes, QueueTypes, TakeQueued,
     data, VisitsQueue, Asleep
<1>2. PoolCovered'
  <2>1. /\ UNCHANGED <<enabled, returning, sema, wcx, stop_thread, op, faults>>
        /\ wpc = "queue" /\ wpc' \notin Asleep
    BY DEF TakeQueued, ports, client, Asleep
  <2>2. \A j \in Connections : Watched(j)' <=> Watched(j)
    BY <2>1 DEF Watched, VisitsPool, Asleep
  <2>3. \A j \in Connections : \A c \in Headers[j] : at'[c] = Pool => at[c] = Pool
    <3>1. CASE queue[wcx] = <<>>
      BY <3>1 DEF TakeQueued, data
    <3>2. CASE queue[wcx] # <<>>
      <4>1. at' = [at EXCEPT ![Head(queue[wcx])] = Hand] /\ queue[wcx] \in Seq(Buffers)
        BY <3>2 DEF TakeQueued, Hand, GraphIInv, GraphTypes, ThreadTypes, QueueTypes
      <4>2. Head(queue[wcx]) \in Buffers
        BY <3>2, <4>1
      <4> QED BY <4>1, <4>2, PoolTaken, PlacesApart DEF GraphIInv
    <3> QED BY <3>1, <3>2
  <2> QED BY <2>1, <2>2, <2>3, PoolStep DEF WakeupInv, Watching
<1> QED BY <1>1, <1>2

\* SendQueued loses no wakeup.
LEMMA SendQueuedWakes ==
  ASSUME GraphIInv, WakeupInv, SendQueued
  PROVE  QueueCovered' /\ PoolCovered'
<1>1. QueueCovered'
  BY DEF QueueCovered, WakeupInv, GraphIInv, GraphTypes, ThreadTypes, SendQueued, Released,
     Posted, VisitsQueue, Asleep
<1>2. PoolCovered'
  <2>1. /\ UNCHANGED <<enabled, returning, wcx, stop_thread, op>> /\ wpc = "send"
        /\ wpc \notin Asleep /\ wpc' \notin Asleep /\ wcx \in Connections
    BY DEF SendQueued, ports, client, Asleep, GraphIInv, GraphTypes, ThreadTypes
  <2>2. Watching' => Watching
    BY <2>1 DEF SendQueued, Accepts, Refuses, Fault, Watching, GraphIInv, GraphTypes, BoundTypes
  <2>3. at' = at \/ at' = [at EXCEPT ![wbuffer] = In(wcx)] \/ at' = [at EXCEPT ![wbuffer] = Pool]
    BY DEF SendQueued, Accepts, Released, In, Pool
  <2>4. \A j \in Connections : \A c \in Headers[j] : at'[c] = Pool => at[c] = Pool \/ j = wcx
    BY <2>1, <2>3, HandHolds, Owners DEF GraphIInv, GraphTypes, PlaceTypes
  <2>5. VisitsPool(wcx)' /\ \A j \in Connections : Watched(j) => Watched(j)'
    BY <2>1, Sizes DEF SendQueued, Released, Posted, Watched, VisitsPool, GraphIInv, GraphTypes,
       ThreadTypes
  <2> QED BY <2>1, <2>2, <2>4, <2>5, PoolStep DEF WakeupInv, Watched
<1> QED BY <1>1, <1>2

\* HandleEvent loses no wakeup.
LEMMA HandleEventWakes ==
  ASSUME GraphIInv, WakeupInv, HandleEvent
  PROVE  QueueCovered' /\ PoolCovered'
<1>1. QueueCovered'
  BY DEF QueueCovered, WakeupInv, HandleEvent, VisitsQueue, Asleep
<1>2. PoolCovered'
  <2>1. /\ UNCHANGED <<enabled, returning, wcx, stop_thread, op>> /\ wpc = "event"
        /\ wpc \notin Asleep /\ wpc' \notin Asleep /\ wcx \in Connections
    BY DEF HandleEvent, ports, client, Asleep, GraphIInv, GraphTypes, ThreadTypes
  <2>2. Watching' => Watching
    BY <2>1 DEF HandleEvent, Accepts, Fault, Watching, GraphIInv, GraphTypes, BoundTypes
  <2>3. at' = at \/ at' = [at EXCEPT ![wbuffer] = In(wcx)] \/ at' = [at EXCEPT ![wbuffer] = Pool]
    BY DEF HandleEvent, Accepts, Released, In, Pool
  <2>4. \A j \in Connections : \A c \in Headers[j] : at'[c] = Pool => at[c] = Pool \/ j = wcx
    BY <2>1, <2>3, HandHolds, Owners DEF GraphIInv, GraphTypes, PlaceTypes
  <2>5. VisitsPool(wcx)' /\ \A j \in Connections : Watched(j) => Watched(j)'
    BY <2>1, Sizes DEF HandleEvent, Watched, VisitsPool
  <2> QED BY <2>1, <2>2, <2>4, <2>5, PoolStep DEF WakeupInv, Watched
<1> QED BY <1>1, <1>2

\* Reconfigure loses no wakeup.
LEMMA ReconfigureWakes ==
  ASSUME GraphIInv, WakeupInv, Reconfigure
  PROVE  QueueCovered' /\ PoolCovered'
<1>1. QueueCovered'
  BY DEF QueueCovered, WakeupInv, Reconfigure, VisitsQueue, Asleep
<1>2. PoolCovered'
  <2>1. /\ UNCHANGED <<enabled, returning, wcx, stop_thread, op>> /\ wpc \in {"disable", "enable"}
        /\ wpc \notin Asleep /\ wpc' \notin Asleep /\ wcx \in Connections
    BY DEF Reconfigure, ports, client, Asleep, GraphIInv, GraphTypes, ThreadTypes
  <2>2. Watching' => Watching
    BY <2>1 DEF Reconfigure, Fault, Watching, GraphIInv, GraphTypes, BoundTypes
  <2>3. at' = at \/ at' = [at EXCEPT ![wbuffer] = In(wcx)] \/ at' = [at EXCEPT ![wbuffer] = Pool]
    BY DEF Reconfigure, Accepts, Released, In, Pool
  <2>4. \A j \in Connections : \A c \in Headers[j] : at'[c] = Pool => at[c] = Pool \/ j = wcx
    BY <2>1, <2>3, HandHolds, Owners DEF GraphIInv, GraphTypes, PlaceTypes
  <2>5. VisitsPool(wcx)' /\ \A j \in Connections : Watched(j) => Watched(j)'
    BY <2>1, Sizes DEF Reconfigure, Watched, VisitsPool
  <2> QED BY <2>1, <2>2, <2>4, <2>5, PoolStep DEF WakeupInv, Watched
<1> QED BY <1>1, <1>2

\* TakeEmpty loses no wakeup.
LEMMA TakeEmptyWakes ==
  ASSUME GraphIInv, WakeupInv, TakeEmpty
  PROVE  QueueCovered' /\ PoolCovered'
<1>1. QueueCovered'
  BY Sizes DEF QueueCovered, WakeupInv, GraphIInv, GraphTypes, ThreadTypes, TakeEmpty,
     NextConnection, VisitsQueue, Asleep, Queue
<1>2. PoolCovered'
  <2>1. /\ UNCHANGED <<enabled, returning, sema, stop_thread, op, faults>> /\ wpc = "pool"
        /\ wcx \in 1 .. N /\ N \in Nat /\ wpc \notin Asleep
    BY Sizes DEF TakeEmpty, ports, client, Asleep, GraphIInv, GraphTypes, ThreadTypes
  <2>2. CASE InPool = {} /\ NextConnection(run_again) /\ UNCHANGED at
    <3>1. \A b \in Headers[wcx] : at'[b] # Pool
      BY <2>2 DEF InPool, Pool
    <3>2. \A j \in Connections : VisitsPool(j) => VisitsPool(j)' \/ j = wcx
      BY <2>1, <2>2, Sizes DEF NextConnection, VisitsPool, Asleep
    <3> QED BY <2>1, <2>2, <3>1, <3>2, PoolStep DEF WakeupInv, Watched, Watching
  <2>3. CASE wpc' = "fill" /\ UNCHANGED wcx /\ \E b \in InPool : at' = [at EXCEPT ![b] = Hand]
    <3>1. \A j \in Connections : \A c \in Headers[j] : at'[c] = Pool => at[c] = Pool
      BY <2>1, <2>3, PlacesApart
    <3> QED BY <2>1, <2>3, <3>1, PoolStep DEF WakeupInv, Watched, Watching, VisitsPool, Asleep
  <2> QED BY <2>2, <2>3 DEF TakeEmpty, Hand
<1> QED BY <1>1, <1>2

\* SendEmpty loses no wakeup.
LEMMA SendEmptyWakes ==
  ASSUME GraphIInv, WakeupInv, SendEmpty
  PROVE  QueueCovered' /\ PoolCovered'
<1>1. QueueCovered'
  BY Sizes, PortsOf, Owners, PlacesApart DEF QueueCovered, WakeupInv, GraphIInv, GraphTypes,
     PlaceTypes, ThreadTypes, ClientTypes, BoundTypes, Calls, Places, SendEmpty, Refuses, Fault,
     NextConnection, ports, links, calls, client, VisitsQueue, Asleep, Enabling, Threads, Pool,
     In, Out, Queue
<1>2. PoolCovered'
  <2>1. /\ UNCHANGED <<enabled, returning, sema, stop_thread, op>> /\ wpc = "fill"
        /\ wcx \in 1 .. N /\ N \in Nat /\ wpc \notin Asleep
    BY Sizes DEF SendEmpty, ports, client, Asleep, GraphIInv, GraphTypes, ThreadTypes
  <2>2. wbuffer \in Buffers /\ wcx \in Connections
    BY <2>1, HandHolds DEF GraphIInv
  <2>3. Watching' => Watching
    <3>1. faults' = faults \/ Fault
      BY DEF SendEmpty, Accepts, Refuses
    <3> QED BY <2>1, <3>1 DEF Fault, Watching, GraphIInv, GraphTypes, BoundTypes
  <2>4. CASE at' = [at EXCEPT ![wbuffer] = Out(wcx)] /\ wpc' = "pool" /\ UNCHANGED wcx
    <3>1. \A j \in Connections : \A c \in Headers[j] : at'[c] = Pool => at[c] = Pool
      BY <2>2, <2>4, PoolTaken, PlacesApart DEF GraphIInv
    <3> QED BY <2>1, <2>3, <2>4, <3>1, PoolStep DEF WakeupInv, Watched, VisitsPool, Asleep
  <2>5. CASE Refuses(Out(wcx)) /\ at' = [at EXCEPT ![wbuffer] = Pool] /\ NextConnection(FALSE)
    <3>1. Watching' => ~enabled'[Out(wcx)]
      BY <2>1, <2>5 DEF Refuses, Fault, Watching, GraphIInv, GraphTypes, BoundTypes
    <3>2. \A j \in Connections : \A c \in Headers[j] : at'[c] = Pool => at[c] = Pool \/ j = wcx
      BY <2>1, <2>2, <2>5, HandHolds DEF GraphIInv
    <3>3. \A j \in Connections : VisitsPool(j) => VisitsPool(j)' \/ j = wcx
      BY <2>1, <2>5, Sizes DEF NextConnection, VisitsPool, Asleep
    <3> QED BY <2>1, <2>3, <3>1, <3>2, <3>3, PoolStep DEF WakeupInv, Watched
  <2> QED BY <2>4, <2>5 DEF SendEmpty, Accepts, Out, Pool
<1> QED BY <1>1, <1>2

\* GraphEnableNext loses no wakeup.
LEMMA GraphEnableNextWakes ==
  ASSUME GraphIInv, WakeupInv, GraphEnableNext
  PROVE  QueueCovered' /\ PoolCovered'
<1>1. QueueCovered'
  BY DEF QueueCovered, WakeupInv, GraphIInv, GraphTypes, ThreadTypes, GraphEnableNext, Triggered,
     Posted, data, worker, VisitsQueue
<1>2. PoolCovered'
  BY Sizes DEF PoolCovered, GraphIInv, GraphTypes, ThreadTypes, GraphEnableNext, Step, Triggered,
     Posted
<1> QED BY <1>1, <1>2

\* GraphEnableCalled loses no wakeup.
LEMMA GraphEnableCalledWakes ==
  ASSUME GraphIInv, WakeupInv, GraphEnableCalled
  PROVE  QueueCovered' /\ PoolCovered'
<1>1. QueueCovered'
  BY DEF QueueCovered, WakeupInv, GraphEnableCalled, data, worker, VisitsQueue
<1>2. PoolCovered'
  BY DEF PoolCovered, GraphEnableCalled
<1> QED BY <1>1, <1>2

\* StopWorker loses no wakeup.
LEMMA StopWorkerWakes ==
  ASSUME GraphIInv, WakeupInv, StopWorker
  PROVE  QueueCovered' /\ PoolCovered'
<1>1. QueueCovered'
  BY DEF QueueCovered, StopWorker
<1>2. PoolCovered'
  BY DEF PoolCovered, StopWorker
<1> QED BY <1>1, <1>2

\* JoinWorker loses no wakeup.
LEMMA JoinWorkerWakes ==
  ASSUME GraphIInv, WakeupInv, JoinWorker
  PROVE  QueueCovered' /\ PoolCovered'
<1>1. QueueCovered'
  BY DEF QueueCovered, GraphIInv, Places, JoinWorker, worker
<1>2. PoolCovered'
  BY DEF PoolCovered, GraphIInv, Places, JoinWorker, worker
<1> QED BY <1>1, <1>2

\* GraphDisableNext loses no wakeup.
LEMMA GraphDisableNextWakes ==
  ASSUME GraphIInv, WakeupInv, GraphDisableNext
  PROVE  QueueCovered' /\ PoolCovered'
<1>1. QueueCovered'
  BY DEF QueueCovered, WakeupInv, GraphDisableNext, data, worker, VisitsQueue
<1>2. PoolCovered'
  BY DEF PoolCovered, WakeupInv, GraphDisableNext, ports, data, worker, VisitsPool
<1> QED BY <1>1, <1>2

\* ReleaseNext loses no wakeup.
LEMMA ReleaseNextWakes ==
  ASSUME GraphIInv, WakeupInv, ReleaseNext
  PROVE  QueueCovered' /\ PoolCovered'
<1>1. QueueCovered'
  BY DEF QueueCovered, WakeupInv, ReleaseNext, data, worker, VisitsQueue
<1>2. PoolCovered'
  BY PortsOf, Owners, PlacesApart DEF PoolCovered, WakeupInv, ReleaseNext, ports, data, worker,
     VisitsPool
<1> QED BY <1>1, <1>2

\* ReleaseCalled loses no wakeup.
LEMMA ReleaseCalledWakes ==
  ASSUME GraphIInv, WakeupInv, ReleaseCalled
  PROVE  QueueCovered' /\ PoolCovered'
<1>1. QueueCovered'
  BY DEF QueueCovered, WakeupInv, ReleaseCalled, worker, VisitsQueue
<1>2. PoolCovered'
  <2>2. /\ UNCHANGED <<enabled, returning, sema, wpc, wcx, stop_thread, faults>>
        /\ op \in {"destroy", "release"}
    BY DEF ReleaseCalled, ports, worker
  <2>3. \A j \in Connections : Watched(j)' <=> Watched(j)
    BY <2>2, PoolSame
  <2>4. \A j \in Connections : \A c \in Headers[j] : at'[c] = Pool => at[c] = Pool
    BY Owners, PlacesApart DEF ReleaseCalled, None
  <2> QED BY <2>2, <2>3, <2>4, PoolStep DEF WakeupInv, Watching
<1> QED BY <1>1, <1>2

\* Destroyed loses no wakeup.
LEMMA DestroyedWakes ==
  ASSUME GraphIInv, WakeupInv, Destroyed
  PROVE  QueueCovered' /\ PoolCovered'
<1>1. QueueCovered'
  BY DEF QueueCovered, WakeupInv, Destroyed, data, worker, VisitsQueue
<1>2. PoolCovered'
  BY DEF PoolCovered, WakeupInv, Destroyed, ports, data, worker, VisitsPool
<1> QED BY <1>1, <1>2

\* PortEnableNext loses no wakeup.
LEMMA PortEnableNextWakes ==
  ASSUME GraphIInv, WakeupInv, PortEnableNext
  PROVE  QueueCovered' /\ PoolCovered'
<1>1. QueueCovered'
  BY Owners DEF QueueCovered, WakeupInv, GraphIInv, GraphTypes, ThreadTypes, PortEnableNext,
     PortEnabled, Triggered, Posted, data, worker, VisitsQueue
<1>2. PoolCovered'
  BY Sizes, Owners DEF PoolCovered, GraphIInv, GraphTypes, ThreadTypes, PortEnableNext,
     PortEnabled, Triggered, Posted, Threads, Pool, In, Queue
<1> QED BY <1>1, <1>2

\* PortDisableNext loses no wakeup.
LEMMA PortDisableNextWakes ==
  ASSUME GraphIInv, WakeupInv, PortDisableNext
  PROVE  QueueCovered' /\ PoolCovered'
<1>1. QueueCovered'
  BY DEF QueueCovered, WakeupInv, PortDisableNext, data, worker, VisitsQueue
<1>2. PoolCovered'
  <2>2. /\ UNCHANGED <<at, returning, sema, wpc, wcx, stop_thread, faults>>
        /\ op = "port_disable" 
    BY DEF PortDisableNext, data, worker
  <2>3. \A j \in Connections : Watched(j)' <=> Watched(j)
    BY <2>2, PoolSame
  <2>4. \A j \in Connections : enabled'[Out(j)] => enabled[Out(j)]
    <3>1. enabled' = enabled \/ enabled' = [enabled EXCEPT ![port] = FALSE]
      BY DEF PortDisableNext, ports
    <3> QED BY <3>1, PortsOf DEF GraphIInv, GraphTypes, PortTypes
  <2> QED BY <2>2, <2>3, <2>4, PoolStep DEF WakeupInv, Watching
<1> QED BY <1>1, <1>2

\* GraphEnable loses no wakeup.
LEMMA GraphEnableWakes ==
  ASSUME GraphIInv, WakeupInv, GraphEnable
  PROVE  QueueCovered' /\ PoolCovered'
<1>1. QueueCovered'
  <2>1. /\ UNCHANGED <<queue, returning, sema, wcx, stop_thread>>
    BY DEF GraphEnable, data, Idle
  <2>2. wpc = "none" /\ wpc' \in Asleep
    BY DEF GraphEnable, Idle, GraphIInv, Stopped, Asleep
  <2> QED BY <2>1, <2>2 DEF WakeupInv, QueueCovered, VisitsQueue, Asleep
<1>2. PoolCovered'
  BY DEF PoolCovered, GraphIInv, GraphTypes, BoundTypes, GraphEnable, Fault
<1> QED BY <1>1, <1>2

\* GraphDisable loses no wakeup.
LEMMA GraphDisableWakes ==
  ASSUME GraphIInv, WakeupInv, GraphDisable
  PROVE  QueueCovered' /\ PoolCovered'
<1>1. QueueCovered'
  BY DEF QueueCovered, WakeupInv, GraphDisable, data, worker, VisitsQueue
<1>2. PoolCovered'
  BY DEF PoolCovered, WakeupInv, GraphDisable, ports, data, worker, VisitsPool, Idle
<1> QED BY <1>1, <1>2

\* GraphDestroy loses no wakeup.
LEMMA GraphDestroyWakes ==
  ASSUME GraphIInv, WakeupInv, GraphDestroy
  PROVE  QueueCovered' /\ PoolCovered'
<1>1. QueueCovered'
  BY DEF QueueCovered, WakeupInv, GraphDestroy, data, worker, VisitsQueue
<1>2. PoolCovered'
  BY DEF PoolCovered, WakeupInv, GraphDestroy, ports, data, worker, VisitsPool, Idle
<1> QED BY <1>1, <1>2

\* PortFlush loses no wakeup.
LEMMA PortFlushWakes ==
  ASSUME GraphIInv, WakeupInv, PortFlush
  PROVE  QueueCovered' /\ PoolCovered'
<1>1. QueueCovered'
  <2>1. UNCHANGED <<returning, wpc, wcx, stop_thread>> /\ sema \in Nat
    BY Sizes DEF PortFlush, worker, GraphIInv, GraphTypes, ThreadTypes
  <2>2. \A i \in Connections : queue'[i] # <<>> => queue[i] # <<>>
    BY DEF PortFlush
  <2>3. sema > 0 => sema' > 0
    BY <2>1, Sizes DEF PortFlush, Posted
  <2> QED BY <2>1, <2>2, <2>3 DEF WakeupInv, QueueCovered, VisitsQueue
<1>2. PoolCovered'
  <2>1. UNCHANGED <<enabled, returning, wpc, wcx, stop_thread, op>> /\ sema \in Nat
    BY DEF PortFlush, ports, worker, client, GraphIInv, GraphTypes, ThreadTypes
  <2>2. Watching' => Watching
    BY <2>1 DEF PortFlush, Fault, Watching, GraphIInv, GraphTypes, BoundTypes
  <2>3. PICK S : /\ at' = [b \in Buffers |-> IF b \in S THEN Pool ELSE at[b]]
                 /\ IF S \cap AllHeaders # {} THEN Posted ELSE UNCHANGED sema
    BY DEF PortFlush, Pool
  <2>4. (sema > 0 => sema' > 0) /\ (S \cap AllHeaders # {} => sema' > 0)
    BY <2>1, <2>3, Sizes DEF Posted
  <2>5. \A j \in Connections : \A c \in Headers[j] : at'[c] = Pool => at[c] = Pool \/ sema' > 0
    BY <2>3, <2>4, Owners
  <2> QED BY <2>1, <2>2, <2>4, <2>5, PoolStep DEF WakeupInv, Watched, VisitsPool
<1> QED BY <1>1, <1>2

\* ClientRelease loses no wakeup.
LEMMA ClientReleaseWakes ==
  ASSUME GraphIInv, WakeupInv, NEW i \in Connections, ClientRelease(i)
  PROVE  QueueCovered' /\ PoolCovered'
<1>1. QueueCovered'
  BY DEF QueueCovered, WakeupInv, ClientRelease, data, worker, VisitsQueue
<1>2. PoolCovered'
  BY DEF PoolCovered, WakeupInv, ClientRelease, ports, data, worker, VisitsPool, Idle
<1> QED BY <1>1, <1>2

\* PortEnable loses no wakeup.
LEMMA PortEnableWakes ==
  ASSUME GraphIInv, WakeupInv, NEW p \in GraphPorts, PortEnable(p)
  PROVE  QueueCovered' /\ PoolCovered'
<1>1. QueueCovered'
  BY DEF QueueCovered, WakeupInv, PortEnable, data, worker, VisitsQueue
<1>2. PoolCovered'
  BY DEF PoolCovered, GraphIInv, GraphTypes, BoundTypes, PortEnable, Fault
<1> QED BY <1>1, <1>2

\* PortDisable loses no wakeup.
LEMMA PortDisableWakes ==
  ASSUME GraphIInv, WakeupInv, NEW p \in GraphPorts, PortDisable(p)
  PROVE  QueueCovered' /\ PoolCovered'
<1>1. QueueCovered'
  BY DEF QueueCovered, WakeupInv, PortDisable, data, worker, VisitsQueue
<1>2. PoolCovered'
  BY DEF PoolCovered, WakeupInv, PortDisable, data, worker, VisitsPool, Idle
<1> QED BY <1>1, <1>2

\* PortSend loses no wakeup.
LEMMA PortSendWakes ==
  ASSUME GraphIInv, WakeupInv, NEW b \in ClientBuffers, PortSend(b)
  PROVE  QueueCovered' /\ PoolCovered'
<1>1. QueueCovered'
  BY DEF QueueCovered, WakeupInv, PortSend, worker, VisitsQueue
<1>2. PoolCovered'
  BY Sizes, PortsOf, Owners, PlacesApart DEF PoolCovered, WakeupInv, PortSend, Accepts, ports,
     worker, client, VisitsPool, In, Out, Queue
<1> QED BY <1>1, <1>2

-----------------------------------------------------------------------------
(* Where a graph is enabled once: its ports, and the progress of its client. *)

\* The client and the thread of the graph are not in calls on connections at the same time.
LEMMA OneCall ==
  ASSUME GraphIInv, OnceInv
  PROVE  /\ step["client"] = "none" \/ (wpc \in Asleep /\ step["worker"] = "none")
         /\ wpc \in Asleep => step["worker"] = "none"
<1>1. wpc \in Asleep => step["worker"] = "none"
  BY DEF GraphIInv, Calls, Asleep
<1>2. ASSUME step["client"] # "none" PROVE wpc \in Asleep
  <2>1. pc = "call" /\ op # "none"
    BY <1>2 DEF GraphIInv, Calls, Places
  <2>2. CASE op \in {"enable", "port_enable"}
    BY <2>1, <2>2 DEF OnceInv, Untouched, Fresh
  <2>3. CASE op \in {"disable", "destroy", "release", "port_disable"}
    BY <2>1, <2>3 DEF GraphIInv, Stopped, Asleep
  <2> QED BY <2>1, <2>2, <2>3 DEF GraphIInv, GraphTypes, ClientTypes
<1> QED BY <1>1, <1>2

\* In a graph that is enabled once, one thread at a time is in a call on a connection.
LEMMA OtherCall ==
  ASSUME GraphIInv, OnceInv, NEW t \in Threads, step[t] # "none", NEW u \in Threads, u # t
  PROVE  step[u] = "none"
BY OneCall DEF Threads

\* No connection is disabled, and the thread is in no call, before the graph has been enabled.
LEMMA FreshCalls ==
  ASSUME GraphIInv, OnceInv, Fresh
  PROVE  /\ \A t \in Threads : step[t] \in Enabling \cup {"none"}
         /\ \A t \in Threads : step[t] # "none" => op \in {"enable", "port_enable"} /\ enables > 0
<1>1. step["worker"] = "none"
  BY OneCall DEF OnceInv, Untouched
<1>2. CASE op \in {"enable", "port_enable"}
  BY <1>1, <1>2 DEF GraphIInv, Calls, OnceInv, Untouched, Threads
<1>3. CASE op \in {"none", "release"}
  <2>1. enables = 0 /\ ~freed
    BY <1>3 DEF Fresh
  <2>2. step["client"] = "none"
    BY <1>3, <2>1 DEF GraphIInv, Calls, Places, Stopped
  <2> QED BY <1>1, <2>2 DEF Threads
<1> QED BY <1>2, <1>3 DEF Fresh

\* The ports of the connection of a call.
LEMMA CallPorts ==
  ASSUME GraphIInv, OnceInv, NEW t \in Threads, step[t] # "none"
  PROVE  /\ step[t] \in {"out", "undo"} => PortsAt(cx[t], FALSE, FALSE, FALSE)
         /\ step[t] = "undo" => faults > 0
         /\ step[t] = "in" => PortsAt(cx[t], FALSE, TRUE, FALSE)
         /\ step[t] \in {"wait_in", "stop_out"} => PortsAt(cx[t], FALSE, TRUE, TRUE)
         /\ step[t] \in {"wait_out", "drain", "check"} => PortsAt(cx[t], FALSE, FALSE, TRUE)
         /\ step[t] \in {"enable", "disable"} =>
              PortsAt(cx[t], is_enabled[cx[t]], is_enabled[cx[t]], is_enabled[cx[t]])
<1>1. cx[t] \in Connections
  BY DEF GraphIInv, GraphTypes, CallTypes
<1>2. step[t] \in {"enable", "disable"} => \A u \in Threads : step[u] \notin Midway
  BY OtherCall DEF Midway, Disabling
<1> QED BY <1>1, <1>2 DEF OnceInv, Switching

\* What a step of a call on a connection does to it, and to nothing else.
CallDoes(t) ==
  LET i == cx[t]
  IN /\ step[t] # "none"
     /\ UNCHANGED <<way, graph_enabled, refcount, returning, worker, cx, client>>
     /\ \A u \in Threads : u # t => step'[u] = step[u] /\ ok'[u] = ok[u]
     /\ \A j \in Connections : j # i => /\ enabled'[In(j)] = enabled[In(j)] /\ enabled'[Out(j)] = enabled[Out(j)]
                                        /\ is_enabled'[j] = is_enabled[j]
     /\ \A j \in Connections : sized'[j] = sized[j] \/ (j = i /\ step[t] = "enable")
     /\ faults' \in Nat /\ faults' >= faults
     /\ step[t] \in Enabling => UNCHANGED sema /\ \A b \in Buffers : at'[b] \in {at[b], Pool}
     /\ step'[t] \in {"out", "undo"} => PortsAt(i, FALSE, FALSE, FALSE)'
     /\ step'[t] = "in" => PortsAt(i, FALSE, TRUE, FALSE)'
     /\ step'[t] \in {"wait_in", "stop_out"} => PortsAt(i, FALSE, TRUE, TRUE)'
     /\ step'[t] \in {"wait_out", "drain", "check"} => PortsAt(i, FALSE, FALSE, TRUE)'
     /\ step'[t] = "undo" => faults' > 0
     /\ step'[t] \notin Midway => PortsAt(i, is_enabled[i], is_enabled[i], is_enabled[i])'
     /\ step'[t] = "none" => (step[t] \in Enabling => ok'[t] = is_enabled'[i])
     /\ step'[t] = "none" => (step[t] \in Enabling => is_enabled'[i] \/ faults' > 0)
     /\ step'[t] = "none" => (step[t] \notin Enabling => ok'[t])
     /\ is_enabled[i] /\ step[t] \in Enabling => is_enabled'[i]

\* What each step of a call does, as CallDoes has it.  Whether it is enabled already (mmal_connection.c).
LEMMA EnableConnectionDoes ==
  ASSUME GraphIInv, OnceInv, NEW t \in Threads, EnableConnection(t)
  PROVE  CallDoes(t)
<1> DEFINE i == cx[t]
<1>1. /\ step[t] = "enable" /\ i \in Connections /\ In(i) \in Ports /\ Out(i) \in Ports
      /\ step \in [Threads -> {"none", "enable", "out", "in", "undo", "disable", "wait_in", "stop_out",
                               "wait_out", "drain", "check"}]
      /\ ok \in [Threads -> BOOLEAN] /\ enabled \in [Ports -> BOOLEAN]
      /\ is_enabled \in [Connections -> BOOLEAN] /\ faults \in Nat
  BY Sizes, PortsOf DEF EnableConnection, GraphIInv, GraphTypes, CallTypes, LinkTypes, PortTypes,
     BoundTypes
<1>2. PortsAt(i, is_enabled[i], is_enabled[i], is_enabled[i])
  <2>1. step[t] = "enable"
    BY <1>1
  <2>2. step[t] # "none"
    BY <2>1
  <2> QED BY <2>1, <2>2, CallPorts
<1>3. /\ step[t] # "none"
      /\ UNCHANGED <<way, graph_enabled, refcount, returning, worker, cx, client>>
      /\ \A u \in Threads : u # t => step'[u] = step[u] /\ ok'[u] = ok[u]
  BY <1>1 DEF EnableConnection, Return, Step, ports, ports
<1>4. \A j \in Connections : j # i => /\ enabled'[In(j)] = enabled[In(j)] /\ enabled'[Out(j)] = enabled[Out(j)]
                                     /\ is_enabled'[j] = is_enabled[j]
  BY <1>1 DEF EnableConnection, Return, ports, ports
<1>7. faults' = faults \/ faults' = faults + 1
  BY DEF EnableConnection, Fault
<1>8. /\ UNCHANGED sema
      /\ \/ at' = at
         \/ at' = [b \in Buffers |-> IF b \in Headers[i] /\ ~sized[i] THEN Pool ELSE at[b]]
      /\ sized' = sized \/ sized' = [sized EXCEPT ![i] = TRUE]
  BY DEF EnableConnection, Pool
<1>5. /\ \A j \in Connections : sized'[j] = sized[j] \/ (j = i /\ step[t] = "enable")
      /\ faults' \in Nat /\ faults' >= faults
      /\ step[t] \in Enabling => UNCHANGED sema /\ \A b \in Buffers : at'[b] \in {at[b], Pool}
  BY <1>1, <1>7, <1>8 DEF GraphIInv, GraphTypes, LinkTypes
<1>6. \/ step'[t] = "none" /\ ok'[t] = TRUE /\ is_enabled'[i] /\ PortsAt(i, TRUE, TRUE, TRUE)'
      \/ step'[t] = "out" /\ PortsAt(i, FALSE, FALSE, FALSE)' /\ ~is_enabled[i]
      \/ step'[t] = "none" /\ ok'[t] = FALSE /\ faults' > 0 /\ PortsAt(i, FALSE, FALSE, FALSE)' /\ ~is_enabled[i]
  <2>1. CASE is_enabled[i] /\ Return(t, TRUE, TRUE) /\ UNCHANGED <<enabled, faults>>
    BY <1>1, <1>2, <1>3, <2>1, PlacesApart DEF PortsAt, Return, Step
  <2>2. CASE ~is_enabled[i] /\ Step(t, "out") /\ UNCHANGED <<enabled, is_enabled>>
    BY <1>1, <1>2, <1>3, <2>2 DEF PortsAt, Step
  <2>3. CASE ~is_enabled[i] /\ Fault /\ Return(t, FALSE, FALSE) /\ UNCHANGED enabled
    BY <1>1, <1>2, <1>3, <2>3 DEF Fault, PortsAt, Return, Step
  <2>4. \/ is_enabled[i] /\ Return(t, TRUE, TRUE) /\ UNCHANGED <<enabled, faults>>
        \/ ~is_enabled[i] /\ Step(t, "out") /\ UNCHANGED <<enabled, is_enabled>>
        \/ ~is_enabled[i] /\ Fault /\ Return(t, FALSE, FALSE) /\ UNCHANGED enabled
    BY DEF EnableConnection, ports
  <2> QED BY <2>1, <2>2, <2>3, <2>4 DEF PortsAt
<1> QED BY <1>1, <1>3, <1>4, <1>5, <1>6 DEF CallDoes, PortsAt, Midway, Disabling, Enabling

\* The output port is enabled, or not.
LEMMA EnableOutputDoes ==
  ASSUME GraphIInv, OnceInv, NEW t \in Threads, EnableOutput(t)
  PROVE  CallDoes(t)
<1> DEFINE i == cx[t]
<1>1. /\ step[t] = "out" /\ i \in Connections /\ In(i) \in Ports /\ Out(i) \in Ports
      /\ step \in [Threads -> {"none", "enable", "out", "in", "undo", "disable", "wait_in", "stop_out",
                               "wait_out", "drain", "check"}]
      /\ ok \in [Threads -> BOOLEAN] /\ enabled \in [Ports -> BOOLEAN]
      /\ is_enabled \in [Connections -> BOOLEAN] /\ faults \in Nat
  BY Sizes, PortsOf DEF EnableOutput, GraphIInv, GraphTypes, CallTypes, LinkTypes, PortTypes,
     BoundTypes
<1>2. PortsAt(i, FALSE, FALSE, FALSE)
  <2>1. step[t] = "out"
    BY <1>1
  <2>2. step[t] # "none"
    BY <2>1
  <2> QED BY <2>1, <2>2, CallPorts
<1>3. /\ step[t] # "none"
      /\ UNCHANGED <<way, graph_enabled, refcount, returning, worker, cx, client>>
      /\ \A u \in Threads : u # t => step'[u] = step[u] /\ ok'[u] = ok[u]
  BY <1>1 DEF EnableOutput, Step, Return
<1>4. \A j \in Connections : j # i => /\ enabled'[In(j)] = enabled[In(j)] /\ enabled'[Out(j)] = enabled[Out(j)]
                                     /\ is_enabled'[j] = is_enabled[j]
  BY <1>1, PortsOf DEF EnableOutput, Return, In, Out
<1>5. /\ \A j \in Connections : sized'[j] = sized[j] \/ (j = i /\ step[t] = "enable")
      /\ faults' \in Nat /\ faults' >= faults
      /\ step[t] \in Enabling => UNCHANGED sema /\ \A b \in Buffers : at'[b] \in {at[b], Pool}
  BY <1>1 DEF EnableOutput, EnableFails, Fault, Return, data, data
<1>6. \/ step'[t] = "in" /\ PortsAt(i, FALSE, TRUE, FALSE)' /\ ~is_enabled[i]
      \/ step'[t] = "none" /\ ok'[t] = FALSE /\ faults' > 0 /\ PortsAt(i, FALSE, FALSE, FALSE)' /\ ~is_enabled[i]
  <2>1. CASE enabled' = [enabled EXCEPT ![Out(i)] = TRUE] /\ Step(t, "in") /\ UNCHANGED <<is_enabled, ok, faults>>
    BY <1>1, <1>2, <1>3, <2>1, PlacesApart DEF PortsAt, Step
  <2>2. CASE EnableFails(Out(i)) /\ Return(t, FALSE, FALSE) /\ UNCHANGED enabled
    BY <1>1, <1>2, <1>3, <2>2 DEF EnableFails, Fault, PortsAt, Return, Step
  <2>3. \/ enabled' = [enabled EXCEPT ![Out(i)] = TRUE] /\ Step(t, "in") /\ UNCHANGED <<is_enabled, ok, faults>>
        \/ EnableFails(Out(i)) /\ Return(t, FALSE, FALSE) /\ UNCHANGED enabled
    BY DEF EnableOutput, Out
  <2> QED BY <2>1, <2>2, <2>3 DEF PortsAt
<1> QED BY <1>1, <1>3, <1>4, <1>5, <1>6 DEF CallDoes, PortsAt, Midway, Disabling, Enabling

\* The input port is enabled, or not.
LEMMA EnableInputDoes ==
  ASSUME GraphIInv, OnceInv, NEW t \in Threads, EnableInput(t)
  PROVE  CallDoes(t)
<1> DEFINE i == cx[t]
<1>1. /\ step[t] = "in" /\ i \in Connections /\ In(i) \in Ports /\ Out(i) \in Ports
      /\ step \in [Threads -> {"none", "enable", "out", "in", "undo", "disable", "wait_in", "stop_out",
                               "wait_out", "drain", "check"}]
      /\ ok \in [Threads -> BOOLEAN] /\ enabled \in [Ports -> BOOLEAN]
      /\ is_enabled \in [Connections -> BOOLEAN] /\ faults \in Nat
  BY Sizes, PortsOf DEF EnableInput, GraphIInv, GraphTypes, CallTypes, LinkTypes, PortTypes,
     BoundTypes
<1>2. PortsAt(i, FALSE, TRUE, FALSE)
  <2>1. step[t] = "in"
    BY <1>1
  <2>2. step[t] # "none"
    BY <2>1
  <2> QED BY <2>1, <2>2, CallPorts
<1>3. /\ step[t] # "none"
      /\ UNCHANGED <<way, graph_enabled, refcount, returning, worker, cx, client>>
      /\ \A u \in Threads : u # t => step'[u] = step[u] /\ ok'[u] = ok[u]
  BY <1>1 DEF EnableInput, Return, Step
<1>4. \A j \in Connections : j # i => /\ enabled'[In(j)] = enabled[In(j)] /\ enabled'[Out(j)] = enabled[Out(j)]
                                     /\ is_enabled'[j] = is_enabled[j]
  BY <1>1, PortsOf DEF EnableInput, Return, In, Out
<1>5. /\ \A j \in Connections : sized'[j] = sized[j] \/ (j = i /\ step[t] = "enable")
      /\ faults' \in Nat /\ faults' >= faults
      /\ step[t] \in Enabling => UNCHANGED sema /\ \A b \in Buffers : at'[b] \in {at[b], Pool}
  BY <1>1 DEF EnableInput, Return, EnableFails, Fault, data, data
<1>6. \/ step'[t] = "none" /\ ok'[t] = TRUE /\ PortsAt(i, TRUE, TRUE, TRUE)'
      \/ step'[t] = "undo" /\ faults' > 0 /\ PortsAt(i, FALSE, FALSE, FALSE)' /\ ~is_enabled[i]
  BY <1>1, <1>2, <1>3 DEF EnableInput, Return, Step, EnableFails, Fault, PortsAt, In, Out
<1> QED BY <1>1, <1>3, <1>4, <1>5, <1>6 DEF CallDoes, PortsAt, Midway, Disabling, Enabling

\* The enabling of the input port failed: the output port, disabled again, has been waited for.
LEMMA EnableUndoneDoes ==
  ASSUME GraphIInv, OnceInv, NEW t \in Threads, EnableUndone(t)
  PROVE  CallDoes(t)
<1> DEFINE i == cx[t]
<1>1. /\ step[t] = "undo" /\ i \in Connections /\ In(i) \in Ports /\ Out(i) \in Ports
      /\ step \in [Threads -> {"none", "enable", "out", "in", "undo", "disable", "wait_in", "stop_out",
                               "wait_out", "drain", "check"}]
      /\ ok \in [Threads -> BOOLEAN] /\ enabled \in [Ports -> BOOLEAN]
      /\ is_enabled \in [Connections -> BOOLEAN] /\ faults \in Nat
  BY Sizes, PortsOf DEF EnableUndone, GraphIInv, GraphTypes, CallTypes, LinkTypes, PortTypes,
     BoundTypes
<1>2. PortsAt(i, FALSE, FALSE, FALSE) /\ faults > 0
  <2>1. step[t] = "undo"
    BY <1>1
  <2>2. step[t] # "none"
    BY <2>1
  <2> QED BY <2>1, <2>2, CallPorts
<1>3. /\ step[t] # "none"
      /\ UNCHANGED <<way, graph_enabled, refcount, returning, worker, cx, client>>
      /\ \A u \in Threads : u # t => step'[u] = step[u] /\ ok'[u] = ok[u]
  BY <1>1 DEF EnableUndone, Return, Step, ports, ports
<1>4. \A j \in Connections : j # i => /\ enabled'[In(j)] = enabled[In(j)] /\ enabled'[Out(j)] = enabled[Out(j)]
                                     /\ is_enabled'[j] = is_enabled[j]
  BY <1>1 DEF EnableUndone, Return, ports, ports
<1>5. /\ \A j \in Connections : sized'[j] = sized[j] \/ (j = i /\ step[t] = "enable")
      /\ faults' \in Nat /\ faults' >= faults
      /\ step[t] \in Enabling => UNCHANGED sema /\ \A b \in Buffers : at'[b] \in {at[b], Pool}
  BY <1>1 DEF EnableUndone, data, data
<1>6. step'[t] = "none" /\ ok'[t] = FALSE /\ faults' > 0 /\ PortsAt(i, FALSE, FALSE, FALSE)' /\ ~is_enabled[i]
  <2>1. CASE Return(t, FALSE, FALSE) /\ UNCHANGED <<enabled, faults>>
    BY <1>1, <1>2, <1>3, <2>1 DEF PortsAt, Return, Step
  <2>2. \/ Return(t, FALSE, FALSE) /\ UNCHANGED <<enabled, faults>>
    BY DEF EnableUndone, ports
  <2> QED BY <2>1, <2>2 DEF PortsAt
<1> QED BY <1>1, <1>3, <1>4, <1>5, <1>6 DEF CallDoes, PortsAt, Midway, Disabling, Enabling

\* The input port is disabled first.
LEMMA DisableConnectionDoes ==
  ASSUME GraphIInv, OnceInv, NEW t \in Threads, DisableConnection(t)
  PROVE  CallDoes(t)
<1> DEFINE i == cx[t]
<1>1. /\ step[t] = "disable" /\ i \in Connections /\ In(i) \in Ports /\ Out(i) \in Ports
      /\ step \in [Threads -> {"none", "enable", "out", "in", "undo", "disable", "wait_in", "stop_out",
                               "wait_out", "drain", "check"}]
      /\ ok \in [Threads -> BOOLEAN] /\ enabled \in [Ports -> BOOLEAN]
      /\ is_enabled \in [Connections -> BOOLEAN] /\ faults \in Nat
  BY Sizes, PortsOf DEF DisableConnection, GraphIInv, GraphTypes, CallTypes, LinkTypes,
     PortTypes, BoundTypes
<1>2. PortsAt(i, is_enabled[i], is_enabled[i], is_enabled[i])
  <2>1. step[t] = "disable"
    BY <1>1
  <2>2. step[t] # "none"
    BY <2>1
  <2> QED BY <2>1, <2>2, CallPorts
<1>3. /\ step[t] # "none"
      /\ UNCHANGED <<way, graph_enabled, refcount, returning, worker, cx, client>>
      /\ \A u \in Threads : u # t => step'[u] = step[u] /\ ok'[u] = ok[u]
  BY <1>1 DEF DisableConnection, Return, Step
<1>4. \A j \in Connections : j # i => /\ enabled'[In(j)] = enabled[In(j)] /\ enabled'[Out(j)] = enabled[Out(j)]
                                     /\ is_enabled'[j] = is_enabled[j]
  BY <1>1, PortsOf DEF DisableConnection, Return, In, Out
<1>5. /\ \A j \in Connections : sized'[j] = sized[j] \/ (j = i /\ step[t] = "enable")
      /\ faults' \in Nat /\ faults' >= faults
      /\ step[t] \in Enabling => UNCHANGED sema /\ \A b \in Buffers : at'[b] \in {at[b], Pool}
  BY <1>1 DEF DisableConnection, data, data
<1>6. \/ step'[t] = "none" /\ ok'[t] = TRUE /\ PortsAt(i, FALSE, FALSE, FALSE)'
      \/ step'[t] = "wait_in" /\ PortsAt(i, FALSE, TRUE, TRUE)'
  BY <1>1, <1>2, <1>3 DEF DisableConnection, Return, Step, PortsAt, In, Out
<1> QED BY <1>1, <1>3, <1>4, <1>5, <1>6 DEF CallDoes, PortsAt, Midway, Disabling, Enabling

\* Its buffers have come back.
LEMMA WaitInputDoes ==
  ASSUME GraphIInv, OnceInv, NEW t \in Threads, WaitInput(t)
  PROVE  CallDoes(t)
<1> DEFINE i == cx[t]
<1>1. /\ step[t] = "wait_in" /\ i \in Connections /\ In(i) \in Ports /\ Out(i) \in Ports
      /\ step \in [Threads -> {"none", "enable", "out", "in", "undo", "disable", "wait_in", "stop_out",
                               "wait_out", "drain", "check"}]
      /\ ok \in [Threads -> BOOLEAN] /\ enabled \in [Ports -> BOOLEAN]
      /\ is_enabled \in [Connections -> BOOLEAN] /\ faults \in Nat
  BY Sizes, PortsOf DEF WaitInput, GraphIInv, GraphTypes, CallTypes, LinkTypes, PortTypes,
     BoundTypes
<1>2. PortsAt(i, FALSE, TRUE, TRUE)
  <2>1. step[t] = "wait_in"
    BY <1>1
  <2>2. step[t] # "none"
    BY <2>1
  <2> QED BY <2>1, <2>2, CallPorts
<1>3. /\ step[t] # "none"
      /\ UNCHANGED <<way, graph_enabled, refcount, returning, worker, cx, client>>
      /\ \A u \in Threads : u # t => step'[u] = step[u] /\ ok'[u] = ok[u]
  BY <1>1 DEF WaitInput, Step, ports, links, ports, links
<1>4. \A j \in Connections : j # i => /\ enabled'[In(j)] = enabled[In(j)] /\ enabled'[Out(j)] = enabled[Out(j)]
                                     /\ is_enabled'[j] = is_enabled[j]
  BY <1>1 DEF WaitInput, ports, links, ports, links
<1>5. /\ \A j \in Connections : sized'[j] = sized[j] \/ (j = i /\ step[t] = "enable")
      /\ faults' \in Nat /\ faults' >= faults
      /\ step[t] \in Enabling => UNCHANGED sema /\ \A b \in Buffers : at'[b] \in {at[b], Pool}
  BY <1>1 DEF WaitInput, links, links, Enabling
<1>6. step'[t] = "stop_out" /\ PortsAt(i, FALSE, TRUE, TRUE)'
  BY <1>1, <1>2, <1>3 DEF WaitInput, Step, ports, links, ports, links, PortsAt
<1> QED BY <1>1, <1>3, <1>4, <1>5, <1>6 DEF CallDoes, PortsAt, Midway, Disabling

\* Then the output port.
LEMMA DisableOutputDoes ==
  ASSUME GraphIInv, OnceInv, NEW t \in Threads, DisableOutput(t)
  PROVE  CallDoes(t)
<1> DEFINE i == cx[t]
<1>1. /\ step[t] = "stop_out" /\ i \in Connections /\ In(i) \in Ports /\ Out(i) \in Ports
      /\ step \in [Threads -> {"none", "enable", "out", "in", "undo", "disable", "wait_in", "stop_out",
                               "wait_out", "drain", "check"}]
      /\ ok \in [Threads -> BOOLEAN] /\ enabled \in [Ports -> BOOLEAN]
      /\ is_enabled \in [Connections -> BOOLEAN] /\ faults \in Nat
  BY Sizes, PortsOf DEF DisableOutput, GraphIInv, GraphTypes, CallTypes, LinkTypes, PortTypes,
     BoundTypes
<1>2. PortsAt(i, FALSE, TRUE, TRUE)
  <2>1. step[t] = "stop_out"
    BY <1>1
  <2>2. step[t] # "none"
    BY <2>1
  <2> QED BY <2>1, <2>2, CallPorts
<1>3. /\ step[t] # "none"
      /\ UNCHANGED <<way, graph_enabled, refcount, returning, worker, cx, client>>
      /\ \A u \in Threads : u # t => step'[u] = step[u] /\ ok'[u] = ok[u]
  BY <1>1 DEF DisableOutput, Step, Return
<1>4. \A j \in Connections : j # i => /\ enabled'[In(j)] = enabled[In(j)] /\ enabled'[Out(j)] = enabled[Out(j)]
                                     /\ is_enabled'[j] = is_enabled[j]
  BY <1>1, PortsOf DEF DisableOutput, Return, In, Out
<1>5. /\ \A j \in Connections : sized'[j] = sized[j] \/ (j = i /\ step[t] = "enable")
      /\ faults' \in Nat /\ faults' >= faults
      /\ step[t] \in Enabling => UNCHANGED sema /\ \A b \in Buffers : at'[b] \in {at[b], Pool}
  BY <1>1 DEF DisableOutput, data, data
<1>6. step'[t] = "wait_out" /\ PortsAt(i, FALSE, FALSE, TRUE)'
  BY <1>1, <1>2, <1>3 DEF DisableOutput, Step, PortsAt, Out
<1> QED BY <1>1, <1>3, <1>4, <1>5, <1>6 DEF CallDoes, PortsAt, Midway, Disabling

\* Its buffers have come back.
LEMMA WaitOutputDoes ==
  ASSUME GraphIInv, OnceInv, NEW t \in Threads, WaitOutput(t)
  PROVE  CallDoes(t)
<1> DEFINE i == cx[t]
<1>1. /\ step[t] = "wait_out" /\ i \in Connections /\ In(i) \in Ports /\ Out(i) \in Ports
      /\ step \in [Threads -> {"none", "enable", "out", "in", "undo", "disable", "wait_in", "stop_out",
                               "wait_out", "drain", "check"}]
      /\ ok \in [Threads -> BOOLEAN] /\ enabled \in [Ports -> BOOLEAN]
      /\ is_enabled \in [Connections -> BOOLEAN] /\ faults \in Nat
  BY Sizes, PortsOf DEF WaitOutput, GraphIInv, GraphTypes, CallTypes, LinkTypes, PortTypes,
     BoundTypes
<1>2. PortsAt(i, FALSE, FALSE, TRUE)
  <2>1. step[t] = "wait_out"
    BY <1>1
  <2>2. step[t] # "none"
    BY <2>1
  <2> QED BY <2>1, <2>2, CallPorts
<1>3. /\ step[t] # "none"
      /\ UNCHANGED <<way, graph_enabled, refcount, returning, worker, cx, client>>
      /\ \A u \in Threads : u # t => step'[u] = step[u] /\ ok'[u] = ok[u]
  BY <1>1 DEF WaitOutput, Step, ports, links, ports, links
<1>4. \A j \in Connections : j # i => /\ enabled'[In(j)] = enabled[In(j)] /\ enabled'[Out(j)] = enabled[Out(j)]
                                     /\ is_enabled'[j] = is_enabled[j]
  BY <1>1 DEF WaitOutput, ports, links, ports, links
<1>5. /\ \A j \in Connections : sized'[j] = sized[j] \/ (j = i /\ step[t] = "enable")
      /\ faults' \in Nat /\ faults' >= faults
      /\ step[t] \in Enabling => UNCHANGED sema /\ \A b \in Buffers : at'[b] \in {at[b], Pool}
  BY <1>1 DEF WaitOutput, links, links, Enabling
<1>6. step'[t] = "drain" /\ PortsAt(i, FALSE, FALSE, TRUE)'
  BY <1>1, <1>2, <1>3 DEF WaitOutput, Step, ports, links, ports, links, PortsAt
<1> QED BY <1>1, <1>3, <1>4, <1>5, <1>6 DEF CallDoes, PortsAt, Midway, Disabling

\* The queue is emptied into the pool.
LEMMA DrainQueueDoes ==
  ASSUME GraphIInv, OnceInv, NEW t \in Threads, DrainQueue(t)
  PROVE  CallDoes(t)
<1> DEFINE i == cx[t]
<1>1. /\ step[t] = "drain" /\ i \in Connections /\ In(i) \in Ports /\ Out(i) \in Ports
      /\ step \in [Threads -> {"none", "enable", "out", "in", "undo", "disable", "wait_in", "stop_out",
                               "wait_out", "drain", "check"}]
      /\ ok \in [Threads -> BOOLEAN] /\ enabled \in [Ports -> BOOLEAN]
      /\ is_enabled \in [Connections -> BOOLEAN] /\ faults \in Nat
  BY Sizes, PortsOf DEF DrainQueue, GraphIInv, GraphTypes, CallTypes, LinkTypes, PortTypes,
     BoundTypes
<1>2. PortsAt(i, FALSE, FALSE, TRUE)
  <2>1. step[t] = "drain"
    BY <1>1
  <2>2. step[t] # "none"
    BY <2>1
  <2> QED BY <2>1, <2>2, CallPorts
<1>3. /\ step[t] # "none"
      /\ UNCHANGED <<way, graph_enabled, refcount, returning, worker, cx, client>>
      /\ \A u \in Threads : u # t => step'[u] = step[u] /\ ok'[u] = ok[u]
  BY <1>1 DEF DrainQueue, Step, ports, links, ports, links
<1>4. \A j \in Connections : j # i => /\ enabled'[In(j)] = enabled[In(j)] /\ enabled'[Out(j)] = enabled[Out(j)]
                                     /\ is_enabled'[j] = is_enabled[j]
  BY <1>1 DEF DrainQueue, ports, links, ports, links
<1>5. /\ \A j \in Connections : sized'[j] = sized[j] \/ (j = i /\ step[t] = "enable")
      /\ faults' \in Nat /\ faults' >= faults
      /\ step[t] \in Enabling => UNCHANGED sema /\ \A b \in Buffers : at'[b] \in {at[b], Pool}
  BY <1>1 DEF DrainQueue, links, links, Enabling
<1>6. step'[t] = "check" /\ PortsAt(i, FALSE, FALSE, TRUE)'
  BY <1>1, <1>2, <1>3 DEF DrainQueue, Step, ports, links, ports, links, PortsAt
<1> QED BY <1>1, <1>3, <1>4, <1>5, <1>6 DEF CallDoes, PortsAt, Midway, Disabling

\* The connection is disabled.
LEMMA DisableDoneDoes ==
  ASSUME GraphIInv, OnceInv, NEW t \in Threads, DisableDone(t)
  PROVE  CallDoes(t)
<1> DEFINE i == cx[t]
<1>1. /\ step[t] = "check" /\ i \in Connections /\ In(i) \in Ports /\ Out(i) \in Ports
      /\ step \in [Threads -> {"none", "enable", "out", "in", "undo", "disable", "wait_in", "stop_out",
                               "wait_out", "drain", "check"}]
      /\ ok \in [Threads -> BOOLEAN] /\ enabled \in [Ports -> BOOLEAN]
      /\ is_enabled \in [Connections -> BOOLEAN] /\ faults \in Nat
  BY Sizes, PortsOf DEF DisableDone, GraphIInv, GraphTypes, CallTypes, LinkTypes, PortTypes,
     BoundTypes
<1>2. PortsAt(i, FALSE, FALSE, TRUE)
  <2>1. step[t] = "check"
    BY <1>1
  <2>2. step[t] # "none"
    BY <2>1
  <2> QED BY <2>1, <2>2, CallPorts
<1>3. /\ step[t] # "none"
      /\ UNCHANGED <<way, graph_enabled, refcount, returning, worker, cx, client>>
      /\ \A u \in Threads : u # t => step'[u] = step[u] /\ ok'[u] = ok[u]
  BY <1>1 DEF DisableDone, Return, Step, ports, ports
<1>4. \A j \in Connections : j # i => /\ enabled'[In(j)] = enabled[In(j)] /\ enabled'[Out(j)] = enabled[Out(j)]
                                     /\ is_enabled'[j] = is_enabled[j]
  BY <1>1 DEF DisableDone, Return, ports, ports
<1>5. /\ \A j \in Connections : sized'[j] = sized[j] \/ (j = i /\ step[t] = "enable")
      /\ faults' \in Nat /\ faults' >= faults
      /\ step[t] \in Enabling => UNCHANGED sema /\ \A b \in Buffers : at'[b] \in {at[b], Pool}
  BY <1>1 DEF DisableDone, Enabling
<1>6. step'[t] = "none" /\ ok'[t] = TRUE /\ PortsAt(i, FALSE, FALSE, FALSE)'
  BY <1>1, <1>2, <1>3 DEF DisableDone, Return, Step, ports, ports, PortsAt
<1> QED BY <1>1, <1>3, <1>4, <1>5, <1>6 DEF CallDoes, PortsAt, Midway, Disabling, Enabling

\* Every step of a call on a connection is one of these.
LEMMA ConnectionCallDoes ==
  ASSUME GraphIInv, OnceInv, NEW t \in Threads, ConnectionCall(t)
  PROVE  CallDoes(t)
BY EnableConnectionDoes, EnableOutputDoes, EnableInputDoes, EnableUndoneDoes,
   DisableConnectionDoes, WaitInputDoes, DisableOutputDoes, WaitOutputDoes, DrainQueueDoes,
   DisableDoneDoes DEF ConnectionCall

\* The parts of the invariant behind a single enabling, at a step of a call on a connection.
\* Before the first enabling is over nothing moves.
LEMMA CallUntouched ==
  ASSUME OneEnabling, GraphIInv, OnceInv, NEW t \in Threads, CallDoes(t)
  PROVE  Untouched'
<1> DEFINE i == cx[t]
<1>1. /\ step[t] # "none" /\ UNCHANGED <<returning, worker, client, graph_enabled>>
      /\ step[t] \in Enabling => UNCHANGED sema /\ \A b \in Buffers : at'[b] \in {at[b], Pool}
  BY DEF CallDoes
<1>2. Fresh' <=> Fresh
  BY <1>1 DEF Fresh, client
<1>3. Fresh => step[t] \in Enabling /\ enables > 0
  BY <1>1, FreshCalls
<1>4. ASSUME Fresh
      PROVE  /\ \A b \in Buffers : at'[b] \notin Ports
             /\ wpc' \in Asleep /\ sema' = 0 /\ ~stop_thread'
             /\ \A p \in Ports : returning'[p] = "no"
             /\ ~started' /\ \A p \in GraphPorts : ~graph_enabled'[p]
             /\ enables' # 0
  <2>1. Pool \notin Ports
    BY PlacesApart, PortsOf
  <2>2. enables # 0
    BY <1>3, <1>4, Sizes DEF GraphIInv, GraphTypes, BoundTypes
  <2> QED BY <1>1, <1>3, <1>4, <2>1, <2>2 DEF OnceInv, Untouched, worker, client
<1>5. (op' \notin {"none", "release", "destroy"} => enables' > 0)
  BY <1>1 DEF OnceInv, Untouched, client
<1> QED BY <1>2, <1>4, <1>5 DEF Untouched

\* The ports of a connection follow the step of the call on it.
LEMMA CallSwitching ==
  ASSUME OneEnabling, GraphIInv, OnceInv, NEW t \in Threads, CallDoes(t)
  PROVE  Switching'
<1> DEFINE i == cx[t]
<1>1. /\ step[t] # "none" /\ cx' = cx /\ i \in Connections
      /\ \A u \in Threads : u # t => step'[u] = "none"
  BY OtherCall DEF CallDoes, GraphIInv, GraphTypes, CallTypes
<1>2. /\ step'[t] \in {"out", "undo"} => PortsAt(i, FALSE, FALSE, FALSE)'
      /\ step'[t] = "in" => PortsAt(i, FALSE, TRUE, FALSE)'
      /\ step'[t] \in {"wait_in", "stop_out"} => PortsAt(i, FALSE, TRUE, TRUE)'
      /\ step'[t] \in {"wait_out", "drain", "check"} => PortsAt(i, FALSE, FALSE, TRUE)'
      /\ step'[t] = "undo" => faults' > 0
      /\ step'[t] \notin Midway => PortsAt(i, is_enabled[i], is_enabled[i], is_enabled[i])'
  BY DEF CallDoes
<1>3. ASSUME NEW j \in Connections, j # i
      PROVE  PortsAt(j, is_enabled[j], is_enabled[j], is_enabled[j])'
  <2>1. \A u \in Threads : step[u] \in Midway => cx[u] # j
    BY <1>1, <1>3, OtherCall DEF Midway, Disabling
  <2>2. PortsAt(j, is_enabled[j], is_enabled[j], is_enabled[j])
    BY <2>1 DEF OnceInv, Switching
  <2> QED BY <1>3, <2>2 DEF CallDoes, PortsAt
<1>4. ASSUME NEW u \in Threads
      PROVE  /\ step'[u] \in {"out", "undo"} => PortsAt(cx[u], FALSE, FALSE, FALSE)'
             /\ step'[u] = "in" => PortsAt(cx[u], FALSE, TRUE, FALSE)'
             /\ step'[u] \in {"wait_in", "stop_out"} => PortsAt(cx[u], FALSE, TRUE, TRUE)'
             /\ step'[u] \in {"wait_out", "drain", "check"} => PortsAt(cx[u], FALSE, FALSE, TRUE)'
             /\ step'[u] = "undo" => faults' > 0
  <2>1. CASE u = t
    BY <1>1, <1>2, <2>1 DEF PortsAt
  <2>2. CASE u # t
    BY <1>1, <2>2
  <2> QED BY <2>1, <2>2
<1>5. ASSUME NEW j \in Connections, \A u \in Threads : step'[u] \in Midway => cx'[u] # j
      PROVE  PortsAt(j, is_enabled[j], is_enabled[j], is_enabled[j])'
  <2>1. CASE j = i
    BY <1>1, <1>2, <1>5, <2>1 DEF PortsAt
  <2>2. CASE j # i
    BY <1>3, <2>2
  <2> QED BY <2>1, <2>2
<1> QED BY <1>4, <1>5 DEF Switching

\* A call is refused only after a failure.
LEMMA CallSucceeds ==
  ASSUME OneEnabling, GraphIInv, OnceInv, NEW t \in Threads, CallDoes(t)
  PROVE  Succeeds'
<1> DEFINE i == cx[t]
<1>1. /\ step[t] # "none" /\ UNCHANGED <<op, pc, todo, wpc, wcx, cx>> /\ i \in Connections
      /\ faults \in Nat /\ faults' \in Nat /\ faults' >= faults
      /\ \A u \in Threads : u # t => step'[u] = step[u] /\ ok'[u] = ok[u]
      /\ \A j \in Connections : j # i => is_enabled'[j] = is_enabled[j]
  BY DEF CallDoes, client, worker, GraphIInv, GraphTypes, CallTypes, BoundTypes
<1>5. \A u \in Threads : u # t => step[u] = "none" /\ step'[u] = "none" /\ ok'[u] = ok[u]
  BY <1>1, OtherCall
<1>2. /\ step'[t] = "none" => (step[t] \in Enabling => ok'[t] = is_enabled'[i])
      /\ step'[t] = "none" => (step[t] \in Enabling => is_enabled'[i] \/ faults' > 0)
      /\ step'[t] = "none" => (step[t] \notin Enabling => ok'[t])
  BY DEF CallDoes
<1>3. CASE t = "client"
  <2>1. pc = "call" /\ i = todo /\ wpc \notin {"enable", "disable"}
    BY <1>1, <1>3, OneCall DEF GraphIInv, Calls, Asleep
  <2>2. op \in {"enable", "port_enable"} <=> step[t] \in Enabling
    BY <1>1, <1>3 DEF GraphIInv, Calls
  <2> QED BY <1>1, <1>2, <1>3, <1>5, <2>1, <2>2 DEF Succeeds
<1>4. CASE t = "worker"
  <2>1. i = wcx /\ (wpc = "disable" => step[t] \notin Enabling) /\ (wpc = "enable" => step[t] \in Enabling)
        /\ wpc \in {"disable", "enable"} /\ wpc \notin Asleep
    BY <1>1, <1>4 DEF GraphIInv, Calls, Asleep
  <2>2. pc = "call" /\ op \in {"enable", "port_enable"} => FALSE
    BY <2>1 DEF OnceInv, Untouched, Fresh
  <2>3. "client" # t /\ "client" \in Threads
    BY <1>4 DEF Threads
  <2>4. step["client"] = "none" /\ ok'["client"] = ok["client"]
    BY <1>5, <2>3
  <2>5. pc = "call" => ok'["client"]
    BY <2>2, <2>4 DEF OnceInv, Succeeds
  <2> QED BY <1>1, <1>2, <1>4, <1>5, <2>1, <2>2, <2>5 DEF Succeeds
<1> QED BY <1>3, <1>4 DEF Threads

\* A call of the client takes it no further than its own connection.
LEMMA CallProgress ==
  ASSUME OneEnabling, GraphIInv, OnceInv, NEW t \in Threads, CallDoes(t)
  PROVE  Progress'
<1> DEFINE i == cx[t]
<1>1. /\ step[t] # "none" /\ UNCHANGED <<op, pc, todo, port, graph_enabled>> /\ i \in Connections
      /\ \A j \in Connections : j # i => is_enabled'[j] = is_enabled[j]
      /\ is_enabled[i] /\ step[t] \in Enabling => is_enabled'[i]
  BY DEF CallDoes, client, GraphIInv, GraphTypes, CallTypes
<1>2. op \in {"enable", "port_enable"} /\ pc \in {"next", "call"} =>
        step[t] \in Enabling /\ i = todo /\ pc = "call"
  <2>1. ASSUME op \in {"enable", "port_enable"}, pc \in {"next", "call"} PROVE t = "client"
    BY <1>1, <2>1, OneCall DEF OnceInv, Untouched, Fresh, Threads
  <2> QED BY <1>1, <2>1 DEF GraphIInv, Calls
<1>3. op = "port_enable" => pc \in {"next", "call"}
  BY DEF GraphIInv, Places
<1>4. todo \in Nat /\ Connections \subseteq Nat
  BY Sizes DEF GraphIInv, GraphTypes, ClientTypes
<1>5. op \in {"enable", "port_enable"} /\ pc \in {"next", "call"} =>
        /\ \A j \in Connections : is_enabled[j] => is_enabled'[j]
        /\ \A j \in Connections : j # todo => is_enabled'[j] = is_enabled[j]
  BY <1>1, <1>2
<1>6. Progress
  BY DEF OnceInv
<1>7. op = "enable" /\ pc \in {"next", "call"} => todo > 0 /\ \A j \in Connections : j < todo => is_enabled'[j]
  BY <1>5, <1>6 DEF Progress
<1>8. op = "port_enable" /\ port = GraphIn =>
        /\ \A j \in Connections : j < todo => is_enabled'[j]
        /\ todo > 0
        /\ \A j \in Connections : j > todo \/ (j = todo /\ pc = "next") => ~is_enabled'[j]
  <2> SUFFICES ASSUME op = "port_enable", port = GraphIn
               PROVE  /\ \A j \in Connections : j < todo => is_enabled'[j]
                      /\ todo > 0
                      /\ \A j \in Connections : j > todo \/ (j = todo /\ pc = "next") => ~is_enabled'[j]
    OBVIOUS
  <2>1. pc = "call"
    BY <1>2, <1>3
  <2> QED BY <1>3, <1>4, <1>5, <1>6, <2>1 DEF Progress
<1>9. op = "port_disable" /\ pc \in {"depth", "back", "call"} => port = GraphIn /\ ~graph_enabled[GraphIn]
  BY <1>6 DEF Progress
<1> QED BY <1>1, <1>7, <1>8, <1>9 DEF Progress

\* A call leaves the connections of a graph that is in use enabled, but for its own.
LEMMA CallInUse ==
  ASSUME OneEnabling, GraphIInv, OnceInv, NEW t \in Threads, CallDoes(t)
  PROVE  InUse'
<1> DEFINE i == cx[t]
<1>1. /\ step[t] # "none" /\ UNCHANGED <<way, op, started, freed, enables, graph_enabled, stop_thread, wpc, wcx>>
      /\ i \in Connections /\ faults \in Nat /\ faults' \in Nat /\ faults' >= faults
      /\ \A j \in Connections : j # i => is_enabled'[j] = is_enabled[j]
      /\ is_enabled[i] /\ step[t] \in Enabling => is_enabled'[i]
  BY DEF CallDoes, client, worker, GraphIInv, GraphTypes, CallTypes, BoundTypes
<1>2. InUse
  BY DEF OnceInv
<1>3. ASSUME (started /\ op # "disable") \/ graph_enabled[GraphIn], faults' = 0
      PROVE  \A j \in Connections : is_enabled'[j] \/ (wcx = j /\ wpc \in {"disable", "enable"})
  <2>1. faults = 0 /\ \A j \in Connections : is_enabled[j] \/ (wcx = j /\ wpc \in {"disable", "enable"})
    BY <1>1, <1>2, <1>3 DEF InUse
  <2>2. CASE t = "worker"
    <3>1. i = wcx /\ wpc \in {"disable", "enable"}
      BY <1>1, <2>2 DEF GraphIInv, Calls
    <3> QED BY <1>1, <2>1, <3>1
  <2>3. CASE t = "client"
    <3>1. pc = "call" /\ op # "none"
      BY <1>1, <2>3 DEF GraphIInv, Calls, Places
    <3>2. op \notin {"enable", "port_enable"} => FALSE
      <4>1. op \in {"destroy", "release"} => FALSE
        BY <1>2, <1>3, <3>1 DEF InUse, GraphIInv, Stopped, GraphPorts
      <4>2. op = "disable" => FALSE
        BY <1>2, <1>3, PortsOf DEF InUse, GraphPorts
      <4>3. op = "port_disable" => FALSE
        BY <1>2, <1>3, <3>1 DEF InUse, OnceInv, Progress
      <4> QED BY <3>1, <4>1, <4>2, <4>3 DEF GraphIInv, GraphTypes, ClientTypes
    <3>3. step[t] \in Enabling
      BY <1>1, <2>3, <3>2 DEF GraphIInv, Calls
    <3> QED BY <1>1, <2>1, <3>3
  <2> QED BY <2>2, <2>3 DEF Threads
<1> QED BY <1>1, <1>2, <1>3 DEF InUse

\* A call releases no connection.
LEMMA CallGone ==
  ASSUME OneEnabling, GraphIInv, OnceInv, NEW t \in Threads, CallDoes(t)
  PROVE  Gone'
<1> DEFINE i == cx[t]
<1>1. /\ step[t] # "none" /\ UNCHANGED <<op, pc, todo, freed, refcount>>
      /\ \A j \in Connections : sized'[j] = sized[j] \/ (j = i /\ step[t] = "enable")
  BY DEF CallDoes, client
<1>2. step[t] = "enable" => /\ ~freed
                            /\ op # "destroy" \/ todo = 1
  <2> SUFFICES ASSUME step[t] = "enable"
               PROVE  ~freed /\ (op # "destroy" \/ todo = 1)
    OBVIOUS
  <2>1. CASE t = "client"
    <3>1. op \in {"enable", "port_enable"}
      BY <2>1 DEF GraphIInv, Calls, Enabling
    <3> QED BY <3>1 DEF OnceInv, InUse
  <2>2. CASE t = "worker"
    <3>1. wpc # "none"
      BY <2>2 DEF GraphIInv, Calls
    <3> QED BY <3>1 DEF GraphIInv, Stopped, Places
  <2> QED BY <2>1, <2>2 DEF Threads
<1>3. \A j \in Connections : ~(j < 1)
  BY Sizes
<1> QED BY <1>1, <1>2, <1>3 DEF OnceInv, Gone

\* A call is begun, or ended without effect.
LEMMA BeginSwitching ==
  ASSUME GraphIInv, OnceInv, NEW t \in Threads, step[t] = "none", NEW s \in {"none", "enable", "disable"},
         step' = [step EXCEPT ![t] = s], \A u \in Threads : u # t => cx'[u] = cx[u],
         \A j \in Connections : enabled'[In(j)] = enabled[In(j)] /\ enabled'[Out(j)] = enabled[Out(j)],
         UNCHANGED is_enabled, faults' \in Nat, faults' >= faults
  PROVE  Switching'
<1>1. /\ step'[t] = s /\ s \notin Midway /\ step[t] \notin Midway
      /\ s \notin {"out", "undo", "in", "wait_in", "stop_out", "wait_out", "drain", "check"}
      /\ \A u \in Threads : u # t => step'[u] = step[u]
      /\ \A u \in Threads : cx[u] \in Connections /\ faults \in Nat
  BY DEF GraphIInv, GraphTypes, CallTypes, BoundTypes, Midway, Disabling
<1>2. ASSUME NEW u \in Threads
      PROVE  /\ step'[u] \in {"out", "undo"} => PortsAt(cx[u], FALSE, FALSE, FALSE)'
             /\ step'[u] = "in" => PortsAt(cx[u], FALSE, TRUE, FALSE)'
             /\ step'[u] \in {"wait_in", "stop_out"} => PortsAt(cx[u], FALSE, TRUE, TRUE)'
             /\ step'[u] \in {"wait_out", "drain", "check"} => PortsAt(cx[u], FALSE, FALSE, TRUE)'
             /\ step'[u] = "undo" => faults' > 0
  <2>1. CASE u = t
    BY <1>1, <2>1
  <2>2. CASE u # t
    BY <1>1, <2>2 DEF OnceInv, Switching, PortsAt
  <2> QED BY <2>1, <2>2
<1>3. ASSUME NEW j \in Connections, \A u \in Threads : step'[u] \in Midway => cx'[u] # j
      PROVE  PortsAt(j, is_enabled[j], is_enabled[j], is_enabled[j])'
  <2>1. \A u \in Threads : step[u] \in Midway => cx[u] # j
    BY <1>1, <1>3
  <2>2. PortsAt(j, is_enabled[j], is_enabled[j], is_enabled[j])
    BY <2>1 DEF OnceInv, Switching
  <2> QED BY <2>2 DEF PortsAt
<1> QED BY <1>2, <1>3 DEF Switching

\* ReturnInput keeps what is known of a graph that is enabled once.
LEMMA ReturnInputOnce ==
  ASSUME OneEnabling, GraphIInv, OnceInv, NEW i \in 0 .. N, ReturnInput(i)
  PROVE  Untouched' /\ Switching' /\ Succeeds' /\ Progress' /\ InUse' /\ Gone'
<1>1. Untouched'
  BY PortsOf DEF Untouched, OnceInv, Fresh, ReturnInput, client, In
<1>2. Switching'
  BY DEF Switching, OnceInv, PortsAt, ReturnInput, ports, links, calls
<1>3. Succeeds'
  BY DEF Succeeds, OnceInv, ReturnInput, links, worker, calls, client
<1>4. Progress'
  BY DEF Progress, OnceInv, ReturnInput, ports, links, client
<1>5. InUse'
  BY DEF InUse, OnceInv, ReturnInput, ports, links, worker, client
<1>6. Gone'
  BY DEF Gone, OnceInv, ReturnInput, links, client
<1> QED BY <1>1, <1>2, <1>3, <1>4, <1>5, <1>6

\* ReturnOutput keeps what is known of a graph that is enabled once.
LEMMA ReturnOutputOnce ==
  ASSUME OneEnabling, GraphIInv, OnceInv, NEW i \in Connections, ReturnOutput(i)
  PROVE  Untouched' /\ Switching' /\ Succeeds' /\ Progress' /\ InUse' /\ Gone'
<1>1. Untouched'
  BY Sizes, PortsOf DEF Untouched, OnceInv, GraphIInv, PlaceTypes, ThreadTypes, BoundTypes,
     Fresh, Asleep, ReturnOutput, links, worker, client, In, Out
<1>2. Switching'
  BY DEF Switching, OnceInv, PortsAt, ReturnOutput, ports, links, calls
<1>3. Succeeds'
  BY DEF Succeeds, OnceInv, ReturnOutput, links, worker, calls, client
<1>4. Progress'
  BY DEF Progress, OnceInv, ReturnOutput, ports, links, client
<1>5. InUse'
  BY DEF InUse, OnceInv, ReturnOutput, ports, links, worker, client
<1>6. Gone'
  BY DEF Gone, OnceInv, ReturnOutput, links, client
<1> QED BY <1>1, <1>2, <1>3, <1>4, <1>5, <1>6

\* RaiseEvent keeps what is known of a graph that is enabled once.
LEMMA RaiseEventOnce ==
  ASSUME OneEnabling, GraphIInv, OnceInv, NEW i \in Connections, RaiseEvent(i)
  PROVE  Untouched' /\ Switching' /\ Succeeds' /\ Progress' /\ InUse' /\ Gone'
<1>1. Untouched'
  <2>1. /\ \E b \in Buffers : at[b] = Out(i)
        /\ UNCHANGED <<client, graph_enabled>> /\ Out(i) \in Ports
    BY PortsOf DEF RaiseEvent, OneEnabling, Out, ports
  <2>2. ~Fresh /\ (Fresh' <=> Fresh)
    BY <2>1 DEF OnceInv, Untouched, Fresh, client
  <2> QED BY <2>1, <2>2 DEF OnceInv, Untouched, client
<1>2. Switching'
  BY DEF Switching, OnceInv, PortsAt, RaiseEvent, ports, links, calls
<1>3. Succeeds'
  BY DEF Succeeds, OnceInv, RaiseEvent, links, worker, calls, client
<1>4. Progress'
  BY DEF Progress, OnceInv, RaiseEvent, ports, links, client
<1>5. InUse'
  BY DEF InUse, OnceInv, RaiseEvent, ports, links, worker, client
<1>6. Gone'
  BY DEF Gone, OnceInv, RaiseEvent, links, client
<1> QED BY <1>1, <1>2, <1>3, <1>4, <1>5, <1>6

\* Notify keeps what is known of a graph that is enabled once.
LEMMA NotifyOnce ==
  ASSUME OneEnabling, GraphIInv, OnceInv, NEW p \in Ports, Notify(p)
  PROVE  Untouched' /\ Switching' /\ Succeeds' /\ Progress' /\ InUse' /\ Gone'
<1>1. Untouched'
  BY DEF Untouched, OnceInv, Fresh, Notify, client
<1>2. Switching'
  BY DEF Switching, OnceInv, PortsAt, Notify, ports, links, calls
<1>3. Succeeds'
  BY DEF Succeeds, OnceInv, Notify, links, worker, calls, client
<1>4. Progress'
  BY DEF Progress, OnceInv, GraphIInv, Untouched, Fresh, Places, Notify, ports, client
<1>5. InUse'
  BY DEF InUse, OnceInv, Notify, ports, links, worker, client
<1>6. Gone'
  BY DEF Gone, OnceInv, Notify, links, client
<1> QED BY <1>1, <1>2, <1>3, <1>4, <1>5, <1>6

\* WorkerWakes keeps what is known of a graph that is enabled once.
LEMMA WorkerWakesOnce ==
  ASSUME OneEnabling, GraphIInv, OnceInv, WorkerWakes
  PROVE  Untouched' /\ Switching' /\ Succeeds' /\ Progress' /\ InUse' /\ Gone'
<1>1. Untouched'
  BY DEF Untouched, OnceInv, Fresh, WorkerWakes, client
<1>2. Switching'
  BY DEF Switching, OnceInv, PortsAt, WorkerWakes, ports, links, calls
<1>3. Succeeds'
  BY DEF Succeeds, OnceInv, WorkerWakes, links, calls, client
<1>4. Progress'
  BY DEF Progress, OnceInv, GraphIInv, Untouched, Fresh, Places, WorkerWakes, ports, client
<1>5. InUse'
  BY DEF InUse, OnceInv, WorkerWakes, ports, links, client
<1>6. Gone'
  BY DEF Gone, OnceInv, WorkerWakes, links, client
<1> QED BY <1>1, <1>2, <1>3, <1>4, <1>5, <1>6

\* TakeQueued keeps what is known of a graph that is enabled once.
LEMMA TakeQueuedOnce ==
  ASSUME OneEnabling, GraphIInv, OnceInv, TakeQueued
  PROVE  Untouched' /\ Switching' /\ Succeeds' /\ Progress' /\ InUse' /\ Gone'
<1>1. Untouched'
  BY DEF Untouched, OnceInv, Fresh, Asleep, TakeQueued, client
<1>2. Switching'
  BY DEF Switching, OnceInv, PortsAt, TakeQueued, ports, links, calls
<1>3. Succeeds'
  BY DEF Succeeds, OnceInv, TakeQueued, links, calls, client
<1>4. Progress'
  BY DEF Progress, OnceInv, TakeQueued, ports, links, client
<1>5. InUse'
  BY DEF InUse, OnceInv, TakeQueued, ports, links, client
<1>6. Gone'
  BY DEF Gone, OnceInv, TakeQueued, links, client
<1> QED BY <1>1, <1>2, <1>3, <1>4, <1>5, <1>6

\* SendQueued keeps what is known of a graph that is enabled once.
LEMMA SendQueuedOnce ==
  ASSUME OneEnabling, GraphIInv, OnceInv, SendQueued
  PROVE  Untouched' /\ Switching' /\ Succeeds' /\ Progress' /\ InUse' /\ Gone'
<1>1. Untouched'
  BY DEF Untouched, OnceInv, Fresh, Asleep, SendQueued, client
<1>2. Switching'
  BY DEF Switching, OnceInv, GraphIInv, GraphTypes, BoundTypes, PortsAt, SendQueued, Accepts,
     Refuses, Fault, ports, links, calls
<1>3. Succeeds'
  BY DEF Succeeds, OnceInv, SendQueued, links, calls, client
<1>4. Progress'
  BY DEF Progress, OnceInv, SendQueued, ports, links, client
<1>5. InUse'
  BY DEF InUse, OnceInv, GraphIInv, GraphTypes, BoundTypes, SendQueued, Accepts, Refuses, Fault,
     ports, links, client
<1>6. Gone'
  BY DEF Gone, OnceInv, SendQueued, links, client
<1> QED BY <1>1, <1>2, <1>3, <1>4, <1>5, <1>6

\* HandleEvent keeps what is known of a graph that is enabled once.
LEMMA HandleEventOnce ==
  ASSUME OneEnabling, GraphIInv, OnceInv, HandleEvent
  PROVE  Untouched' /\ Switching' /\ Succeeds' /\ Progress' /\ InUse' /\ Gone'
<1>1. Untouched'
  BY DEF Untouched, OnceInv, Fresh, Asleep, HandleEvent, client
<1>2. Switching'
  <2>1. /\ step["worker"] = "none" /\ "worker" \in Threads /\ UNCHANGED <<is_enabled>> /\ faults' \in Nat /\ faults' >= faults
        /\ \A j \in Connections : enabled'[In(j)] = enabled[In(j)] /\ enabled'[Out(j)] = enabled[Out(j)]
    BY DEF HandleEvent, Accepts, ports, links, Threads, Fault, GraphIInv, GraphTypes, BoundTypes,
       Calls
  <2>2. \/ UNCHANGED <<step, cx>>
        \/ \E s \in {"enable", "disable"}, i \in Connections : Begin("worker", s, i)
    BY DEF HandleEvent, calls, GraphIInv, GraphTypes, ThreadTypes
  <2>3. CASE UNCHANGED <<step, cx>>
    <3>1. step' = [step EXCEPT !["worker"] = "none"]
      BY <2>1, <2>3 DEF GraphIInv, GraphTypes, CallTypes
    <3> QED BY <2>1, <2>3, <3>1, BeginSwitching
  <2>4. ASSUME NEW s \in {"enable", "disable"}, NEW i \in Connections, Begin("worker", s, i) PROVE Switching'
    <3>1. step' = [step EXCEPT !["worker"] = s] /\ \A u \in Threads : u # "worker" => cx'[u] = cx[u]
      BY <2>4 DEF Begin, Step, GraphIInv, GraphTypes, CallTypes
    <3> QED BY <2>1, <3>1, BeginSwitching
  <2> QED BY <2>2, <2>3, <2>4
<1>3. Succeeds'
  BY DEF Succeeds, OnceInv, GraphIInv, GraphTypes, CallTypes, Threads, HandleEvent, calls, Begin,
     Step, links, client
<1>4. Progress'
  BY DEF Progress, OnceInv, HandleEvent, ports, links, client
<1>5. InUse'
  BY DEF InUse, OnceInv, GraphIInv, GraphTypes, BoundTypes, HandleEvent, Accepts, Fault, ports,
     links, client
<1>6. Gone'
  BY DEF Gone, OnceInv, HandleEvent, links, client
<1> QED BY <1>1, <1>2, <1>3, <1>4, <1>5, <1>6

\* Reconfigure keeps what is known of a graph that is enabled once.
LEMMA ReconfigureOnce ==
  ASSUME OneEnabling, GraphIInv, OnceInv, Reconfigure
  PROVE  Untouched' /\ Switching' /\ Succeeds' /\ Progress' /\ InUse' /\ Gone'
<1>1. Untouched'
  BY DEF Untouched, OnceInv, Fresh, Asleep, Reconfigure, client
<1>2. Switching'
  <2>1. /\ step["worker"] = "none" /\ "worker" \in Threads /\ UNCHANGED <<is_enabled>> /\ faults' \in Nat /\ faults' >= faults
        /\ \A j \in Connections : enabled'[In(j)] = enabled[In(j)] /\ enabled'[Out(j)] = enabled[Out(j)]
    BY DEF Reconfigure, ports, links, Threads, Fault, GraphIInv, GraphTypes, BoundTypes
  <2>2. \/ UNCHANGED <<step, cx>>
        \/ \E s \in {"enable", "disable"}, i \in Connections : Begin("worker", s, i)
    BY DEF Reconfigure, calls, GraphIInv, GraphTypes, ThreadTypes
  <2>3. CASE UNCHANGED <<step, cx>>
    <3>1. step' = [step EXCEPT !["worker"] = "none"]
      BY <2>1, <2>3 DEF GraphIInv, GraphTypes, CallTypes
    <3> QED BY <2>1, <2>3, <3>1, BeginSwitching
  <2>4. ASSUME NEW s \in {"enable", "disable"}, NEW i \in Connections, Begin("worker", s, i) PROVE Switching'
    <3>1. step' = [step EXCEPT !["worker"] = s] /\ \A u \in Threads : u # "worker" => cx'[u] = cx[u]
      BY <2>4 DEF Begin, Step, GraphIInv, GraphTypes, CallTypes
    <3> QED BY <2>1, <3>1, BeginSwitching
  <2> QED BY <2>2, <2>3, <2>4
<1>3. Succeeds'
  BY DEF Succeeds, OnceInv, GraphIInv, GraphTypes, CallTypes, Threads, Reconfigure, Begin, Step,
     calls, links, client
<1>4. Progress'
  BY DEF Progress, OnceInv, Reconfigure, ports, links, client
<1>5. InUse'
  BY DEF InUse, OnceInv, GraphIInv, GraphTypes, BoundTypes, Succeeds, Reconfigure, Fault, ports,
     links, client
<1>6. Gone'
  BY DEF Gone, OnceInv, Reconfigure, links, client
<1> QED BY <1>1, <1>2, <1>3, <1>4, <1>5, <1>6

\* TakeEmpty keeps what is known of a graph that is enabled once.
LEMMA TakeEmptyOnce ==
  ASSUME OneEnabling, GraphIInv, OnceInv, TakeEmpty
  PROVE  Untouched' /\ Switching' /\ Succeeds' /\ Progress' /\ InUse' /\ Gone'
<1>1. Untouched'
  BY DEF Untouched, OnceInv, Fresh, Asleep, TakeEmpty, client
<1>2. Switching'
  BY DEF Switching, OnceInv, PortsAt, TakeEmpty, ports, links, calls
<1>3. Succeeds'
  BY DEF Succeeds, OnceInv, TakeEmpty, NextConnection, links, calls, client
<1>4. Progress'
  BY DEF Progress, OnceInv, TakeEmpty, ports, links, client
<1>5. InUse'
  BY DEF InUse, OnceInv, TakeEmpty, NextConnection, ports, links, client
<1>6. Gone'
  BY DEF Gone, OnceInv, TakeEmpty, links, client
<1> QED BY <1>1, <1>2, <1>3, <1>4, <1>5, <1>6

\* SendEmpty keeps what is known of a graph that is enabled once.
LEMMA SendEmptyOnce ==
  ASSUME OneEnabling, GraphIInv, OnceInv, SendEmpty
  PROVE  Untouched' /\ Switching' /\ Succeeds' /\ Progress' /\ InUse' /\ Gone'
<1>1. Untouched'
  BY DEF Untouched, OnceInv, Fresh, Asleep, SendEmpty, client
<1>2. Switching'
  BY DEF Switching, OnceInv, GraphIInv, GraphTypes, BoundTypes, PortsAt, SendEmpty, Accepts,
     Refuses, Fault, NextConnection, ports, links, calls
<1>3. Succeeds'
  BY DEF Succeeds, OnceInv, SendEmpty, NextConnection, links, calls, client
<1>4. Progress'
  BY DEF Progress, OnceInv, SendEmpty, ports, links, client
<1>5. InUse'
  BY DEF InUse, OnceInv, GraphIInv, GraphTypes, BoundTypes, SendEmpty, Accepts, Refuses, Fault,
     NextConnection, ports, links, client
<1>6. Gone'
  BY DEF Gone, OnceInv, SendEmpty, links, client
<1> QED BY <1>1, <1>2, <1>3, <1>4, <1>5, <1>6

\* GraphEnableNext keeps what is known of a graph that is enabled once.
LEMMA GraphEnableNextOnce ==
  ASSUME OneEnabling, GraphIInv, OnceInv, GraphEnableNext
  PROVE  Untouched' /\ Switching' /\ Succeeds' /\ Progress' /\ InUse' /\ Gone'
<1>1. Untouched'
  BY DEF Untouched, OnceInv, Fresh, GraphEnableNext, Finish, ports, data, worker
<1>2. Switching'
  <2>1. /\ step["client"] = "none" /\ "client" \in Threads /\ UNCHANGED <<is_enabled>> /\ faults' \in Nat /\ faults' >= faults
        /\ \A j \in Connections : enabled'[In(j)] = enabled[In(j)] /\ enabled'[Out(j)] = enabled[Out(j)]
    <3>1. step["client"] = "none"
      BY DEF GraphEnableNext, GraphIInv, Calls
    <3> QED BY <3>1 DEF GraphEnableNext, ports, links, Threads, GraphIInv, GraphTypes, BoundTypes
  <2>2. \/ UNCHANGED <<step, cx>>
        \/ \E s \in {"enable", "disable"}, i \in Connections : Begin("client", s, i)
    BY DEF GraphEnableNext, calls
  <2>3. CASE UNCHANGED <<step, cx>>
    <3>1. step' = [step EXCEPT !["client"] = "none"]
      BY <2>1, <2>3 DEF GraphIInv, GraphTypes, CallTypes
    <3> QED BY <2>1, <2>3, <3>1, BeginSwitching
  <2>4. ASSUME NEW s \in {"enable", "disable"}, NEW i \in Connections, Begin("client", s, i) PROVE Switching'
    <3>1. step' = [step EXCEPT !["client"] = s] /\ \A u \in Threads : u # "client" => cx'[u] = cx[u]
      BY <2>4 DEF Begin, Step, GraphIInv, GraphTypes, CallTypes
    <3> QED BY <2>1, <3>1, BeginSwitching
  <2> QED BY <2>2, <2>3, <2>4
<1>3. Succeeds'
  BY DEF Succeeds, OnceInv, GraphIInv, GraphTypes, CallTypes, Threads, GraphEnableNext, Begin,
     Step, Finish, calls, links, worker
<1>4. Progress'
  BY DEF Progress, OnceInv, GraphEnableNext, Finish, links
<1>5. InUse'
  BY Sizes DEF InUse, OnceInv, GraphIInv, GraphTypes, PortTypes, LinkTypes, CallTypes,
     ClientTypes, BoundTypes, Progress, Succeeds, Untouched, Fresh, GraphEnableNext, Finish,
     ports, links, worker
<1>6. Gone'
  BY DEF Gone, OnceInv, GraphEnableNext, Finish, links
<1> QED BY <1>1, <1>2, <1>3, <1>4, <1>5, <1>6

\* GraphEnableCalled keeps what is known of a graph that is enabled once.
LEMMA GraphEnableCalledOnce ==
  ASSUME OneEnabling, GraphIInv, OnceInv, GraphEnableCalled
  PROVE  Untouched' /\ Switching' /\ Succeeds' /\ Progress' /\ InUse' /\ Gone'
<1>1. Untouched'
  BY DEF Untouched, OnceInv, Fresh, GraphEnableCalled, ports, data, worker
<1>2. Switching'
  BY DEF Switching, OnceInv, PortsAt, GraphEnableCalled, ports, links, calls
<1>3. Succeeds'
  BY DEF Succeeds, OnceInv, GraphEnableCalled, links, worker, calls
<1>4. Progress'
  BY Sizes DEF Progress, OnceInv, GraphIInv, GraphTypes, ClientTypes, Succeeds,
     GraphEnableCalled, links
<1>5. InUse'
  BY DEF InUse, OnceInv, GraphEnableCalled, ports, links, worker
<1>6. Gone'
  BY DEF Gone, OnceInv, GraphEnableCalled, links
<1> QED BY <1>1, <1>2, <1>3, <1>4, <1>5, <1>6

\* StopWorker keeps what is known of a graph that is enabled once.
LEMMA StopWorkerOnce ==
  ASSUME OneEnabling, GraphIInv, OnceInv, StopWorker
  PROVE  Untouched' /\ Switching' /\ Succeeds' /\ Progress' /\ InUse' /\ Gone'
<1>1. Untouched'
  BY DEF Untouched, OnceInv, GraphIInv, Fresh, Places, StopWorker
<1>2. Switching'
  BY DEF Switching, OnceInv, PortsAt, StopWorker, ports, links, calls
<1>3. Succeeds'
  BY DEF Succeeds, OnceInv, StopWorker, links, calls
<1>4. Progress'
  BY DEF Progress, GraphIInv, Places, StopWorker
<1>5. InUse'
  <2>1. op \in {"enable", "disable", "destroy"}
    BY DEF StopWorker, GraphIInv, Places, GraphTypes, ClientTypes
  <2>2. UNCHANGED <<started, op, graph_enabled, way, enables, freed, is_enabled>> /\ stop_thread'
    BY DEF StopWorker, ports, links
  <2>3. ~(started /\ op # "disable") /\ ~graph_enabled[GraphIn]
    BY <2>1 DEF OnceInv, InUse, GraphPorts
  <2> QED BY <2>2, <2>3 DEF OnceInv, InUse
<1>6. Gone'
  BY DEF Gone, OnceInv, StopWorker, links
<1> QED BY <1>1, <1>2, <1>3, <1>4, <1>5, <1>6

\* JoinWorker keeps what is known of a graph that is enabled once.
LEMMA JoinWorkerOnce ==
  ASSUME OneEnabling, GraphIInv, OnceInv, JoinWorker
  PROVE  Untouched' /\ Switching' /\ Succeeds' /\ Progress' /\ InUse' /\ Gone'
<1>1. Untouched'
  BY DEF Untouched, OnceInv, GraphIInv, Fresh, Places, JoinWorker, Finish
<1>2. Switching'
  BY DEF Switching, OnceInv, PortsAt, JoinWorker, ports, links, calls
<1>3. Succeeds'
  BY DEF Succeeds, OnceInv, JoinWorker, Finish, links, worker, calls
<1>4. Progress'
  BY DEF Progress, GraphIInv, Places, JoinWorker, Finish
<1>5. InUse'
  BY DEF InUse, OnceInv, GraphIInv, Places, JoinWorker, Finish, ports, worker
<1>6. Gone'
  BY DEF Gone, OnceInv, GraphIInv, Places, JoinWorker, Finish, links
<1> QED BY <1>1, <1>2, <1>3, <1>4, <1>5, <1>6

\* GraphDisableNext keeps what is known of a graph that is enabled once.
LEMMA GraphDisableNextOnce ==
  ASSUME OneEnabling, GraphIInv, OnceInv, GraphDisableNext
  PROVE  Untouched' /\ Switching' /\ Succeeds' /\ Progress' /\ InUse' /\ Gone'
<1>1. Untouched'
  BY DEF Untouched, OnceInv, Fresh, GraphDisableNext, Finish
<1>2. Switching'
  <2>1. /\ step["client"] = "none" /\ "client" \in Threads /\ UNCHANGED <<is_enabled>> /\ faults' \in Nat /\ faults' >= faults
        /\ \A j \in Connections : enabled'[In(j)] = enabled[In(j)] /\ enabled'[Out(j)] = enabled[Out(j)]
    <3>1. step["client"] = "none"
      BY DEF GraphDisableNext, GraphIInv, Calls
    <3> QED BY <3>1 DEF GraphDisableNext, ports, links, Threads, GraphIInv, GraphTypes, BoundTypes
  <2>2. \/ UNCHANGED <<step, cx>>
        \/ \E s \in {"enable", "disable"}, i \in Connections : Begin("client", s, i)
    BY DEF GraphDisableNext, calls
  <2>3. CASE UNCHANGED <<step, cx>>
    <3>1. step' = [step EXCEPT !["client"] = "none"]
      BY <2>1, <2>3 DEF GraphIInv, GraphTypes, CallTypes
    <3> QED BY <2>1, <2>3, <3>1, BeginSwitching
  <2>4. ASSUME NEW s \in {"enable", "disable"}, NEW i \in Connections, Begin("client", s, i) PROVE Switching'
    <3>1. step' = [step EXCEPT !["client"] = s] /\ \A u \in Threads : u # "client" => cx'[u] = cx[u]
      BY <2>4 DEF Begin, Step, GraphIInv, GraphTypes, CallTypes
    <3> QED BY <2>1, <3>1, BeginSwitching
  <2> QED BY <2>2, <2>3, <2>4
<1>3. Succeeds'
  BY DEF Succeeds, OnceInv, GraphIInv, GraphTypes, CallTypes, Threads, GraphDisableNext, Begin,
     Step, calls, Finish, links, worker
<1>4. Progress'
  BY DEF Progress, GraphDisableNext, Finish
<1>5. InUse'
  BY DEF InUse, OnceInv, GraphDisableNext, Finish, ports, links, worker
<1>6. Gone'
  BY DEF Gone, OnceInv, GraphDisableNext, Finish, links
<1> QED BY <1>1, <1>2, <1>3, <1>4, <1>5, <1>6

\* ReleaseNext keeps what is known of a graph that is enabled once.
LEMMA ReleaseNextOnce ==
  ASSUME OneEnabling, GraphIInv, OnceInv, ReleaseNext
  PROVE  Untouched' /\ Switching' /\ Succeeds' /\ Progress' /\ InUse' /\ Gone'
<1>1. Untouched'
  BY DEF Untouched, OnceInv, Fresh, ReleaseNext, Finish, ports, data, worker
<1>2. Switching'
  <2>1. /\ step["client"] = "none" /\ "client" \in Threads /\ UNCHANGED <<is_enabled>> /\ faults' \in Nat /\ faults' >= faults
        /\ \A j \in Connections : enabled'[In(j)] = enabled[In(j)] /\ enabled'[Out(j)] = enabled[Out(j)]
    <3>1. step["client"] = "none"
      BY DEF ReleaseNext, GraphIInv, Calls
    <3> QED BY <3>1 DEF ReleaseNext, ports, Threads, GraphIInv, GraphTypes, BoundTypes
  <2>2. \/ UNCHANGED <<step, cx>>
        \/ \E s \in {"enable", "disable"}, i \in Connections : Begin("client", s, i)
    BY DEF ReleaseNext, calls
  <2>3. CASE UNCHANGED <<step, cx>>
    <3>1. step' = [step EXCEPT !["client"] = "none"]
      BY <2>1, <2>3 DEF GraphIInv, GraphTypes, CallTypes
    <3> QED BY <2>1, <2>3, <3>1, BeginSwitching
  <2>4. ASSUME NEW s \in {"enable", "disable"}, NEW i \in Connections, Begin("client", s, i) PROVE Switching'
    <3>1. step' = [step EXCEPT !["client"] = s] /\ \A u \in Threads : u # "client" => cx'[u] = cx[u]
      BY <2>4 DEF Begin, Step, GraphIInv, GraphTypes, CallTypes
    <3> QED BY <2>1, <3>1, BeginSwitching
  <2> QED BY <2>2, <2>3, <2>4
<1>3. Succeeds'
  BY DEF Succeeds, OnceInv, GraphIInv, GraphTypes, CallTypes, Threads, ReleaseNext, Begin, Step,
     Finish, calls, worker
<1>4. Progress'
  BY DEF Progress, ReleaseNext, Finish
<1>5. InUse'
  BY DEF InUse, OnceInv, ReleaseNext, Finish, ports, worker
<1>6. Gone'
  BY DEF Gone, OnceInv, GraphIInv, GraphTypes, ClientTypes, Stopped, ReleaseNext, Finish,
     LastReference
<1> QED BY <1>1, <1>2, <1>3, <1>4, <1>5, <1>6

\* ReleaseCalled keeps what is known of a graph that is enabled once.
LEMMA ReleaseCalledOnce ==
  ASSUME OneEnabling, GraphIInv, OnceInv, ReleaseCalled
  PROVE  Untouched' /\ Switching' /\ Succeeds' /\ Progress' /\ InUse' /\ Gone'
<1>1. Untouched'
  BY DEF Untouched, GraphIInv, Fresh, Stopped, ReleaseCalled, Finish
<1>2. Switching'
  BY DEF Switching, OnceInv, PortsAt, ReleaseCalled, ports, calls
<1>3. Succeeds'
  BY DEF Succeeds, OnceInv, ReleaseCalled, Finish, worker, calls
<1>4. Progress'
  BY DEF Progress, ReleaseCalled, Finish
<1>5. InUse'
  BY DEF InUse, OnceInv, ReleaseCalled, Finish, ports, worker
<1>6. Gone'
  <2>1. /\ op \in {"destroy", "release"} /\ pc = "call" /\ step["client"] = "none"
        /\ UNCHANGED <<freed, refcount>> /\ ok["client"]
    BY DEF ReleaseCalled, OnceInv, Succeeds
  <2>2. sized' = [sized EXCEPT ![todo] = FALSE] /\ todo \in Connections
    BY <2>1 DEF ReleaseCalled, GraphIInv, Calls
  <2>3. \A j \in Connections : (sized'[j] => sized[j]) /\ (j = todo => ~sized'[j])
    BY <2>2 DEF GraphIInv, GraphTypes, LinkTypes
  <2>4. CASE op = "destroy"
    <3>1. op' = op /\ todo' = todo + 1 /\ pc' = "next"
      BY <2>4 DEF ReleaseCalled
    <3>2. \A j \in Connections : (j < todo + 1 => j < todo \/ j = todo) /\ (j > todo + 1 \/ j = todo + 1 => j > todo)
      BY <2>2, Sizes
    <3> QED BY <2>1, <2>3, <2>4, <3>1, <3>2 DEF OnceInv, Gone
  <2>5. CASE op = "release"
    <3>1. op' = "none" /\ freed
      BY <2>1, <2>5 DEF ReleaseCalled, Finish, GraphIInv, Stopped
    <3> QED BY <2>1, <2>3, <2>5, <3>1 DEF OnceInv, Gone
  <2> QED BY <2>1, <2>4, <2>5
<1> QED BY <1>1, <1>2, <1>3, <1>4, <1>5, <1>6

\* Destroyed keeps what is known of a graph that is enabled once.
LEMMA DestroyedOnce ==
  ASSUME OneEnabling, GraphIInv, OnceInv, Destroyed
  PROVE  Untouched' /\ Switching' /\ Succeeds' /\ Progress' /\ InUse' /\ Gone'
<1>1. Untouched'
  BY DEF Untouched, Fresh, Destroyed, Finish
<1>2. Switching'
  BY DEF Switching, OnceInv, PortsAt, Destroyed, ports, links, calls
<1>3. Succeeds'
  BY DEF Succeeds, OnceInv, Destroyed, Finish, links, worker, calls
<1>4. Progress'
  BY DEF Progress, Destroyed, Finish
<1>5. InUse'
  BY DEF InUse, OnceInv, Destroyed, Finish, ports, links, worker
<1>6. Gone'
  BY Sizes DEF Gone, OnceInv, GraphIInv, GraphTypes, ClientTypes, Places, Destroyed, Finish, links
<1> QED BY <1>1, <1>2, <1>3, <1>4, <1>5, <1>6

\* PortEnableNext keeps what is known of a graph that is enabled once.
LEMMA PortEnableNextOnce ==
  ASSUME OneEnabling, GraphIInv, OnceInv, PortEnableNext
  PROVE  Untouched' /\ Switching' /\ Succeeds' /\ Progress' /\ InUse' /\ Gone'
<1>1. Untouched'
  BY DEF Untouched, OnceInv, Fresh, PortEnableNext, PortEnabled, Finish, data, worker
<1>2. Switching'
  <2>1. /\ step["client"] = "none" /\ "client" \in Threads /\ UNCHANGED <<is_enabled>> /\ faults' \in Nat /\ faults' >= faults
        /\ \A j \in Connections : enabled'[In(j)] = enabled[In(j)] /\ enabled'[Out(j)] = enabled[Out(j)]
    <3>1. step["client"] = "none"
      BY DEF PortEnableNext, GraphIInv, Calls
    <3> QED BY <3>1 DEF PortEnableNext, links, Threads, GraphIInv, GraphTypes, BoundTypes
  <2>2. \/ UNCHANGED <<step, cx>>
        \/ \E s \in {"enable", "disable"}, i \in Connections : Begin("client", s, i)
    BY DEF PortEnableNext, calls
  <2>3. CASE UNCHANGED <<step, cx>>
    <3>1. step' = [step EXCEPT !["client"] = "none"]
      BY <2>1, <2>3 DEF GraphIInv, GraphTypes, CallTypes
    <3> QED BY <2>1, <2>3, <3>1, BeginSwitching
  <2>4. ASSUME NEW s \in {"enable", "disable"}, NEW i \in Connections, Begin("client", s, i) PROVE Switching'
    <3>1. step' = [step EXCEPT !["client"] = s] /\ \A u \in Threads : u # "client" => cx'[u] = cx[u]
      BY <2>4 DEF Begin, Step, GraphIInv, GraphTypes, CallTypes
    <3> QED BY <2>1, <3>1, BeginSwitching
  <2> QED BY <2>2, <2>3, <2>4
<1>3. Succeeds'
  BY DEF Succeeds, OnceInv, GraphIInv, GraphTypes, LinkTypes, CallTypes, Threads, PortEnableNext,
     Begin, Step, calls, PortEnabled, Finish, links, worker
<1>4. Progress'
  BY Sizes DEF Progress, OnceInv, GraphIInv, GraphTypes, PortTypes, LinkTypes, ClientTypes,
     BoundTypes, Succeeds, PortEnableNext, Onward, calls, PortEnabled, Finish, links
<1>5. InUse'
  <2>1. /\ op = "port_enable" /\ (pc = "next" \/ (pc = "call" /\ step["client"] = "none"))
        /\ UNCHANGED <<way, started, freed, enables, stop_thread, wpc, wcx, is_enabled, faults>>
        /\ \/ UNCHANGED <<op, graph_enabled>>
           \/ /\ pc = "next" /\ (todo \notin Connections \/ enabled[Near(port, todo)])
              /\ graph_enabled' = [graph_enabled EXCEPT ![port] = TRUE] /\ op' = "none"
           \/ graph_enabled' = [graph_enabled EXCEPT ![port] = FALSE] /\ op' = "none"
    BY DEF PortEnableNext, PortEnabled, Finish, ports, links, worker
  <2>2. Fresh /\ way = "component" /\ enables > 0
    BY <2>1 DEF PortEnableNext, Fresh, OnceInv, InUse, Untouched
  <2>3. wpc \in Asleep /\ ~stop_thread /\ ~started /\ ~freed /\ \A p \in GraphPorts : ~graph_enabled[p]
    BY <2>1, <2>2 DEF OnceInv, Untouched, InUse, PortEnableNext
  <2>4. InUse
    BY DEF OnceInv
  <2>5. CASE UNCHANGED <<op, graph_enabled>>
    BY <2>1, <2>4, <2>5 DEF InUse
  <2>6. CASE op' = "none" /\ graph_enabled' = [graph_enabled EXCEPT ![port] = FALSE]
    <3>1. \A p \in GraphPorts : ~graph_enabled'[p]
      BY <2>3, <2>6 DEF GraphIInv, GraphTypes, PortTypes
    <3> QED BY <2>1, <2>3, <2>4, <2>6, <3>1 DEF InUse
  <2>7. CASE /\ pc = "next" /\ (todo \notin Connections \/ enabled[Near(port, todo)])
             /\ graph_enabled' = [graph_enabled EXCEPT ![port] = TRUE] /\ op' = "none"
    <3>1. ASSUME port = GraphIn PROVE \A j \in Connections : is_enabled[j]
      <4>1. /\ todo > 0 /\ \A j \in Connections : j < todo => is_enabled[j]
            /\ todo \in Connections => ~is_enabled[todo]
        BY <2>7, <3>1, Sizes DEF OnceInv, Progress, PortEnableNext
      <4>2. todo \notin Connections
        <5> SUFFICES ASSUME todo \in Connections PROVE FALSE
          OBVIOUS
        <5>1. step["client"] = "none" /\ step["worker"] = "none"
          BY <2>3, <2>7, OneCall DEF GraphIInv, Calls
        <5>2. PortsAt(todo, is_enabled[todo], is_enabled[todo], is_enabled[todo])
          BY <5>1 DEF OnceInv, Switching, Threads, Midway, Disabling
        <5>3. Near(port, todo) = Out(todo)
          BY <3>1 DEF Near, Out
        <5> QED BY <2>7, <4>1, <5>2, <5>3 DEF PortsAt
      <4>3. todo \in 0 .. N + 1
        BY DEF GraphIInv, GraphTypes, ClientTypes
      <4>4. todo = N + 1
        BY <4>1, <4>2, <4>3, Sizes
      <4> QED BY <4>1, <4>4, Sizes
    <3>2. graph_enabled'[GraphIn] => port = GraphIn
      BY <2>3, <2>7 DEF GraphIInv, GraphTypes, PortTypes, GraphPorts
    <3> QED BY <2>1, <2>2, <2>3, <2>4, <2>7, <3>1, <3>2 DEF InUse
  <2> QED BY <2>1, <2>5, <2>6, <2>7
<1>6. Gone'
  BY DEF Gone, OnceInv, PortEnableNext, PortEnabled, Finish, links
<1> QED BY <1>1, <1>2, <1>3, <1>4, <1>5, <1>6

\* PortDisableNext keeps what is known of a graph that is enabled once.
LEMMA PortDisableNextOnce ==
  ASSUME OneEnabling, GraphIInv, OnceInv, PortDisableNext
  PROVE  Untouched' /\ Switching' /\ Succeeds' /\ Progress' /\ InUse' /\ Gone'
<1>1. Untouched'
  BY DEF Untouched, OnceInv, Fresh, PortDisableNext, Finish
<1>2. Switching'
  <2>1. /\ step["client"] = "none" /\ "client" \in Threads /\ UNCHANGED <<is_enabled>> /\ faults' \in Nat /\ faults' >= faults
        /\ \A j \in Connections : enabled'[In(j)] = enabled[In(j)] /\ enabled'[Out(j)] = enabled[Out(j)]
    <3>1. step["client"] = "none"
      BY DEF PortDisableNext, GraphIInv, Calls
    <3>2. enabled' = enabled \/ enabled' = [enabled EXCEPT ![port] = FALSE]
      BY DEF PortDisableNext, ports
    <3>3. port \in GraphPorts
      BY DEF GraphIInv, GraphTypes, ClientTypes
    <3>4. \A j \in Connections : enabled'[In(j)] = enabled[In(j)] /\ enabled'[Out(j)] = enabled[Out(j)]
      BY <3>2, <3>3, PortsOf DEF GraphIInv, GraphTypes, PortTypes
    <3> QED BY <3>1, <3>4 DEF PortDisableNext, links, Threads, GraphIInv, GraphTypes, BoundTypes
  <2>2. \/ UNCHANGED <<step, cx>>
        \/ \E s \in {"enable", "disable"}, i \in Connections : Begin("client", s, i)
    <3>1. UNCHANGED <<step, cx>> \/ (pc = "back" /\ todo > 0 /\ Begin("client", "disable", todo))
      BY DEF PortDisableNext, calls
    <3>2. pc = "back" /\ todo > 0 => todo \in Connections
      <4>1. todo \in 0 .. N + 1 /\ (pc = "back" => todo <= N)
        BY DEF GraphIInv, GraphTypes, ClientTypes, Places
      <4> QED BY <4>1, Sizes DEF Connections
    <3> QED BY <3>1, <3>2
  <2>3. CASE UNCHANGED <<step, cx>>
    <3>1. step' = [step EXCEPT !["client"] = "none"]
      BY <2>1, <2>3 DEF GraphIInv, GraphTypes, CallTypes
    <3> QED BY <2>1, <2>3, <3>1, BeginSwitching
  <2>4. ASSUME NEW s \in {"enable", "disable"}, NEW i \in Connections, Begin("client", s, i) PROVE Switching'
    <3>1. step' = [step EXCEPT !["client"] = s] /\ \A u \in Threads : u # "client" => cx'[u] = cx[u]
      BY <2>4 DEF Begin, Step, GraphIInv, GraphTypes, CallTypes
    <3> QED BY <2>1, <3>1, BeginSwitching
  <2> QED BY <2>2, <2>3, <2>4
<1>3. Succeeds'
  BY DEF Succeeds, OnceInv, GraphIInv, GraphTypes, CallTypes, Threads, PortDisableNext, calls,
     Begin, Step, Finish, links, worker
<1>4. Progress'
  BY DEF Progress, OnceInv, PortDisableNext, ports, Finish
<1>5. InUse'
  BY DEF InUse, OnceInv, Succeeds, PortDisableNext, ports, Finish, links, worker
<1>6. Gone'
  BY DEF Gone, OnceInv, PortDisableNext, Finish, links
<1> QED BY <1>1, <1>2, <1>3, <1>4, <1>5, <1>6

\* GraphEnable keeps what is known of a graph that is enabled once.
LEMMA GraphEnableOnce ==
  ASSUME OneEnabling, GraphIInv, OnceInv, GraphEnable
  PROVE  Untouched' /\ Switching' /\ Succeeds' /\ Progress' /\ InUse' /\ Gone'
<1>1. Untouched'
  BY Sizes DEF Untouched, OnceInv, GraphIInv, GraphTypes, ClientTypes, PortTypes, BoundTypes,
     Fresh, OneEnabling, Asleep, GraphEnable, ports, data, Idle
<1>2. Switching'
  BY DEF Switching, OnceInv, GraphIInv, GraphTypes, BoundTypes, PortsAt, GraphEnable, Fault,
     ports, links, calls
<1>3. Succeeds'
  BY DEF Succeeds, OnceInv, GraphIInv, GraphTypes, BoundTypes, GraphEnable, Fault, links, calls
<1>4. Progress'
  BY Sizes DEF Progress, OnceInv, GraphEnable, ports, links
<1>5. InUse'
  <2>1. /\ op = "none" /\ ~started /\ ~freed /\ way = "graph" /\ enables' = enables + 1
        /\ UNCHANGED <<way, started, freed, graph_enabled, is_enabled, stop_thread, wcx>>
        /\ \/ wpc' = "wait" /\ op' = "enable"
           \/ UNCHANGED <<wpc, op>>
    BY DEF GraphEnable, Idle, ports, links
  <2>2. \A q \in GraphPorts : ~graph_enabled[q]
    BY <2>1 DEF OnceInv, InUse
  <2>3. ~graph_enabled[GraphIn]
    BY <2>2 DEF GraphPorts
  <2>4. started' = FALSE
    BY <2>1 DEF GraphIInv, GraphTypes, ClientTypes
  <2> QED BY <2>1, <2>2, <2>3, <2>4 DEF OnceInv, InUse
<1>6. Gone'
  BY DEF Gone, OnceInv, GraphEnable, links, Idle
<1> QED BY <1>1, <1>2, <1>3, <1>4, <1>5, <1>6

\* GraphDisable keeps what is known of a graph that is enabled once.
LEMMA GraphDisableOnce ==
  ASSUME OneEnabling, GraphIInv, OnceInv, GraphDisable
  PROVE  Untouched' /\ Switching' /\ Succeeds' /\ Progress' /\ InUse' /\ Gone'
<1>1. Untouched'
  <2>1. op' = "disable" /\ started /\ UNCHANGED enables
    BY DEF GraphDisable
  <2> QED BY <2>1 DEF OnceInv, InUse, Untouched, Fresh
<1>2. Switching'
  BY DEF Switching, OnceInv, PortsAt, GraphDisable, ports, links, calls
<1>3. Succeeds'
  BY DEF Succeeds, OnceInv, GraphDisable, links, worker, calls
<1>4. Progress'
  BY DEF Progress, GraphDisable
<1>5. InUse'
  BY DEF InUse, OnceInv, GraphDisable, ports, links, worker
<1>6. Gone'
  BY DEF Gone, OnceInv, GraphDisable, links, Idle
<1> QED BY <1>1, <1>2, <1>3, <1>4, <1>5, <1>6

\* GraphDestroy keeps what is known of a graph that is enabled once.
LEMMA GraphDestroyOnce ==
  ASSUME OneEnabling, GraphIInv, OnceInv, GraphDestroy
  PROVE  Untouched' /\ Switching' /\ Succeeds' /\ Progress' /\ InUse' /\ Gone'
<1>1. Untouched'
  BY DEF Untouched, Fresh, GraphDestroy
<1>2. Switching'
  BY DEF Switching, OnceInv, PortsAt, GraphDestroy, ports, links, calls
<1>3. Succeeds'
  BY DEF Succeeds, OnceInv, GraphDestroy, links, worker, calls
<1>4. Progress'
  BY DEF Progress, GraphDestroy
<1>5. InUse'
  BY DEF InUse, OnceInv, GraphDestroy, ports, links, worker
<1>6. Gone'
  BY Sizes DEF Gone, OnceInv, GraphDestroy, links, Idle
<1> QED BY <1>1, <1>2, <1>3, <1>4, <1>5, <1>6

\* PortFlush keeps what is known of a graph that is enabled once.
LEMMA PortFlushOnce ==
  ASSUME OneEnabling, GraphIInv, OnceInv, PortFlush
  PROVE  Untouched' /\ Switching' /\ Succeeds' /\ Progress' /\ InUse' /\ Gone'
<1>1. Untouched'
  <2>1. graph_enabled[GraphIn] /\ GraphIn \in GraphPorts /\ UNCHANGED client
    BY DEF PortFlush, GraphPorts
  <2>2. ~Fresh /\ (Fresh' <=> Fresh)
    BY <2>1 DEF OnceInv, Untouched, Fresh, client
  <2> QED BY <2>1, <2>2 DEF OnceInv, Untouched, client
<1>2. Switching'
  BY DEF Switching, OnceInv, GraphIInv, GraphTypes, BoundTypes, PortsAt, PortFlush, Fault, ports,
     links, calls
<1>3. Succeeds'
  BY DEF Succeeds, OnceInv, PortFlush, client, links, worker, calls
<1>4. Progress'
  BY DEF Progress, OnceInv, PortFlush, client, links
<1>5. InUse'
  BY DEF InUse, OnceInv, GraphIInv, GraphTypes, BoundTypes, PortFlush, client, Fault, ports,
     links, worker
<1>6. Gone'
  BY DEF Gone, OnceInv, PortFlush, client, links
<1> QED BY <1>1, <1>2, <1>3, <1>4, <1>5, <1>6

\* ClientRelease keeps what is known of a graph that is enabled once.
LEMMA ClientReleaseOnce ==
  ASSUME OneEnabling, GraphIInv, OnceInv, NEW i \in Connections, ClientRelease(i)
  PROVE  Untouched' /\ Switching' /\ Succeeds' /\ Progress' /\ InUse' /\ Gone'
<1>1. Untouched'
  BY DEF Untouched, OnceInv, Fresh, ClientRelease, ports, links, data, worker, Idle
<1>2. Switching'
  BY DEF Switching, OnceInv, PortsAt, ClientRelease, ports, links, calls
<1>3. Succeeds'
  BY DEF Succeeds, OnceInv, ClientRelease, links, worker, calls
<1>4. Progress'
  BY DEF Progress, ClientRelease
<1>5. InUse'
  BY DEF InUse, OnceInv, ClientRelease, ports, links, worker, Idle
<1>6. Gone'
  BY DEF Gone, OnceInv, ClientRelease, links, Idle
<1> QED BY <1>1, <1>2, <1>3, <1>4, <1>5, <1>6

\* PortEnable keeps what is known of a graph that is enabled once.
LEMMA PortEnableOnce ==
  ASSUME OneEnabling, GraphIInv, OnceInv, NEW p \in GraphPorts, PortEnable(p)
  PROVE  Untouched' /\ Switching' /\ Succeeds' /\ Progress' /\ InUse' /\ Gone'
<1>1. Untouched'
  BY Sizes DEF Untouched, OnceInv, GraphIInv, GraphTypes, BoundTypes, Fresh, OneEnabling,
     PortEnable, data, worker, Idle
<1>2. Switching'
  <2>1. /\ step["client"] = "none" /\ "client" \in Threads /\ UNCHANGED <<is_enabled>> /\ faults' \in Nat /\ faults' >= faults
        /\ \A j \in Connections : enabled'[In(j)] = enabled[In(j)] /\ enabled'[Out(j)] = enabled[Out(j)]
    <3>1. step["client"] = "none"
      BY DEF PortEnable, Idle
    <3>2. enabled' = enabled \/ enabled' = [enabled EXCEPT ![p] = TRUE]
      BY DEF PortEnable
    <3>4. \A j \in Connections : enabled'[In(j)] = enabled[In(j)] /\ enabled'[Out(j)] = enabled[Out(j)]
      BY <3>2, PortsOf DEF GraphIInv, GraphTypes, PortTypes
    <3> QED BY <3>1, <3>4 DEF PortEnable, Fault, links, Threads, GraphIInv, GraphTypes, BoundTypes
  <2>2. \/ UNCHANGED <<step, cx>>
        \/ \E s \in {"enable", "disable"}, i \in Connections : Begin("client", s, i)
    BY DEF PortEnable, calls
  <2>3. CASE UNCHANGED <<step, cx>>
    <3>1. step' = [step EXCEPT !["client"] = "none"]
      BY <2>1, <2>3 DEF GraphIInv, GraphTypes, CallTypes
    <3> QED BY <2>1, <2>3, <3>1, BeginSwitching
  <2>4. ASSUME NEW s \in {"enable", "disable"}, NEW i \in Connections, Begin("client", s, i) PROVE Switching'
    <3>1. step' = [step EXCEPT !["client"] = s] /\ \A u \in Threads : u # "client" => cx'[u] = cx[u]
      BY <2>4 DEF Begin, Step, GraphIInv, GraphTypes, CallTypes
    <3> QED BY <2>1, <3>1, BeginSwitching
  <2> QED BY <2>2, <2>3, <2>4
<1>3. Succeeds'
  BY DEF Succeeds, OnceInv, GraphIInv, GraphTypes, BoundTypes, PortEnable, Fault, links, worker,
     calls
<1>4. Progress'
  <2>1. Fresh /\ enables = 0 /\ op = "none"
    BY Sizes DEF PortEnable, Idle, Fresh, OneEnabling, GraphIInv, GraphTypes, BoundTypes
  <2>2. \A j \in Connections : ~is_enabled[j]
    BY <2>1 DEF OnceInv, Untouched
  <2>3. /\ UNCHANGED is_enabled
        /\ \/ op' = "port_enable" /\ port' = p /\ todo' = First(p)
           \/ UNCHANGED op
    BY DEF PortEnable, links
  <2>4. First(GraphIn) = 1 /\ \A j \in Connections : ~(j < 1)
    BY Sizes DEF First
  <2> QED BY <2>1, <2>2, <2>3, <2>4 DEF Progress
<1>5. InUse'
  BY DEF InUse, OnceInv, GraphIInv, GraphTypes, BoundTypes, PortEnable, Fault, links, worker
<1>6. Gone'
  BY DEF Gone, OnceInv, PortEnable, links, Idle
<1> QED BY <1>1, <1>2, <1>3, <1>4, <1>5, <1>6

\* PortDisable keeps what is known of a graph that is enabled once.
LEMMA PortDisableOnce ==
  ASSUME OneEnabling, GraphIInv, OnceInv, NEW p \in GraphPorts, PortDisable(p)
  PROVE  Untouched' /\ Switching' /\ Succeeds' /\ Progress' /\ InUse' /\ Gone'
<1>1. Untouched'
  <2>1. op' = "port_disable" /\ graph_enabled[p] /\ UNCHANGED enables
    BY DEF PortDisable
  <2> QED BY <2>1 DEF OnceInv, InUse, Untouched, Fresh
<1>2. Switching'
  BY DEF Switching, OnceInv, PortsAt, PortDisable, links, calls
<1>3. Succeeds'
  BY DEF Succeeds, PortDisable, worker
<1>4. Progress'
  BY DEF Progress, GraphIInv, GraphTypes, PortTypes, PortDisable
<1>5. InUse'
  BY DEF InUse, OnceInv, PortDisable, links, worker
<1>6. Gone'
  BY DEF Gone, OnceInv, PortDisable, links, Idle
<1> QED BY <1>1, <1>2, <1>3, <1>4, <1>5, <1>6

\* PortSend keeps what is known of a graph that is enabled once.
LEMMA PortSendOnce ==
  ASSUME OneEnabling, GraphIInv, OnceInv, NEW b \in ClientBuffers, PortSend(b)
  PROVE  Untouched' /\ Switching' /\ Succeeds' /\ Progress' /\ InUse' /\ Gone'
<1>1. Untouched'
  <2>1. graph_enabled[GraphIn] /\ GraphIn \in GraphPorts /\ UNCHANGED client
    BY DEF PortSend, GraphPorts
  <2>2. ~Fresh /\ (Fresh' <=> Fresh)
    BY <2>1 DEF OnceInv, Untouched, Fresh, client
  <2> QED BY <2>1, <2>2 DEF OnceInv, Untouched, client
<1>2. Switching'
  BY DEF Switching, OnceInv, PortsAt, PortSend, Accepts, ports, links, calls
<1>3. Succeeds'
  BY DEF Succeeds, OnceInv, PortSend, Accepts, links, worker, calls, client
<1>4. Progress'
  BY DEF Progress, OnceInv, PortSend, links, client
<1>5. InUse'
  BY DEF InUse, OnceInv, PortSend, Accepts, ports, links, worker, client
<1>6. Gone'
  BY DEF Gone, OnceInv, PortSend, links, client
<1> QED BY <1>1, <1>2, <1>3, <1>4, <1>5, <1>6

-----------------------------------------------------------------------------
(* Where a graph is enabled once: its ports are quiet, its queues are true. *)

\* Buffers that come to a port do so while it is enabled.
LEMMA QuietMove ==
  ASSUME GraphIInv, OnceInv, UNCHANGED is_enabled,
         \A t \in Threads : \/ step'[t] = step[t] /\ cx'[t] = cx[t]
                            \/ step[t] = "none" /\ step'[t] \in {"none", "enable", "disable"},
         \A i \in Connections : enabled'[In(i)] = enabled[In(i)],
         \A i \in Connections : Quiet(In(i)) => Quiet(In(i))' \/ enabled[In(i)],
         \A i \in Connections : Quiet(Out(i)) =>
           Quiet(Out(i))' \/ (is_enabled[i] /\ \A t \in Threads : step[t] \in {"drain", "check"} => cx[t] # i),
         \A i \in Connections : queue[i] = <<>> => queue'[i] = <<>> \/ ~Quiet(Out(i)),
         \A i \in Connections : returning'[In(i)] # "event",
         \A i \in Connections : returning'[Out(i)] = "event" => \E b \in Buffers : at'[b] = Out(i)
  PROVE  QuietPorts'
<1>1. QuietPorts /\ \A t \in Threads : cx[t] \in Connections
  BY DEF OnceInv, GraphIInv, GraphTypes, CallTypes
<1>2. ASSUME NEW i \in Connections
      PROVE  /\ enabled'[In(i)] \/ Quiet(In(i))' \/ \E t \in Threads : step'[t] = "wait_in" /\ cx'[t] = i
             /\ is_enabled'[i] \/ (Quiet(Out(i))' /\ queue'[i] = <<>>)
  <2>1. enabled'[In(i)] \/ Quiet(In(i))' \/ \E t \in Threads : step'[t] = "wait_in" /\ cx'[t] = i
    <3>1. enabled[In(i)] \/ Quiet(In(i)) \/ \E t \in Threads : step[t] = "wait_in" /\ cx[t] = i
      BY <1>1 DEF QuietPorts
    <3>2. CASE enabled[In(i)]
      BY <3>2
    <3>3. CASE Quiet(In(i))
      BY <3>3
    <3>4. ASSUME NEW t \in Threads, step[t] = "wait_in", cx[t] = i PROVE step'[t] = "wait_in" /\ cx'[t] = i
      BY <3>4
    <3> QED BY <3>1, <3>2, <3>3, <3>4
  <2>2. is_enabled'[i] \/ (Quiet(Out(i))' /\ queue'[i] = <<>>)
    BY <1>1 DEF QuietPorts
  <2> QED BY <2>1, <2>2
<1>3. ASSUME NEW t \in Threads
      PROVE  /\ step'[t] \in {"drain", "check"} => Quiet(Out(cx[t]))' /\ cx'[t] = cx[t]
             /\ step'[t] = "check" => queue'[cx[t]] = <<>>
  BY <1>1 DEF QuietPorts
<1>4. ASSUME NEW t \in Threads, step'[t] \in {"drain", "check"} PROVE Quiet(Out(cx[t]))'
  <2>1. Quiet(Out(cx[t]))' /\ cx'[t] = cx[t]
    BY <1>3, <1>4
  <2> QED BY <2>1 DEF Quiet
<1> QED BY <1>2, <1>3, <1>4 DEF QuietPorts

\* A call on a connection disables a port once it is quiet.
LEMMA QuietCall ==
  ASSUME GraphIInv, OnceInv, NEW t \in Threads, CallDoes(t),
         \A j \in Connections : \A b \in Buffers : /\ at'[b] = In(j) <=> at[b] = In(j)
                                                   /\ at'[b] = Out(j) <=> at[b] = Out(j),
         \A j \in Connections : j # cx[t] => queue'[j] = queue[j],
         enabled'[In(cx[t])] \/ Quiet(In(cx[t])) \/ step'[t] = "wait_in",
         is_enabled'[cx[t]] \/ (Quiet(Out(cx[t])) /\ queue'[cx[t]] = <<>>),
         step'[t] \in {"drain", "check"} => Quiet(Out(cx[t])),
         step'[t] = "check" => queue'[cx[t]] = <<>>
  PROVE  QuietPorts'
<1>1. /\ cx[t] \in Connections /\ cx' = cx /\ returning' = returning
      /\ \A u \in Threads : u # t => step[u] = "none" /\ step'[u] = "none"
      /\ \A j \in Connections : j # cx[t] => enabled'[In(j)] = enabled[In(j)] /\ is_enabled'[j] = is_enabled[j]
  <2>1. \A u \in Threads : u # t => step'[u] = step[u]
    BY DEF CallDoes
  <2> QED BY <2>1, OtherCall DEF CallDoes, GraphIInv, GraphTypes, CallTypes
<1>2. \A j \in Connections : (Quiet(In(j))' <=> Quiet(In(j))) /\ (Quiet(Out(j))' <=> Quiet(Out(j)))
  BY <1>1 DEF Quiet
<1>3. ASSUME NEW j \in Connections
      PROVE  /\ enabled'[In(j)] \/ Quiet(In(j))' \/ \E u \in Threads : step'[u] = "wait_in" /\ cx[u] = j
             /\ is_enabled'[j] \/ (Quiet(Out(j))' /\ queue'[j] = <<>>)
             /\ returning'[In(j)] # "event"
             /\ returning'[Out(j)] = "event" => \E b \in Buffers : at'[b] = Out(j)
  <2>1. returning'[In(j)] # "event" /\ (returning'[Out(j)] = "event" => \E b \in Buffers : at'[b] = Out(j))
    BY <1>1 DEF OnceInv, QuietPorts
  <2>2. CASE j = cx[t]
    BY <1>2, <2>1, <2>2
  <2>3. CASE j # cx[t]
    <3>1. enabled[In(j)] \/ Quiet(In(j)) \/ \E u \in Threads : step[u] = "wait_in" /\ cx[u] = j
      BY DEF OnceInv, QuietPorts
    <3>2. \A u \in Threads : step[u] = "wait_in" => cx[u] # j
      BY <1>1, <2>3
    <3>3. is_enabled[j] \/ (Quiet(Out(j)) /\ queue[j] = <<>>)
      BY DEF OnceInv, QuietPorts
    <3> QED BY <1>1, <1>2, <2>1, <2>3, <3>1, <3>2, <3>3
  <2> QED BY <2>2, <2>3
<1>4. ASSUME NEW u \in Threads
      PROVE  /\ step'[u] \in {"drain", "check"} => Quiet(Out(cx[u]))
             /\ step'[u] = "check" => queue'[cx[u]] = <<>>
  BY <1>1
<1>5. ASSUME NEW u \in Threads
      PROVE  /\ step'[u] \in {"drain", "check"} => Quiet(Out(cx[u]))'
             /\ step'[u] = "check" => queue'[cx'[u]] = <<>>
  <2>1. cx[u] \in Connections /\ cx' = cx
    BY <1>1 DEF GraphIInv, GraphTypes, CallTypes
  <2>2. Quiet(Out(cx[u]))' <=> Quiet(Out(cx[u]))
    BY <1>2, <2>1 DEF Quiet
  <2> QED BY <1>4, <2>1, <2>2
<1> QED BY <1>1, <1>3, <1>5 DEF QuietPorts

\* What is known of the connection of a call.
LEMMA QuietKnown ==
  ASSUME GraphIInv, OnceInv, NEW t \in Threads, step[t] # "none"
  PROVE  /\ cx[t] \in Connections
         /\ enabled[In(cx[t])] \/ Quiet(In(cx[t])) \/ step[t] = "wait_in"
         /\ is_enabled[cx[t]] \/ (Quiet(Out(cx[t])) /\ queue[cx[t]] = <<>>)
         /\ step[t] \in {"drain", "check"} => Quiet(Out(cx[t]))
         /\ step[t] = "check" => queue[cx[t]] = <<>>
         /\ returning[In(cx[t])] # "event"
         /\ returning[Out(cx[t])] = "event" => \E b \in Buffers : at[b] = Out(cx[t])
<1>1. cx[t] \in Connections /\ \A u \in Threads : u # t => step[u] = "none"
  BY OtherCall DEF GraphIInv, GraphTypes, CallTypes
<1>2. QuietPorts
  BY DEF OnceInv
<1>3. enabled[In(cx[t])] \/ Quiet(In(cx[t])) \/ step[t] = "wait_in"
  BY <1>1, <1>2 DEF QuietPorts
<1> QED BY <1>1, <1>2, <1>3 DEF QuietPorts

\* The hypotheses of QuietMove, for steps that are not about calls.
LEMMA QuietBuffers ==
  ASSUME GraphIInv, OnceInv, UNCHANGED <<enabled, is_enabled, step, cx>>,
         \A i \in Connections : Quiet(In(i)) => Quiet(In(i))' \/ enabled[In(i)],
         \A i \in Connections : Quiet(Out(i)) =>
           Quiet(Out(i))' \/ (is_enabled[i] /\ \A t \in Threads : step[t] \in {"drain", "check"} => cx[t] # i),
         \A i \in Connections : queue[i] = <<>> => queue'[i] = <<>> \/ ~Quiet(Out(i)),
         \A i \in Connections : returning'[In(i)] = "event" => returning[In(i)] = "event",
         \A i \in Connections : returning'[Out(i)] = "event" =>
           returning[Out(i)] = "event" \/ \E b \in Buffers : at'[b] = Out(i),
         \A i \in Connections : \A b \in Buffers : at[b] = Out(i) => at'[b] = Out(i) \/ returning'[Out(i)] # "event"
  PROVE  QuietPorts'
<1>1. \A i \in Connections : returning[In(i)] # "event" /\ (returning[Out(i)] = "event" => \E b \in Buffers : at[b] = Out(i))
  BY DEF OnceInv, QuietPorts
<1>2. /\ \A i \in Connections : returning'[In(i)] # "event"
      /\ \A i \in Connections : returning'[Out(i)] = "event" => \E b \in Buffers : at'[b] = Out(i)
  BY <1>1
<1> QED BY <1>2, QuietMove

\* A buffer that goes to no port.
LEMMA QuietTaken ==
  ASSUME GraphIInv, OnceInv, UNCHANGED <<enabled, is_enabled, step, cx, returning>>, NEW b \in Buffers, NEW l,
         at' = [at EXCEPT ![b] = l], \A i : l # In(i) /\ l # Out(i), \A i \in Connections : at[b] # Out(i),
         \A i \in Connections : queue[i] = <<>> => queue'[i] = <<>>
  PROVE  QuietPorts'
<1>1. \A c \in Buffers : (c = b /\ at'[c] = l) \/ (c # b /\ at'[c] = at[c])
  BY DEF GraphIInv, GraphTypes, PlaceTypes
<1>2. \A i \in Connections : (Quiet(In(i)) => Quiet(In(i))') /\ (Quiet(Out(i)) => Quiet(Out(i))')
  BY <1>1 DEF Quiet
<1>3. \A i \in Connections : \A c \in Buffers : at[c] = Out(i) => at'[c] = Out(i)
  BY <1>1
<1> QED BY <1>2, <1>3, QuietBuffers

\* What the thread has is in no queue and at no port.
LEMMA HandAt ==
  ASSUME GraphIInv, OnceInv, wpc \in {"send", "fill", "event", "disable", "enable"}
  PROVE  wbuffer \in Buffers /\ at[wbuffer] = Hand
BY HandHolds, Owners DEF GraphIInv, OnceInv, Holds

\* The thread sends the buffer at hand to the input port of its connection, or releases it.
LEMMA QuietSend ==
  ASSUME GraphIInv, OnceInv, wpc \in {"send", "fill", "event", "disable", "enable"},
         UNCHANGED <<enabled, is_enabled, step, cx, returning, queue>>,
         \/ at' = [at EXCEPT ![wbuffer] = Pool]
         \/ at' = [at EXCEPT ![wbuffer] = In(wcx)] /\ enabled[In(wcx)]
  PROVE  QuietPorts'
<1>1. wcx \in Connections /\ wbuffer \in Buffers /\ at[wbuffer] = Hand
  BY HandAt DEF GraphIInv, GraphTypes, ThreadTypes
<1>2. CASE at' = [at EXCEPT ![wbuffer] = Pool]
  BY <1>1, <1>2, QuietTaken, PlacesApart
<1>3. CASE at' = [at EXCEPT ![wbuffer] = In(wcx)] /\ enabled[In(wcx)]
  <2>1. \A c \in Buffers : (c = wbuffer /\ at'[c] = In(wcx)) \/ (c # wbuffer /\ at'[c] = at[c])
    BY <1>1, <1>3 DEF GraphIInv, GraphTypes, PlaceTypes
  <2>2. \A j \in Connections : (Quiet(In(j)) => Quiet(In(j))' \/ enabled[In(j)]) /\ (Quiet(Out(j)) => Quiet(Out(j))')
    BY <1>1, <1>3, <2>1, PlacesApart DEF Quiet
  <2>3. \A j \in Connections : \A c \in Buffers : at[c] = Out(j) => at'[c] = Out(j)
    BY <1>1, <2>1, PlacesApart
  <2> QED BY <2>2, <2>3, QuietBuffers
<1> QED BY <1>2, <1>3

\* A call begins, or a port of the graph is enabled or disabled.
LEMMA QuietBegin ==
  ASSUME GraphIInv, OnceInv, UNCHANGED <<is_enabled, returning, queue, at>>,
         \A i \in Connections : enabled'[In(i)] = enabled[In(i)],
         \/ UNCHANGED <<step, cx>>
         \/ \E t \in Threads, s \in {"enable", "disable"}, i \in Connections : step[t] = "none" /\ Begin(t, s, i)
  PROVE  QuietPorts'
<1>1. \A t \in Threads : \/ step'[t] = step[t] /\ cx'[t] = cx[t]
                         \/ step[t] = "none" /\ step'[t] \in {"none", "enable", "disable"}
  <2>1. CASE UNCHANGED <<step, cx>>
    BY <2>1
  <2>2. ASSUME NEW t \in Threads, NEW s \in {"enable", "disable"}, NEW i \in Connections,
               step[t] = "none", Begin(t, s, i)
        PROVE  \A u \in Threads : \/ step'[u] = step[u] /\ cx'[u] = cx[u]
                                  \/ step[u] = "none" /\ step'[u] \in {"none", "enable", "disable"}
    <3>1. step' = [step EXCEPT ![t] = s] /\ cx' = [cx EXCEPT ![t] = i]
      BY <2>2 DEF Begin, Step
    <3>2. \A u \in Threads : u # t => step'[u] = step[u] /\ cx'[u] = cx[u]
      BY <3>1 DEF GraphIInv, GraphTypes, CallTypes
    <3>3. step'[t] = s
      BY <3>1 DEF GraphIInv, GraphTypes, CallTypes
    <3> QED BY <2>2, <3>2, <3>3
  <2> QED BY <2>1, <2>2
<1>2. \A j \in Connections : (Quiet(In(j)) => Quiet(In(j))') /\ (Quiet(Out(j)) => Quiet(Out(j))')
  BY DEF Quiet
<1>3. \A j \in Connections : /\ returning'[In(j)] # "event"
                             /\ returning'[Out(j)] = "event" => \E b \in Buffers : at'[b] = Out(j)
  BY DEF OnceInv, QuietPorts
<1> QED BY <1>1, <1>2, <1>3, QuietMove

\* Buffers that are in no queue that stays, and not at hand, go elsewhere.
LEMMA HoldsMove ==
  ASSUME GraphIInv, OnceInv, NEW S, NEW l,
         at' = [b \in Buffers |-> IF b \in S THEN l ELSE at[b]],
         \A i \in Connections :
           queue'[i] = <<>> \/ (queue'[i] = queue[i] /\ \A k \in DOMAIN queue[i] : queue[i][k] \notin S),
         wbuffer' = NoBuffer \/ (wbuffer' = wbuffer /\ wbuffer \notin S),
         \A i \in Connections : ~sized'[i] =>
           \A b \in Headers[i] : (b \in S /\ l = None) \/ (b \notin S /\ ~sized[i])
  PROVE  Holds'
<1>1. \A i \in Connections : queue[i] \in Seq(Buffers)
  BY DEF GraphIInv, GraphTypes, QueueTypes
<1>2. wbuffer \in Buffers \cup {NoBuffer}
  BY DEF GraphIInv, GraphTypes, ThreadTypes
<1>3. Holds
  BY DEF OnceInv
<1>4. ASSUME NEW i \in Connections, NEW k \in DOMAIN queue'[i], NEW m \in DOMAIN queue'[i]
      PROVE  at'[queue'[i][k]] = Queue /\ (queue'[i][k] = queue'[i][m] => k = m)
  <2>1. queue'[i] = queue[i] /\ \A n \in DOMAIN queue[i] : queue[i][n] \notin S
    BY <1>4
  <2>2. queue[i][k] \in Buffers
    BY <1>1, <2>1
  <2> QED BY <1>3, <2>1, <2>2 DEF Holds
<1>5. wbuffer' # NoBuffer => at'[wbuffer'] = Hand
  BY <1>2, <1>3 DEF Holds
<1>6. ASSUME NEW i \in Connections, ~sized'[i], NEW b \in Headers[i] PROVE at'[b] = None
  BY <1>3, <1>6, Owners DEF Holds
<1> QED BY <1>4, <1>5, <1>6 DEF Holds

\* The thread passes on what it has at hand.
LEMMA HoldsSend ==
  ASSUME GraphIInv, OnceInv, wpc \in {"send", "fill", "event", "disable", "enable"}, UNCHANGED <<queue, sized>>,
         wbuffer' = NoBuffer, NEW l, at' = [at EXCEPT ![wbuffer] = l]
  PROVE  Holds'
<1>1. wbuffer \in Buffers /\ at[wbuffer] = Hand
  BY HandAt
<1>2. at' = [b \in Buffers |-> IF b \in {wbuffer} THEN l ELSE at[b]]
  BY <1>1 DEF GraphIInv, GraphTypes, PlaceTypes
<1>3. /\ \A i \in Connections : \A k \in DOMAIN queue[i] : queue[i][k] \notin {wbuffer}
      /\ \A i \in Connections : ~sized[i] => \A b \in Headers[i] : b \notin {wbuffer}
  BY <1>1, PlacesApart DEF OnceInv, Holds
<1> QED BY <1>2, <1>3, HoldsMove

\* Nothing moves.
LEMMA HoldsStill ==
  ASSUME OnceInv, UNCHANGED <<queue, at, sized, wbuffer>>
  PROVE  Holds'
BY DEF OnceInv, Holds

\* ReturnInput leaves quiet the ports that are disabled.
LEMMA ReturnInputSettles ==
  ASSUME OneEnabling, GraphIInv, OnceInv, NEW i \in 0 .. N, ReturnInput(i)
  PROVE  QuietPorts' /\ Holds'
<1>1. QuietPorts'
  <2>1. PICK b \in Buffers : /\ at[b] = In(i) /\ at' = [at EXCEPT ![b] = Pool]
                              /\ returning' = [returning EXCEPT ![In(i)] = IF b \in AllHeaders THEN "buffer" ELSE @]
    BY DEF ReturnInput, In, Pool
  <2>2. UNCHANGED <<enabled, is_enabled, step, cx, queue>>
    BY DEF ReturnInput, ports, links, calls
  <2>3. /\ \A c \in Buffers : (c = b /\ at'[c] = Pool) \/ (c # b /\ at'[c] = at[c])
        /\ \A p \in Ports : p # In(i) => returning'[p] = returning[p]
        /\ returning'[In(i)] \in {"buffer", returning[In(i)]}
    BY <2>1, PortsOf DEF GraphIInv, GraphTypes, PlaceTypes, PortTypes
  <2>4. \A j \in Connections : /\ In(j) \in Ports /\ Out(j) \in Ports /\ Out(j) # In(i)
                               /\ In(j) = In(i) => ~Quiet(In(j))
    BY <2>1, PortsOf, PlacesApart DEF Quiet
  <2>5. \A j \in Connections : (Quiet(In(j)) => Quiet(In(j))') /\ (Quiet(Out(j)) => Quiet(Out(j))')
    BY <2>3, <2>4, PlacesApart DEF Quiet
  <2>6. \A j \in Connections : /\ returning'[In(j)] = "event" => returning[In(j)] = "event"
                               /\ returning'[Out(j)] = returning[Out(j)]
    BY <2>3, <2>4
  <2>7. \A j \in Connections : \A c \in Buffers : at[c] = Out(j) => at'[c] = Out(j)
    BY <2>1, <2>3, <2>4
  <2> QED BY <2>2, <2>5, <2>6, <2>7, QuietBuffers
<1>2. Holds'
  BY DEF Holds, OnceInv, GraphIInv, GraphTypes, QueueTypes, ReturnInput, links, worker, Queue,
     Hand, None
<1> QED BY <1>1, <1>2

\* ReturnOutput leaves quiet the ports that are disabled.
LEMMA ReturnOutputSettles ==
  ASSUME OneEnabling, GraphIInv, OnceInv, NEW i \in Connections, ReturnOutput(i)
  PROVE  QuietPorts' /\ Holds'
<1>1. QuietPorts'
  <2>1. PICK b \in Buffers : /\ at[b] = Out(i) /\ at' = [at EXCEPT ![b] = Queue]
                              /\ queue' = [queue EXCEPT ![i] = Append(@, b)]
                              /\ returning' = [returning EXCEPT ![Out(i)] = "buffer"]
    BY DEF ReturnOutput, Out, Queue
  <2>2. /\ UNCHANGED <<enabled, is_enabled, step, cx>> /\ Out(i) \in Ports
        /\ \A j \in Connections : j # i => queue'[j] = queue[j]
    BY <2>1, PortsOf DEF ReturnOutput, ports, links, calls
  <2>3. /\ \A c \in Buffers : (c = b /\ at'[c] = Queue) \/ (c # b /\ at'[c] = at[c])
        /\ \A p \in Ports : p # Out(i) => returning'[p] = returning[p]
        /\ returning'[Out(i)] = "buffer" /\ ~Quiet(Out(i))
    BY <2>1, <2>2 DEF GraphIInv, GraphTypes, PlaceTypes, PortTypes, Quiet
  <2>4. \A j \in Connections : In(j) \in Ports /\ Out(j) \in Ports /\ In(j) # Out(i) /\ (j # i => Out(j) # Out(i))
    BY PortsOf, PlacesApart
  <2>5. \A j \in Connections : (Quiet(In(j)) => Quiet(In(j))') /\ (Quiet(Out(j)) => Quiet(Out(j))')
    BY <2>3, <2>4, PlacesApart DEF Quiet
  <2>6. \A j \in Connections : /\ returning'[In(j)] = "event" => returning[In(j)] = "event"
                               /\ returning'[Out(j)] = "event" => returning[Out(j)] = "event"
    BY <2>3, <2>4
  <2>7. \A j \in Connections : \A c \in Buffers : at[c] = Out(j) => at'[c] = Out(j) \/ returning'[Out(j)] # "event"
    BY <2>1, <2>3, <2>4
  <2> QED BY <2>2, <2>3, <2>5, <2>6, <2>7, QuietBuffers
<1>2. Holds'
  BY DEF Holds, OnceInv, GraphIInv, GraphTypes, PlaceTypes, QueueTypes, ReturnOutput, links,
     worker, Queue, Hand, None
<1> QED BY <1>1, <1>2

\* RaiseEvent leaves quiet the ports that are disabled.
LEMMA RaiseEventSettles ==
  ASSUME OneEnabling, GraphIInv, OnceInv, NEW i \in Connections, RaiseEvent(i)
  PROVE  QuietPorts' /\ Holds'
<1>1. QuietPorts'
  <2>1. PICK e \in Buffers : /\ at[e] = Pool /\ at' = [at EXCEPT ![e] = Queue]
                              /\ queue' = [queue EXCEPT ![i] = Append(@, e)]
                              /\ returning' = [returning EXCEPT ![Out(i)] = "event"]
    BY Owners DEF RaiseEvent, Out, Queue, Pool
  <2>2. /\ UNCHANGED <<enabled, is_enabled, step, cx>> /\ Out(i) \in Ports
        /\ \A j \in Connections : j # i => queue'[j] = queue[j]
    BY <2>1, PortsOf DEF RaiseEvent, ports, links, calls
  <2>8. PICK d \in Buffers : at[d] = Out(i)
    BY DEF RaiseEvent, OneEnabling, Out
  <2>3. /\ \A c \in Buffers : (c = e /\ at'[c] = Queue) \/ (c # e /\ at'[c] = at[c])
        /\ \A p \in Ports : p # Out(i) => returning'[p] = returning[p]
        /\ at'[d] = Out(i) /\ ~Quiet(Out(i))
    BY <2>1, <2>2, <2>8, PlacesApart DEF GraphIInv, GraphTypes, PlaceTypes, Quiet
  <2>4. \A j \in Connections : In(j) \in Ports /\ Out(j) \in Ports /\ In(j) # Out(i) /\ (j # i => Out(j) # Out(i))
    BY PortsOf, PlacesApart
  <2>5. \A j \in Connections : (Quiet(In(j)) => Quiet(In(j))') /\ (Quiet(Out(j)) => Quiet(Out(j))')
    BY <2>3, <2>4, PlacesApart DEF Quiet
  <2>6. \A j \in Connections : /\ returning'[In(j)] = "event" => returning[In(j)] = "event"
                               /\ returning'[Out(j)] = "event" => returning[Out(j)] = "event" \/ \E b \in Buffers : at'[b] = Out(j)
    BY <2>3, <2>4
  <2>7. \A j \in Connections : \A c \in Buffers : at[c] = Out(j) => at'[c] = Out(j)
    BY <2>1, <2>3, <2>4, PlacesApart
  <2> QED BY <2>2, <2>3, <2>5, <2>6, <2>7, QuietBuffers
<1>2. Holds'
  BY Owners DEF Holds, OnceInv, GraphIInv, GraphTypes, PlaceTypes, QueueTypes, RaiseEvent, links,
     worker, client, Pool, Queue, Hand, None
<1> QED BY <1>1, <1>2

\* Notify leaves quiet the ports that are disabled.
LEMMA NotifySettles ==
  ASSUME OneEnabling, GraphIInv, OnceInv, NEW p \in Ports, Notify(p)
  PROVE  QuietPorts' /\ Holds'
<1>1. QuietPorts'
  <2>1. UNCHANGED <<enabled, is_enabled, step, cx, at, queue>>
    BY DEF Notify, ports, links, calls, data
  <2>2. \A q \in Ports : returning'[q] \in {"no", returning[q]}
    BY DEF Notify, GraphIInv, GraphTypes, PortTypes
  <2>3. \A j \in Connections : In(j) \in Ports /\ Out(j) \in Ports
    BY PortsOf
  <2>4. \A j \in Connections : (Quiet(In(j)) => Quiet(In(j))') /\ (Quiet(Out(j)) => Quiet(Out(j))')
    BY <2>1, <2>2, <2>3 DEF Quiet
  <2>5. \A j \in Connections : /\ returning'[In(j)] = "event" => returning[In(j)] = "event"
                               /\ returning'[Out(j)] = "event" => returning[Out(j)] = "event"
    BY <2>2, <2>3
  <2> QED BY <2>1, <2>4, <2>5, QuietBuffers
<1>2. Holds'
  BY DEF Holds, OnceInv, Notify, links, data, worker, links, data, worker
<1> QED BY <1>1, <1>2

\* EnableConnection leaves quiet the ports that are disabled.
LEMMA EnableConnectionSettles ==
  ASSUME OneEnabling, GraphIInv, OnceInv, NEW t \in Threads, EnableConnection(t)
  PROVE  QuietPorts' /\ Holds'
<1>1. QuietPorts'
  <2>1. step[t] = "enable" /\ step[t] # "none" /\ CallDoes(t)
    <3>1. ConnectionCall(t)
      BY DEF ConnectionCall
    <3> QED BY <3>1, ConnectionCallDoes DEF EnableConnection
  <2>2. PortsAt(cx[t], is_enabled[cx[t]], is_enabled[cx[t]], is_enabled[cx[t]])
    BY <2>1, CallPorts
  <2>3. /\ cx[t] \in Connections /\ In(cx[t]) \in Ports /\ Out(cx[t]) \in Ports /\ t \in Threads
        /\ step \in [Threads -> {"none", "enable", "out", "in", "undo", "disable", "wait_in", "stop_out",
                                 "wait_out", "drain", "check"}]
        /\ enabled \in [Ports -> BOOLEAN] /\ is_enabled \in [Connections -> BOOLEAN]
    BY PortsOf DEF GraphIInv, GraphTypes, CallTypes, PortTypes, LinkTypes
  <2>4. /\ \A j \in Connections : \A b \in Buffers : /\ at'[b] = In(j) <=> at[b] = In(j)
                                                     /\ at'[b] = Out(j) <=> at[b] = Out(j)
        /\ \A j \in Connections : j # cx[t] => queue'[j] = queue[j]
    <3>1. \/ at' = at
          \/ at' = [b \in Buffers |-> IF b \in Headers[cx[t]] /\ ~sized[cx[t]] THEN Pool ELSE at[b]]
      BY DEF EnableConnection, Pool
    <3>2. ~sized[cx[t]] => \A b \in Headers[cx[t]] : at[b] = None
      BY <2>3 DEF OnceInv, Holds
    <3>3. UNCHANGED queue
      BY DEF EnableConnection
    <3> QED BY <3>1, <3>2, <3>3, PlacesApart
  <2>5. /\ enabled'[In(cx[t])] \/ Quiet(In(cx[t])) \/ step'[t] = "wait_in"
        /\ is_enabled'[cx[t]] \/ (Quiet(Out(cx[t])) /\ queue'[cx[t]] = <<>>)
        /\ step'[t] \in {"drain", "check"} => Quiet(Out(cx[t]))
        /\ step'[t] = "check" => queue'[cx[t]] = <<>>
    BY <2>1, <2>2, <2>3, QuietKnown DEF EnableConnection, Return, Step, ports, ports
  <2> QED BY <2>1, <2>4, <2>5, QuietCall
<1>2. Holds'
  <2>1. UNCHANGED <<queue, wbuffer>> /\ cx[t] \in Connections /\ sized \in [Connections -> BOOLEAN]
    BY DEF EnableConnection, worker, GraphIInv, GraphTypes, CallTypes, LinkTypes
  <2>2. \/ UNCHANGED <<at, sized>>
        \/ /\ sized' = [sized EXCEPT ![cx[t]] = TRUE]
           /\ at' = [b \in Buffers |-> IF b \in Headers[cx[t]] /\ ~sized[cx[t]] THEN Pool ELSE at[b]]
    BY DEF EnableConnection, Pool
  <2>3. CASE UNCHANGED <<at, sized>>
    BY <2>1, <2>3, HoldsStill
  <2>4. CASE /\ sized' = [sized EXCEPT ![cx[t]] = TRUE]
             /\ at' = [b \in Buffers |-> IF b \in Headers[cx[t]] /\ ~sized[cx[t]] THEN Pool ELSE at[b]]
    <3> DEFINE S == {b \in Headers[cx[t]] : ~sized[cx[t]]}
    <3>1. at' = [b \in Buffers |-> IF b \in S THEN Pool ELSE at[b]]
      BY <2>4
    <3>2. \A b \in S : at[b] = None /\ b \in Headers[cx[t]]
      BY <2>1 DEF OnceInv, Holds
    <3> HIDE DEF S
    <3>3. \A i \in Connections : \A k \in DOMAIN queue[i] : queue[i][k] \notin S
      BY <3>2, PlacesApart DEF OnceInv, Holds
    <3>4. wbuffer = NoBuffer \/ wbuffer \notin S
      BY <3>2, PlacesApart DEF OnceInv, Holds
    <3>5. ASSUME NEW i \in Connections, ~sized'[i], NEW b \in Headers[i] PROVE b \notin S /\ ~sized[i]
      <4>1. i # cx[t] /\ sized'[i] = sized[i]
        BY <2>1, <2>4, <3>5
      <4> QED BY <2>1, <3>2, <3>5, <4>1, Owners DEF Own
    <3> QED BY <2>1, <3>1, <3>3, <3>4, <3>5, HoldsMove
  <2> QED BY <2>2, <2>3, <2>4
<1> QED BY <1>1, <1>2

\* EnableOutput leaves quiet the ports that are disabled.
LEMMA EnableOutputSettles ==
  ASSUME OneEnabling, GraphIInv, OnceInv, NEW t \in Threads, EnableOutput(t)
  PROVE  QuietPorts' /\ Holds'
<1>1. QuietPorts'
  <2>1. step[t] = "out" /\ step[t] # "none" /\ CallDoes(t)
    <3>1. ConnectionCall(t)
      BY DEF ConnectionCall
    <3> QED BY <3>1, ConnectionCallDoes DEF EnableOutput
  <2>2. PortsAt(cx[t], FALSE, FALSE, FALSE)
    BY <2>1, CallPorts
  <2>3. /\ cx[t] \in Connections /\ In(cx[t]) \in Ports /\ Out(cx[t]) \in Ports /\ t \in Threads
        /\ step \in [Threads -> {"none", "enable", "out", "in", "undo", "disable", "wait_in", "stop_out",
                                 "wait_out", "drain", "check"}]
        /\ enabled \in [Ports -> BOOLEAN] /\ is_enabled \in [Connections -> BOOLEAN]
    BY PortsOf DEF GraphIInv, GraphTypes, CallTypes, PortTypes, LinkTypes
  <2>4. /\ \A j \in Connections : \A b \in Buffers : /\ at'[b] = In(j) <=> at[b] = In(j)
                                                     /\ at'[b] = Out(j) <=> at[b] = Out(j)
        /\ \A j \in Connections : j # cx[t] => queue'[j] = queue[j]
    BY DEF EnableOutput, data
  <2>5. /\ enabled'[In(cx[t])] \/ Quiet(In(cx[t])) \/ step'[t] = "wait_in"
        /\ is_enabled'[cx[t]] \/ (Quiet(Out(cx[t])) /\ queue'[cx[t]] = <<>>)
        /\ step'[t] \in {"drain", "check"} => Quiet(Out(cx[t]))
        /\ step'[t] = "check" => queue'[cx[t]] = <<>>
    BY <2>1, <2>2, <2>3, QuietKnown DEF EnableOutput, data, data, PortsAt
  <2> QED BY <2>1, <2>4, <2>5, QuietCall
<1>2. Holds'
  BY DEF Holds, OnceInv, EnableOutput, data, worker, data, worker
<1> QED BY <1>1, <1>2

\* EnableInput leaves quiet the ports that are disabled.
LEMMA EnableInputSettles ==
  ASSUME OneEnabling, GraphIInv, OnceInv, NEW t \in Threads, EnableInput(t)
  PROVE  QuietPorts' /\ Holds'
<1>1. QuietPorts'
  <2>1. step[t] = "in" /\ step[t] # "none" /\ CallDoes(t)
    <3>1. ConnectionCall(t)
      BY DEF ConnectionCall
    <3> QED BY <3>1, ConnectionCallDoes DEF EnableInput
  <2>2. PortsAt(cx[t], FALSE, TRUE, FALSE)
    BY <2>1, CallPorts
  <2>3. /\ cx[t] \in Connections /\ In(cx[t]) \in Ports /\ Out(cx[t]) \in Ports /\ t \in Threads
        /\ step \in [Threads -> {"none", "enable", "out", "in", "undo", "disable", "wait_in", "stop_out",
                                 "wait_out", "drain", "check"}]
        /\ enabled \in [Ports -> BOOLEAN] /\ is_enabled \in [Connections -> BOOLEAN]
    BY PortsOf DEF GraphIInv, GraphTypes, CallTypes, PortTypes, LinkTypes
  <2>4. /\ \A j \in Connections : \A b \in Buffers : /\ at'[b] = In(j) <=> at[b] = In(j)
                                                     /\ at'[b] = Out(j) <=> at[b] = Out(j)
        /\ \A j \in Connections : j # cx[t] => queue'[j] = queue[j]
    BY DEF EnableInput, data
  <2>5. /\ enabled'[In(cx[t])] \/ Quiet(In(cx[t])) \/ step'[t] = "wait_in"
        /\ is_enabled'[cx[t]] \/ (Quiet(Out(cx[t])) /\ queue'[cx[t]] = <<>>)
        /\ step'[t] \in {"drain", "check"} => Quiet(Out(cx[t]))
        /\ step'[t] = "check" => queue'[cx[t]] = <<>>
    BY <2>1, <2>2, <2>3, QuietKnown DEF EnableInput, Return, Step, data, data, In
  <2> QED BY <2>1, <2>4, <2>5, QuietCall
<1>2. Holds'
  BY DEF Holds, OnceInv, EnableInput, data, worker, data, worker
<1> QED BY <1>1, <1>2

\* EnableUndone leaves quiet the ports that are disabled.
LEMMA EnableUndoneSettles ==
  ASSUME OneEnabling, GraphIInv, OnceInv, NEW t \in Threads, EnableUndone(t)
  PROVE  QuietPorts' /\ Holds'
<1>1. QuietPorts'
  <2>1. step[t] = "undo" /\ step[t] # "none" /\ CallDoes(t)
    <3>1. ConnectionCall(t)
      BY DEF ConnectionCall
    <3> QED BY <3>1, ConnectionCallDoes DEF EnableUndone
  <2>2. PortsAt(cx[t], FALSE, FALSE, FALSE) /\ faults > 0
    BY <2>1, CallPorts
  <2>3. /\ cx[t] \in Connections /\ In(cx[t]) \in Ports /\ Out(cx[t]) \in Ports /\ t \in Threads
        /\ step \in [Threads -> {"none", "enable", "out", "in", "undo", "disable", "wait_in", "stop_out",
                                 "wait_out", "drain", "check"}]
        /\ enabled \in [Ports -> BOOLEAN] /\ is_enabled \in [Connections -> BOOLEAN]
    BY PortsOf DEF GraphIInv, GraphTypes, CallTypes, PortTypes, LinkTypes
  <2>4. /\ \A j \in Connections : \A b \in Buffers : /\ at'[b] = In(j) <=> at[b] = In(j)
                                                     /\ at'[b] = Out(j) <=> at[b] = Out(j)
        /\ \A j \in Connections : j # cx[t] => queue'[j] = queue[j]
    BY DEF EnableUndone, data
  <2>5. /\ enabled'[In(cx[t])] \/ Quiet(In(cx[t])) \/ step'[t] = "wait_in"
        /\ is_enabled'[cx[t]] \/ (Quiet(Out(cx[t])) /\ queue'[cx[t]] = <<>>)
        /\ step'[t] \in {"drain", "check"} => Quiet(Out(cx[t]))
        /\ step'[t] = "check" => queue'[cx[t]] = <<>>
    BY <2>1, <2>2, <2>3, QuietKnown DEF EnableUndone, data, data, PortsAt
  <2> QED BY <2>1, <2>4, <2>5, QuietCall
<1>2. Holds'
  BY DEF Holds, OnceInv, EnableUndone, data, worker, data, worker
<1> QED BY <1>1, <1>2

\* DisableConnection leaves quiet the ports that are disabled.
LEMMA DisableConnectionSettles ==
  ASSUME OneEnabling, GraphIInv, OnceInv, NEW t \in Threads, DisableConnection(t)
  PROVE  QuietPorts' /\ Holds'
<1>1. QuietPorts'
  <2>1. step[t] = "disable" /\ step[t] # "none" /\ CallDoes(t)
    <3>1. ConnectionCall(t)
      BY DEF ConnectionCall
    <3> QED BY <3>1, ConnectionCallDoes DEF DisableConnection
  <2>2. PortsAt(cx[t], is_enabled[cx[t]], is_enabled[cx[t]], is_enabled[cx[t]])
    BY <2>1, CallPorts
  <2>3. /\ cx[t] \in Connections /\ In(cx[t]) \in Ports /\ Out(cx[t]) \in Ports /\ t \in Threads
        /\ step \in [Threads -> {"none", "enable", "out", "in", "undo", "disable", "wait_in", "stop_out",
                                 "wait_out", "drain", "check"}]
        /\ enabled \in [Ports -> BOOLEAN] /\ is_enabled \in [Connections -> BOOLEAN]
    BY PortsOf DEF GraphIInv, GraphTypes, CallTypes, PortTypes, LinkTypes
  <2>4. /\ \A j \in Connections : \A b \in Buffers : /\ at'[b] = In(j) <=> at[b] = In(j)
                                                     /\ at'[b] = Out(j) <=> at[b] = Out(j)
        /\ \A j \in Connections : j # cx[t] => queue'[j] = queue[j]
    BY DEF DisableConnection, data
  <2>5. /\ enabled'[In(cx[t])] \/ Quiet(In(cx[t])) \/ step'[t] = "wait_in"
        /\ is_enabled'[cx[t]] \/ (Quiet(Out(cx[t])) /\ queue'[cx[t]] = <<>>)
        /\ step'[t] \in {"drain", "check"} => Quiet(Out(cx[t]))
        /\ step'[t] = "check" => queue'[cx[t]] = <<>>
    BY <2>1, <2>2, <2>3, QuietKnown DEF DisableConnection, Return, Step, data, data
  <2> QED BY <2>1, <2>4, <2>5, QuietCall
<1>2. Holds'
  BY DEF Holds, OnceInv, DisableConnection, data, worker, data, worker
<1> QED BY <1>1, <1>2

\* WaitInput leaves quiet the ports that are disabled.
LEMMA WaitInputSettles ==
  ASSUME OneEnabling, GraphIInv, OnceInv, NEW t \in Threads, WaitInput(t)
  PROVE  QuietPorts' /\ Holds'
<1>1. QuietPorts'
  <2>1. step[t] = "wait_in" /\ step[t] # "none" /\ CallDoes(t)
    <3>1. ConnectionCall(t)
      BY DEF ConnectionCall
    <3> QED BY <3>1, ConnectionCallDoes DEF WaitInput
  <2>2. PortsAt(cx[t], FALSE, TRUE, TRUE)
    BY <2>1, CallPorts
  <2>3. /\ cx[t] \in Connections /\ In(cx[t]) \in Ports /\ Out(cx[t]) \in Ports /\ t \in Threads
        /\ step \in [Threads -> {"none", "enable", "out", "in", "undo", "disable", "wait_in", "stop_out",
                                 "wait_out", "drain", "check"}]
        /\ enabled \in [Ports -> BOOLEAN] /\ is_enabled \in [Connections -> BOOLEAN]
    BY PortsOf DEF GraphIInv, GraphTypes, CallTypes, PortTypes, LinkTypes
  <2>4. /\ \A j \in Connections : \A b \in Buffers : /\ at'[b] = In(j) <=> at[b] = In(j)
                                                     /\ at'[b] = Out(j) <=> at[b] = Out(j)
        /\ \A j \in Connections : j # cx[t] => queue'[j] = queue[j]
    BY DEF WaitInput, data
  <2>5. /\ enabled'[In(cx[t])] \/ Quiet(In(cx[t])) \/ step'[t] = "wait_in"
        /\ is_enabled'[cx[t]] \/ (Quiet(Out(cx[t])) /\ queue'[cx[t]] = <<>>)
        /\ step'[t] \in {"drain", "check"} => Quiet(Out(cx[t]))
        /\ step'[t] = "check" => queue'[cx[t]] = <<>>
    BY <2>1, <2>2, <2>3, QuietKnown DEF WaitInput, Step, links, data, data, In, Drained, Quiet,
       GraphIInv, GraphTypes, PortTypes
  <2> QED BY <2>1, <2>4, <2>5, QuietCall
<1>2. Holds'
  BY DEF Holds, OnceInv, WaitInput, links, data, worker
<1> QED BY <1>1, <1>2

\* DisableOutput leaves quiet the ports that are disabled.
LEMMA DisableOutputSettles ==
  ASSUME OneEnabling, GraphIInv, OnceInv, NEW t \in Threads, DisableOutput(t)
  PROVE  QuietPorts' /\ Holds'
<1>1. QuietPorts'
  <2>1. step[t] = "stop_out" /\ step[t] # "none" /\ CallDoes(t)
    <3>1. ConnectionCall(t)
      BY DEF ConnectionCall
    <3> QED BY <3>1, ConnectionCallDoes DEF DisableOutput
  <2>2. PortsAt(cx[t], FALSE, TRUE, TRUE)
    BY <2>1, CallPorts
  <2>3. /\ cx[t] \in Connections /\ In(cx[t]) \in Ports /\ Out(cx[t]) \in Ports /\ t \in Threads
        /\ step \in [Threads -> {"none", "enable", "out", "in", "undo", "disable", "wait_in", "stop_out",
                                 "wait_out", "drain", "check"}]
        /\ enabled \in [Ports -> BOOLEAN] /\ is_enabled \in [Connections -> BOOLEAN]
    BY PortsOf DEF GraphIInv, GraphTypes, CallTypes, PortTypes, LinkTypes
  <2>4. /\ \A j \in Connections : \A b \in Buffers : /\ at'[b] = In(j) <=> at[b] = In(j)
                                                     /\ at'[b] = Out(j) <=> at[b] = Out(j)
        /\ \A j \in Connections : j # cx[t] => queue'[j] = queue[j]
    BY DEF DisableOutput, data
  <2>5. /\ enabled'[In(cx[t])] \/ Quiet(In(cx[t])) \/ step'[t] = "wait_in"
        /\ is_enabled'[cx[t]] \/ (Quiet(Out(cx[t])) /\ queue'[cx[t]] = <<>>)
        /\ step'[t] \in {"drain", "check"} => Quiet(Out(cx[t]))
        /\ step'[t] = "check" => queue'[cx[t]] = <<>>
    BY <2>1, <2>2, <2>3, QuietKnown DEF DisableOutput, Step, Return, PortsAt
  <2> QED BY <2>1, <2>4, <2>5, QuietCall
<1>2. Holds'
  BY DEF Holds, OnceInv, DisableOutput, data, worker, data, worker
<1> QED BY <1>1, <1>2

\* WaitOutput leaves quiet the ports that are disabled.
LEMMA WaitOutputSettles ==
  ASSUME OneEnabling, GraphIInv, OnceInv, NEW t \in Threads, WaitOutput(t)
  PROVE  QuietPorts' /\ Holds'
<1>1. QuietPorts'
  <2>1. step[t] = "wait_out" /\ step[t] # "none" /\ CallDoes(t)
    <3>1. ConnectionCall(t)
      BY DEF ConnectionCall
    <3> QED BY <3>1, ConnectionCallDoes DEF WaitOutput
  <2>2. PortsAt(cx[t], FALSE, FALSE, TRUE)
    BY <2>1, CallPorts
  <2>3. /\ cx[t] \in Connections /\ In(cx[t]) \in Ports /\ Out(cx[t]) \in Ports /\ t \in Threads
        /\ step \in [Threads -> {"none", "enable", "out", "in", "undo", "disable", "wait_in", "stop_out",
                                 "wait_out", "drain", "check"}]
        /\ enabled \in [Ports -> BOOLEAN] /\ is_enabled \in [Connections -> BOOLEAN]
    BY PortsOf DEF GraphIInv, GraphTypes, CallTypes, PortTypes, LinkTypes
  <2>4. /\ \A j \in Connections : \A b \in Buffers : /\ at'[b] = In(j) <=> at[b] = In(j)
                                                     /\ at'[b] = Out(j) <=> at[b] = Out(j)
        /\ \A j \in Connections : j # cx[t] => queue'[j] = queue[j]
    BY DEF WaitOutput, data
  <2>5. /\ enabled'[In(cx[t])] \/ Quiet(In(cx[t])) \/ step'[t] = "wait_in"
        /\ is_enabled'[cx[t]] \/ (Quiet(Out(cx[t])) /\ queue'[cx[t]] = <<>>)
        /\ step'[t] \in {"drain", "check"} => Quiet(Out(cx[t]))
        /\ step'[t] = "check" => queue'[cx[t]] = <<>>
    BY <2>1, <2>2, <2>3, QuietKnown, PlacesApart DEF WaitOutput, Step, ports, links, data,
       worker, client, ports, data, PortsAt, Out, Drained, Quiet, GraphIInv, GraphTypes,
       PortTypes
  <2> QED BY <2>1, <2>4, <2>5, QuietCall
<1>2. Holds'
  BY DEF Holds, OnceInv, WaitOutput, links, data, worker
<1> QED BY <1>1, <1>2

\* DrainQueue leaves quiet the ports that are disabled.
LEMMA DrainQueueSettles ==
  ASSUME OneEnabling, GraphIInv, OnceInv, NEW t \in Threads, DrainQueue(t)
  PROVE  QuietPorts' /\ Holds'
<1>1. QuietPorts'
  <2>1. step[t] = "drain" /\ step[t] # "none" /\ CallDoes(t)
    <3>1. ConnectionCall(t)
      BY DEF ConnectionCall
    <3> QED BY <3>1, ConnectionCallDoes DEF DrainQueue
  <2>2. PortsAt(cx[t], FALSE, FALSE, TRUE)
    BY <2>1, CallPorts
  <2>3. /\ cx[t] \in Connections /\ In(cx[t]) \in Ports /\ Out(cx[t]) \in Ports /\ t \in Threads
        /\ step \in [Threads -> {"none", "enable", "out", "in", "undo", "disable", "wait_in", "stop_out",
                                 "wait_out", "drain", "check"}]
        /\ enabled \in [Ports -> BOOLEAN] /\ is_enabled \in [Connections -> BOOLEAN]
    BY PortsOf DEF GraphIInv, GraphTypes, CallTypes, PortTypes, LinkTypes
  <2>4. /\ \A j \in Connections : \A b \in Buffers : /\ at'[b] = In(j) <=> at[b] = In(j)
                                                     /\ at'[b] = Out(j) <=> at[b] = Out(j)
        /\ \A j \in Connections : j # cx[t] => queue'[j] = queue[j]
    <3> DEFINE S == {b \in Buffers : \E k \in DOMAIN queue[cx[t]] : queue[cx[t]][k] = b}
    <3>1. /\ at' = [b \in Buffers |-> IF b \in S THEN Pool ELSE at[b]]
          /\ queue' = [queue EXCEPT ![cx[t]] = <<>>] /\ queue \in [Connections -> Seq(Buffers)]
      BY DEF DrainQueue, ReleaseQueued, Pool, GraphIInv, GraphTypes, QueueTypes
    <3>2. \A b \in S : at[b] = Queue
      BY <2>3 DEF OnceInv, Holds
    <3> HIDE DEF S
    <3> QED BY <3>1, <3>2, PlacesApart
  <2>5. /\ enabled'[In(cx[t])] \/ Quiet(In(cx[t])) \/ step'[t] = "wait_in"
        /\ is_enabled'[cx[t]] \/ (Quiet(Out(cx[t])) /\ queue'[cx[t]] = <<>>)
        /\ step'[t] \in {"drain", "check"} => Quiet(Out(cx[t]))
        /\ step'[t] = "check" => queue'[cx[t]] = <<>>
    <3>1. queue' = [queue EXCEPT ![cx[t]] = <<>>] /\ UNCHANGED <<enabled, is_enabled>>
      BY DEF DrainQueue, ReleaseQueued, ports, links
    <3>2. queue'[cx[t]] = <<>>
      BY <2>3, <3>1 DEF GraphIInv, GraphTypes, QueueTypes
    <3> QED BY <2>1, <2>2, <2>3, <3>1, <3>2, QuietKnown
  <2> QED BY <2>1, <2>4, <2>5, QuietCall
<1>2. Holds'
  <2> DEFINE S == {b \in Buffers : \E k \in DOMAIN queue[cx[t]] : queue[cx[t]][k] = b}
  <2>1. /\ at' = [b \in Buffers |-> IF b \in S THEN Pool ELSE at[b]]
        /\ queue' = [queue EXCEPT ![cx[t]] = <<>>] /\ queue \in [Connections -> Seq(Buffers)]
        /\ UNCHANGED <<wbuffer, sized>> /\ cx[t] \in Connections
    BY DEF DrainQueue, ReleaseQueued, Pool, GraphIInv, GraphTypes, QueueTypes, CallTypes, worker,
       links
  <2>2. \A b \in S : at[b] = Queue /\ b \in Own(cx[t])
    BY <2>1 DEF OnceInv, Holds, GraphIInv, Queued
  <2> HIDE DEF S
  <2>3. \A i \in Connections :
           queue'[i] = <<>> \/ (queue'[i] = queue[i] /\ \A k \in DOMAIN queue[i] : queue[i][k] \notin S)
    <3>1. SUFFICES ASSUME NEW i \in Connections, i # cx[t], NEW k \in DOMAIN queue[i], queue[i][k] \in S PROVE FALSE
      BY <2>1
    <3>2. queue[i][k] \in Own(i)
      BY DEF GraphIInv, Queued
    <3> QED BY <2>1, <2>2, <3>1, <3>2, Owners
  <2>4. wbuffer = NoBuffer \/ wbuffer \notin S
    BY <2>2, PlacesApart DEF OnceInv, Holds
  <2>5. \A i \in Connections : ~sized[i] => \A b \in Headers[i] : b \notin S
    BY <2>2, PlacesApart DEF OnceInv, Holds
  <2> QED BY <2>1, <2>3, <2>4, <2>5, HoldsMove
<1> QED BY <1>1, <1>2

\* DisableDone leaves quiet the ports that are disabled.
LEMMA DisableDoneSettles ==
  ASSUME OneEnabling, GraphIInv, OnceInv, NEW t \in Threads, DisableDone(t)
  PROVE  QuietPorts' /\ Holds'
<1>1. QuietPorts'
  <2>1. step[t] = "check" /\ step[t] # "none" /\ CallDoes(t)
    <3>1. ConnectionCall(t)
      BY DEF ConnectionCall
    <3> QED BY <3>1, ConnectionCallDoes DEF DisableDone
  <2>2. PortsAt(cx[t], FALSE, FALSE, TRUE)
    BY <2>1, CallPorts
  <2>3. /\ cx[t] \in Connections /\ In(cx[t]) \in Ports /\ Out(cx[t]) \in Ports /\ t \in Threads
        /\ step \in [Threads -> {"none", "enable", "out", "in", "undo", "disable", "wait_in", "stop_out",
                                 "wait_out", "drain", "check"}]
        /\ enabled \in [Ports -> BOOLEAN] /\ is_enabled \in [Connections -> BOOLEAN]
    BY PortsOf DEF GraphIInv, GraphTypes, CallTypes, PortTypes, LinkTypes
  <2>4. /\ \A j \in Connections : \A b \in Buffers : /\ at'[b] = In(j) <=> at[b] = In(j)
                                                     /\ at'[b] = Out(j) <=> at[b] = Out(j)
        /\ \A j \in Connections : j # cx[t] => queue'[j] = queue[j]
    BY DEF DisableDone, data
  <2>5. /\ enabled'[In(cx[t])] \/ Quiet(In(cx[t])) \/ step'[t] = "wait_in"
        /\ is_enabled'[cx[t]] \/ (Quiet(Out(cx[t])) /\ queue'[cx[t]] = <<>>)
        /\ step'[t] \in {"drain", "check"} => Quiet(Out(cx[t]))
        /\ step'[t] = "check" => queue'[cx[t]] = <<>>
    BY <2>1, <2>2, <2>3, QuietKnown DEF DisableDone, ports, data, ports, data
  <2> QED BY <2>1, <2>4, <2>5, QuietCall
<1>2. Holds'
  BY DEF Holds, OnceInv, DisableDone, data, worker, data, worker
<1> QED BY <1>1, <1>2

\* WorkerWakes leaves quiet the ports that are disabled.
LEMMA WorkerWakesSettles ==
  ASSUME OneEnabling, GraphIInv, OnceInv, WorkerWakes
  PROVE  QuietPorts' /\ Holds'
<1>1. QuietPorts'
  BY DEF QuietPorts, OnceInv, WorkerWakes, Quiet, ports, links, data, calls
<1>2. Holds'
  BY DEF Holds, OnceInv, WorkerWakes, links, data, links, data
<1> QED BY <1>1, <1>2

\* TakeQueued leaves quiet the ports that are disabled.
LEMMA TakeQueuedSettles ==
  ASSUME OneEnabling, GraphIInv, OnceInv, TakeQueued
  PROVE  QuietPorts' /\ Holds'
<1>1. QuietPorts'
  <2>1. UNCHANGED <<enabled, is_enabled, step, cx, returning>>
    BY DEF TakeQueued, ports, links, calls
  <2>2. CASE queue[wcx] = <<>>
    <3>1. UNCHANGED <<at, queue>>
      BY <2>2 DEF TakeQueued, data
    <3>2. \A j \in Connections : (Quiet(In(j)) => Quiet(In(j))') /\ (Quiet(Out(j)) => Quiet(Out(j))')
      BY <2>1, <3>1 DEF Quiet
    <3> QED BY <2>1, <3>1, <3>2, QuietBuffers
  <2>3. CASE queue[wcx] # <<>>
    <3> DEFINE b == Head(queue[wcx])
    <3>1. /\ at' = [at EXCEPT ![b] = Hand] /\ queue' = [queue EXCEPT ![wcx] = Tail(@)]
          /\ wcx \in Connections /\ queue[wcx] \in Seq(Buffers) /\ queue \in [Connections -> Seq(Buffers)]
      BY <2>3 DEF TakeQueued, Hand, GraphIInv, GraphTypes, ThreadTypes, QueueTypes
    <3>2. 1 \in DOMAIN queue[wcx] /\ b = queue[wcx][1] /\ b \in Buffers
      BY <2>3, <3>1
    <3>3. at[b] = Queue
      BY <3>1, <3>2 DEF OnceInv, Holds
    <3> HIDE DEF b
    <3>4. \A j \in Connections : queue[j] = <<>> => queue'[j] = <<>>
      BY <2>3, <3>1
    <3> QED BY <2>1, <3>1, <3>2, <3>3, <3>4, QuietTaken, PlacesApart
  <2> QED BY <2>2, <2>3
<1>2. Holds'
  <2>1. UNCHANGED sized /\ wcx \in Connections /\ queue \in [Connections -> Seq(Buffers)]
    BY DEF TakeQueued, links, GraphIInv, GraphTypes, ThreadTypes, QueueTypes
  <2>2. CASE queue[wcx] = <<>>
    <3>1. UNCHANGED <<queue, at, wbuffer>>
      BY <2>2 DEF TakeQueued, data
    <3> QED BY <2>1, <3>1, HoldsStill
  <2>3. CASE queue[wcx] # <<>>
    <3> DEFINE q == queue[wcx]
               b == Head(queue[wcx])
    <3>1. wbuffer' = b /\ queue' = [queue EXCEPT ![wcx] = Tail(@)] /\ at' = [at EXCEPT ![b] = Hand]
      BY <2>3 DEF TakeQueued, Hand
    <3>2. /\ q \in Seq(Buffers) /\ q # <<>> /\ b = q[1] /\ 1 \in DOMAIN q /\ b \in Buffers
          /\ \A k \in DOMAIN Tail(q) : k + 1 \in DOMAIN q /\ Tail(q)[k] = q[k + 1] /\ k + 1 # 1 /\ k \in Nat
      BY <2>1, <2>3
    <3>3. at[b] = Queue /\ \A k \in DOMAIN q : k # 1 => q[k] # b
      BY <2>1, <3>2 DEF OnceInv, Holds
    <3>4. \A c \in Buffers : (c = b /\ at'[c] = Hand) \/ (c # b /\ at'[c] = at[c])
      BY <3>1, <3>2 DEF GraphIInv, GraphTypes, PlaceTypes
    <3>5. queue'[wcx] = Tail(q) /\ \A i \in Connections : i # wcx => queue'[i] = queue[i]
      BY <2>1, <3>1
    <3>6. b \in Own(wcx) /\ \A i \in Connections : \A k \in DOMAIN queue[i] : queue[i][k] \in Own(i) /\ queue[i][k] \in Buffers
      BY <2>1, <3>2 DEF GraphIInv, Queued
    <3>7. \A i \in Connections : ~sized[i] => \A c \in Headers[i] : at'[c] = None
      BY <3>3, <3>4, Owners, PlacesApart DEF OnceInv, Holds
    <3>8. ASSUME NEW i \in Connections, NEW k \in DOMAIN queue'[i], NEW m \in DOMAIN queue'[i]
          PROVE  at'[queue'[i][k]] = Queue /\ (queue'[i][k] = queue'[i][m] => k = m)
      <4>1. CASE i = wcx
        <5>1. /\ k + 1 \in DOMAIN q /\ Tail(q)[k] = q[k + 1] /\ k + 1 # 1 /\ k \in Nat
              /\ m + 1 \in DOMAIN q /\ Tail(q)[m] = q[m + 1] /\ m \in Nat
          BY <3>2, <3>5, <4>1
        <5>2. q[k + 1] # b /\ q[k + 1] \in Buffers /\ at[q[k + 1]] = Queue
          BY <2>1, <3>3, <3>6, <5>1 DEF OnceInv, Holds
        <5>3. q[k + 1] = q[m + 1] => k + 1 = m + 1
          BY <2>1, <5>1 DEF OnceInv, Holds
        <5>4. queue'[i][k] = q[k + 1] /\ queue'[i][m] = q[m + 1]
          BY <3>5, <4>1, <5>1
        <5>5. at'[q[k + 1]] = Queue
          BY <3>4, <5>2
        <5>6. q[k + 1] = q[m + 1] => k = m
          BY <5>1, <5>3
        <5> QED BY <5>4, <5>5, <5>6
      <4>2. CASE i # wcx
        <5>1. queue'[i] = queue[i] /\ queue[i][k] \in Own(i) /\ queue[i][k] \in Buffers
          BY <3>5, <3>6, <4>2
        <5>2. queue[i][k] # b
          BY <2>1, <3>6, <4>2, <5>1, Owners
        <5> QED BY <3>4, <5>1, <5>2 DEF OnceInv, Holds
      <4> QED BY <4>1, <4>2
    <3>9. wbuffer' # NoBuffer => at'[wbuffer'] = Hand
      BY <3>1, <3>2, <3>4
    <3> QED BY <2>1, <3>7, <3>8, <3>9 DEF Holds
  <2> QED BY <2>2, <2>3
<1> QED BY <1>1, <1>2

\* SendQueued leaves quiet the ports that are disabled.
LEMMA SendQueuedSettles ==
  ASSUME OneEnabling, GraphIInv, OnceInv, SendQueued
  PROVE  QuietPorts' /\ Holds'
<1>1. QuietPorts'
  <2>1. /\ UNCHANGED <<enabled, is_enabled, step, cx, returning, queue>> /\ wpc = "send"
        /\ wcx \in Connections /\ Out(wcx) \in Ports /\ In(wcx) \in Ports
    BY PortsOf DEF SendQueued, ports, links, calls, GraphIInv, GraphTypes, ThreadTypes
  <2>2. wbuffer \in Buffers /\ at[wbuffer] = Hand
    BY <2>1, HandAt
  <2>3. \/ at' = [at EXCEPT ![wbuffer] = Pool]
        \/ at' = [at EXCEPT ![wbuffer] = In(wcx)] /\ enabled[In(wcx)]
    BY DEF SendQueued, Accepts, Released, Pool, In
  <2>4. CASE at' = [at EXCEPT ![wbuffer] = Pool]
    BY <2>1, <2>2, <2>4, QuietTaken, PlacesApart
  <2>5. CASE at' = [at EXCEPT ![wbuffer] = In(wcx)] /\ enabled[In(wcx)]
    <3>1. \A c \in Buffers : (c = wbuffer /\ at'[c] = In(wcx)) \/ (c # wbuffer /\ at'[c] = at[c])
      BY <2>2, <2>5 DEF GraphIInv, GraphTypes, PlaceTypes
    <3>2. \A j \in Connections : (Quiet(In(j)) => Quiet(In(j))' \/ enabled[In(j)]) /\ (Quiet(Out(j)) => Quiet(Out(j))')
      BY <2>1, <2>5, <3>1, PlacesApart DEF Quiet
    <3>3. \A j \in Connections : \A c \in Buffers : at[c] = Out(j) => at'[c] = Out(j)
      BY <2>2, <3>1, PlacesApart
    <3> QED BY <2>1, <3>2, <3>3, QuietBuffers
  <2> QED BY <2>3, <2>4, <2>5
<1>2. Holds'
  <2>1. wpc \in {"send"} /\ UNCHANGED <<queue, sized>>
    BY DEF SendQueued, links
  <2>2. \/ wbuffer' = NoBuffer /\ \E l : at' = [at EXCEPT ![wbuffer] = l]
        \/ UNCHANGED <<at, wbuffer>>
    BY DEF SendQueued, Accepts, Released
  <2> QED BY <2>1, <2>2, HoldsSend, HoldsStill
<1> QED BY <1>1, <1>2

\* HandleEvent leaves quiet the ports that are disabled.
LEMMA HandleEventSettles ==
  ASSUME OneEnabling, GraphIInv, OnceInv, HandleEvent
  PROVE  QuietPorts' /\ Holds'
<1>1. QuietPorts'
  <2>1. UNCHANGED <<enabled, is_enabled, returning, queue>> /\ wpc = "event" /\ wcx \in Connections
    BY DEF HandleEvent, ports, links, GraphIInv, GraphTypes, ThreadTypes
  <2>2. step["worker"] = "none" /\ "worker" \in Threads
    BY <2>1 DEF GraphIInv, Calls, Threads
  <2>3. \/ /\ UNCHANGED <<step, cx>>
           /\ \/ at' = [at EXCEPT ![wbuffer] = Pool]
              \/ at' = [at EXCEPT ![wbuffer] = In(wcx)] /\ enabled[In(wcx)]
        \/ UNCHANGED at /\ Begin("worker", "disable", wcx)
    BY DEF HandleEvent, calls, Accepts, In, Pool
  <2>4. CASE UNCHANGED at /\ Begin("worker", "disable", wcx)
    BY <2>1, <2>2, <2>4, QuietBegin
  <2> QED BY <2>1, <2>3, <2>4, QuietSend
<1>2. Holds'
  <2>1. wpc \in {"event"} /\ UNCHANGED <<queue, sized>>
    BY DEF HandleEvent, links
  <2>2. \/ wbuffer' = NoBuffer /\ \E l : at' = [at EXCEPT ![wbuffer] = l]
        \/ UNCHANGED <<at, wbuffer>>
    BY DEF HandleEvent, Accepts, Released
  <2> QED BY <2>1, <2>2, HoldsSend, HoldsStill
<1> QED BY <1>1, <1>2

\* Reconfigure leaves quiet the ports that are disabled.
LEMMA ReconfigureSettles ==
  ASSUME OneEnabling, GraphIInv, OnceInv, Reconfigure
  PROVE  QuietPorts' /\ Holds'
<1>1. QuietPorts'
  <2>1. /\ UNCHANGED <<enabled, is_enabled, returning, queue>> /\ wpc \in {"disable", "enable"}
        /\ wcx \in Connections /\ step["worker"] = "none" /\ "worker" \in Threads
    BY DEF Reconfigure, ports, links, GraphIInv, GraphTypes, ThreadTypes, Threads
  <2>2. \/ UNCHANGED <<step, cx>> /\ at' = [at EXCEPT ![wbuffer] = Pool]
        \/ UNCHANGED at /\ Begin("worker", "enable", wcx)
    BY DEF Reconfigure, calls, Pool
  <2>3. CASE UNCHANGED at /\ Begin("worker", "enable", wcx)
    BY <2>1, <2>3, QuietBegin
  <2> QED BY <2>1, <2>2, <2>3, QuietSend
<1>2. Holds'
  <2>1. wpc \in {"disable", "enable"} /\ UNCHANGED <<queue, sized>>
    BY DEF Reconfigure, links
  <2>2. \/ wbuffer' = NoBuffer /\ \E l : at' = [at EXCEPT ![wbuffer] = l]
        \/ UNCHANGED <<at, wbuffer>>
    BY DEF Reconfigure, Accepts, Released
  <2> QED BY <2>1, <2>2, HoldsSend, HoldsStill
<1> QED BY <1>1, <1>2

\* TakeEmpty leaves quiet the ports that are disabled.
LEMMA TakeEmptySettles ==
  ASSUME OneEnabling, GraphIInv, OnceInv, TakeEmpty
  PROVE  QuietPorts' /\ Holds'
<1>1. QuietPorts'
  <2>1. UNCHANGED <<enabled, is_enabled, step, cx, returning, queue>>
    BY DEF TakeEmpty, ports, links, calls
  <2>2. CASE UNCHANGED at
    <3>2. \A j \in Connections : (Quiet(In(j)) => Quiet(In(j))') /\ (Quiet(Out(j)) => Quiet(Out(j))')
      BY <2>1, <2>2 DEF Quiet
    <3> QED BY <2>1, <2>2, <3>2, QuietBuffers
  <2>3. ASSUME NEW b \in InPool, at' = [at EXCEPT ![b] = Hand] PROVE QuietPorts'
    <3>1. b \in Buffers /\ at[b] = Pool
      BY Owners DEF InPool, Pool, GraphIInv, GraphTypes, ThreadTypes
    <3> QED BY <2>1, <2>3, <3>1, QuietTaken, PlacesApart
  <2> QED BY <2>2, <2>3 DEF TakeEmpty, Hand
<1>2. Holds'
  <2>1. UNCHANGED <<queue, sized>> /\ wcx \in Connections
    BY DEF TakeEmpty, links, GraphIInv, GraphTypes, ThreadTypes
  <2>2. UNCHANGED <<at, wbuffer>> \/ \E b \in InPool : wbuffer' = b /\ at' = [at EXCEPT ![b] = Hand]
    BY DEF TakeEmpty, Hand
  <2>3. CASE UNCHANGED <<at, wbuffer>>
    BY <2>1, <2>3, HoldsStill
  <2>4. ASSUME NEW b \in InPool, wbuffer' = b, at' = [at EXCEPT ![b] = Hand] PROVE Holds'
    <3>1. b \in Buffers /\ at[b] = Pool
      BY <2>1, Owners DEF InPool, Pool
    <3>2. \A c \in Buffers : (c = b /\ at'[c] = Hand) \/ (c # b /\ at'[c] = at[c])
      BY <2>4, <3>1 DEF GraphIInv, GraphTypes, PlaceTypes
    <3>3. \A i \in Connections : \A k \in DOMAIN queue[i] : at'[queue[i][k]] = Queue
      BY <2>4, <3>1, PlacesApart DEF OnceInv, Holds
    <3>4. \A i \in Connections : ~sized[i] => \A c \in Headers[i] : at'[c] = None
      BY <3>1, <3>2, Owners, PlacesApart DEF OnceInv, Holds
    <3> QED BY <2>1, <2>4, <3>1, <3>2, <3>3, <3>4 DEF OnceInv, Holds
  <2> QED BY <2>2, <2>3, <2>4
<1> QED BY <1>1, <1>2

\* SendEmpty leaves quiet the ports that are disabled.
LEMMA SendEmptySettles ==
  ASSUME OneEnabling, GraphIInv, OnceInv, SendEmpty
  PROVE  QuietPorts' /\ Holds'
<1>1. QuietPorts'
  <2>1. /\ UNCHANGED <<enabled, is_enabled, step, cx, returning, queue>> /\ wpc = "fill"
        /\ wcx \in Connections /\ Out(wcx) \in Ports /\ In(wcx) \in Ports
    BY PortsOf DEF SendEmpty, ports, links, calls, GraphIInv, GraphTypes, ThreadTypes
  <2>2. wbuffer \in Buffers /\ at[wbuffer] = Hand
    BY <2>1, HandAt
  <2>3. \/ at' = [at EXCEPT ![wbuffer] = Pool]
        \/ at' = [at EXCEPT ![wbuffer] = Out(wcx)] /\ enabled[Out(wcx)]
    BY DEF SendEmpty, Accepts, Released, Pool, Out
  <2>4. CASE at' = [at EXCEPT ![wbuffer] = Pool]
    BY <2>1, <2>2, <2>4, QuietTaken, PlacesApart
  <2>5. CASE at' = [at EXCEPT ![wbuffer] = Out(wcx)] /\ enabled[Out(wcx)]
    <3>1. \A c \in Buffers : (c = wbuffer /\ at'[c] = Out(wcx)) \/ (c # wbuffer /\ at'[c] = at[c])
      BY <2>2, <2>5 DEF GraphIInv, GraphTypes, PlaceTypes
    <3>2. \A t \in Threads : step[t] = "none"
      BY <2>1, OneCall DEF GraphIInv, Calls, Asleep, Threads
    <3>3. is_enabled[wcx]
      <4>1. PortsAt(wcx, is_enabled[wcx], is_enabled[wcx], is_enabled[wcx])
        BY <2>1, <3>2 DEF OnceInv, Switching, Midway, Disabling
      <4> QED BY <2>5, <4>1 DEF PortsAt
    <3>4. \A j \in Connections : (Quiet(In(j)) => Quiet(In(j))') /\ (Quiet(Out(j)) => Quiet(Out(j))' \/ j = wcx)
      BY <2>1, <3>1, PlacesApart DEF Quiet
    <3>5. \A j \in Connections : \A c \in Buffers : at[c] = Out(j) => at'[c] = Out(j)
      BY <2>2, <3>1, PlacesApart
    <3> QED BY <2>1, <3>2, <3>3, <3>4, <3>5, QuietBuffers
  <2> QED BY <2>3, <2>4, <2>5
<1>2. Holds'
  <2>1. wpc \in {"fill"} /\ UNCHANGED <<queue, sized>>
    BY DEF SendEmpty, links
  <2>2. \/ wbuffer' = NoBuffer /\ \E l : at' = [at EXCEPT ![wbuffer] = l]
        \/ UNCHANGED <<at, wbuffer>>
    BY DEF SendEmpty, Accepts, Released
  <2> QED BY <2>1, <2>2, HoldsSend, HoldsStill
<1> QED BY <1>1, <1>2

\* GraphEnableNext leaves quiet the ports that are disabled.
LEMMA GraphEnableNextSettles ==
  ASSUME OneEnabling, GraphIInv, OnceInv, GraphEnableNext
  PROVE  QuietPorts' /\ Holds'
<1>1. QuietPorts'
  <2>1. UNCHANGED <<is_enabled, returning, queue, at>> /\ \A j \in Connections : enabled'[In(j)] = enabled[In(j)]
    BY DEF GraphEnableNext, ports, links, data
  <2>2. UNCHANGED <<step, cx>> \/ (step["client"] = "none" /\ todo \in Connections /\ Begin("client", "enable", todo))
    BY DEF GraphEnableNext, calls, GraphIInv, Calls
  <2> QED BY <2>1, <2>2, QuietBegin DEF Threads
<1>2. Holds'
  BY DEF Holds, OnceInv, GraphEnableNext, links, data, worker, links, data, worker
<1> QED BY <1>1, <1>2

\* GraphEnableCalled leaves quiet the ports that are disabled.
LEMMA GraphEnableCalledSettles ==
  ASSUME OneEnabling, GraphIInv, OnceInv, GraphEnableCalled
  PROVE  QuietPorts' /\ Holds'
<1>1. QuietPorts'
  BY DEF QuietPorts, OnceInv, GraphEnableCalled, Quiet, ports, links, data, calls
<1>2. Holds'
  BY DEF Holds, OnceInv, GraphEnableCalled, links, data, worker
<1> QED BY <1>1, <1>2

\* StopWorker leaves quiet the ports that are disabled.
LEMMA StopWorkerSettles ==
  ASSUME OneEnabling, GraphIInv, OnceInv, StopWorker
  PROVE  QuietPorts' /\ Holds'
<1>1. QuietPorts'
  BY DEF QuietPorts, OnceInv, StopWorker, Quiet, ports, links, data, calls
<1>2. Holds'
  BY DEF Holds, OnceInv, StopWorker, links, data, links, data
<1> QED BY <1>1, <1>2

\* JoinWorker leaves quiet the ports that are disabled.
LEMMA JoinWorkerSettles ==
  ASSUME OneEnabling, GraphIInv, OnceInv, JoinWorker
  PROVE  QuietPorts' /\ Holds'
<1>1. QuietPorts'
  BY DEF QuietPorts, OnceInv, JoinWorker, Quiet, ports, links, data, calls
<1>2. Holds'
  BY DEF Holds, OnceInv, JoinWorker, links, data, worker
<1> QED BY <1>1, <1>2

\* GraphDisableNext leaves quiet the ports that are disabled.
LEMMA GraphDisableNextSettles ==
  ASSUME OneEnabling, GraphIInv, OnceInv, GraphDisableNext
  PROVE  QuietPorts' /\ Holds'
<1>1. QuietPorts'
  <2>1. UNCHANGED <<is_enabled, returning, queue, at>> /\ \A j \in Connections : enabled'[In(j)] = enabled[In(j)]
    BY DEF GraphDisableNext, ports, links, data
  <2>2. UNCHANGED <<step, cx>> \/ (step["client"] = "none" /\ todo \in Connections /\ Begin("client", "disable", todo))
    BY DEF GraphDisableNext, calls, GraphIInv, Calls
  <2> QED BY <2>1, <2>2, QuietBegin DEF Threads
<1>2. Holds'
  BY DEF Holds, OnceInv, GraphDisableNext, links, data, worker
<1> QED BY <1>1, <1>2

\* ReleaseNext leaves quiet the ports that are disabled.
LEMMA ReleaseNextSettles ==
  ASSUME OneEnabling, GraphIInv, OnceInv, ReleaseNext
  PROVE  QuietPorts' /\ Holds'
<1>1. QuietPorts'
  <2>1. UNCHANGED <<is_enabled, returning, queue, at>> /\ \A j \in Connections : enabled'[In(j)] = enabled[In(j)]
    BY DEF ReleaseNext, ports, data
  <2>2. UNCHANGED <<step, cx>> \/ (step["client"] = "none" /\ todo \in Connections /\ Begin("client", "disable", todo))
    BY DEF ReleaseNext, calls, GraphIInv, Calls
  <2> QED BY <2>1, <2>2, QuietBegin DEF Threads
<1>2. Holds'
  BY DEF Holds, OnceInv, ReleaseNext, data, worker, data, worker
<1> QED BY <1>1, <1>2

\* ReleaseCalled leaves quiet the ports that are disabled.
LEMMA ReleaseCalledSettles ==
  ASSUME OneEnabling, GraphIInv, OnceInv, ReleaseCalled
  PROVE  QuietPorts' /\ Holds'
<1>1. QuietPorts'
  <2>1. /\ UNCHANGED <<enabled, is_enabled, step, cx, returning, queue>> /\ pc = "call"
        /\ step["client"] = "none" /\ op \in {"destroy", "release"} /\ todo \in Connections
    BY DEF ReleaseCalled, ports, calls, GraphIInv, Calls
  <2>2. CASE UNCHANGED at
    <3>1. \A j \in Connections : (Quiet(In(j)) => Quiet(In(j))') /\ (Quiet(Out(j)) => Quiet(Out(j))')
      BY <2>1, <2>2 DEF Quiet
    <3> QED BY <2>1, <2>2, <3>1, QuietBuffers
  <2>3. CASE ok["client"] /\ at' = [b \in Buffers |-> IF b \in Headers[todo] THEN None ELSE at[b]]
    <3>1. ~is_enabled[todo]
      BY <2>1, <2>3 DEF GraphIInv, Resized
    <3>2. Quiet(Out(todo))
      BY <2>1, <3>1 DEF OnceInv, QuietPorts
    <3>3. \A j \in Connections : (Quiet(In(j)) => Quiet(In(j))') /\ (Quiet(Out(j)) => Quiet(Out(j))')
      BY <2>1, <2>3, PlacesApart DEF Quiet
    <3>4. \A j \in Connections : \A c \in Buffers : at[c] = Out(j) => at'[c] = Out(j)
      <4>1. SUFFICES ASSUME NEW j \in Connections, NEW c \in Buffers, at[c] = Out(j), c \in Headers[todo] PROVE FALSE
        BY <2>3
      <4>2. at[c] \in {None, Pool, Queue, Hand, Out(todo), In(todo)}
        BY <2>1, <4>1 DEF GraphIInv, Kinds
      <4>3. at[c] = Out(todo)
        BY <4>1, <4>2, PlacesApart
      <4> QED BY <3>2, <4>1, <4>3 DEF Quiet
    <3> QED BY <2>1, <3>3, <3>4, QuietBuffers
  <2> QED BY <2>2, <2>3 DEF ReleaseCalled, None
<1>2. Holds'
  <2>1. /\ UNCHANGED <<queue, wbuffer>> /\ pc = "call" /\ sized \in [Connections -> BOOLEAN]
        /\ step["client"] = "none" /\ op \in {"destroy", "release"} /\ todo \in Connections
    BY DEF ReleaseCalled, worker, GraphIInv, Calls, GraphTypes, LinkTypes
  <2>2. \/ UNCHANGED <<at, sized>>
        \/ /\ ok["client"] /\ at' = [b \in Buffers |-> IF b \in Headers[todo] THEN None ELSE at[b]]
           /\ sized' = [sized EXCEPT ![todo] = FALSE]
    BY DEF ReleaseCalled, None
  <2>3. CASE UNCHANGED <<at, sized>>
    BY <2>1, <2>3, HoldsStill
  <2>4. CASE /\ ok["client"] /\ at' = [b \in Buffers |-> IF b \in Headers[todo] THEN None ELSE at[b]]
             /\ sized' = [sized EXCEPT ![todo] = FALSE]
    <3>1. ~is_enabled[todo]
      BY <2>1, <2>4 DEF GraphIInv, Resized
    <3>2. queue[todo] = <<>>
      BY <2>1, <3>1 DEF OnceInv, QuietPorts
    <3>3. wbuffer = NoBuffer
      <4>1. wpc \in {"none", "wait"}
        BY <2>1 DEF GraphIInv, Stopped
      <4> QED BY <4>1 DEF GraphIInv, Hands
    <3>4. ASSUME NEW i \in Connections
          PROVE  queue'[i] = <<>> \/ (queue'[i] = queue[i] /\ \A k \in DOMAIN queue[i] : queue[i][k] \notin Headers[todo])
      <4>1. \A k \in DOMAIN queue[i] : queue[i][k] \in Own(i)
        BY DEF GraphIInv, Queued
      <4>2. i # todo => Own(i) \cap Own(todo) = {}
        BY <2>1, Owners
      <4> QED BY <2>1, <3>2, <4>1, <4>2 DEF Own
    <3>5. ASSUME NEW i \in Connections, ~sized'[i], NEW b \in Headers[i]
          PROVE  b \in Headers[todo] \/ (b \notin Headers[todo] /\ ~sized[i])
      BY <2>1, <2>4, <3>5
    <3> QED BY <2>1, <2>4, <3>3, <3>4, <3>5, HoldsMove
  <2> QED BY <2>2, <2>3, <2>4
<1> QED BY <1>1, <1>2

\* Destroyed leaves quiet the ports that are disabled.
LEMMA DestroyedSettles ==
  ASSUME OneEnabling, GraphIInv, OnceInv, Destroyed
  PROVE  QuietPorts' /\ Holds'
<1>1. QuietPorts'
  BY DEF QuietPorts, OnceInv, Destroyed, Quiet, ports, links, data, calls
<1>2. Holds'
  BY DEF Holds, OnceInv, Destroyed, links, data, worker
<1> QED BY <1>1, <1>2

\* PortEnableNext leaves quiet the ports that are disabled.
LEMMA PortEnableNextSettles ==
  ASSUME OneEnabling, GraphIInv, OnceInv, PortEnableNext
  PROVE  QuietPorts' /\ Holds'
<1>1. QuietPorts'
  <2>1. UNCHANGED <<is_enabled, returning, queue, at>> /\ \A j \in Connections : enabled'[In(j)] = enabled[In(j)]
    BY DEF PortEnableNext, links, data
  <2>2. UNCHANGED <<step, cx>> \/ (step["client"] = "none" /\ todo \in Connections /\ Begin("client", "enable", todo))
    BY Sizes DEF PortEnableNext, calls, GraphIInv, Calls, GraphTypes, ClientTypes, Places
  <2> QED BY <2>1, <2>2, QuietBegin DEF Threads
<1>2. Holds'
  BY DEF Holds, OnceInv, PortEnableNext, links, data, worker, links, data, worker
<1> QED BY <1>1, <1>2

\* PortDisableNext leaves quiet the ports that are disabled.
LEMMA PortDisableNextSettles ==
  ASSUME OneEnabling, GraphIInv, OnceInv, PortDisableNext
  PROVE  QuietPorts' /\ Holds'
<1>1. QuietPorts'
  <2>1. UNCHANGED <<is_enabled, returning, queue, at>> /\ \A j \in Connections : enabled'[In(j)] = enabled[In(j)]
    <3>1. UNCHANGED enabled \/ enabled' = [enabled EXCEPT ![port] = FALSE]
      BY DEF PortDisableNext, ports
    <3>2. \A j \in Connections : In(j) # port /\ In(j) \in Ports
      BY PortsOf DEF GraphIInv, GraphTypes, ClientTypes
    <3>3. UNCHANGED <<is_enabled, returning, queue, at>>
      BY DEF PortDisableNext, links, data
    <3> QED BY <3>1, <3>2, <3>3 DEF GraphIInv, GraphTypes, PortTypes
  <2>2. UNCHANGED <<step, cx>> \/ (step["client"] = "none" /\ todo \in Connections /\ Begin("client", "disable", todo))
    BY Sizes DEF PortDisableNext, calls, GraphIInv, Calls, GraphTypes, ClientTypes, Places
  <2> QED BY <2>1, <2>2, QuietBegin DEF Threads
<1>2. Holds'
  BY DEF Holds, OnceInv, PortDisableNext, links, data, worker
<1> QED BY <1>1, <1>2

\* GraphEnable leaves quiet the ports that are disabled.
LEMMA GraphEnableSettles ==
  ASSUME OneEnabling, GraphIInv, OnceInv, GraphEnable
  PROVE  QuietPorts' /\ Holds'
<1>1. QuietPorts'
  BY DEF QuietPorts, OnceInv, GraphEnable, Quiet, ports, links, data, calls
<1>2. Holds'
  BY DEF Holds, OnceInv, GraphEnable, links, data, links, data
<1> QED BY <1>1, <1>2

\* GraphDisable leaves quiet the ports that are disabled.
LEMMA GraphDisableSettles ==
  ASSUME OneEnabling, GraphIInv, OnceInv, GraphDisable
  PROVE  QuietPorts' /\ Holds'
<1>1. QuietPorts'
  BY DEF QuietPorts, OnceInv, GraphDisable, Quiet, ports, links, data, calls
<1>2. Holds'
  BY DEF Holds, OnceInv, GraphDisable, links, data, worker
<1> QED BY <1>1, <1>2

\* GraphDestroy leaves quiet the ports that are disabled.
LEMMA GraphDestroySettles ==
  ASSUME OneEnabling, GraphIInv, OnceInv, GraphDestroy
  PROVE  QuietPorts' /\ Holds'
<1>1. QuietPorts'
  BY DEF QuietPorts, OnceInv, GraphDestroy, Quiet, ports, links, data, calls
<1>2. Holds'
  BY DEF Holds, OnceInv, GraphDestroy, links, data, worker
<1> QED BY <1>1, <1>2

\* PortFlush leaves quiet the ports that are disabled.
LEMMA PortFlushSettles ==
  ASSUME OneEnabling, GraphIInv, OnceInv, PortFlush
  PROVE  QuietPorts' /\ Holds'
<1>1. QuietPorts'
  <2>1. PICK k \in FlushReach :
          /\ LET flushed == {b \in Buffers : \/ \E i \in 0 .. k : at[b] = In(i)
                                             \/ \E i \in 1 .. k : \E n \in DOMAIN queue[i] : queue[i][n] = b}
             IN at' = [b \in Buffers |-> IF b \in flushed THEN Pool ELSE at[b]]
          /\ queue' = [i \in Connections |-> IF i <= k THEN <<>> ELSE queue[i]]
    BY DEF PortFlush, In, Pool
  <2>2. UNCHANGED <<enabled, is_enabled, step, cx, returning>>
    BY DEF PortFlush, ports, links, calls
  <2> DEFINE S == {b \in Buffers : \/ \E i \in 0 .. k : at[b] = In(i)
                                   \/ \E i \in 1 .. k : \E n \in DOMAIN queue[i] : queue[i][n] = b}
  <2>3. at' = [b \in Buffers |-> IF b \in S THEN Pool ELSE at[b]]
    BY <2>1
  <2>4. \A i \in 1 .. k : i \in Connections
    BY Sizes DEF FlushReach
  <2>5. \A b \in S : (\E i : at[b] = In(i)) \/ at[b] = Queue
    BY <2>4 DEF OnceInv, Holds
  <2> HIDE DEF S
  <2>6. \A j \in Connections : (Quiet(In(j)) => Quiet(In(j))') /\ (Quiet(Out(j)) => Quiet(Out(j))')
    BY <2>2, <2>3, PlacesApart DEF Quiet
  <2>7. \A j \in Connections : \A c \in Buffers : at[c] = Out(j) => at'[c] = Out(j)
    BY <2>3, <2>5, PlacesApart
  <2> QED BY <2>1, <2>2, <2>6, <2>7, QuietBuffers
<1>2. Holds'
  <2>1. PICK k \in FlushReach :
          /\ LET flushed == {b \in Buffers : \/ \E i \in 0 .. k : at[b] = In(i)
                                             \/ \E i \in 1 .. k : \E n \in DOMAIN queue[i] : queue[i][n] = b}
             IN at' = [b \in Buffers |-> IF b \in flushed THEN Pool ELSE at[b]]
          /\ queue' = [i \in Connections |-> IF i <= k THEN <<>> ELSE queue[i]]
    BY DEF PortFlush, In, Pool
  <2>2. UNCHANGED <<sized, wbuffer>>
    BY DEF PortFlush, links, worker
  <2> DEFINE S == {b \in Buffers : \/ \E i \in 0 .. k : at[b] = In(i)
                                   \/ \E i \in 1 .. k : \E n \in DOMAIN queue[i] : queue[i][n] = b}
  <2>3. at' = [b \in Buffers |-> IF b \in S THEN Pool ELSE at[b]]
    BY <2>1
  <2>4. k \in Nat /\ \A i \in 1 .. k : i \in Connections
    BY Sizes DEF FlushReach
  <2>5. \A b \in S : (\E i : at[b] = In(i)) \/ (at[b] = Queue /\ \E i \in Connections : i <= k /\ b \in Own(i))
    BY <2>4 DEF OnceInv, Holds, GraphIInv, Queued
  <2> HIDE DEF S
  <2>6. ASSUME NEW i \in Connections
        PROVE  queue'[i] = <<>> \/ (queue'[i] = queue[i] /\ \A n \in DOMAIN queue[i] : queue[i][n] \notin S)
    <3>1. CASE i <= k
      BY <2>1, <3>1
    <3>2. CASE ~(i <= k)
      <4>1. \A n \in DOMAIN queue[i] : queue[i][n] \in Own(i) /\ at[queue[i][n]] = Queue
        BY DEF GraphIInv, Queued, OnceInv, Holds
      <4>2. \A j \in Connections : j <= k => Own(i) \cap Own(j) = {}
        BY <3>2, Owners
      <4> QED BY <2>1, <2>5, <3>2, <4>1, <4>2, PlacesApart
    <3> QED BY <3>1, <3>2
  <2>7. wbuffer = NoBuffer \/ wbuffer \notin S
    BY <2>5, PlacesApart DEF OnceInv, Holds
  <2>8. \A i \in Connections : ~sized[i] => \A b \in Headers[i] : b \notin S
    BY <2>5, PlacesApart DEF OnceInv, Holds
  <2> QED BY <2>2, <2>3, <2>6, <2>7, <2>8, HoldsMove
<1> QED BY <1>1, <1>2

\* ClientRelease leaves quiet the ports that are disabled.
LEMMA ClientReleaseSettles ==
  ASSUME OneEnabling, GraphIInv, OnceInv, NEW i \in Connections, ClientRelease(i)
  PROVE  QuietPorts' /\ Holds'
<1>1. QuietPorts'
  BY DEF QuietPorts, OnceInv, ClientRelease, Quiet, ports, links, data, calls
<1>2. Holds'
  BY DEF Holds, OnceInv, ClientRelease, links, data, worker
<1> QED BY <1>1, <1>2

\* PortEnable leaves quiet the ports that are disabled.
LEMMA PortEnableSettles ==
  ASSUME OneEnabling, GraphIInv, OnceInv, NEW p \in GraphPorts, PortEnable(p)
  PROVE  QuietPorts' /\ Holds'
<1>1. QuietPorts'
  <2>1. UNCHANGED <<is_enabled, returning, queue, at>> /\ \A j \in Connections : enabled'[In(j)] = enabled[In(j)]
    BY PortsOf DEF PortEnable, links, data, GraphIInv, GraphTypes, PortTypes
  <2>2. UNCHANGED <<step, cx>>
    BY DEF PortEnable, calls
  <2> QED BY <2>1, <2>2, QuietBegin
<1>2. Holds'
  BY DEF Holds, OnceInv, PortEnable, links, data, worker
<1> QED BY <1>1, <1>2

\* PortDisable leaves quiet the ports that are disabled.
LEMMA PortDisableSettles ==
  ASSUME OneEnabling, GraphIInv, OnceInv, NEW p \in GraphPorts, PortDisable(p)
  PROVE  QuietPorts' /\ Holds'
<1>1. QuietPorts'
  <2>1. UNCHANGED <<is_enabled, returning, queue, at>> /\ \A j \in Connections : enabled'[In(j)] = enabled[In(j)]
    BY DEF PortDisable, links, data
  <2>2. UNCHANGED <<step, cx>>
    BY DEF PortDisable, calls
  <2> QED BY <2>1, <2>2, QuietBegin
<1>2. Holds'
  BY DEF Holds, OnceInv, PortDisable, links, data, worker
<1> QED BY <1>1, <1>2

\* PortSend leaves quiet the ports that are disabled.
LEMMA PortSendSettles ==
  ASSUME OneEnabling, GraphIInv, OnceInv, NEW b \in ClientBuffers, PortSend(b)
  PROVE  QuietPorts' /\ Holds'
<1>1. QuietPorts'
  <2>1. /\ UNCHANGED <<enabled, is_enabled, step, cx, returning, queue>>
        /\ at[b] = Pool /\ at' = [at EXCEPT ![b] = GraphIn] /\ b \in Buffers
    BY Owners DEF PortSend, Accepts, ports, links, calls, Pool
  <2>2. \A c \in Buffers : (c = b /\ at'[c] = GraphIn) \/ (c # b /\ at'[c] = at[c])
    BY <2>1 DEF GraphIInv, GraphTypes, PlaceTypes
  <2>3. \A j \in Connections : GraphIn # In(j) /\ GraphIn # Out(j)
    BY PortsOf DEF GraphPorts
  <2>4. \A j \in Connections : (Quiet(In(j)) => Quiet(In(j))') /\ (Quiet(Out(j)) => Quiet(Out(j))')
    BY <2>1, <2>2, <2>3 DEF Quiet
  <2>5. \A j \in Connections : \A c \in Buffers : at[c] = Out(j) => at'[c] = Out(j)
    BY <2>1, <2>2, PlacesApart
  <2> QED BY <2>1, <2>4, <2>5, QuietBuffers
<1>2. Holds'
  BY DEF Holds, OnceInv, PortSend, Accepts, links, worker, Queue, Hand, None
<1> QED BY <1>1, <1>2

-----------------------------------------------------------------------------
(* The invariants hold. *)

\* What a graph starts with: its connections are disabled, and their pools empty.
LEMMA GraphInit == Init => GraphIInv
<1> SUFFICES ASSUME Init PROVE GraphIInv
  OBVIOUS
<1>1. GraphTypes
  BY TypesInit, TypeParts DEF GraphTypes
<1>2. /\ \A b \in Buffers : at[b] = IF b \in AllHeaders THEN None ELSE Pool
      /\ \A i \in Connections : queue[i] = <<>> /\ ~is_enabled[i] /\ ~sized[i]
      /\ \A t \in Threads : step[t] = "none"
      /\ wbuffer = NoBuffer /\ wpc \in {"none", "wait"} /\ op = "none" /\ pc = "idle" /\ ~freed /\ ~started
      /\ way = "graph" => wpc = "none"
  BY DEF Init, InitConnections, InitGraph, InitComponent, None, Pool
<1>3. Kinds /\ Queued /\ Hands
  BY <1>2, Owners, PlacesApart DEF Kinds, Queued, Hands
<1>4. Calls /\ Places /\ Stopped
  BY <1>2 DEF Calls, Places, Stopped, Threads, Enabling
<1>5. \A i \in Connections : refcount[i] > 0
  BY DEF Init, InitReferences
<1>6. References /\ Resized /\ Emptied
  BY <1>2, <1>5 DEF References, Resized, Emptied, Midway, Disabling
<1> QED BY <1>1, <1>3, <1>4, <1>6 DEF GraphIInv

\* What is in queue and pools has its wakeup from the start.
LEMMA WakeupInit == Init => WakeupInv
<1> SUFFICES ASSUME Init PROVE WakeupInv
  OBVIOUS
<1>1. /\ \A i \in Connections : queue[i] = <<>>
      /\ \A i \in Connections : Out(i) \in Ports /\ ~enabled[Out(i)]
  BY PortsOf DEF Init, InitConnections
<1> QED BY <1>1 DEF WakeupInv, QueueCovered, PoolCovered

\* A graph that is not enabled yet is untouched, and all its connections are disabled.
LEMMA OnceInit == Init => OnceInv
<1> SUFFICES ASSUME Init PROVE OnceInv
  OBVIOUS
<1>1. /\ \A b \in Buffers : at[b] = IF b \in AllHeaders THEN None ELSE Pool
      /\ \A i \in Connections : queue[i] = <<>> /\ is_enabled[i] = FALSE /\ ~sized[i]
      /\ \A t \in Threads : step[t] = "none"
      /\ \A p \in Ports : enabled[p] = FALSE /\ returning[p] = "no"
      /\ \A p \in GraphPorts : ~graph_enabled[p]
      /\ wbuffer = NoBuffer /\ wpc \in Asleep /\ op = "none" /\ pc = "idle" /\ ~freed /\ ~started
      /\ way = "component" => wpc = "wait"
      /\ sema = 0 /\ ~stop_thread /\ enables = 0
  BY DEF Init, InitConnections, InitGraph, InitComponent, None, Pool, Asleep
<1>2. \A i \in Connections : In(i) \in Ports /\ Out(i) \in Ports
  BY PortsOf
<1>3. \A b \in Buffers : at[b] \notin Ports
  BY <1>1, PortsOf, PlacesApart
<1>4. Untouched
  BY <1>1, <1>3 DEF Untouched
<1>5. Switching /\ Succeeds
  BY <1>1, <1>2 DEF Switching, PortsAt, Succeeds, Midway, Disabling, Asleep
<1>6. Progress /\ InUse
  BY <1>1 DEF Progress, InUse, Asleep, GraphPorts
<1>7. QuietPorts
  BY <1>1, <1>2, <1>3 DEF QuietPorts, Quiet
<1>8. Holds
  BY <1>1, Owners DEF Holds
<1>9. Gone
  BY <1>1 DEF Init, InitReferences, Gone
<1> QED BY <1>4, <1>5, <1>6, <1>7, <1>8, <1>9 DEF OnceInv

\* Where nothing happens everything stays.
LEMMA GraphStill == ASSUME GraphIInv, UNCHANGED vars PROVE GraphIInv'
<1>1. GraphTypes'
  BY DEF vars, ports, links, data, worker, calls, client, GraphIInv, GraphTypes, PortTypes,
     LinkTypes, QueueTypes, PlaceTypes, ThreadTypes, CallTypes, ClientTypes, BoundTypes
<1>2. Kinds' /\ Queued' /\ Hands'
  BY DEF vars, data, worker, GraphIInv, Kinds, Queued, Hands
<1>3. Calls' /\ Places' /\ Stopped' /\ References'
  BY DEF vars, links, worker, calls, client, GraphIInv, Calls, Places, Stopped, References
<1>4. Resized' /\ Emptied'
  BY DEF vars, links, data, calls, client, GraphIInv, Resized, Emptied
<1> QED BY <1>1, <1>2, <1>3, <1>4 DEF GraphIInv

\* A stuttering step changes none of it.
LEMMA WakeupStill == ASSUME WakeupInv, UNCHANGED vars PROVE WakeupInv'
BY DEF vars, ports, data, worker, client, WakeupInv, QueueCovered, PoolCovered, VisitsQueue,
   VisitsPool

\* A stuttering step changes none of it.
LEMMA OnceStill == ASSUME OnceInv, UNCHANGED vars PROVE OnceInv'
<1>1. Untouched' /\ Progress' /\ InUse'
  BY DEF vars, ports, links, data, worker, client, OnceInv, Untouched, Fresh, Progress, InUse
<1>2. Switching' /\ Succeeds'
  BY DEF vars, ports, links, worker, calls, client, OnceInv, Switching, Succeeds, PortsAt
<1>3. QuietPorts' /\ Holds' /\ Gone'
  BY DEF vars, ports, links, data, worker, calls, client, OnceInv, QuietPorts, Quiet, Holds, Gone
<1> QED BY <1>1, <1>2, <1>3 DEF OnceInv

\* No step takes a buffer where it may not be.
LEMMA GraphStep ==
  ASSUME GraphIInv, [Next]_vars
  PROVE  GraphIInv'
<1>1. ASSUME Components PROVE GraphIInv'
  <2>1. ASSUME NEW i \in 0 .. N, ReturnInput(i) PROVE GraphIInv'
    BY <2>1, ReturnInputTypes, ReturnInputControl, ReturnInputData DEF GraphIInv
  <2>2. ASSUME NEW i \in Connections, ReturnOutput(i) PROVE GraphIInv'
    BY <2>2, ReturnOutputTypes, ReturnOutputControl, ReturnOutputData DEF GraphIInv
  <2>3. ASSUME NEW i \in Connections, RaiseEvent(i) PROVE GraphIInv'
    BY <2>3, RaiseEventTypes, RaiseEventControl, RaiseEventData DEF GraphIInv
  <2>4. ASSUME NEW p \in Ports, Notify(p) PROVE GraphIInv'
    BY <2>4, NotifyTypes, NotifyControl, NotifyData DEF GraphIInv
  <2> QED BY <1>1, <2>1, <2>2, <2>3, <2>4 DEF Components
<1>2. ASSUME NEW t \in Threads, ConnectionCall(t) PROVE GraphIInv'
  <2>1. CASE EnableConnection(t)
    BY <2>1, EnableConnectionTypes, EnableConnectionControl, EnableConnectionData DEF GraphIInv
  <2>2. CASE EnableOutput(t)
    BY <2>2, EnableOutputTypes, EnableOutputControl, EnableOutputData DEF GraphIInv
  <2>3. CASE EnableInput(t)
    BY <2>3, EnableInputTypes, EnableInputControl, EnableInputData DEF GraphIInv
  <2>4. CASE EnableUndone(t)
    BY <2>4, EnableUndoneTypes, EnableUndoneControl, EnableUndoneData DEF GraphIInv
  <2>5. CASE DisableConnection(t)
    BY <2>5, DisableConnectionTypes, DisableConnectionControl, DisableConnectionData DEF GraphIInv
  <2>6. CASE WaitInput(t)
    BY <2>6, WaitInputTypes, WaitInputControl, WaitInputData DEF GraphIInv
  <2>7. CASE DisableOutput(t)
    BY <2>7, DisableOutputTypes, DisableOutputControl, DisableOutputData DEF GraphIInv
  <2>8. CASE WaitOutput(t)
    BY <2>8, WaitOutputTypes, WaitOutputControl, WaitOutputData DEF GraphIInv
  <2>9. CASE DrainQueue(t)
    BY <2>9, DrainQueueTypes, DrainQueueControl, DrainQueueData DEF GraphIInv
  <2>10. CASE DisableDone(t)
    BY <2>10, DisableDoneTypes, DisableDoneControl, DisableDoneData DEF GraphIInv
  <2> QED BY <1>2, <2>1, <2>2, <2>3, <2>4, <2>5, <2>6, <2>7, <2>8, <2>9, <2>10 DEF ConnectionCall
<1>3. ASSUME Worker PROVE GraphIInv'
  <2>1. CASE WorkerWakes
    BY <2>1, WorkerWakesTypes, WorkerWakesControl, WorkerWakesData DEF GraphIInv
  <2>2. CASE TakeQueued
    BY <2>2, TakeQueuedTypes, TakeQueuedControl, TakeQueuedData DEF GraphIInv
  <2>3. CASE SendQueued
    BY <2>3, SendQueuedTypes, SendQueuedControl, SendQueuedData DEF GraphIInv
  <2>4. CASE HandleEvent
    BY <2>4, HandleEventTypes, HandleEventControl, HandleEventData DEF GraphIInv
  <2>5. CASE Reconfigure
    BY <2>5, ReconfigureTypes, ReconfigureControl, ReconfigureData DEF GraphIInv
  <2>6. CASE TakeEmpty
    BY <2>6, TakeEmptyTypes, TakeEmptyControl, TakeEmptyData DEF GraphIInv
  <2>7. CASE SendEmpty
    BY <2>7, SendEmptyTypes, SendEmptyControl, SendEmptyData DEF GraphIInv
  <2>8. CASE ConnectionCall("worker")
    BY <1>2, <2>8 DEF Threads
  <2> QED BY <1>3, <2>1, <2>2, <2>3, <2>4, <2>5, <2>6, <2>7, <2>8 DEF Worker
<1>4. ASSUME ClientStep PROVE GraphIInv'
  <2>1. CASE GraphEnableNext
    BY <2>1, GraphEnableNextTypes, GraphEnableNextControl, GraphEnableNextData DEF GraphIInv
  <2>2. CASE GraphEnableCalled
    BY <2>2, GraphEnableCalledTypes, GraphEnableCalledControl, GraphEnableCalledData DEF GraphIInv
  <2>3. CASE StopWorker
    BY <2>3, StopWorkerTypes, StopWorkerControl, StopWorkerData DEF GraphIInv
  <2>4. CASE JoinWorker
    BY <2>4, JoinWorkerTypes, JoinWorkerControl, JoinWorkerData DEF GraphIInv
  <2>5. CASE GraphDisableNext
    BY <2>5, GraphDisableNextTypes, GraphDisableNextControl, GraphDisableNextData DEF GraphIInv
  <2>6. CASE ReleaseNext
    BY <2>6, ReleaseNextTypes, ReleaseNextControl, ReleaseNextData DEF GraphIInv
  <2>7. CASE ReleaseCalled
    BY <2>7, ReleaseCalledTypes, ReleaseCalledControl, ReleaseCalledData DEF GraphIInv
  <2>8. CASE Destroyed
    BY <2>8, DestroyedTypes, DestroyedControl, DestroyedData DEF GraphIInv
  <2>9. CASE PortEnableNext
    BY <2>9, PortEnableNextTypes, PortEnableNextControl, PortEnableNextData DEF GraphIInv
  <2>10. CASE PortDisableNext
    BY <2>10, PortDisableNextTypes, PortDisableNextControl, PortDisableNextData DEF GraphIInv
  <2>11. CASE ConnectionCall("client")
    BY <1>2, <2>11 DEF Threads
  <2> QED BY <1>4, <2>1, <2>2, <2>3, <2>4, <2>5, <2>6, <2>7, <2>8, <2>9, <2>10, <2>11 DEF
     ClientStep
<1>5. CASE GraphEnable
  BY <1>5, GraphEnableTypes, GraphEnableControl, GraphEnableData DEF GraphIInv
<1>6. CASE GraphDisable
  BY <1>6, GraphDisableTypes, GraphDisableControl, GraphDisableData DEF GraphIInv
<1>7. CASE GraphDestroy
  BY <1>7, GraphDestroyTypes, GraphDestroyControl, GraphDestroyData DEF GraphIInv
<1>8. CASE PortFlush
  BY <1>8, PortFlushTypes, PortFlushControl, PortFlushData DEF GraphIInv
<1>9. ASSUME NEW i \in Connections, ClientRelease(i) PROVE GraphIInv'
  BY <1>9, ClientReleaseTypes, ClientReleaseControl, ClientReleaseData DEF GraphIInv
<1>10. ASSUME NEW p \in GraphPorts, PortEnable(p) PROVE GraphIInv'
  BY <1>10, PortEnableTypes, PortEnableControl, PortEnableData DEF GraphIInv
<1>11. ASSUME NEW p \in GraphPorts, PortDisable(p) PROVE GraphIInv'
  BY <1>11, PortDisableTypes, PortDisableControl, PortDisableData DEF GraphIInv
<1>12. ASSUME NEW b \in ClientBuffers, PortSend(b) PROVE GraphIInv'
  BY <1>12, PortSendTypes, PortSendControl, PortSendData DEF GraphIInv
<1>13. CASE UNCHANGED vars
  BY <1>13, GraphStill
<1> QED BY <1>1, <1>3, <1>4, <1>5, <1>6, <1>7, <1>8, <1>9, <1>10, <1>11, <1>12, <1>13 DEF Next

\* No step loses a wakeup.
LEMMA WakeupStep ==
  ASSUME GraphIInv, WakeupInv, [Next]_vars
  PROVE  WakeupInv'
<1>1. ASSUME Components PROVE WakeupInv'
  <2>1. ASSUME NEW i \in 0 .. N, ReturnInput(i) PROVE WakeupInv'
    BY <2>1, ReturnInputWakes DEF WakeupInv
  <2>2. ASSUME NEW i \in Connections, ReturnOutput(i) PROVE WakeupInv'
    BY <2>2, ReturnOutputWakes DEF WakeupInv
  <2>3. ASSUME NEW i \in Connections, RaiseEvent(i) PROVE WakeupInv'
    BY <2>3, RaiseEventWakes DEF WakeupInv
  <2>4. ASSUME NEW p \in Ports, Notify(p) PROVE WakeupInv'
    BY <2>4, NotifyWakes DEF WakeupInv
  <2> QED BY <1>1, <2>1, <2>2, <2>3, <2>4 DEF Components
<1>2. ASSUME NEW t \in Threads, ConnectionCall(t) PROVE WakeupInv'
  <2>1. CASE EnableConnection(t)
    BY <2>1, EnableConnectionWakes DEF WakeupInv
  <2>2. CASE EnableOutput(t)
    BY <2>2, EnableOutputWakes DEF WakeupInv
  <2>3. CASE EnableInput(t)
    BY <2>3, EnableInputWakes DEF WakeupInv
  <2>4. CASE EnableUndone(t)
    BY <2>4, EnableUndoneWakes DEF WakeupInv
  <2>5. CASE DisableConnection(t)
    BY <2>5, DisableConnectionWakes DEF WakeupInv
  <2>6. CASE WaitInput(t)
    BY <2>6, WaitInputWakes DEF WakeupInv
  <2>7. CASE DisableOutput(t)
    BY <2>7, DisableOutputWakes DEF WakeupInv
  <2>8. CASE WaitOutput(t)
    BY <2>8, WaitOutputWakes DEF WakeupInv
  <2>9. CASE DrainQueue(t)
    BY <2>9, DrainQueueWakes DEF WakeupInv
  <2>10. CASE DisableDone(t)
    BY <2>10, DisableDoneWakes DEF WakeupInv
  <2> QED BY <1>2, <2>1, <2>2, <2>3, <2>4, <2>5, <2>6, <2>7, <2>8, <2>9, <2>10 DEF ConnectionCall
<1>3. ASSUME Worker PROVE WakeupInv'
  <2>1. CASE WorkerWakes
    BY <2>1, WorkerWakesWakes DEF WakeupInv
  <2>2. CASE TakeQueued
    BY <2>2, TakeQueuedWakes DEF WakeupInv
  <2>3. CASE SendQueued
    BY <2>3, SendQueuedWakes DEF WakeupInv
  <2>4. CASE HandleEvent
    BY <2>4, HandleEventWakes DEF WakeupInv
  <2>5. CASE Reconfigure
    BY <2>5, ReconfigureWakes DEF WakeupInv
  <2>6. CASE TakeEmpty
    BY <2>6, TakeEmptyWakes DEF WakeupInv
  <2>7. CASE SendEmpty
    BY <2>7, SendEmptyWakes DEF WakeupInv
  <2>8. CASE ConnectionCall("worker")
    BY <1>2, <2>8 DEF Threads
  <2> QED BY <1>3, <2>1, <2>2, <2>3, <2>4, <2>5, <2>6, <2>7, <2>8 DEF Worker
<1>4. ASSUME ClientStep PROVE WakeupInv'
  <2>1. CASE GraphEnableNext
    BY <2>1, GraphEnableNextWakes DEF WakeupInv
  <2>2. CASE GraphEnableCalled
    BY <2>2, GraphEnableCalledWakes DEF WakeupInv
  <2>3. CASE StopWorker
    BY <2>3, StopWorkerWakes DEF WakeupInv
  <2>4. CASE JoinWorker
    BY <2>4, JoinWorkerWakes DEF WakeupInv
  <2>5. CASE GraphDisableNext
    BY <2>5, GraphDisableNextWakes DEF WakeupInv
  <2>6. CASE ReleaseNext
    BY <2>6, ReleaseNextWakes DEF WakeupInv
  <2>7. CASE ReleaseCalled
    BY <2>7, ReleaseCalledWakes DEF WakeupInv
  <2>8. CASE Destroyed
    BY <2>8, DestroyedWakes DEF WakeupInv
  <2>9. CASE PortEnableNext
    BY <2>9, PortEnableNextWakes DEF WakeupInv
  <2>10. CASE PortDisableNext
    BY <2>10, PortDisableNextWakes DEF WakeupInv
  <2>11. CASE ConnectionCall("client")
    BY <1>2, <2>11 DEF Threads
  <2> QED BY <1>4, <2>1, <2>2, <2>3, <2>4, <2>5, <2>6, <2>7, <2>8, <2>9, <2>10, <2>11 DEF
     ClientStep
<1>5. CASE GraphEnable
  BY <1>5, GraphEnableWakes DEF WakeupInv
<1>6. CASE GraphDisable
  BY <1>6, GraphDisableWakes DEF WakeupInv
<1>7. CASE GraphDestroy
  BY <1>7, GraphDestroyWakes DEF WakeupInv
<1>8. CASE PortFlush
  BY <1>8, PortFlushWakes DEF WakeupInv
<1>9. ASSUME NEW i \in Connections, ClientRelease(i) PROVE WakeupInv'
  BY <1>9, ClientReleaseWakes DEF WakeupInv
<1>10. ASSUME NEW p \in GraphPorts, PortEnable(p) PROVE WakeupInv'
  BY <1>10, PortEnableWakes DEF WakeupInv
<1>11. ASSUME NEW p \in GraphPorts, PortDisable(p) PROVE WakeupInv'
  BY <1>11, PortDisableWakes DEF WakeupInv
<1>12. ASSUME NEW b \in ClientBuffers, PortSend(b) PROVE WakeupInv'
  BY <1>12, PortSendWakes DEF WakeupInv
<1>13. CASE UNCHANGED vars
  BY <1>13, WakeupStill
<1> QED BY <1>1, <1>3, <1>4, <1>5, <1>6, <1>7, <1>8, <1>9, <1>10, <1>11, <1>12, <1>13 DEF Next

\* No step takes a graph that is enabled once out of its invariant.
LEMMA OnceStep ==
  ASSUME OneEnabling, GraphIInv, OnceInv, [Next]_vars
  PROVE  OnceInv'
<1>1. ASSUME Components PROVE OnceInv'
  <2>1. ASSUME NEW i \in 0 .. N, ReturnInput(i) PROVE OnceInv'
    BY <2>1, ReturnInputOnce, ReturnInputSettles DEF OnceInv
  <2>2. ASSUME NEW i \in Connections, ReturnOutput(i) PROVE OnceInv'
    BY <2>2, ReturnOutputOnce, ReturnOutputSettles DEF OnceInv
  <2>3. ASSUME NEW i \in Connections, RaiseEvent(i) PROVE OnceInv'
    BY <2>3, RaiseEventOnce, RaiseEventSettles DEF OnceInv
  <2>4. ASSUME NEW p \in Ports, Notify(p) PROVE OnceInv'
    BY <2>4, NotifyOnce, NotifySettles DEF OnceInv
  <2> QED BY <1>1, <2>1, <2>2, <2>3, <2>4 DEF Components
<1>2. ASSUME NEW t \in Threads, ConnectionCall(t) PROVE OnceInv'
  <2>1. Untouched' /\ Switching' /\ Succeeds' /\ Progress' /\ InUse' /\ Gone'
    BY <1>2, ConnectionCallDoes, CallUntouched, CallSwitching, CallSucceeds, CallProgress,
       CallInUse, CallGone
  <2>2. QuietPorts' /\ Holds'
    BY <1>2, EnableConnectionSettles, EnableOutputSettles, EnableInputSettles,
       EnableUndoneSettles, DisableConnectionSettles, WaitInputSettles, DisableOutputSettles,
       WaitOutputSettles, DrainQueueSettles, DisableDoneSettles DEF ConnectionCall
  <2> QED BY <2>1, <2>2 DEF OnceInv
<1>3. ASSUME Worker PROVE OnceInv'
  <2>1. CASE WorkerWakes
    BY <2>1, WorkerWakesOnce, WorkerWakesSettles DEF OnceInv
  <2>2. CASE TakeQueued
    BY <2>2, TakeQueuedOnce, TakeQueuedSettles DEF OnceInv
  <2>3. CASE SendQueued
    BY <2>3, SendQueuedOnce, SendQueuedSettles DEF OnceInv
  <2>4. CASE HandleEvent
    BY <2>4, HandleEventOnce, HandleEventSettles DEF OnceInv
  <2>5. CASE Reconfigure
    BY <2>5, ReconfigureOnce, ReconfigureSettles DEF OnceInv
  <2>6. CASE TakeEmpty
    BY <2>6, TakeEmptyOnce, TakeEmptySettles DEF OnceInv
  <2>7. CASE SendEmpty
    BY <2>7, SendEmptyOnce, SendEmptySettles DEF OnceInv
  <2>8. CASE ConnectionCall("worker")
    BY <1>2, <2>8 DEF Threads
  <2> QED BY <1>3, <2>1, <2>2, <2>3, <2>4, <2>5, <2>6, <2>7, <2>8 DEF Worker
<1>4. ASSUME ClientStep PROVE OnceInv'
  <2>1. CASE GraphEnableNext
    BY <2>1, GraphEnableNextOnce, GraphEnableNextSettles DEF OnceInv
  <2>2. CASE GraphEnableCalled
    BY <2>2, GraphEnableCalledOnce, GraphEnableCalledSettles DEF OnceInv
  <2>3. CASE StopWorker
    BY <2>3, StopWorkerOnce, StopWorkerSettles DEF OnceInv
  <2>4. CASE JoinWorker
    BY <2>4, JoinWorkerOnce, JoinWorkerSettles DEF OnceInv
  <2>5. CASE GraphDisableNext
    BY <2>5, GraphDisableNextOnce, GraphDisableNextSettles DEF OnceInv
  <2>6. CASE ReleaseNext
    BY <2>6, ReleaseNextOnce, ReleaseNextSettles DEF OnceInv
  <2>7. CASE ReleaseCalled
    BY <2>7, ReleaseCalledOnce, ReleaseCalledSettles DEF OnceInv
  <2>8. CASE Destroyed
    BY <2>8, DestroyedOnce, DestroyedSettles DEF OnceInv
  <2>9. CASE PortEnableNext
    BY <2>9, PortEnableNextOnce, PortEnableNextSettles DEF OnceInv
  <2>10. CASE PortDisableNext
    BY <2>10, PortDisableNextOnce, PortDisableNextSettles DEF OnceInv
  <2>11. CASE ConnectionCall("client")
    BY <1>2, <2>11 DEF Threads
  <2> QED BY <1>4, <2>1, <2>2, <2>3, <2>4, <2>5, <2>6, <2>7, <2>8, <2>9, <2>10, <2>11 DEF
     ClientStep
<1>5. CASE GraphEnable
  BY <1>5, GraphEnableOnce, GraphEnableSettles DEF OnceInv
<1>6. CASE GraphDisable
  BY <1>6, GraphDisableOnce, GraphDisableSettles DEF OnceInv
<1>7. CASE GraphDestroy
  BY <1>7, GraphDestroyOnce, GraphDestroySettles DEF OnceInv
<1>8. CASE PortFlush
  BY <1>8, PortFlushOnce, PortFlushSettles DEF OnceInv
<1>9. ASSUME NEW i \in Connections, ClientRelease(i) PROVE OnceInv'
  BY <1>9, ClientReleaseOnce, ClientReleaseSettles DEF OnceInv
<1>10. ASSUME NEW p \in GraphPorts, PortEnable(p) PROVE OnceInv'
  BY <1>10, PortEnableOnce, PortEnableSettles DEF OnceInv
<1>11. ASSUME NEW p \in GraphPorts, PortDisable(p) PROVE OnceInv'
  BY <1>11, PortDisableOnce, PortDisableSettles DEF OnceInv
<1>12. ASSUME NEW b \in ClientBuffers, PortSend(b) PROVE OnceInv'
  BY <1>12, PortSendOnce, PortSendSettles DEF OnceInv
<1>13. CASE UNCHANGED vars
  BY <1>13, OnceStill
<1> QED BY <1>1, <1>3, <1>4, <1>5, <1>6, <1>7, <1>8, <1>9, <1>10, <1>11, <1>12, <1>13 DEF Next

\* The invariants of every behaviour.
LEMMA GraphIInvCorrect == Spec => []GraphIInv
BY GraphInit, GraphStep, PTL DEF Spec

\* The invariant behind the wakeups holds, however often a graph is enabled.
LEMMA WakeupInvCorrect == Spec => []WakeupInv
BY WakeupInit, WakeupStep, GraphIInvCorrect, PTL DEF Spec

\* The invariant of a graph that is enabled once holds if it is.
LEMMA OnceInvCorrect == OneEnabling /\ Spec => []OnceInv
<1>1. CASE OneEnabling
  <2>1. GraphIInv /\ OnceInv /\ [Next]_vars => OnceInv'
    BY <1>1, OnceStep
  <2> QED BY <2>1, OnceInit, GraphIInvCorrect, PTL DEF Spec
<1>2. CASE ~OneEnabling
  BY <1>2
<1> QED BY <1>1, <1>2

-----------------------------------------------------------------------------
(* Theorems. *)

\* The headers of a connection that a call has disabled are in its pool.
LEMMA DisabledIsComplete == ASSUME GraphIInv PROVE PoolComplete
<1>1. SUFFICES ASSUME NEW t \in Threads, step[t] = "check", NEW b \in Headers[cx[t]] PROVE at[b] = Pool
  BY DEF PoolComplete, Pool
<1>2. cx[t] \in Connections /\ b \in Buffers
  BY Owners DEF GraphIInv, GraphTypes, CallTypes
<1>3. at[b] \in {None, Pool, Queue, Hand, Out(cx[t]), In(cx[t])}
  BY <1>2 DEF GraphIInv, Kinds
<1>4. at[b] # None
  BY <1>1, <1>2 DEF GraphIInv, Resized, Midway, Disabling
<1>5. at[b] \notin {In(cx[t]), Out(cx[t]), Queue}
  BY <1>1 DEF GraphIInv, Emptied
<1>6. at[b] # Hand
  <2>1. wpc \in {"none", "wait"} \/ wbuffer \in Events[wcx]
    <3>1. CASE t = "worker"
      BY <1>1, <3>1 DEF GraphIInv, Calls, Hands
    <3>2. CASE t = "client"
      <4>1. pc = "call" /\ op \in {"disable", "destroy", "release", "port_disable"}
        BY <1>1, <3>2 DEF GraphIInv, GraphTypes, ClientTypes, Calls, Places, Enabling
      <4> QED BY <4>1 DEF GraphIInv, Stopped, Asleep
    <3> QED BY <3>1, <3>2 DEF Threads
  <2>2. b # wbuffer
    <3>1. CASE wpc \in {"none", "wait"}
      BY <1>2, <3>1, Owners DEF GraphIInv, Hands
    <3>2. CASE wbuffer \in Events[wcx]
      BY <1>2, <3>2, Owners DEF GraphIInv, GraphTypes, ThreadTypes
    <3> QED BY <2>1, <3>1, <3>2
  <2> QED BY <1>2, <2>2 DEF GraphIInv, Hands
<1> QED BY <1>3, <1>4, <1>5, <1>6

\* The connections are sound: a connection that has been disabled has all its headers in
\* its pool when mmal_connection_disable() asserts it, however often the graph is enabled,
\* whatever the components refuse, and whichever thread disables it.
THEOREM GraphIsSound == Spec => []GraphInv
<1>1. GraphIInv => GraphInv
  BY DisabledIsComplete, TypeParts DEF GraphInv, GraphIInv, GraphTypes
<1> QED BY <1>1, GraphIInvCorrect, PTL

\* What an output port has queued is served, until the thread of the graph is told to
\* stop: the callback has yet to post the semaphore, or the semaphore has a count, or the
\* thread has still to look at the queue in its round.
THEOREM QueuesAreServed == Spec => []QueueCovered
<1>1. WakeupInv => QueueCovered
  BY DEF WakeupInv
<1> QED BY <1>1, WakeupInvCorrect, PTL

\* While the graph works for its client nothing waits for a thread that sleeps.
LEMMA ServingIsWoken == ASSUME GraphIInv, WakeupInv, OnceInv PROVE NoLostWakeup
<1>1. SUFFICES ASSUME Serving, (wpc = "wait" /\ sema = 0) \/ wpc = "none", NEW i \in Connections
               PROVE  /\ queue[i] # <<>> => returning[Out(i)] # "no"
                      /\ (faults = 0 /\ \E b \in Headers[i] : at[b] = Pool) => returning[In(i)] # "no"
  BY DEF NoLostWakeup, In, Out, Pool
<1>2. ~stop_thread /\ op = "none" /\ step["client"] = "none"
  BY <1>1, PortsOf DEF Serving, Idle, OnceInv, InUse
<1>3. wpc = "wait" /\ sema = 0
  <2>1. way = "component" \/ started
    BY <1>1 DEF Serving, OnceInv, InUse, GraphPorts
  <2> QED BY <1>1, <1>2, <2>1 DEF OnceInv, InUse
<1>4. queue[i] # <<>> => returning[Out(i)] # "no"
  BY <1>2, <1>3 DEF WakeupInv, QueueCovered, VisitsQueue, Asleep
<1>5. ASSUME faults = 0, NEW b \in Headers[i], at[b] = Pool PROVE returning[In(i)] # "no"
  <2>1. is_enabled[i]
    BY <1>1, <1>2, <1>3, <1>5 DEF Serving, OnceInv, InUse
  <2>2. \A t \in Threads : step[t] = "none"
    BY <1>2, <1>3 DEF GraphIInv, Calls, Threads
  <2>3. enabled[Out(i)]
    BY <2>1, <2>2 DEF OnceInv, Switching, PortsAt, Midway, Disabling
  <2> QED BY <1>2, <1>3, <1>5, <2>3 DEF WakeupInv, PoolCovered, VisitsPool, Asleep
<1> QED BY <1>4, <1>5

\* No wakeup is lost in a graph that is enabled once: while it is in use, and no call of
\* the client goes on, a thread that sleeps has left nothing in a queue, and without
\* refusals nothing in a pool, but what a callback is still to wake it for.
THEOREM WakeupsCorrect == OneEnabling /\ Spec => []NoLostWakeup
<1>1. GraphIInv /\ WakeupInv /\ OnceInv => NoLostWakeup
  BY ServingIsWoken
<1> QED BY <1>1, GraphIInvCorrect, WakeupInvCorrect, OnceInvCorrect, PTL

\* A graph that has been destroyed is quiet.
LEMMA FreedIsQuiet == ASSUME GraphIInv, OnceInv PROVE DestroyedQuiet
<1>1. SUFFICES ASSUME freed
               PROVE  /\ wpc = "none"
                      /\ \A i \in Connections : i \notin Held \/ ~sized[i] =>
                           \A p \in {In(i), Out(i)} : Drained(p) /\ returning[p] = "no"
  BY DEF DestroyedQuiet, In, Out
<1>2. wpc = "none"
  BY <1>1 DEF GraphIInv, Stopped
<1>3. ASSUME NEW i \in Connections, i \notin Held \/ ~sized[i] PROVE Quiet(In(i)) /\ Quiet(Out(i))
  <2>1. ~sized[i]
    BY <1>1, <1>3 DEF OnceInv, Gone
  <2>2. ~is_enabled[i] /\ \A t \in Threads : step[t] \in Midway => cx[t] # i
    BY <2>1 DEF GraphIInv, Resized
  <2>3. ~enabled[In(i)]
    BY <2>2 DEF OnceInv, Switching, PortsAt
  <2> QED BY <2>2, <2>3 DEF OnceInv, QuietPorts, Midway, Disabling
<1> QED BY <1>2, <1>3 DEF Quiet, Drained

\* Once a graph that was enabled once is destroyed, its thread has ended, and no callback
\* of a connection that went with it is left that would post the semaphore it has freed.
THEOREM DestroyedCorrect == OneEnabling /\ Spec => []DestroyedQuiet
<1>1. GraphIInv /\ OnceInv => DestroyedQuiet
  BY FreedIsQuiet
<1> QED BY <1>1, GraphIInvCorrect, OnceInvCorrect, PTL

=============================================================================
