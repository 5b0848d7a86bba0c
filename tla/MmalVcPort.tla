----------------------------- MODULE MmalVcPort -----------------------------
(***************************************************************************)
(* The ports of a VideoCore component (vc/mmal_vc_api.c): an input and an  *)
(* output port whose buffers travel to the media server and back.          *)
(*                                                                         *)
(* Every call is a message to the server and a wait for its reply; a       *)
(* buffer is a message too, and its data, unless short or in shared        *)
(* memory, follows in a bulk transfer that completes later.  The server    *)
(* handles messages in order and bulk transfers in order, and is external: *)
(* it returns buffers when it likes, all of them before it disables a      *)
(* port, and may refuse a call.  The transport below is MmalVcClient; the  *)
(* locks of the core above, MmalPort's, are held where it holds them.      *)
(***************************************************************************)
EXTENDS Integers, Sequences, FiniteSets

CONSTANTS
  Controllers,   \* client threads
  Calls,         \* Calls[c]: the pairs <<operation, port>> controller c calls
  InBuffers, OutBuffers,   \* the client's buffer headers for each port
  Events,        \* event buffers of the component
  Kinds,         \* payloads a sender may send
  Contexts,      \* buffer_num: client contexts in the pool of a port
  MaxFaults,     \* bound on the failures of the server and the transport
  NoThread

Ports    == {"in", "out"}
Data     == InBuffers \cup OutBuffers
Buffers  == Data \cup Events
HomeOf(b) == IF b \in InBuffers THEN "in" ELSE "out"

ASSUME VcPortAssumption ==
  /\ Calls \in [Controllers -> SUBSET ({"enable", "disable", "flush"} \X Ports
                                       \cup {<<"format", "in">>})]
  /\ Kinds \subseteq {"short", "long", "eos"}
  /\ InBuffers \cap OutBuffers = {} /\ Data \cap Events = {} /\ IsFiniteSet(Data)
  /\ Contexts \in Nat /\ MaxFaults \in Nat
  /\ NoThread \notin Controllers

VARIABLES
  \* the ports, and the locks of the core
  is_enabled, transit, port_lock, send_lock, action_lock,
  \* their private modules
  has_pool, allocated,      \* what the module says of its pool, and whether there is one
  free,                     \* contexts in the pool
  sent_data_on_port, is_zero_copy,
  connected,                \* the port is connected to one of another VideoCore component
  flush_compatible,         \* the static of mmal_vc_port_flush
  at, callback_queue,       \* where the buffers are; the component's queue of callbacks
  \* the transport and the server
  to_server, bulks, from_server, server_enabled,
  overtaken,                \* buffers a flush has overtaken
  \* the controllers
  op, on, pc, reply,
  faults

locks  == <<port_lock, send_lock, action_lock>>
core   == <<is_enabled, transit>>
module == <<has_pool, allocated, free, sent_data_on_port, is_zero_copy, connected>>
client == <<at, callback_queue>>
server == <<bulks, server_enabled, overtaken>>
wire   == <<to_server, from_server>>
calls  == <<op, on, pc, reply>>
vars   == <<core, locks, module, flush_compatible, client, server, wire, calls, faults>>

Requests == {"enable", "disable", "flush", "flush_sync", "set_info", "get_info"}

TypeOK ==
  /\ is_enabled \in [Ports -> BOOLEAN] /\ transit \in [Ports -> Nat]
  /\ port_lock \in [Ports -> Controllers \cup {NoThread}]
  /\ send_lock \in [Ports -> Controllers \cup {NoThread}]
  /\ action_lock \in Controllers \cup {NoThread}
  /\ has_pool \in [Ports -> BOOLEAN] /\ allocated \in [Ports -> BOOLEAN]
  /\ free \in [Ports -> 0 .. Contexts]
  /\ sent_data_on_port \in [Ports -> BOOLEAN] /\ is_zero_copy \in [Ports -> BOOLEAN]
  /\ connected \in [Ports -> BOOLEAN]
  /\ flush_compatible \in {"unknown", "yes", "no"}
  /\ at \in [Buffers -> {"client", "wire", "server", "queue"}]
  /\ callback_queue \in Seq(Buffers)
  /\ to_server \in Seq([type : {"buffer", "bulk_buffer"}, b : Data]
                       \cup [type : Requests, c : Controllers, p : Ports])
  /\ bulks \in Seq([type : {"bulk_buffer"}, b : Data]
                   \cup [type : {"flush_sync"}, c : Controllers, p : Ports])
  /\ from_server \in Seq([type : {"buffer"}, b : Buffers]
                         \cup [type : {"reply"}, c : Controllers, status : {"ok", "fail"},
                               enabled : BOOLEAN])
  /\ server_enabled \in [Ports -> BOOLEAN]
  /\ overtaken \subseteq Data
  /\ op \in [Controllers -> {"none", "enable", "disable", "flush", "format"}]
  /\ on \in [Controllers -> Ports]
  /\ pc \in [Controllers -> {"idle", "start", "reply", "get", "get_reply", "drain", "wait"}]
  /\ reply \in [Controllers -> {"none", "ok", "fail"}]
  /\ faults \in 0 .. MaxFaults

Init ==
  /\ is_enabled = [p \in Ports |-> FALSE] /\ transit = [p \in Ports |-> 0]
  /\ port_lock = [p \in Ports |-> NoThread] /\ send_lock = [p \in Ports |-> NoThread]
  /\ action_lock = NoThread
  /\ has_pool = [p \in Ports |-> FALSE] /\ allocated = [p \in Ports |-> FALSE]
  /\ free = [p \in Ports |-> 0]
  /\ sent_data_on_port = [p \in Ports |-> FALSE]
  /\ is_zero_copy = [p \in Ports |-> FALSE]
  /\ connected = [p \in Ports |-> FALSE]
  /\ flush_compatible = "unknown"
  /\ at = [b \in Buffers |-> IF b \in Events THEN "server" ELSE "client"]
  /\ callback_queue = <<>>
  /\ to_server = <<>> /\ bulks = <<>> /\ from_server = <<>>
  /\ server_enabled = [p \in Ports |-> FALSE]
  /\ overtaken = {}
  /\ op = [c \in Controllers |-> "none"] /\ on = [c \in Controllers |-> "in"]
  /\ pc = [c \in Controllers |-> "idle"] /\ reply = [c \in Controllers |-> "none"]
  /\ faults = 0

Fault == faults < MaxFaults /\ faults' = faults + 1

Goto(c, l) == pc' = [pc EXCEPT ![c] = l]

\* mmal_vc_sendwait_message(): the request, and where its reply is awaited.
Request(c, t, p, l) ==
  /\ to_server' = Append(to_server, [type |-> t, c |-> c, p |-> p])
  /\ Goto(c, l)
  /\ reply' = [reply EXCEPT ![c] = "none"]

Replied(c, l) == pc[c] = l /\ reply[c] # "none"

Return(c) ==
  /\ op' = [op EXCEPT ![c] = "none"]
  /\ Goto(c, "idle")
  /\ reply' = [reply EXCEPT ![c] = "none"]

Call(c) ==
  /\ pc[c] = "idle"
  /\ \E call \in Calls[c] :
       /\ op' = [op EXCEPT ![c] = call[1]]
       /\ on' = [on EXCEPT ![c] = call[2]]
  /\ Goto(c, "start")
  /\ UNCHANGED <<core, locks, module, flush_compatible, client, server, wire, reply, faults>>

Starts(c, o) == pc[c] = "start" /\ op[c] = o

-----------------------------------------------------------------------------
(* Sending a buffer, and getting it back.                                  *)

\* Data that travels by bulk transfer.  An empty buffer with the EOS flag gets a
\* dummy one, short payloads are copied into the message, shared memory is not sent.
IsBulk(p, kind) == ~is_zero_copy[p] /\ kind \in {"long", "eos"}

\* Mutant: a failed send keeps its context.
SendFailedLeaking(p) ==
  /\ Fault
  /\ free' = [free EXCEPT ![p] = @ - 1]
  /\ UNCHANGED <<transit, at, to_server>>

\* mmal_vc_send_message() fails: the context goes back into the pool.
SendFailed(p) == Fault /\ UNCHANGED <<free, transit, at, to_server>>

Sent(p, b, kind) ==
  /\ free' = [free EXCEPT ![p] = @ - 1]
  /\ transit' = [transit EXCEPT ![p] = @ + 1]
  /\ at' = [at EXCEPT ![b] = "wire"]
  /\ to_server' = Append(to_server,
                         [type |-> IF IsBulk(p, kind) THEN "bulk_buffer" ELSE "buffer", b |-> b])
  /\ UNCHANGED faults

NoteBulk(p, kind) ==
  sent_data_on_port' = [sent_data_on_port EXCEPT ![p] = @ \/ IsBulk(p, kind)]

\* mmal_port_send_buffer() and mmal_vc_port_send(), under the sending lock.
Send(b, kind) ==
  LET p == HomeOf(b)
  IN /\ at[b] = "client"
     /\ send_lock[p] = NoThread
     /\ is_enabled[p] /\ has_pool[p] /\ free[p] > 0
     /\ NoteBulk(p, kind)
     /\ Sent(p, b, kind) \/ SendFailed(p)
     /\ UNCHANGED <<is_enabled, locks, has_pool, allocated, is_zero_copy, connected,
                    flush_compatible, callback_queue, server, from_server, calls>>

\* mmal_vc_do_callback(): the first callback of the queue, whatever port it is for.
DoCallback ==
  LET b == Head(callback_queue)
  IN /\ callback_queue' = Tail(callback_queue)
     /\ at' = [at EXCEPT ![b] = IF b \in Events THEN "server" ELSE "client"]
     /\ transit' = IF b \in Events THEN transit ELSE [transit EXCEPT ![HomeOf(b)] = @ - 1]

ActionThread ==
  /\ action_lock = NoThread
  /\ callback_queue # <<>>
  /\ DoCallback
  /\ UNCHANGED <<is_enabled, locks, module, flush_compatible, server, wire, calls, faults>>

\* The thread of the transport: mmal_vc_port_send_callback() for a buffer, which frees
\* its context, the event callback for an event, or a reply for the waiting thread.
ReceiveBuffer ==
  /\ from_server # <<>> /\ Head(from_server).type = "buffer"
  /\ LET b == Head(from_server).b
     IN /\ callback_queue' = Append(callback_queue, b)
        /\ at' = [at EXCEPT ![b] = "queue"]
        /\ free' = IF b \in Events \/ ~allocated[HomeOf(b)] THEN free
                   ELSE [free EXCEPT ![HomeOf(b)] = @ + 1]
  /\ from_server' = Tail(from_server)
  /\ UNCHANGED <<core, locks, has_pool, allocated, sent_data_on_port, is_zero_copy, connected,
                 flush_compatible, server, to_server, calls, faults>>

ReceiveReply ==
  /\ from_server # <<>> /\ Head(from_server).type = "reply"
  /\ reply' = [reply EXCEPT ![Head(from_server).c] = Head(from_server).status]
  /\ from_server' = Tail(from_server)
  /\ IF pc[Head(from_server).c] = "get_reply" /\ Head(from_server).status = "ok"
       THEN is_enabled' = [is_enabled EXCEPT ![on[Head(from_server).c]] = Head(from_server).enabled]
       ELSE UNCHANGED is_enabled
  /\ UNCHANGED <<transit, locks, module, flush_compatible, client, server, to_server, op, on, pc,
                 faults>>

-----------------------------------------------------------------------------
(* mmal_port_enable() and mmal_vc_port_enable().                           *)

\* A port that is connected to another one needs no contexts.
EnableStart(c) ==
  LET p == on[c]
  IN /\ Starts(c, "enable")
     /\ port_lock[p] = NoThread
     /\ ~is_enabled[p]
     /\ port_lock' = [port_lock EXCEPT ![p] = c]
     /\ IF connected[p]
          THEN UNCHANGED <<has_pool, allocated, free>>
          ELSE /\ has_pool' = [has_pool EXCEPT ![p] = TRUE]
               /\ allocated' = [allocated EXCEPT ![p] = TRUE]
               /\ free' = [free EXCEPT ![p] = Contexts]
     /\ Request(c, "enable", p, "reply")
     /\ UNCHANGED <<core, send_lock, action_lock, sent_data_on_port, is_zero_copy, connected,
                    flush_compatible, client, server, from_server, op, on, faults>>

\* The pool cannot be created, or the port is enabled already.
EnableRefused(c) ==
  /\ Starts(c, "enable") /\ port_lock[on[c]] = NoThread
  /\ \/ is_enabled[on[c]] /\ UNCHANGED faults
     \/ ~is_enabled[on[c]] /\ ~connected[on[c]] /\ Fault
  /\ Return(c)
  /\ UNCHANGED <<core, locks, module, flush_compatible, client, server, wire, on>>

\* The error path deletes the pool, and leaves has_pool as it is.
EnableReply(c) ==
  LET p == on[c]
  IN /\ Replied(c, "reply") /\ op[c] = "enable"
     /\ IF reply[c] = "ok"
          THEN is_enabled' = [is_enabled EXCEPT ![p] = TRUE] /\ UNCHANGED allocated
          ELSE allocated' = [allocated EXCEPT ![p] = FALSE] /\ UNCHANGED is_enabled
     /\ port_lock' = [port_lock EXCEPT ![p] = NoThread]
     /\ Return(c)
     /\ UNCHANGED <<transit, send_lock, action_lock, has_pool, free, sent_data_on_port,
                    is_zero_copy, connected, flush_compatible, client, server, wire, on, faults>>

-----------------------------------------------------------------------------
(* mmal_port_disable() and mmal_vc_port_disable().                         *)

DisableRefused(c) ==
  /\ Starts(c, "disable") /\ port_lock[on[c]] = NoThread
  /\ ~is_enabled[on[c]]
  /\ Return(c)
  /\ UNCHANGED <<core, locks, module, flush_compatible, client, server, wire, on, faults>>

DisableStart(c) ==
  LET p == on[c]
  IN /\ Starts(c, "disable")
     /\ is_enabled[p]
     /\ port_lock[p] = NoThread /\ send_lock[p] = NoThread /\ action_lock = NoThread
     /\ is_enabled' = [is_enabled EXCEPT ![p] = FALSE]
     /\ port_lock' = [port_lock EXCEPT ![p] = c] /\ action_lock' = c
     /\ Request(c, "disable", p, "reply")
     /\ UNCHANGED <<transit, send_lock, module, flush_compatible, client, server, from_server,
                    op, on, faults>>

\* The pool is deleted whatever the server replied.
DisableReply(c) ==
  LET p == on[c]
  IN /\ Replied(c, "reply") /\ op[c] = "disable"
     /\ has_pool' = [has_pool EXCEPT ![p] = FALSE]
     /\ allocated' = IF has_pool[p] THEN [allocated EXCEPT ![p] = FALSE] ELSE allocated
     /\ Goto(c, "drain")
     /\ UNCHANGED <<core, locks, free, sent_data_on_port, is_zero_copy, connected,
                    flush_compatible, client, server, wire, op, on, reply, faults>>

\* "We need to make sure all the queued callbacks have been done."
DisableDrain(c) ==
  /\ pc[c] = "drain" /\ callback_queue # <<>>
  /\ DoCallback
  /\ UNCHANGED <<is_enabled, locks, module, flush_compatible, server, wire, calls, faults>>

\* Mutant: the callbacks that are queued are left to the action thread.
DrainedAlways(c) == c \in Controllers

Drained(c) == callback_queue = <<>>

\* The core enables a port again that could not be disabled.
DisableDrained(c) ==
  LET p == on[c]
  IN /\ pc[c] = "drain" /\ Drained(c)
     /\ action_lock' = NoThread
     /\ IF reply[c] = "ok"
          THEN Goto(c, "wait") /\ UNCHANGED <<is_enabled, port_lock, op, reply>>
          ELSE /\ is_enabled' = [is_enabled EXCEPT ![p] = TRUE]
               /\ port_lock' = [port_lock EXCEPT ![p] = NoThread]
               /\ Return(c)
     /\ UNCHANGED <<transit, send_lock, module, flush_compatible, client, server, wire, on, faults>>

DisableWait(c) ==
  /\ pc[c] = "wait" /\ transit[on[c]] = 0
  /\ port_lock' = [port_lock EXCEPT ![on[c]] = NoThread]
  /\ Return(c)
  /\ UNCHANGED <<core, send_lock, action_lock, module, flush_compatible, client, server, wire, on,
                 faults>>

-----------------------------------------------------------------------------
(* mmal_port_flush() and mmal_vc_port_flush().                             *)

\* Mutant: the dummy bulk transfer is used for shared memory only.
FlushRequestSwapped(p) ==
  IF ~is_zero_copy[p] \/ ~sent_data_on_port[p] \/ flush_compatible' = "no"
  THEN "flush" ELSE "flush_sync"

\* A flush must not overtake data: after bulk transfers it is one itself.
FlushRequest(p) ==
  IF is_zero_copy[p] \/ ~sent_data_on_port[p] \/ flush_compatible' = "no"
  THEN "flush" ELSE "flush_sync"

\* The version of the server is asked for once; no answer counts as an old version.
AskVersion(p) ==
  IF is_zero_copy[p] \/ ~sent_data_on_port[p] \/ flush_compatible # "unknown"
  THEN UNCHANGED <<flush_compatible, faults>>
  ELSE \/ flush_compatible' = "yes" /\ UNCHANGED faults
       \/ flush_compatible' = "no" /\ Fault

FlushStart(c) ==
  LET p == on[c]
  IN /\ Starts(c, "flush")
     /\ action_lock = NoThread /\ send_lock[p] = NoThread
     /\ action_lock' = c /\ send_lock' = [send_lock EXCEPT ![p] = c]
     /\ AskVersion(p)
     /\ Request(c, FlushRequest(p), p, "reply")
     /\ UNCHANGED <<core, port_lock, module, client, server, from_server, op, on>>

FlushReply(c) ==
  /\ Replied(c, "reply") /\ op[c] = "flush"
  /\ action_lock' = NoThread /\ send_lock' = [send_lock EXCEPT ![on[c]] = NoThread]
  /\ Return(c)
  /\ UNCHANGED <<core, port_lock, module, flush_compatible, client, server, wire, on, faults>>

-----------------------------------------------------------------------------
(* mmal_port_format_commit() on the input port and mmal_vc_port_set_format():*)
(* the settings of both ports are read back, is_enabled among them.        *)

FormatStart(c) ==
  /\ Starts(c, "format")
  /\ port_lock["in"] = NoThread
  /\ port_lock' = [port_lock EXCEPT !["in"] = c]
  /\ Request(c, "set_info", "in", "reply")
  /\ UNCHANGED <<core, send_lock, action_lock, module, flush_compatible, client, server,
                 from_server, op, on, faults>>

FormatReturn(c) ==
  /\ port_lock' = [port_lock EXCEPT !["in"] = NoThread]
  /\ Return(c)
  /\ on' = [on EXCEPT ![c] = "in"]
  /\ UNCHANGED to_server

\* on[c] is the port whose info is asked for: the input port, then the output port.
FormatNext(c) ==
  /\ op[c] = "format"
  /\ \/ Replied(c, "reply") /\ reply[c] = "ok" /\ Request(c, "get_info", "in", "get_reply")
        /\ UNCHANGED <<op, on, port_lock>>
     \/ /\ Replied(c, "get_reply") /\ reply[c] = "ok" /\ on[c] = "in"
        /\ on' = [on EXCEPT ![c] = "out"]
        /\ Request(c, "get_info", "out", "get_reply")
        /\ UNCHANGED <<op, port_lock>>
     \/ Replied(c, "get_reply") /\ reply[c] = "ok" /\ on[c] = "out" /\ FormatReturn(c)
     \/ (Replied(c, "reply") \/ Replied(c, "get_reply")) /\ reply[c] = "fail" /\ FormatReturn(c)
  /\ UNCHANGED <<core, send_lock, action_lock, module, flush_compatible, client, server,
                 from_server, faults>>

-----------------------------------------------------------------------------
(* Settings of a disabled port: its connection, and the zero copy parameter.*)

Quiet(p) == ~is_enabled[p] /\ port_lock[p] = NoThread

\* mmal_vc_port_connect(), to and from a port of another VideoCore component.
Connect(p) ==
  /\ Quiet(p)
  /\ connected' = [connected EXCEPT ![p] = ~@]
  /\ UNCHANGED <<core, locks, has_pool, allocated, free, sent_data_on_port, is_zero_copy,
                 flush_compatible, client, server, wire, calls, faults>>

\* mmal_vc_port_parameter_set(): clients choose it before they enable the port.
SetZeroCopy(p) ==
  /\ Quiet(p)
  /\ is_zero_copy' = [is_zero_copy EXCEPT ![p] = ~@]
  /\ UNCHANGED <<core, locks, has_pool, allocated, free, sent_data_on_port, connected,
                 flush_compatible, client, server, wire, calls, faults>>

-----------------------------------------------------------------------------
(* The media server.                                                       *)

Reply(m, s) == [type |-> "reply", c |-> m.c, status |-> s, enabled |-> server_enabled'[m.p]]

BuffersOf(p) == {b \in Data : HomeOf(b) = p /\ at[b] = "server"}

\* Every buffer of the port goes back, in some order, before the reply.
GiveBackAll(m) ==
  \E order \in [1 .. Cardinality(BuffersOf(m.p)) -> BuffersOf(m.p)] :
    /\ {order[i] : i \in DOMAIN order} = BuffersOf(m.p)
    /\ from_server' = from_server
                        \o [i \in DOMAIN order |-> [type |-> "buffer", b |-> order[i]]]
                        \o <<Reply(m, "ok")>>
    /\ at' = [b \in Buffers |-> IF b \in BuffersOf(m.p) THEN "wire" ELSE at[b]]

\* Data that is still to come when a flush is done has been overtaken by it.
Pending(p) == {bulks[i].b : i \in {j \in 1 .. Len(bulks) :
                  bulks[j].type = "bulk_buffer" /\ HomeOf(bulks[j].b) = p}}

ServerBuffer(m) ==
  IF m.type = "bulk_buffer"
    THEN bulks' = Append(bulks, m) /\ UNCHANGED at
    ELSE at' = [at EXCEPT ![m.b] = "server"] /\ UNCHANGED bulks

ServerHandles ==
  /\ to_server # <<>>
  /\ LET m == Head(to_server)
     IN \/ /\ m.type \in {"buffer", "bulk_buffer"}
           /\ ServerBuffer(m)
           /\ UNCHANGED <<from_server, server_enabled, overtaken, faults>>
        \/ /\ m.type = "flush_sync"
           /\ bulks' = Append(bulks, m)
           /\ UNCHANGED <<at, from_server, server_enabled, overtaken, faults>>
        \/ /\ m.type = "flush"
           /\ overtaken' = overtaken \cup Pending(m.p)
           /\ UNCHANGED server_enabled
           /\ GiveBackAll(m)
           /\ UNCHANGED <<bulks, faults>>
        \/ /\ m.type = "disable" /\ Pending(m.p) = {}
           /\ server_enabled' = [server_enabled EXCEPT ![m.p] = FALSE]
           /\ GiveBackAll(m)
           /\ UNCHANGED <<bulks, overtaken, faults>>
        \/ /\ m.type \in {"enable", "set_info", "get_info"}
           /\ server_enabled' = IF m.type = "enable" THEN [server_enabled EXCEPT ![m.p] = TRUE]
                                ELSE server_enabled
           /\ from_server' = Append(from_server, Reply(m, "ok"))
           /\ UNCHANGED <<at, bulks, overtaken, faults>>
        \/ /\ m.type \in Requests \ {"flush_sync", "flush"} /\ Fault
           /\ UNCHANGED server_enabled
           /\ from_server' = Append(from_server, Reply(m, "fail"))
           /\ UNCHANGED <<at, bulks, overtaken>>
  /\ to_server' = Tail(to_server)
  /\ UNCHANGED <<core, locks, module, flush_compatible, callback_queue, calls>>

\* The first bulk transfer is complete.
BulkDone ==
  /\ bulks # <<>>
  /\ LET m == Head(bulks)
     IN \/ /\ m.type = "bulk_buffer"
           /\ at' = [at EXCEPT ![m.b] = "server"]
           /\ UNCHANGED <<from_server, server_enabled, overtaken>>
        \/ /\ m.type = "flush_sync"
           /\ UNCHANGED <<server_enabled, overtaken>>
           /\ GiveBackAll(m)
  /\ bulks' = Tail(bulks)
  /\ UNCHANGED <<core, locks, module, flush_compatible, callback_queue, to_server, calls, faults>>

\* A buffer is done with, or an event is raised on an enabled port.
ServerReturns(b) ==
  /\ at[b] = "server"
  /\ b \in Events => server_enabled["out"]
  /\ at' = [at EXCEPT ![b] = "wire"]
  /\ from_server' = Append(from_server, [type |-> "buffer", b |-> b])
  /\ UNCHANGED <<core, locks, module, flush_compatible, callback_queue, server, to_server, calls,
                 faults>>

-----------------------------------------------------------------------------
Proceed(c) ==
  \/ EnableStart(c) \/ EnableRefused(c) \/ EnableReply(c)
  \/ DisableStart(c) \/ DisableRefused(c) \/ DisableReply(c) \/ DisableDrain(c)
  \/ DisableDrained(c) \/ DisableWait(c)
  \/ FlushStart(c) \/ FlushReply(c) \/ FormatStart(c) \/ FormatNext(c)

Server == ServerHandles \/ BulkDone

Transport == ReceiveBuffer \/ ReceiveReply

Next ==
  \/ \E c \in Controllers : Call(c) \/ Proceed(c)
  \/ \E b \in Data, k \in Kinds : Send(b, k)
  \/ \E b \in Buffers : ServerReturns(b)
  \/ \E p \in Ports : Connect(p) \/ SetZeroCopy(p)
  \/ ActionThread \/ Transport \/ Server

\* The server answers, the threads of the client run, mutexes are fair.
Fairness ==
  /\ WF_vars(Server) /\ WF_vars(Transport) /\ WF_vars(ActionThread)
  /\ \A b \in Data : WF_vars(ServerReturns(b))
  /\ \A c \in Controllers : SF_vars(Proceed(c))

Spec == Init /\ [][Next]_vars /\ Fairness

-----------------------------------------------------------------------------
(* Properties.                                                             *)

\* When the server has disabled a port, every client context is back in its pool:
\* the assertion of mmal_vc_port_disable() before it deletes the pool.
ContextsBack ==
  \A c \in Controllers :
    Replied(c, "reply") /\ op[c] = "disable" /\ reply[c] = "ok" /\ allocated[on[c]]
      => free[on[c]] = Contexts

\* With a server that can do it, no flush is done before data sent earlier is there.
FlushInOrder == flush_compatible # "no" => overtaken = {}

\* A disable that succeeds gives the client every buffer back before it returns: none is
\* left in the transport, with the server or among the callbacks.
DisableGivesBack ==
  \A c \in Controllers : pc[c] = "wait" => \A b \in Data : HomeOf(b) = on[c] => at[b] = "client"

\* mmal_port_disable() returns, whether the server disables the port or refuses to.
DisableReturns == \A c \in Controllers : op[c] = "disable" ~> op[c] = "none"

\* The ports are sound: the contexts are back when their pool is deleted.
VcPortInv == TypeOK /\ ContextsBack
=============================================================================
