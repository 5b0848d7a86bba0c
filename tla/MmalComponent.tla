--------------------------- MODULE MmalComponent ---------------------------
(***************************************************************************)
(* The life of one component (core/mmal_component.c): its creation, any    *)
(* call of which may fail, the references to it and to its ports, its      *)
(* enabling and disabling, its destruction by whoever drops the last       *)
(* reference, and its action thread, which delivers the buffers that the   *)
(* transport thread queues (vc/mmal_vc_api.c).  The component is one of    *)
(* VideoCore's.                                                            *)
(*                                                                         *)
(* A port is here what PortContract says of it: while enabled it takes     *)
(* buffers, and a disable has given all of them back.  How it does so is   *)
(* in MmalPort.                                                            *)
(***************************************************************************)
EXTENDS Integers, Sequences, FiniteSets, SequencesExt, FiniteSetsExt

CONSTANTS
  Clients,     \* the threads of the client
  Starters,    \* those which enable and disable the component
  PortArray,   \* the ports, in the order in which a release disables them
  MaxRefs,     \* bound: references of a thread to the component, and to its ports
  MaxWakeups,  \* bound: buffers in the component and wake-ups of the action thread
  Action,      \* the component's action thread
  Transport,   \* the transport thread, which hears from the component
  NoThread,    \* the holder of a free lock
  NoPort       \* no port at all

Ports == ToSet(PortArray)

ASSUME ComponentAssumption ==
  /\ PortArray \in Seq(Ports) /\ IsInjective(PortArray)
  /\ IsFiniteSet(Clients) /\ Starters \subseteq Clients
  /\ MaxRefs \in Nat \ {0} /\ MaxWakeups \in Nat \ {0}
  /\ Action # Transport /\ {Action, Transport, NoThread} \cap Clients = {}
  /\ NoThread \notin {Action, Transport} /\ NoPort \notin Ports

VARIABLES
  \* the component
  allocated,                   \* it has not been freed
  parts,                       \* what has been taken for it and not been given back
  failed,                      \* the call that failed, at most one, if any
  refcount, refcount_ports, destruction_pending,
  lock,                        \* the thread that holds the component's lock
  is_enabled,
  port_enabled, is_paused,     \* of each port
  inside,                      \* how many buffers of each port the component has
  callback_queue,              \* the ports of the buffers to be delivered, in order
  \* its action
  pf_action,                   \* an action is registered: the semaphore and mutex exist
  action_sema, action_quit, action_mutex,
  \* the threads
  component_refs, port_refs,   \* the references each client has
  pc,                          \* where each thread is
  left,                        \* the ports a client has yet to disable, pause or resume
  releasing,                   \* the clients that dropped the last reference
  delivering                   \* the port whose buffer the action thread is delivering

life       == <<allocated, parts, failed>>
references == <<refcount, refcount_ports, destruction_pending, component_refs, port_refs>>
ports      == <<port_enabled, is_paused, inside>>
action     == <<pf_action, action_sema, action_quit, action_mutex>>
threads    == <<pc, left, releasing>>
vars       == <<life, references, lock, is_enabled, ports, callback_queue, action,
                threads, delivering>>

Threads == Clients \cup {Action, Transport}

\* What a creation takes, in its order.  The core's own state is counted by users; from the
\* client of the transport to the ports' information it is the constructor's work.
CreationOrder == <<"core", "memory", "control", "client", "vc", "module", "ports", "queue",
                   "action", "info", "pool", "list">>

Constructor == {"ports", "queue", "action", "info"}

Creating(c) == pc[c] \in Range(CreationOrder)

TypeOK ==
  /\ allocated \in BOOLEAN
  /\ parts \subseteq Range(CreationOrder)
  /\ failed \in Range(CreationOrder) \cup {"none", "destroy"}
  /\ refcount \in Nat /\ refcount_ports \in Nat /\ destruction_pending \in BOOLEAN
  /\ lock \in Clients \cup {NoThread}
  /\ is_enabled \in BOOLEAN
  /\ port_enabled \in [Ports -> BOOLEAN] /\ is_paused \in [Ports -> BOOLEAN]
  /\ inside \in [Ports -> Nat]
  /\ callback_queue \in Seq(Ports)
  /\ pf_action \in BOOLEAN /\ action_sema \in Nat /\ action_quit \in BOOLEAN
  /\ action_mutex \in Clients \cup {Action, NoThread}
  /\ component_refs \in [Clients -> 0 .. MaxRefs] /\ port_refs \in [Clients -> 0 .. MaxRefs]
  /\ pc \in [Threads -> Range(CreationOrder) \cup
                        {"idle", "resume", "pause", "disable", "lock", "stop", "drain",
                         "final", "destroy", "join", "free", "woken", "deliver", "trigger",
                         "acquire", "release", "gone"}]
  /\ left \in [Clients -> Seq(Ports)]
  /\ releasing \subseteq Clients
  /\ delivering \in Ports \cup {NoPort}

\* A client calls mmal_component_create(); the others will know the component from it.
Init ==
  /\ allocated = FALSE /\ parts = {} /\ failed = "none"
  /\ refcount = 0 /\ refcount_ports = 0 /\ destruction_pending = FALSE
  /\ lock = NoThread
  /\ is_enabled = FALSE
  /\ port_enabled = [p \in Ports |-> FALSE] /\ is_paused = [p \in Ports |-> FALSE]
  /\ inside = [p \in Ports |-> 0]
  /\ callback_queue = <<>>
  /\ pf_action = FALSE /\ action_sema = 0 /\ action_quit = FALSE /\ action_mutex = NoThread
  /\ component_refs = [c \in Clients |-> 0]
  /\ port_refs = [c \in Clients |-> 0]
  /\ \E c \in Clients : pc = [t \in Threads |-> CASE t = c      -> "core"
                                                  [] t = Action -> "gone"
                                                  [] OTHER      -> "idle"]
  /\ left = [c \in Clients |-> <<>>]
  /\ releasing = {}
  /\ delivering = NoPort

At(t, l) == pc[t] = l

Goto(t, l) == pc' = [pc EXCEPT ![t] = l]

\* c, idle and with a reference to the component, may call what takes a component.
Holder(c) == At(c, "idle") /\ component_refs[c] > 0

FirstLeft(c) == Head(left[c])

\* Nobody has the port locked.
Unlocked(p) == \A c \in Clients : pc[c] \in {"lock", "stop", "drain"} => FirstLeft(c) # p

DropFirst(c) == left' = [left EXCEPT ![c] = Tail(@)]

-----------------------------------------------------------------------------
(* mmal_component_create_core(), and mmal_vc_component_create() which it   *)
(* calls: one part is taken after the other; when one cannot be had, those *)
(* before it are given back.                                               *)

Successor(part) ==
  LET i == CHOOSE i \in DOMAIN CreationOrder : CreationOrder[i] = part IN
    IF i = Len(CreationOrder) THEN "idle" ELSE CreationOrder[i + 1]

Take(c, part) ==
  /\ At(c, part)
  /\ parts' = parts \cup {part}
  /\ UNCHANGED <<failed, refcount_ports, destruction_pending, port_refs, lock, is_enabled,
                 ports, callback_queue, action_sema, action_quit, action_mutex, left,
                 releasing, delivering>>

\* mmal_core_init(): it cannot fail.
CoreInit(c) ==
  /\ Take(c, "core")
  /\ Goto(c, Successor("core"))
  /\ UNCHANGED <<allocated, refcount, component_refs, pf_action>>

\* The structure with its lock: the reference the creator will have is counted at once.
CreateMemory(c) ==
  /\ Take(c, "memory")
  /\ allocated' = TRUE
  /\ refcount' = 1
  /\ Goto(c, Successor("memory"))
  /\ UNCHANGED <<component_refs, pf_action>>

CreatePart(c, part) ==
  /\ Take(c, part)
  /\ Goto(c, Successor(part))
  /\ UNCHANGED <<allocated, refcount, component_refs, pf_action>>

\* mmal_port_alloc().
CreateControl(c) == CreatePart(c, "control")

\* The constructor calls VideoCore and allocates the component's context.
CreateAtVc(c) == \E part \in {"client", "vc", "module"} : CreatePart(c, part)

\* mmal_ports_alloc() of each kind; the control port is allocated again.
CreatePorts(c) == CreatePart(c, "ports")

\* The queue of callbacks and, for each port, mmal_vc_port_info_get().
CreateInfo(c) == CreatePart(c, "queue") \/ CreatePart(c, "info")

\* The pool of events.
CreatePool(c) == CreatePart(c, "pool")

\* mmal_component_action_register() starts the action thread.
RegisterAction(c) ==
  /\ Take(c, "action")
  /\ pf_action' = TRUE
  /\ pc' = [pc EXCEPT ![c] = Successor("action"), ![Action] = "idle"]
  /\ UNCHANGED <<allocated, refcount, component_refs>>

\* The list of all ports is the last part: the creator gets the component.
Created(c) ==
  /\ Take(c, "list")
  /\ component_refs' = [component_refs EXCEPT ![c] = 1]
  /\ Goto(c, "idle")
  /\ UNCHANGED <<allocated, refcount, pf_action>>

Fails(c, part) ==
  /\ At(c, part)
  /\ failed = "none"
  /\ failed' = part
  /\ UNCHANGED <<allocated, references, lock, is_enabled, ports, callback_queue, action,
                 left, releasing, delivering>>

\* Neither the memory nor its lock is to be had: the core is not deinitialised.
NoMemory(c) ==
  /\ Fails(c, "memory")
  /\ Goto(c, "idle")
  /\ UNCHANGED parts

\* No control port, no supplier for the name, no client, no pool of events or no list of
\* ports: "error:" destroys the component, with what it has.
CreateFailed(c) ==
  /\ \E part \in {"control", "client", "pool", "list"} : Fails(c, part)
  /\ Goto(c, "destroy")
  /\ UNCHANGED parts

\* VideoCore does not create its component.
VcRefuses(c) ==
  /\ Fails(c, "vc")
  /\ parts' = parts \ {"client"}
  /\ Goto(c, "destroy")

\* No memory for the context: VideoCore is told to destroy a component, but in a message
\* whose component_handle was never set.
NoModule(c) ==
  /\ Fails(c, "module")
  /\ parts' = parts \ {"client"}
  /\ Goto(c, "destroy")

\* mmal_vc_component_destroy(), once VideoCore has destroyed its component.
VcDestroyed == parts \ {"ports", "module", "vc", "info", "client"}

\* "fail:" in the constructor.
ConstructorFailed(c) ==
  /\ \E part \in Constructor : Fails(c, part)
  /\ parts' = VcDestroyed
  /\ Goto(c, "destroy")

-----------------------------------------------------------------------------
(* References to the component and, one for each payload allocated from a  *)
(* port, to its ports.                                                     *)

\* mmal_component_acquire(), by or for a client.
AcquireComponent(c, d) ==
  /\ Holder(c)
  /\ lock = NoThread
  /\ component_refs[d] < MaxRefs
  /\ refcount' = refcount + 1
  /\ component_refs' = [component_refs EXCEPT ![d] = @ + 1]
  /\ UNCHANGED <<life, refcount_ports, destruction_pending, port_refs, lock, is_enabled,
                 ports, callback_queue, action, threads, delivering>>

\* mmal_port_payload_alloc() and mmal_port_payload_free(): the payload is allocated or freed
\* under the port's lock, the reference to the port taken or dropped after it.
PayloadAlloc(c, p) ==
  /\ At(c, "idle")
  /\ component_refs[c] > 0 \/ port_refs[c] > 0
  /\ port_refs[c] < MaxRefs
  /\ Unlocked(p)
  /\ Goto(c, "acquire")
  /\ UNCHANGED <<life, references, lock, is_enabled, ports, callback_queue, action, left,
                 releasing, delivering>>

PayloadFree(c, p) ==
  /\ At(c, "idle")
  /\ port_refs[c] > 0
  /\ Unlocked(p)
  /\ Goto(c, "release")
  /\ UNCHANGED <<life, references, lock, is_enabled, ports, callback_queue, action, left,
                 releasing, delivering>>

\* mmal_port_acquire().
AcquirePort(c) ==
  /\ At(c, "acquire")
  /\ lock = NoThread
  /\ refcount_ports' = refcount_ports + 1
  /\ port_refs' = [port_refs EXCEPT ![c] = @ + 1]
  /\ Goto(c, "idle")
  /\ UNCHANGED <<life, refcount, destruction_pending, component_refs, lock, is_enabled,
                 ports, callback_queue, action, left, releasing, delivering>>

\* mmal_component_release() of one reference out of several.
ReleaseOne(c) ==
  /\ Holder(c)
  /\ lock = NoThread
  /\ refcount > 1
  /\ refcount' = refcount - 1
  /\ component_refs' = [component_refs EXCEPT ![c] = @ - 1]
  /\ UNCHANGED <<life, refcount_ports, destruction_pending, port_refs, lock, is_enabled,
                 ports, callback_queue, action, threads, delivering>>

\* mmal_component_release() of the last one: the ports will be disabled.
ReleaseLast(c) ==
  /\ Holder(c)
  /\ lock = NoThread
  /\ refcount = 1
  /\ refcount' = 0
  /\ component_refs' = [component_refs EXCEPT ![c] = @ - 1]
  /\ destruction_pending' = TRUE
  /\ releasing' = releasing \cup {c}
  /\ left' = [left EXCEPT ![c] = PortArray]
  /\ Goto(c, "disable")
  /\ UNCHANGED <<life, refcount_ports, port_refs, lock, is_enabled, ports,
                 callback_queue, action, delivering>>

\* Mutant: the delayed destruction still looks pending.
FinalDelayedStaysPending(c) ==
  /\ At(c, "final")
  /\ lock = NoThread
  /\ refcount_ports > 0
  /\ releasing' = releasing \ {c}
  /\ Goto(c, "idle")
  /\ UNCHANGED <<life, references, lock, is_enabled, ports, callback_queue, action,
                 left, delivering>>

\* References to ports delay the destruction: who drops the last one will do it.
FinalDelayed(c) ==
  /\ At(c, "final")
  /\ lock = NoThread
  /\ refcount_ports > 0
  /\ destruction_pending' = FALSE
  /\ releasing' = releasing \ {c}
  /\ Goto(c, "idle")
  /\ UNCHANGED <<life, refcount, refcount_ports, component_refs, port_refs, lock,
                 is_enabled, ports, callback_queue, action, left, delivering>>

FinalDestroy(c) ==
  /\ At(c, "final")
  /\ lock = NoThread
  /\ refcount_ports = 0
  /\ releasing' = releasing \ {c}
  /\ Goto(c, "destroy")
  /\ UNCHANGED <<life, references, lock, is_enabled, ports, callback_queue, action,
                 left, delivering>>

\* Mutant: the release of the last port reference does not look at destruction_pending.
ReleasePortIgnoresPending(c) ==
  /\ At(c, "release")
  /\ lock = NoThread
  /\ refcount_ports' = refcount_ports - 1
  /\ port_refs' = [port_refs EXCEPT ![c] = @ - 1]
  /\ Goto(c, IF refcount_ports > 1 \/ refcount > 0 THEN "idle" ELSE "destroy")
  /\ UNCHANGED <<life, refcount, destruction_pending, component_refs, lock, is_enabled,
                 ports, callback_queue, action, left, releasing, delivering>>

\* mmal_port_release().
ReleasePort(c) ==
  /\ At(c, "release")
  /\ lock = NoThread
  /\ refcount_ports' = refcount_ports - 1
  /\ port_refs' = [port_refs EXCEPT ![c] = @ - 1]
  /\ Goto(c, IF refcount_ports > 1 \/ refcount > 0 \/ destruction_pending
             THEN "idle" ELSE "destroy")
  /\ UNCHANGED <<life, refcount, destruction_pending, component_refs, lock, is_enabled,
                 ports, callback_queue, action, left, releasing, delivering>>

-----------------------------------------------------------------------------
(* mmal_component_destroy_internal(): the action is deregistered, which    *)
(* waits for its thread to end, and the component freed.                   *)

Destroy(c) ==
  /\ At(c, "destroy")
  /\ IF pf_action
     THEN action_quit' = TRUE /\ action_sema' = action_sema + 1 /\ Goto(c, "join")
     ELSE UNCHANGED <<action_quit, action_sema>> /\ Goto(c, "free")
  /\ UNCHANGED <<life, references, lock, is_enabled, ports,
                 callback_queue, pf_action, action_mutex, left, releasing, delivering>>

Join(c) ==
  /\ At(c, "join")
  /\ At(Action, "gone")
  /\ pf_action' = FALSE
  /\ action_quit' = FALSE
  /\ parts' = parts \ {"action"}
  /\ Goto(c, "free")
  /\ UNCHANGED <<allocated, failed, references, lock, is_enabled, ports, callback_queue,
                 action_sema, action_mutex, left, releasing, delivering>>

\* pf_destroy, which the constructor sets when it succeeds.
VcDestroy(c) ==
  /\ At(c, "free")
  /\ "info" \in parts
  /\ parts' = VcDestroyed
  /\ UNCHANGED <<allocated, failed, references, lock, is_enabled, ports, callback_queue,
                 action, threads, delivering>>

\* VideoCore refuses ("Should pf_destroy be allowed to fail?"): the client is released,
\* the component stays for ever.
VcDestroyRefused(c) ==
  /\ At(c, "free")
  /\ "info" \in parts
  /\ failed = "none"
  /\ failed' = "destroy"
  /\ parts' = parts \ {"client"}
  /\ Goto(c, "idle")
  /\ UNCHANGED <<allocated, references, lock, is_enabled, ports, callback_queue, action,
                 left, releasing, delivering>>

\* mmal_core_deinit().
CoreDeinit(s) == s \ {"core"}

Free(c) ==
  /\ At(c, "free")
  /\ "info" \notin parts
  /\ allocated' = FALSE
  /\ parts' = CoreDeinit(parts \ {"pool", "control", "list", "memory"})
  /\ Goto(c, "idle")
  /\ UNCHANGED <<failed, references, lock, is_enabled, ports, callback_queue, action, left,
                 releasing, delivering>>

-----------------------------------------------------------------------------
(* mmal_component_enable(), mmal_component_disable(): the ports are resumed*)
(* or paused one after the other, under the component's lock.              *)

Begin(c, l) ==
  /\ Holder(c)
  /\ lock = NoThread
  /\ lock' = c
  /\ left' = [left EXCEPT ![c] = PortArray]
  /\ Goto(c, l)
  /\ UNCHANGED <<life, references, is_enabled, ports, callback_queue, action, releasing,
                 delivering>>

Enable(c) == ~is_enabled /\ Begin(c, "resume")

Disable(c) == is_enabled /\ Begin(c, "pause")

SetPaused(c, l, paused) ==
  /\ At(c, l)
  /\ left[c] # <<>>
  /\ is_paused' = [is_paused EXCEPT ![FirstLeft(c)] = paused]
  /\ DropFirst(c)
  /\ UNCHANGED <<life, references, lock, is_enabled, port_enabled, inside,
                 callback_queue, action, pc, releasing, delivering>>

Refused(c, l) ==
  /\ At(c, l)
  /\ left[c] = PortArray
  /\ lock' = NoThread
  /\ left' = [left EXCEPT ![c] = <<>>]
  /\ Goto(c, "idle")
  /\ UNCHANGED <<life, references, is_enabled, ports, callback_queue,
                 action, releasing, delivering>>

\* VideoCore does not enable, or disable, the component.
EnableRefused(c) == Refused(c, "resume")

DisableRefused(c) == Refused(c, "pause")

Resume(c) == SetPaused(c, "resume", FALSE)

Pause(c) == SetPaused(c, "pause", TRUE)

\* A port does not take the buffers it was sent while paused: it stays paused, and the
\* component not enabled.
ResumeFailed(c) ==
  /\ At(c, "resume")
  /\ left[c] # <<>>
  /\ port_enabled[FirstLeft(c)] /\ is_paused[FirstLeft(c)]
  /\ lock' = NoThread
  /\ left' = [left EXCEPT ![c] = <<>>]
  /\ Goto(c, "idle")
  /\ UNCHANGED <<life, references, is_enabled, ports, callback_queue, action, releasing,
                 delivering>>

End(c) ==
  /\ pc[c] \in {"resume", "pause"}
  /\ left[c] = <<>>
  /\ is_enabled' = At(c, "resume")
  /\ lock' = NoThread
  /\ Goto(c, "idle")
  /\ UNCHANGED <<life, references, ports, callback_queue, action, left, releasing,
                 delivering>>

-----------------------------------------------------------------------------
(* The ports: a client enables one, disables one, sends it a buffer.       *)

EnablePort(c, p) ==
  /\ Holder(c)
  /\ ~port_enabled[p] /\ Unlocked(p)
  /\ port_enabled' = [port_enabled EXCEPT ![p] = TRUE]
  /\ UNCHANGED <<life, references, lock, is_enabled, is_paused, inside, callback_queue,
                 action, threads, delivering>>

DisablePort(c, p) ==
  /\ Holder(c)
  /\ left' = [left EXCEPT ![c] = <<p>>]
  /\ Goto(c, "disable")
  /\ UNCHANGED <<life, references, lock, is_enabled, ports, callback_queue, action,
                 releasing, delivering>>

\* The wake-ups there will be once the component has given its buffers back.
Wakeups == action_sema + (IF At(Transport, "trigger") THEN 1 ELSE 0)
           + MapThenSumSet(LAMBDA p : inside[p], Ports)

Accepts(p) == port_enabled[p] /\ ~is_paused[p] /\ Wakeups < MaxWakeups

Send(c, p) ==
  /\ Holder(c)
  /\ Accepts(p)
  /\ inside' = [inside EXCEPT ![p] = @ + 1]
  /\ UNCHANGED <<life, references, lock, is_enabled, port_enabled, is_paused,
                 callback_queue, action, threads, delivering>>

\* The client's callback for a buffer of port p may send it, or another one, again.
Callback(p) == \/ UNCHANGED inside
               \/ Accepts(p) /\ inside' = [inside EXCEPT ![p] = @ + 1]

\* mmal_port_disable(), by a client or for a release: what the port promises, with the
\* action locked out.
DisableSkip(c) ==
  /\ At(c, "disable")
  /\ left[c] # <<>>
  /\ ~port_enabled[FirstLeft(c)] /\ Unlocked(FirstLeft(c))
  /\ DropFirst(c)
  /\ UNCHANGED <<life, references, lock, is_enabled, ports, callback_queue, action, pc,
                 releasing, delivering>>

DisableOff(c) ==
  /\ At(c, "disable")
  /\ left[c] # <<>>
  /\ port_enabled[FirstLeft(c)]
  /\ port_enabled' = [port_enabled EXCEPT ![FirstLeft(c)] = FALSE]
  /\ Goto(c, "lock")
  /\ UNCHANGED <<life, references, lock, is_enabled, is_paused, inside, callback_queue,
                 action, left, releasing, delivering>>

DisableLock(c) ==
  /\ At(c, "lock")
  /\ action_mutex = NoThread
  /\ action_mutex' = c
  /\ Goto(c, "stop")
  /\ UNCHANGED <<life, references, lock, is_enabled, ports, callback_queue, pf_action,
                 action_sema, action_quit, left, releasing, delivering>>

\* mmal_vc_port_disable(): the answer comes after the buffers, by the same thread.
DisableStopped(c) ==
  /\ At(c, "stop")
  /\ inside[FirstLeft(c)] = 0 /\ At(Transport, "idle")
  /\ Goto(c, "drain")
  /\ UNCHANGED <<life, references, lock, is_enabled, ports, callback_queue, action,
                 left, releasing, delivering>>

\* "We need to make sure all the queued callbacks have been done": of every port.
DisableDrain(c) ==
  /\ At(c, "drain")
  /\ callback_queue # <<>>
  /\ callback_queue' = Tail(callback_queue)
  /\ Callback(Head(callback_queue))
  /\ UNCHANGED <<life, references, lock, is_enabled, port_enabled, is_paused, action,
                 threads, delivering>>

\* Mutant: the action stays locked.
DisableKeepsLock(c) ==
  /\ At(c, "drain")
  /\ callback_queue = <<>>
  /\ DropFirst(c)
  /\ Goto(c, "disable")
  /\ UNCHANGED <<life, references, lock, is_enabled, ports, callback_queue, action,
                 releasing, delivering>>

DisableDrained(c) ==
  /\ At(c, "drain")
  /\ callback_queue = <<>>
  /\ action_mutex' = NoThread
  /\ DropFirst(c)
  /\ Goto(c, "disable")
  /\ UNCHANGED <<life, references, lock, is_enabled, ports, callback_queue, pf_action,
                 action_sema, action_quit, releasing, delivering>>

DisableEnd(c) ==
  /\ At(c, "disable")
  /\ left[c] = <<>>
  /\ Goto(c, IF c \in releasing THEN "final" ELSE "idle")
  /\ UNCHANGED <<life, references, lock, is_enabled, ports, callback_queue, action,
                 left, releasing, delivering>>

-----------------------------------------------------------------------------
(* The transport thread queues a buffer that comes back and triggers the   *)
(* action (mmal_vc_port_send_callback); the action thread delivers one     *)
(* buffer a time (mmal_component_action_thread_func, mmal_vc_do_callback). *)

Complete(p) ==
  /\ At(Transport, "idle")
  /\ inside[p] > 0
  /\ inside' = [inside EXCEPT ![p] = @ - 1]
  /\ callback_queue' = Append(callback_queue, p)
  /\ Goto(Transport, "trigger")
  /\ UNCHANGED <<life, references, lock, is_enabled, port_enabled, is_paused, action,
                 left, releasing, delivering>>

\* Mutant: nothing is posted to an action thread that is awake, or will be.
TriggerOnce ==
  /\ At(Transport, "trigger")
  /\ action_sema' = IF pf_action /\ action_sema = 0 /\ At(Action, "idle") THEN 1 ELSE action_sema
  /\ Goto(Transport, "idle")
  /\ UNCHANGED <<life, references, lock, is_enabled, ports, callback_queue, pf_action,
                 action_quit, action_mutex, left, releasing, delivering>>

Trigger ==
  /\ At(Transport, "trigger")
  /\ action_sema' = IF pf_action THEN action_sema + 1 ELSE action_sema
  /\ Goto(Transport, "idle")
  /\ UNCHANGED <<life, references, lock, is_enabled, ports, callback_queue, pf_action,
                 action_quit, action_mutex, left, releasing, delivering>>

Wake ==
  /\ At(Action, "idle")
  /\ action_sema > 0
  /\ action_sema' = action_sema - 1
  /\ Goto(Action, IF action_quit THEN "gone" ELSE "woken")
  /\ UNCHANGED <<life, references, lock, is_enabled, ports, callback_queue, pf_action,
                 action_quit, action_mutex, left, releasing, delivering>>

\* The queue may be empty: a disable has delivered the buffers itself.
Run ==
  /\ At(Action, "woken")
  /\ action_mutex = NoThread
  /\ action_mutex' = Action
  /\ IF callback_queue = <<>>
       THEN delivering' = NoPort /\ UNCHANGED callback_queue
       ELSE delivering' = Head(callback_queue) /\ callback_queue' = Tail(callback_queue)
  /\ Goto(Action, "deliver")
  /\ UNCHANGED <<life, references, lock, is_enabled, ports, pf_action, action_sema,
                 action_quit, left, releasing>>

Deliver ==
  /\ At(Action, "deliver")
  /\ IF delivering = NoPort THEN UNCHANGED inside ELSE Callback(delivering)
  /\ delivering' = NoPort
  /\ action_mutex' = NoThread
  /\ Goto(Action, "idle")
  /\ UNCHANGED <<life, references, lock, is_enabled, port_enabled, is_paused,
                 callback_queue, pf_action, action_sema, action_quit, left, releasing>>

-----------------------------------------------------------------------------
Client(c) ==
  \/ ReleaseOne(c) \/ ReleaseLast(c)
  \/ c \in Starters /\ (Enable(c) \/ Disable(c))
  \/ \E d \in Clients : AcquireComponent(c, d)
  \/ \E p \in Ports : PayloadAlloc(c, p) \/ PayloadFree(c, p)
  \/ \E p \in Ports : EnablePort(c, p) \/ DisablePort(c, p) \/ Send(c, p)

\* What a client goes on with once it has begun.
GoesOn(c) ==
  \/ CoreInit(c) \/ CreateMemory(c) \/ CreateControl(c) \/ CreateAtVc(c) \/ CreatePorts(c)
  \/ CreateInfo(c) \/ RegisterAction(c) \/ CreatePool(c) \/ Created(c)
  \/ NoMemory(c) \/ CreateFailed(c) \/ VcRefuses(c) \/ NoModule(c) \/ ConstructorFailed(c)
  \/ Resume(c) \/ ResumeFailed(c) \/ Pause(c) \/ EnableRefused(c) \/ DisableRefused(c)
  \/ End(c)
  \/ DisableSkip(c) \/ DisableOff(c) \/ DisableLock(c) \/ DisableStopped(c)
  \/ DisableDrain(c) \/ DisableDrained(c) \/ DisableEnd(c)
  \/ AcquirePort(c) \/ ReleasePort(c)
  \/ FinalDelayed(c) \/ FinalDestroy(c) \/ Destroy(c) \/ Join(c)
  \/ VcDestroy(c) \/ VcDestroyRefused(c) \/ Free(c)

ActionThread == Wake \/ Run \/ Deliver

\* The component is gone, or will stay for ever, and nobody calls it any more.
Finished ==
  /\ ~allocated \/ failed = "destroy"
  /\ \A c \in Clients : At(c, "idle")
  /\ UNCHANGED vars

Next == \/ \E c \in Clients : Client(c) \/ GoesOn(c)
        \/ \E p \in Ports : Complete(p)
        \/ Trigger \/ ActionThread
        \/ Finished

Spec == Init /\ [][Next]_vars

\* Threads run on; locks are granted in the end to whoever keeps asking for them; the
\* component gives back the buffers of every port.  No client has to call anything.
Fairness ==
  /\ \A c \in Clients : SF_vars(GoesOn(c))
  /\ \A p \in Ports : SF_vars(Complete(p))
  /\ WF_vars(Trigger) /\ SF_vars(ActionThread)

FairSpec == Spec /\ Fairness

-----------------------------------------------------------------------------
(* Properties.                                                             *)

Unreferenced == \A c \in Clients : component_refs[c] = 0 /\ port_refs[c] = 0

\* A reference "will prevent a component from being destroyed until the acquired
\* reference is released" (mmal_component.h), one to a port until the payload is freed:
\* the component is freed when no thread has a reference or is in a call on it, so that
\* it is also destroyed once only, whoever drops the last reference of either kind.
AliveWhileUsed ==
  ~allocated => Unreferenced /\ \A c \in Clients : pc[c] \in {"core", "memory", "idle"}

\* When the component is freed it is quiet: its ports are disabled, its buffers back with
\* the client, its action thread has ended and the transport thread is not about to
\* trigger it.
QuietWhenFreed ==
  ~allocated =>
    /\ \A p \in Ports : ~port_enabled[p] /\ inside[p] = 0
    /\ callback_queue = <<>>
    /\ At(Action, "gone") /\ At(Transport, "idle")

\* Whatever call of a creation or destruction fails, everything is given back that was
\* taken.  The exceptions are the code's: the core when there is no memory, VideoCore's
\* component when there is none for its context, and the queue of callbacks, which nothing
\* destroys.
NothingLeft ==
  ~allocated /\ (\A c \in Clients : At(c, "idle")) =>
    parts \subseteq {"queue"} \cup (CASE failed = "memory" -> {"core"}
                                     [] failed = "module" -> {"vc"}
                                     [] OTHER             -> {})

\* No queued buffer is left without a wake-up: the action thread delivers one for each
\* post, so there are as many to come as there are buffers.
WakeupPending ==
  Len(callback_queue) <= action_sema + (IF At(Action, "woken") THEN 1 ELSE 0)
                                     + (IF At(Transport, "trigger") THEN 1 ELSE 0)

\* An enabled component has no port that keeps back the buffers it is sent, whatever
\* enables of it failed half-way before.
EnabledRuns == is_enabled /\ lock = NoThread => \A p \in Ports : ~is_paused[p]

\* The component is alive while it is used, quiet when it is freed, leaves nothing behind
\* and runs when it is enabled.
ComponentInv ==
  TypeOK /\ AliveWhileUsed /\ QuietWhenFreed /\ NothingLeft /\ EnabledRuns

\* mmal_port_disable() returns and the last reference dropped, to the component or to a
\* port, destroys it, unless VideoCore refuses, provided that the clients stop sending
\* buffers at some time: the callbacks that a disable drains may keep the queue from
\* becoming empty.
SendingStops == <>[][\A p \in Ports : inside'[p] <= inside[p]]_vars

DisableReturns == SendingStops => \A c \in Clients : At(c, "disable") ~> At(c, "idle")

Abandoned == Unreferenced /\ \A c \in Clients : ~Creating(c)

LastReleaseDestroys ==
  SendingStops => (Abandoned ~> ~allocated \/ failed = "destroy")
=============================================================================
