# Verification of the MMAL client library and the camera programs

The repository is a Raspberry Pi application, `cam_IC_game` (`src/src/`), with two
Raspicam tools it was made from, and the user-side MMAL library they are built on
(`src/interface/mmal/`): buffer headers and pools, ports, components with an action
thread, connections, graphs, clocks, and a transport that runs the real components on
the VideoCore processor. Each program is sequential in its own logic, with one callback
on a thread of MMAL; the library is concurrent throughout. Both are modelled here.

## 1. Inventory

| part | state | operations | what makes it correct |
| --- | --- | --- | --- |
| buffer headers, `core/mmal_buffer.c` | reference count, `reference` (of a replica), pre-release callback | acquire, release, release_continue, replicate | the count is the number of references; recycled once, when it reaches zero |
| queues, `core/mmal_queue.c` | linked list with `first`/`last`, lock, semaphore | put, put_back, get, wait, length | the semaphore matches the list; nobody blocks for ever with the lock |
| pools, `core/mmal_pool.c` | queue, array of headers, release callback | create, resize, release callback, destroy | a header is in the queue or somewhere else, never both, never nowhere |
| ports, `core/mmal_port.c` | enabled, paused, callback, internal queue, counter of buffers in transit and its semaphore, three locks | enable, disable, send, flush, pause, callback, event, connect, disconnect, format, parameters | each buffer sent comes back once; a disable returns when all have; no callback after it |
| tunnels, connected ports of `core/mmal_port.c` | the port at the other end, the pool of the connection, who owns it, a connection lock for each port | connect, enable, disable, disconnect, from either end | the pool is destroyed with every header home; a disabled port is empty; calls return |
| components, `core/mmal_component.c` | reference counts of component and ports, `destruction_pending`, action thread with semaphore and mutex | create, acquire, release, enable, disable, action register/trigger/lock | destroyed once, by whoever drops the last reference, when nobody uses it; a failed creation gives everything back |
| clocks, `core/mmal_clock.c`, `core/mmal_port_clock.c` | media time, scale, ordered list of requests, free list, timer thread | request add/flush, media time set, scale set, active set | requests fire in order, once, at their time; slots are not lost |
| connections, `util/mmal_connection.c` | pool, queue, flags, reference count | create, enable, disable, destroy, format changed | buffers circulate; a disable has the whole pool back |
| graphs, `util/mmal_graph.c` | components, connections, a worker thread with a semaphore, or a component whose action does its work | enable, disable, destroy, build, ports of the built component | whatever arrives is processed; a destroyed graph is quiet |
| component wrapper, `util/mmal_component_wrapper.c` | pools and queues of a component's ports, one semaphore | create, port enable/disable, get, callbacks, destroy | a get never sleeps through a header or an error; pools are whole after a disable |
| transport, `vc/mmal_vc_client.c` | sixteen waiters, service use count, message ids | send, sendwait, bulk receive, callbacks | a reply reaches its own waiter; a waiter is used by one caller |
| VideoCore components, `vc/mmal_vc_api.c` | contexts of buffers in transit, completion queue, connected ports | port enable/disable/flush/send, completion, create, destroy | contexts are freed once; a flush overtakes no data; a disable gives everything back |
| Raspicam tools, `RaspiVid.c`, `RaspiStillYUV.c`, `RaspiPreview.c`, `RaspiCLI.c` | components, connections, file, pool, semaphore | command line, set-up, capture, buffer callback, tear-down | every way out unwinds what was made; the callback uses only what exists |
| camera settings, `RaspiCamControl.c` | parameter block, the static variables of the demo | command line, setters, `raspicamcontrol_cycle_test` | the demo shows one setting at a time and puts it back |
| camera game, `cam_IC_game.cpp` | frame copies, textures, cursor, square, pool | camera callback, draw loop, set-up and tear-down | the frames aligned are of one movement; no stale texture; the cursor stays |
| formats, events, lists, GL helpers, OpenMAX tables, logging | no shared state of their own | conversion, drawing, text | - |

How they interact. A client takes a header from its pool's queue, sends it to a
port, and gets it back through the port's callback, on the component's *action
thread*, which the *transport thread* wakes for each buffer that comes back from
VideoCore. Releasing the header puts it back into the pool, possibly through the
pool's callback, which may send it on: that is how the buffers of a tunnel circulate.
A connection that is not a tunnel puts what an output port returns into a queue, from
which the client, or the worker of a graph, sends it to the next input port. Ports lock
themselves, their sending and their connection; components lock their counts and,
separately, their action; queues lock themselves; the reference counts of headers are
not locked at all.

What is hard: a send racing a disable; a flush racing a disable; the link inside
a header, which the pool's queue and the port's queue share; operations that fail
half-way; the last references dropped by two threads; wake-ups and queued buffers
that must match while disables empty the queue; lock orders between the two ends
of a connection; replies, timeouts and bounded waiters in the transport; flushes
against bulk transfers; a timer thread with callbacks under a lock; one semaphore shared
by every callback of a graph or a wrapper; and frames copied by one thread while another
draws them. `PROJECT.json` lists these hazards line by line.

## 2. Modules

| module | models | status |
| --- | --- | --- |
| `PortContract` | what a port promises its client (`mmal_port.h`) | abstract specification |
| `MmalPort` | one unconnected port, its internal queue and its action thread | checked, proved in part |
| `MmalPortProofs` | theorems about `MmalPort` | proved |
| `MmalTunnelProofs` | theorems about `MmalTunnel` | proved |
| `MmalPool` | a pool: queue, reference counts, recycling, resize | checked |
| `MmalPoolProofs` | theorems about `MmalPool` and `CamICGame` | proved |
| `MmalComponent` | the life of a component from its creation, its action thread, completion of buffers | checked |
| `MmalComponentProofs` | theorems about `MmalComponent` and `MmalClock` | proved |
| `MmalTunnel` | two ports connected to each other, over two such components | checked |
| `MmalClock` | a clock: requests, timer, the thread that serves them | checked |
| `MmalVcClient` | the transport: waiters, calls and replies, bulk transfers, claims on the service | checked |
| `MmalVcClientProofs` | theorems about `MmalVcClient` | proved |
| `MmalVcPort` | the ports of a VideoCore component: contexts, messages, bulk transfers, flushes | checked |
| `MmalVcPortProofs` | theorems about `MmalVcPort` | proved |
| `MmalGraph` | connections with a queue, the graph that serves them, the component built from it | checked |
| `MmalGraphProofs` | theorems about `MmalGraph` | proved |
| `MmalWrapper` | the component wrapper | checked |
| `MmalWrapperProofs` | theorems about `MmalWrapper` and `CameraApps` | proved |
| `CamControl` | the camera settings and their demo | checked, as a part of `CameraApps` |
| `CameraApps` | RaspiVid and RaspiStillYUV from `main()` to its return | checked |
| `CamICGame` | the camera game | checked |
| `MC...` | instances for TLC | |

Each module says of the one below it what that one was shown to do: `MmalComponent`,
`MmalTunnel` and `MmalGraph` have ports as `PortContract` describes them, `MmalVcPort`
has the ordered transport of `MmalVcClient`, the programs have components whose
ports give everything back before a disable returns. In every module what is not in the
repository (VideoCore, VCHIQ, the firmware of the camera, OpenGL ES) or is another module's
is called external in the module's head, and is free to do what the code allows it.
Where calls fail they fail at most `MaxFaults` times in a behaviour, anywhere.

### MmalPort

The state is that of `MMAL_PORT_PRIVATE_CORE_T`: `is_enabled`, `is_paused`,
`callback` (whether `buffer_header_callback` is set), `queue_first` and
`queue_last`, `transit_buffer_headers` and `transit_sema`, the port, sending and
action locks, and the `next` link of each header, which is also the link of the
pool's queue. `NoBuffer` as `queue_last` stands for `&core->queue_first`. Each
thread has an operation (`op`), a place in it (`pc`) and its local variables.
`at[b]` says who has header `b`: it is bookkeeping for the properties, except in
the guards that say what a client may send and a component may return.

One action is the code between two points where another thread can interfere:
taking a lock, a callback, a semaphore. `DisableOff` .. `DisableClear` are the
steps of `mmal_port_disable_internal()`, with `WalkNext`, `Callback` and `WalkDone`
for its loop over the internal queue, which `mmal_port_flush()` shares.
`IN_TRANSIT_INCREMENT` and `_DECREMENT` run under a lock of their own and are
therefore one step with what they are called from (`CanIncrement`, `Increment`,
`Decrement`). A component is anything that accepts or refuses a buffer
(`SendAccepted`, `SendRefused`), has its disable, enable or flush fail, and
returns what it has through its action thread.

### MmalPool

`++` and `--` on a reference count are a load and a store (`Load`,
`StoreAcquired`, `StoreReleased`). A release is a stack of frames, since releasing
a replica releases the header it stands for first
(`mmal_buffer_header_release_continue`). `held[t][h]` counts the references a
thread has, and `HandOver` stands for what passes a reference from one thread to
another (a port, a queue). `Shared` names the headers to which two threads may
have references at the same time: none in the run that passes. `Confined` and
the guard of `HandOver` say the same of all the others, with the replicas of a
header and the header it stands for counted as one family. `mmal_queue_get()` is
split at its semaphore, which is waited for with the lock held. A resize may fail to
allocate any of the payloads, or the array itself; what a later resize does
after the first of these is undefined and not modelled.

### MmalComponent

`refcount`, `refcount_ports` and `destruction_pending` are the code's; so are
`action_sema`, `action_quit` and `action_mutex`. Creation goes call by call: `parts` is
what has been taken for the component and not been given back, `failed` the one call that
failed, from the memory of the core to the constructor's message to VideoCore, and the way
out at `error:` is the release of a component of which only some parts exist. Payloads of a
port hold a reference to it, which may outlive the last reference to the component. Ports are
reduced to what `PortContract` says of them. `left[c]` is what is left of a loop over the
ports, `Transport` the thread that queues what comes back from VideoCore and triggers the
action, in that order (`Complete`, `Trigger`). `DisableStopped` uses that the
answer to a port's disable message comes by the transport thread, after the
port's buffers. A port is not connected here, and control and clock ports are
paused with the others, which the code does not do.

### MmalTunnel

An output and an input port, each with its `connection_lock`, in the order in which
`mmal_port_connect`, `_enable`, `_disable` and `_disconnect` take the two: that of the port
called first. `todo` is the sequence of ports a call has still to disable. The pool of the
connection feeds the output port, and `pool_cb` says whether a header that is released to it is
sent on: a disable takes the callback away before it stops the ports, one of which may refuse.
`connected_output_cb()` sends what the output port returns, events too, on to
the input port; a header that is released there goes to the output port again. The two
components are external: each has a thread of its own (`cpc`, `cbuffer`) which returns any
buffer it was sent.

### MmalClock

The lists hold request slots; of a request only `media_time_adj` is kept, of the
scale its sign. `Elapse` moves the media time to any value, which contains whatever
the arithmetic of `mmal_clock_update_local_time()` does, its wrap and its
races. A client takes a slot under the free list's own lock (`Add`) and inserts
the request under the clock's (`Insert`), or loses it to a clock that is being
destroyed (`InsertRefused`, `lost`). The thread of the clock looks at the list before it
takes the lock (`SomethingToServe`) and holds it while it serves (`BeginServing`
.. `AllServed`). `event` is the semaphore it waits for, `timer` whether the timer is
set.

### MmalVcClient

`refcount`, `usecount`, `inited`, the waiters (`inuse`, `waiter_sem`), the semaphore
of their pool and `bulk_lock` are those of `MMAL_CLIENT_T`; `claimed` is VCHIQ's own
record of `vchiq_use_service()`, to hold `usecount` against. A caller is a
thread with one component: `InitFirst` .. `Create` bring it up, `Call` stands for
every function of `mmal_vc_api.c` that sends a message and waits (with a dummy
transfer if it is a flush), `Send` for a buffer with data to be transferred
(`"data"`) or without (`"short"`), `Release` .. `DeinitLast` take it down. `Search`
finds a free waiter under the lock and `FreeWaiter` gives it back without, as the
code does. `dest` is where the reply to a waiter is copied, by `CopyReply`, before
`WakeWaiter` posts. VideoCore and VCHIQ are external: messages are delivered in their order
(`to_vc`, `from_vc`), a transfer belongs to the next message that has one
(`bulk_tx`), calls are answered in any order. `reply[t]` names the call that the
reply thread `t` got belongs to, `returning` the order in which VideoCore sent the buffers
back: both are there for the properties. A transfer refused after its message was
taken is left out: the code itself says that things go wrong then.

### MmalVcPort

`has_pool` is the flag of the port's module, `allocated` whether there is a pool of contexts:
the error path of an enable tells them apart. `free` counts the contexts in it. A buffer
is a message (`to_server`) and, unless it is short or its memory shared, a bulk transfer
(`bulks`) that completes later; a flush is either a message that is acted upon at once or one
that follows the transfers, as `flush_compatible`, `is_zero_copy` and `sent_data_on_port`
decide (`FlushRequest`). `overtaken` collects the data a flush has overtaken. What comes
back goes through `callback_queue`, emptied by the action thread or by a disable that holds its
lock. Committing a format reads back the settings of both ports, `is_enabled` with
them. The server is external: it answers in order, may refuse a call, and returns every
buffer of a port before it disables it.

### MmalGraph

A pipeline: connection `i` leads from component `i` to component `i + 1`. A graph is
used in one of two ways (`way`): enabled, it has a worker thread; built, it is a component,
whose action thread does the same work and whose ports (`graph_enabled`) stand for the two
ends. `step` and `cx` are where a thread is in a call on a connection, `wpc` and
`wcx` where the worker is in `graph_do_processing()`. A callback puts its buffer and
only then posts the semaphore (`returning`). `refcount` lets a client keep a connection
beyond its graph. Where `mmal_port.c` synchronises the calls of a port, steps are atomic.

### MmalWrapper

A callback queues a header, posts the semaphore, and only then is the header no longer in
transit; a get reads the status, the queue and the semaphore: three steps each, with no lock.
All ports, and the control port's errors, share the one semaphore, which refuses a post at
`MaxPosts`. `where[b]` says where a header is. A disable drains the port, flushes the
wrapper's queue and posts for each header; destruction does so for every port, joins the
component's thread and frees.

### CamControl and CameraApps

`CamControl` is the parameter block (`Defaults`, `CamParse`), the setters with their ranges
and what they make of a value (`Set`), and the demo (`CycleTest`), whose fall-through
from one parameter to the next is kept; reads behind the end of a mode table give `Garbage`.
`CameraApps` extends it with `main()`: `argi` is the token parsed next, `mpc` the place in
`main()`, and `comp`, `conn`, `file`, `pool` and
`complete_semaphore` what it has made so far. A connection
pointer that was destroyed is `"dangling"`, since the code goes on to look at it. Two
programs share the module, with the steps that differ told apart by `prog`. The buffer callback
(`cpc`, `cbuf`) writes, releases, gets and sends while main() goes on.

### CamICGame

A frame in memory is its number in each of its halves, which `memcpy` and `glTexImage2D`
pass one after the other: the callback's four copies (`Copy`) and the main loop's four
uploads (`Upload`) interleave freely, as nothing locks them. A texture is what its content
comes from (`texture`, `derived`), which the passes of `Draw()` hand on. Of the alignment the
model keeps that it yields any displacement of `Displacements`, or `NaN`. Cursor and square
are in half pixels, and `truncates` says whether the build's `abs()` drops the fraction, as
the one of the integers does.

## 3. What is checked

| run | instance | shows |
| --- | --- | --- |
| `port` | two pools of one header, one thread that enables, disables and flushes, one that pauses, two that send | the invariants of a port, its contract, and that a disable returns |
| `port_stale_link` | one pool of three headers | a header queued in a paused port drags its successor in the pool along (a violation) |
| `pool` | two threads, three headers, up to two references of a thread | counts exact, recycling, the queue's semaphore; calls return |
| `component` | two clients, of which one enables and disables, one port, two buffers or wake-ups, one failing call of the creation or destruction | freed only when unused and quiet, nothing left behind, wake-ups match, enabled means running; disables return, the last reference destroys |
| `vc_client` | two callers, one waiter, two buffers; opening the service and sending may fail | replies, transfers and claims are kept apart, buffers with data stay in order; calls return |
| `clock` | two clients, two slots, two times, scales 0 and 1 | slots, order, wake-ups; every request is called back, destruction returns |
| `tunnel` | a client with every call and a destruction that disconnects, both at the output port, two headers, one event, one failure | no pool is destroyed with a header missing, a disabled port is empty; calls return |
| `vc_port` | one thread that enables, disables and commits formats, one that flushes, two buffers, two contexts, one event, one failure | contexts are back when their pool is deleted, flushes overtake nothing, a disable gives everything back |
| `graph` | three components, two connections with a header each, one event, one failure, both ways to use a graph, a connection kept by the client | a disabled connection has its pool back, a destroyed graph is quiet, no wake-up is lost |
| `apps` | thirteen command lines, two buffers, three filled ones, one failure; a camera that takes every setting and one that refuses the effects | every way out unwinds, the callback uses only what exists, the demo puts settings back; a run that is to end does |
| `game` | two buffers, three frames, one hit, one failure; displacements in and out of the area and `NaN` | frames one apart at most, no stale texture, the cursor stays, the callback has what it needs |
| `wrapper` | an input and an output port with a header each, an event, a semaphore of two posts | no wake-up is lost, pools are whole, nothing freed is used; calls return |

Where a run names an invariant that ends in `Inv`, it is the type invariant together with the
properties of that component that belong together, each a definition of its own with its
comment: `PoolInv` (`RefcountExact`, `RecycledWhenFree`, `SemaphoreMatches`), `ComponentInv`
(`AliveWhileUsed`, `QuietWhenFreed`, `NothingLeft`, `EnabledRuns`), `ClientInv`
(`WaiterFound`, `ClaimedWhileUsed`), `ClockInv` (`SlotsConserved`, `PendingSorted`,
`WakeupCovers`, `NonePendingWhenFreed`), `TunnelInv` (`HeadersHome`, `DisabledIsEmpty`),
`VcPortInv` (`ContextsBack`), `GraphInv` (`PoolComplete`), `AppsInv` (`Unwinds`,
`SendsRealBuffers`, `DemoRestores`), `GameInv` (`NothingStale`, `SquareInTime`,
`CallbackReady`) and `WrapperInv` (`FreedQuiet`).

**Bounds.** Two senders and two headers are enough for a send to meet a send, a
return and a disable at once, and to queue two buffers in a paused port, so that
walks, partial resumes and flushes have a middle. Pools of one header keep the
links of pool and port apart (the three-header pool is what `port_stale_link`
needs). Three headers make a replica of a replica, the deepest nesting of releases
that can differ. Two clients are enough for two last references; `MaxWakeups = 2`
for a wake-up that is left over after a disable next to one that is needed (the safety
properties of `MmalComponent` were also checked with two ports). One waiter for two callers makes
one of them wait in `get_waiter()`; the safety properties of `MmalVcClient` were also
checked with three callers, two waiters and one buffer. Two buffers make one
overtake the other, in the transport and in a port of VideoCore, as two requests do in
the clock, where two times are enough for each to be early, due or tied. Two connections make
the worker go on to the next while the first fills up, and a middle component whose two
ports belong to different connections. Three frames make the third one the first that is
copied over an older image and template; the uploads are four steps against the callback's four copies,
so that each can come between any two of the other. One failure, anywhere, is enough to reach every way
out; a second one mostly fails on the way out, where the code looks at no status
(`MmalTunnelTwoFaults.cfg` is the case in which it matters).
The named bounds are `MaxRefs`, `MaxWakeups`, `MaxPosts` of the clock (clients post no more
than that before its thread runs), `MaxFaults`, `MaxEnables`, `MaxEvents`, `SemaMax`,
`MaxFrames` and `MaxHits`; `MaxPosts` of the wrapper is the code's own limit, made small.
Everything else is finite by itself.

**Fairness.** A thread inside a call runs on (WF). A mutex is given in the end to
a thread that keeps asking for it (SF), since the threads of the library hold locks
for a few statements only. A component returns the buffers it has, which
`pf_disable` and `pf_flush` demand of it (SF on `ReturnBuffer`, `Complete`, and `Return` of the
tunnel; in the wrapper for the headers of a disabled port alone, so that nothing is assumed of
the arrival of a frame). VideoCore takes its messages and answers every
call in the end, since the code waits for it without a timeout; it need not return any
buffer. A timer that stays set expires (WF on `TimerExpires`), and `Served` demands
a call back only if the media time stays past the request. In the programs `main()`, the callback
and the firmware run (WF). No client is obliged to call anything. The liveness of `component` also
assumes that clients stop sending at some time (`SendingStops`): the loop
in `mmal_vc_port_disable()` that drains the completion queue may be kept busy for
ever by the traffic of another port.

**Liveness beside the runs.** The state spaces of `vc_port` and `graph` are too large to check liveness
on them in reasonable time. `MmalVcPortReturns.cfg` checks, without events, that a disable
returns, and `MmalGraphReturns.cfg`, without failures, that every call on a graph
does *if the worker comes to rest again and again* (`WorkerRests`). It is needed:
the worker tests `stop_thread` only when it wakes up (`mmal_graph.c:107`), and
`MmalGraphBusy.cfg` shows a disable that waits for ever for a worker the components keep busy.

**Deadlock** is checked in all runs but four. In the pool all threads may
wait for a header of a pool that a failed resize left empty; a destroyed graph and a program
that has ended do nothing any more. `Finished` in `MmalComponent` and `ClockFinished`
in `MmalClock` are the end of what they model.

**Mutants.** Definitions named after the one they change with a suffix that says what they
get wrong (`DisablePostForgotten`, `FlushRequestSwapped`, `JoinedAlways`, ...) are bugs the code
might have had; for each property of a passing run, putting one of them in
place of its definition makes TLC find that property violated.

### Where the code disagrees with itself

Each of these is a configuration that ends in a violation; the first one is a run.

| configuration | property | what happens |
| --- | --- | --- |
| `MmalPortStaleLink.cfg` | `TransitNotNegative` | a header queued in a paused port keeps its link to the next header of its pool, and a flush returns that one too |
| `MmalPortFlushRace.cfg` | `OwnedOnce` | a flush and a disable on two threads return a buffer twice |
| `MmalPortEventRace.cfg` | `EventHasCallback` | an event is called through a callback that a disable has just cleared |
| `MmalPoolRefcountRace.cfg` | `RefcountExact` | two threads that share a header lose an update of its count |
| `MmalVcPortFormatRace.cfg` | `ContextsBack` | a commit on the input port reads `is_enabled` of the output port back and sets it while another thread disables that port: a buffer is sent meanwhile, and its context is missing when the pool is deleted (the assertion in `mmal_vc_api.c:311`) |
| `MmalTunnelTwoFaults.cfg` | `HeadersHome` | an enable that fails is refused the disable that undoes it, looks at no status and destroys the pool whose headers the port still has |
| `MmalClockReversed.cfg` | `EarliestAtFront` | the list of requests is in the wrong order once the scale has changed its sign |
| `MmalGraphRestart.cfg` | `NoLostWakeup` | `stop_thread` is never reset: the worker of a graph that is enabled again ends at once |
| `MmalGraphEnableRace.cfg` | `IsEnabledTrue` | the worker enables a connection again after a change of format while a client enables a port of the built component, and with it the same connection: the one that comes late is refused and marks it as disabled, with both its ports enabled |
| `MmalGraphBusy.cfg` | `CallsReturn` | see above |
| `CameraAppsStillPort.cfg` | `PortsDisabled` | RaspiStillYUV disables the video port instead of the still port it enabled |
| `CameraAppsRotation.cfg` | `RotationIsQuarterTurn` | a negative angle is sent as a negative quarter turn |

The runs that pass keep away from these: one thread both disables and flushes a port, no
two threads share a header, the scale keeps its sign, a graph is enabled once, one thread commits formats
and disables the ports of VideoCore, and one call on a tunnel fails. From both ends at once, the
calls on a tunnel deadlock on the two connection locks; the source calls from the output end
only, and so does `tunnel`. `ClaimedWhileUsed` holds if VCHIQ grants what it is asked for: the code
looks at the status of `mmal_vc_use()` nowhere.

Reading the code for the models also showed, without a property of their own: when there is no memory
for a component its reference to the core is lost, and `callback_queue` is never destroyed (the
exceptions in `NothingLeft`); a constructor that fails sends VideoCore a destroy message
with an uninitialised handle (`mmal_vc_api.c:1340`); `has_pool` survives the pool when an enable
fails (`mmal_vc_api.c:279`), which is why the model keeps `allocated` next to it; a send to a bad handle keeps its context (line 636);
`mmal_wrapper_cancel()` is declared and not defined; an error makes a get of the wrapper drop the header it took;
RaspiVid looks at a connection it has destroyed and at a pool that may be `NULL`; the demo
reads one entry behind its mode tables, which the tables of the camera then receive.

## 4. What is proved

All constants are arbitrary: any number of threads, pools, headers, ports, frames.

* `MmalPortProofs`: `TypeCorrect` (`Spec => []TypeOK`) and `TokenCorrect`
  (`Spec => []SemaphoreToken`). The token invariant adds to the property that only a
  disable with its pc at "post" holds the token, and that there is at most one,
  because a disable holds the port lock from start to end.
  Under the hypothesis `CleanClient` (headers are taken from
  pools of one header each, so that no stale link exists; the threads of different
  roles are different, but the one that disables is also the only one that flushes):
  `TransitCorrect` (`[]TransitAccount`), `CallbackCorrect` (`[]ReturnHasCallback`),
  `OwnershipCorrect` (`[]OwnedOnce`), `NoneLostCorrect` (`[]NoneLost`) and
  `ContractCorrect`: `MmalPort` implements `PortContract`, by the refinement mapping
  `Phase`, `Held`.
* `MmalTunnelProofs`: `DisabledEmpty` (`[](TypeOK /\ DisabledIsEmpty)`), whatever fails;
  `TunnelIsSound` (`[]TunnelInv`), under the hypothesis `[][UndoAccepted]_vars` (no failing enable
  is refused the disable that undoes it), and `OneFailure`: the same where `MaxFaults <= 1`.
* `MmalPoolProofs`, under `PoolAssumption`: `SemaphoreCorrect` (`[]SemaphoreMatches`), whatever is
  shared, and `PoolIsSound` (`[]PoolInv`) where no header is: `Shared = {}`. And of the game, whose
  frames such a pool carries, `MotionCorrect` (`[]MotionOfOneFrame`), `CursorCorrect`
  (`[]CursorStays`) and `GameIsSound` (`[]GameInv`), under `GameAssumption`.
* `MmalComponentProofs`: `ComponentIsSafe` (`[]ComponentInv`) and `WakeupIsPending`
  (`[]WakeupPending`), under `ComponentAssumption`: finitely many threads of the client. And of the
  clock `ClockIsCovered` (slots, wake-ups, destruction: `ClockInv` without the order of the requests),
  for any scales, and `ClockIsSound` (`[]ClockInv`) where the scale never changes its sign:
  `-1 \notin Scales`. `ClockAssumption` asks for finitely many clients.
* `MmalVcClientProofs`: `RepliesCorrect` (`[]RepliesReachCallers`), `WaitersCorrect`
  (`[]WaiterFound`), `TransfersCorrect` (`[]BulkFollowsMessage`) and `OrderCorrect` (`InSync`, an
  action property), under `VcClientAssumption`, whatever `MayFail` allows VCHIQ to refuse; and
  `ClientIsSafe` (`[]ClientInv`, with `ClaimedWhileUsed`) where it grants the claims.
* `MmalVcPortProofs`, under the hypothesis `OneCommits` (the thread that commits formats is the
  one that enables and disables ports): `PortIsSafe` (`[]VcPortInv`), `FlushCorrect`
  (`[]FlushInOrder`) and `GivesBackCorrect` (`[]DisableGivesBack`).
* `MmalWrapperProofs`: `WrapperCorrect` (`[]WrapperInv`), `WakeupCorrect`
  (`[]NoLostWakeup`) and `PoolCorrect` (`[]PoolWhole`), under `WrapperAssumption`. And of the Raspicam
  tools `AppsAreSound` (`[]AppsInv`) and `CallbackIsSafe` (`[]CallbackUsesLive`), for any command
  lines, buffers, failures and cameras that `AppsAssumption` and `CamAssumption` allow.
* `MmalGraphProofs`: `GraphIsSound` (`[]GraphInv`) and `QueuesAreServed` (what is queued has a
  wake-up until the thread is told to stop), whatever fails and however often a graph is enabled;
  `WakeupsCorrect` (`[]NoLostWakeup`) and `DestroyedCorrect` (`[]DestroyedQuiet`) under the hypothesis
  `OneEnabling`: a graph is enabled once, and no event comes before the first buffer of its port.

**The port.** The inductive invariant `ContractInv` is the conjunction of named parts: who holds
each lock at each place of each operation (`Locks`), when a callback is set
(`Callbacks`), which thread has which buffer in its hands (`Ownership`), what is in
the pools (`Pooled`), and the shape of the internal queue (`Lists`). The last is
needed because a walk reads the links of buffers that are given back
one by one: it says that the list from `queue_first`, or what is left of a walk,
is made of exactly the buffers at "queue", without repetition. `NoneLost` says what a walk
meets without recursion: a set of queued buffers closed under the links from where the
walk is holds all of them. All parts were first checked with TLC on the instance of the run `port`. The hypotheses of
`CleanClient` are necessary: `MmalPortStaleLink.cfg` and `MmalPortFlushRace.cfg` violate the
conclusions without them.

**The pool.** `SemaphoreInv` is the property and the types it is counted with: what the semaphore
and the list have in common changes in the same step everywhere but in `mmal_queue_wait()`,
whose tokens are counted apart; and nobody is there when a resize makes both anew.

The reference counts take `CountInv`. A header is `Stored` (in the queue, on its way into it, or cut
off by a resize), and then has the count 1 and no references, or its count is the number of its
references, of each of the three kinds (`Counted`); a header without references is in one place
only: the queue, `delayed`, or one release (`Placed`); a call within another one is the release of
what that other one recycles (`Nested`); and who acquires or replicates has a reference already
(`Acquiring`). That a load is still true when it is stored is no matter of one header: a replica
takes a reference with it to another thread. So there is an owner for each header, the same for a
replica as for what it stands for, until it has dropped it (`Owned`); a step chooses new owners where
a reference goes to another thread, and the family of what is handed over, a set closed under
`reference`, has them together. The hypothesis is necessary: with one shared header
`MmalPoolRefcountRace.cfg` loses an update. The sums over threads are cardinalities of sets with one
element for each reference, which need no induction.

**The component.** `ComponentIInv` begins with who has the component: any number of threads with
references, or one that creates or destroys it, alone (`Alone`). While it is used it is all
there, and its two counts are the numbers of references that the threads have (`Whole`); a
count is stated as the cardinality of a set with one element for each reference (`Tokens`), since
the prover cannot unfold a sum. One thread releases the last reference, when no other has one
(`OneReleaser`): from there on, only those ports are enabled that it has yet to disable
(`EnabledIsReferenced`), so that none is when it comes to `destroy`. `DisabledIsEmpty`,
`QueuedAreServed` and `TriggerForSomePort` say where the last buffers of a disabled port may
be. `PartsInv` and `GoneInv` are the account of what a creation has taken,
call by call, and `SectionInv` what the holder of the lock has done so far: the paused ports of a
component that is being enabled are those still to come.

**The transport.** `CallInv` says that a call is in one place at a time: sent, served, answered, being
copied, or there (`Single`), that the message in each place names the waiter of the thread it
comes from (`Wire`), that a waiter is in use by one thread from its search to its release
(`Waits`), and that nobody posts a waiter without such a thread (`Posted`). The first user of the client
makes the waiters anew, which would lose a post, so that `UsersInv` is needed too: the
reference count is the number of threads in the client. `Counted` is the argument behind
`get_waiter()`: what the semaphore has left, the threads it let through and those
that have given a waiter back without having posted yet make up the free waiters. `BulkInv` pairs the
k-th transfer with the k-th message that has one: the lock is held from before the message
to after its transfer (`Locks`), so that at most the last message is without. `ClaimInv` counts a
claim for each component and one for each call, which `mmal_vc_use()` must have granted. For the order of
the buffers `BufferInv` makes one line (`Line`) of those in the queue of bulk transfers and of
the messages behind them: a step adds at the end, takes from the line what is not data, or
takes the first of the data, and those of the line that are data or the end of the stream
are in the order in which VideoCore returned them (`Paired`). It rests on a buffer being in one place at
a time, from the port to VideoCore and back (`Apart`).

**The ports of VideoCore.** `VcPortIInv` is built in layers, each of which is preserved thanks to
those before it: the types; where the threads are and the locks they hold (`Places`); that a call
is in one place and says what its thread waits for (`CallInv`); that a buffer is in one place, in
one message or in the queue of callbacks (`BufferInv`); that the client and the server agree on
whether a port is enabled, but while a thread switches it (`SwitchInv`). The argument about a disable is `GoneInv`: as
`is_enabled` is false, no buffer of the port is sent behind the request (`Behind`); so the server, which
takes messages in order and transfers in order, has them all when it handles it; they are in front of the reply
on the way back; so they are in the queue of callbacks when the reply is read, and with the client
when the queue has been emptied. `CountInv` counts with that: the contexts missing from the pool are those of the
buffers on the wire or at the server. `FlushInv` says that data on its way is known to the port
(`sent_data_on_port`), and that a flush that is acted upon at once has none of its port around
it: the sending lock is held until its reply. Sequences are reasoned about through what a step does to
them, one message more, one less, or a port's buffers and a reply more (`Added`, `Taken`,
`Poured`). `OneCommits` is needed: `is_enabled` as another thread's commit reads it back may be older than
the disable that is under way, and `MmalVcPortFormatRace.cfg` violates the conclusion without it.

**The tunnel.** `PortsInv` counts in `Accounting` what is in transit at a port: the buffers that its
component has and the one it is giving back; `Carried` and `Kinds` say where the rest are. A
call that is past its checks has both connection locks, so that all others are before theirs
(`ControlInv`). Such a call has a list of what it has still to do (`todo`), and what
it leaves out of it is done: the ports that a call which disables has passed are
disabled (`EmptiedBy`), and disabled ports are empty. So are both when the call comes to the
destruction of the pool, whose headers are then nowhere but in it (`PoolsInv`). The one way to miss that is
an enable that fails half-way: the error path of `mmal_port_enable` (`mmal_port.c:453`) looks at no
status, so that a port that `pf_disable` leaves enabled there keeps the headers of the pool. That takes
two failures; `MmalTunnelTwoFaults.cfg` shows them, and `UndoAccepted` excludes them.

**The wrapper.** `IInv` adds to the properties what they leave unsaid of the steps before
and after the one they speak of: `Wakes`, that a get which has read a good status misses no error
that is reported before it waits; `Whole`, where the headers of a disabled port may be
while a call is clearing it; `Quiet`, that every port is disabled when the
component's thread is joined, and that all is idle afterwards.

**The clock.** `ClockIInv` says that a slot is in one place, the free list, a client's hands or
the list of requests (`SlotsApart`), who holds the clock's lock at each step (`Locking`), and how
far a destruction has come (`Ending`): the thread is joined before the lists are freed. `WakeupCovers`
is inductive with them: a request at the front that is due has a post, a timer or the thread on its way. The order
(`PendingSorted`) rests on an insertion going in front of the first request that is
later, which a scale of the opposite sign makes the wrong place; `MmalClockReversed.cfg` shows it.

**The Raspicam tools.** `AppsIInv` follows `main()` by its place: which components, connections
and file exist there (`Life`, `Links`, `File`), and which of them are enabled
(`Enabled`). `Account` counts the buffers: the callback takes one out of the pool only after it has put
one back, so that while `main()` sends `tosend` of them, the pool has at least as many. `Live` is what
`CallbackUsesLive` needs of the ways out: the port is disabled before the file is closed and the pool
destroyed. `Posts` says that the semaphore counts no more than the frames that came,
and `Camera` where the demo is: what it has set it takes back before it goes
on to the next setting, flips when the rotation is back.

**The graph.** `GraphIInv` says what a place may hold (`Kinds`, `Queued`, `Hands`): a header of a
connection is in its pool, at one of its ports, in its queue or in the worker's hands. `Calls`, `Places`,
`Stopped` and `References` say where the client and the worker can be at the same time. What a
disabling has passed holds no header of the connection any more (`Emptied`), so that none is missing
from the pool at its end. `CallDoes` describes every step of a call on a connection at once: what
becomes of its ports, its buffers and its flags; most invariants are shown to survive a call from it alone.

For the wake-ups, `QueueCovered` and `PoolCovered` say that what is queued, or what is back in a pool, has
a post, a callback about to post, or a worker that has still to come to the connection in its present
round (`VisitsQueue`, `VisitsPool`), whatever fails. That there is a worker to see it, and that the port the pool is
for is enabled, takes `OnceInv`: that nothing moves before the
first enabling (`Untouched`, `Fresh`), in which state a call on a connection leaves its two ports at
each step (`Switching`), that only a failure makes an enabling undo what it did (`Succeeds`), how far the
enabling of a graph has come (`Progress`), and what a graph that is enabled, disabled and
destroyed has in use (`InUse`, `QuietPorts`, `Holds`, `Gone`). A second enabling would meet a
`stop_thread` that nobody resets: `MmalGraphRestart.cfg` violates the conclusion then, which is
why `OneEnabling` is needed.

**The game.** `FramesInv` follows the copies (`Copying`: the image is the last frame, but for
the halves that are missing; the template is one behind, also in the middle of the copies) and
the uploads (`Overtaken`: what was uploaded of the image stays at most one ahead of the template
in memory, which never gets older, and so of the template uploaded after it). It needs the order of the uploads, image first:
`UploadsTemplateFirst` breaks it. `MovedStays` is the lemma behind the cursor: a move that leaves the
area is taken back, whatever was measured. Of `GameInv`, `Conserved` follows the headers: in the pool, at the
port, lost, or in the callback's hands, which puts one back before it takes one out; `Passes` follows
the textures through a turn; and `Timed` says that the time of a square never gets to zero.

Only model-checked: the refinement's fairness and every liveness property, which are out of the
prover's reach. Every invariant that a passing run checks is proved, those with a hypothesis under the
condition named above, which the instance of the run meets. The properties of the
configurations that end in a violation are false of the code.

## 5. What is not modelled

* Formats, events' contents, parameters, statistics and the supplier registry carry
  no state the properties could tell apart. The media time's arithmetic, and the buffers with
  which clock ports exchange it, are any value (`Elapse`).
* The reference count of a connection, which is changed under no lock, is used by one thread;
  graphs that are not pipelines; the parameters of a built component's ports.
* What follows an undefined access: a resize after one that failed, the NULL pool and
  the freed connection in the programs, which end as `"crashed"` where they dereference them.
* Shaders, vertex data, matrices and windows (`es*.c`, `matrix.h`): floating-point data of
  one thread. The alignment in the game may measure anything.
* Tables, conversions and text: OpenMAX IL, message names, logging, help texts, encoder
  parameters. Shared memory and opaque images are lookups around an allocator of the driver.
* The message checks of the transport, and VCHIQ's refusal of a transfer whose message it took.

`PROJECT.json` gives the status of each part under `components`, and under `map` the lines
each definition stands for.
