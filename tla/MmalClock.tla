------------------------------ MODULE MmalClock ------------------------------
(***************************************************************************)
(* A clock (core/mmal_clock.c): clients ask to be called back when the     *)
(* media time reaches some value; a thread of the clock serves the         *)
(* requests in order, woken up by a timer and by whatever may change what  *)
(* is due.                                                                 *)
(*                                                                         *)
(* Of a request there is the time at which it is due, media_time_adj; of   *)
(* the scale there is its sign.  Nothing is assumed of how the media time  *)
(* moves: it is updated by any thread, under no lock, from a counter that  *)
(* wraps, and set by the clients.                                          *)
(***************************************************************************)
EXTENDS Integers, Sequences, FiniteSets, SequencesExt

CONSTANTS
  ClockClients,       \* the threads that use the clock
  Slots,              \* the slots for requests, CLOCK_REQUEST_SLOTS of them
  Times,              \* media times, 0 not being one of them
  Scales,             \* the signs of the scales that the clients set
  MIN_TIMER_DELAY,    \* a request is served when it is due so soon
  discont_threshold, discont_duration,
  MaxPosts,           \* bound: posts to the semaphore that are pending
  Worker,             \* the thread of the clock
  NoHolder,           \* the holder of a free lock
  NoSlot              \* no slot in hand

ASSUME ClockAssumption ==
  /\ IsFiniteSet(ClockClients) /\ IsFiniteSet(Slots) /\ NoSlot \notin Slots
  /\ Times \subseteq Nat \ {0}
  /\ Scales \subseteq {-1, 0, 1}
  /\ MIN_TIMER_DELAY \in Nat /\ discont_threshold \in Nat /\ discont_duration \in Nat
  /\ MaxPosts \in Nat \ {0}
  /\ Worker \notin ClockClients /\ NoHolder \notin ClockClients \cup {Worker}

VARIABLES
  clock_allocated,           \* the clock has not been freed
  is_active, stop_thread, event,
  clock_lock,                \* the thread that holds the clock's lock
  timer,                     \* the timer is set
  scale, media_time,
  media_time_at_timer,       \* 0: it has not been set
  discont_start,             \* 0: no discontinuity is in effect
  list_free, list_pending,
  media_time_adj,            \* of each slot
  worker,                    \* where the thread of the clock is
  clock_pc, slot,            \* where each client is, and the slot it has in hand
  lost                       \* slots of requests refused as the clock is destroyed

lists   == <<list_free, list_pending, media_time_adj, lost>>
clients == <<clock_pc, slot>>
times   == <<media_time, media_time_at_timer, discont_start>>
clockvars == <<clock_allocated, is_active, stop_thread, event, clock_lock, timer, scale,
                  times, lists, worker, clients>>

ClockTypeOK ==
  /\ clock_allocated \in BOOLEAN /\ is_active \in BOOLEAN /\ stop_thread \in BOOLEAN
  /\ event \in 0 .. MaxPosts
  /\ clock_lock \in {Worker, NoHolder}
  /\ timer \in BOOLEAN
  /\ scale \in Scales \cup {1}
  /\ media_time \in Times /\ media_time_at_timer \in Times \cup {0}
  /\ discont_start \in Times \cup {0}
  /\ list_free \in Seq(Slots) /\ list_pending \in Seq(Slots)
  /\ media_time_adj \in [Slots -> Times]
  /\ worker \in {"wait", "check", "lock", "serve", "gone"}
  /\ clock_pc \in [ClockClients -> {"idle", "insert", "wake", "stop", "join", "free"}]
  /\ slot \in [ClockClients -> Slots \cup {NoSlot}]
  /\ lost \subseteq Slots

\* mmal_clock_create(): the scale is 1, and setting it wakes the thread.
ClockInit ==
  /\ clock_allocated = TRUE /\ is_active = FALSE /\ stop_thread = FALSE
  /\ event = 1
  /\ clock_lock = NoHolder /\ timer = FALSE
  /\ scale = 1
  /\ media_time \in Times
  /\ media_time_at_timer = 0 /\ discont_start = 0
  /\ list_free = SetToSeq(Slots) /\ list_pending = <<>>
  /\ media_time_adj = [s \in Slots |-> media_time]
  /\ worker = "wait"
  /\ clock_pc = [c \in ClockClients |-> "idle"]
  /\ slot = [c \in ClockClients |-> NoSlot]
  /\ lost = {}

ClockGoto(c, l) == clock_pc' = [clock_pc EXCEPT ![c] = l]

Room == event + Cardinality({c \in ClockClients : clock_pc[c] # "idle"}) < MaxPosts

Idle(c) == clock_pc[c] = "idle" /\ ~stop_thread

\* The media time moves on, or back if the scale is negative, or jumps.
Elapse(t) ==
  /\ worker # "gone"
  /\ media_time' = t
  /\ UNCHANGED <<clock_allocated, is_active, stop_thread, event, clock_lock, timer, scale,
                 media_time_at_timer, discont_start, lists, worker, clients>>

-----------------------------------------------------------------------------
(* What clients do.                                                        *)

\* mmal_clock_request_add() takes a slot, under the lock of the list only.
Add(c, t) ==
  /\ Idle(c) /\ Room
  /\ list_free # <<>>
  /\ slot' = [slot EXCEPT ![c] = Head(list_free)]
  /\ media_time_adj' = [media_time_adj EXCEPT ![Head(list_free)] = t]
  /\ list_free' = Tail(list_free)
  /\ ClockGoto(c, "insert")
  /\ UNCHANGED <<clock_allocated, is_active, stop_thread, event, clock_lock, timer, scale,
                 times, list_pending, lost, worker>>

\* mmal_clock_request_insert(): at the back if it is the last to be served, or else before
\* the first that is served after it.
Before(s, r) == IF scale >= 0 THEN media_time_adj[s] < media_time_adj[r]
                ELSE media_time_adj[s] > media_time_adj[r]

Position(s) ==
  LET after == {i \in DOMAIN list_pending : Before(s, list_pending[i])} IN
    IF list_pending = <<>> \/ ~Before(s, Last(list_pending)) THEN Len(list_pending) + 1
    ELSE CHOOSE i \in after : \A j \in after : i <= j

Insert(c) ==
  /\ clock_pc[c] = "insert"
  /\ clock_lock = NoHolder
  /\ ~stop_thread
  /\ list_pending' = InsertAt(list_pending, Position(slot[c]), slot[c])
  /\ slot' = [slot EXCEPT ![c] = NoSlot]
  /\ ClockGoto(c, "wake")
  /\ UNCHANGED <<clock_allocated, is_active, stop_thread, event, clock_lock, timer, scale,
                 times, list_free, media_time_adj, lost, worker>>

\* "the clock is being destroyed": the slot is not given back.
InsertRefused(c) ==
  /\ clock_pc[c] = "insert"
  /\ clock_lock = NoHolder
  /\ stop_thread
  /\ lost' = lost \cup {slot[c]}
  /\ slot' = [slot EXCEPT ![c] = NoSlot]
  /\ ClockGoto(c, "idle")
  /\ UNCHANGED <<clock_allocated, is_active, stop_thread, event, clock_lock, timer, scale,
                 times, list_free, list_pending, media_time_adj, worker>>

\* mmal_clock_wake_thread()
WakeThread(c) ==
  /\ clock_pc[c] = "wake"
  /\ event' = event + 1
  /\ ClockGoto(c, "idle")
  /\ UNCHANGED <<clock_allocated, is_active, stop_thread, clock_lock, timer, scale, times,
                 lists, worker, slot>>

\* mmal_clock_start() and mmal_clock_stop().
\* Mutant: the thread is left to its timer.
StartUnnoticed(c) ==
  /\ Idle(c)
  /\ is_active' = TRUE
  /\ UNCHANGED <<clock_allocated, stop_thread, event, clock_lock, timer, scale, times, lists,
                 worker, clients>>

Start(c) ==
  /\ Idle(c) /\ Room
  /\ is_active' = TRUE
  /\ ClockGoto(c, "wake")
  /\ UNCHANGED <<clock_allocated, stop_thread, event, clock_lock, timer, scale, times, lists,
                 worker, slot>>

Stop(c) ==
  /\ Idle(c)
  /\ is_active' = FALSE
  /\ UNCHANGED <<clock_allocated, stop_thread, event, clock_lock, timer, scale, times, lists,
                 worker, clients>>

\* mmal_clock_scale_set()
SetScale(c, s) ==
  /\ Idle(c) /\ Room
  /\ clock_lock = NoHolder
  /\ scale' = s
  /\ ClockGoto(c, "wake")
  /\ UNCHANGED <<clock_allocated, is_active, stop_thread, event, clock_lock, timer, times,
                 lists, worker, slot>>

\* mmal_clock_media_time_set() and mmal_clock_media_time_offset_set().
SetTime(c, t) ==
  /\ Idle(c) /\ Room
  /\ media_time' = t
  /\ ClockGoto(c, "wake")
  /\ UNCHANGED <<clock_allocated, is_active, stop_thread, event, clock_lock, timer, scale,
                 media_time_at_timer, discont_start, lists, worker, slot>>

\* mmal_clock_request_flush_locked(): every request is called back and its slot recycled.
FlushLocked ==
  /\ list_free' = list_free \o list_pending
  /\ list_pending' = <<>>
  /\ media_time_at_timer' = 0
  /\ UNCHANGED <<media_time_adj, lost>>

Flush(c) ==
  /\ Idle(c)
  /\ clock_lock = NoHolder
  /\ FlushLocked
  /\ UNCHANGED <<clock_allocated, is_active, stop_thread, event, clock_lock, timer, scale,
                 media_time, discont_start, worker, clients>>

\* mmal_clock_destroy(): the thread is told to stop and joined, the requests are flushed.
ClockDestroy(c) ==
  /\ Idle(c) /\ Room
  /\ stop_thread' = TRUE
  /\ ClockGoto(c, "stop")
  /\ UNCHANGED <<clock_allocated, is_active, event, clock_lock, timer, scale, times, lists,
                 worker, slot>>

DestroyWake(c) ==
  /\ clock_pc[c] = "stop"
  /\ event' = event + 1
  /\ ClockGoto(c, "join")
  /\ UNCHANGED <<clock_allocated, is_active, stop_thread, clock_lock, timer, scale, times,
                 lists, worker, slot>>

DestroyJoin(c) ==
  /\ clock_pc[c] = "join"
  /\ worker = "gone"
  /\ clock_lock = NoHolder
  /\ FlushLocked
  /\ ClockGoto(c, "free")
  /\ UNCHANGED <<clock_allocated, is_active, stop_thread, event, clock_lock, timer, scale,
                 media_time, discont_start, worker, slot>>

\* The clients make no calls on a clock that is freed.
DestroyFree(c) ==
  /\ clock_pc[c] = "free"
  /\ \A d \in ClockClients \ {c} : clock_pc[d] = "idle"
  /\ clock_allocated' = FALSE
  /\ ClockGoto(c, "idle")
  /\ UNCHANGED <<is_active, stop_thread, event, clock_lock, timer, scale, times, lists,
                 worker, slot>>

-----------------------------------------------------------------------------
(* The timer and the thread: mmal_clock_worker_thread() and                *)
(* mmal_clock_process_requests().                                          *)

TimerExpires ==
  /\ timer /\ Room
  /\ timer' = FALSE
  /\ event' = event + 1
  /\ UNCHANGED <<clock_allocated, is_active, stop_thread, clock_lock, scale, times, lists,
                 worker, clients>>

\* Mutant: the thread serves what it can before it looks at stop_thread.
WorkerWokenServes ==
  /\ worker = "wait"
  /\ event > 0
  /\ event' = event - 1
  /\ timer' = FALSE
  /\ worker' = IF stop_thread /\ list_pending = <<>> THEN "gone" ELSE "check"
  /\ UNCHANGED <<clock_allocated, is_active, stop_thread, clock_lock, scale, times, lists,
                 clients>>

WorkerWoken ==
  /\ worker = "wait"
  /\ event > 0
  /\ event' = event - 1
  /\ timer' = FALSE
  /\ worker' = IF stop_thread THEN "gone" ELSE "check"
  /\ UNCHANGED <<clock_allocated, is_active, stop_thread, clock_lock, scale, times, lists,
                 clients>>

NothingToServe ==
  /\ worker = "check"
  /\ list_pending = <<>> \/ ~is_active
  /\ worker' = "wait"
  /\ UNCHANGED <<clock_allocated, is_active, stop_thread, event, clock_lock, timer, scale,
                 times, lists, clients>>

\* Looked at before the lock is taken: by then the clock may be stopped, or be flushed.
SomethingToServe ==
  /\ worker = "check"
  /\ list_pending # <<>> /\ is_active
  /\ worker' = "lock"
  /\ UNCHANGED <<clock_allocated, is_active, stop_thread, event, clock_lock, timer, scale,
                 times, lists, clients>>

\* The media time jumped back by more than the threshold since the timer was set.
Discontinuity == /\ media_time_at_timer # 0
                 /\ scale > 0
                 /\ media_time + discont_threshold < media_time_at_timer

BeginServing ==
  /\ worker = "lock"
  /\ clock_lock = NoHolder
  /\ clock_lock' = Worker
  /\ worker' = "serve"
  /\ IF Discontinuity THEN discont_start' = media_time_at_timer /\ FlushLocked
     ELSE UNCHANGED <<discont_start, media_time_at_timer, lists>>
  /\ UNCHANGED <<clock_allocated, is_active, stop_thread, event, timer, scale, media_time,
                 clients>>

\* The time for which a discontinuity is in effect may be over whenever it is looked at.
Due(s, discont) ==
  \/ discont # 0 /\ media_time_adj[s] \in discont .. discont + discont_duration - 1
  \/ scale > 0 /\ media_time + MIN_TIMER_DELAY >= media_time_adj[s]
  \/ scale < 0 /\ media_time - MIN_TIMER_DELAY <= media_time_adj[s]

Serve ==
  /\ worker = "serve"
  /\ list_pending # <<>>
  /\ discont_start' \in {discont_start, 0}
  /\ Due(Head(list_pending), discont_start')
  /\ list_free' = Append(list_free, Head(list_pending))
  /\ list_pending' = Tail(list_pending)
  /\ UNCHANGED <<clock_allocated, is_active, stop_thread, event, clock_lock, timer, scale,
                 media_time, media_time_at_timer, media_time_adj, lost, worker, clients>>

\* Mutant: the timer is not set.
RescheduleUntimed ==
  /\ worker = "serve"
  /\ list_pending # <<>>
  /\ discont_start' \in {discont_start, 0}
  /\ ~Due(Head(list_pending), discont_start')
  /\ media_time_at_timer' = media_time
  /\ clock_lock' = NoHolder
  /\ worker' = "wait"
  /\ UNCHANGED <<clock_allocated, is_active, stop_thread, event, timer, scale, media_time,
                 lists, clients>>

\* "The next request is in the future, so re-schedule the timer".
Reschedule ==
  /\ worker = "serve"
  /\ list_pending # <<>>
  /\ discont_start' \in {discont_start, 0}
  /\ ~Due(Head(list_pending), discont_start')
  /\ timer' = TRUE
  /\ media_time_at_timer' = media_time
  /\ clock_lock' = NoHolder
  /\ worker' = "wait"
  /\ UNCHANGED <<clock_allocated, is_active, stop_thread, event, scale, media_time, lists,
                 clients>>

AllServed ==
  /\ worker = "serve"
  /\ list_pending = <<>>
  /\ clock_lock' = NoHolder
  /\ worker' = "wait"
  /\ UNCHANGED <<clock_allocated, is_active, stop_thread, event, timer, scale, times, lists,
                 clients>>

-----------------------------------------------------------------------------
Begins(c) == \/ \E t \in Times : Add(c, t) \/ SetTime(c, t)
             \/ \E s \in Scales : SetScale(c, s)
             \/ Start(c) \/ Stop(c) \/ Flush(c) \/ ClockDestroy(c)

ClockGoesOn(c) == \/ Insert(c) \/ InsertRefused(c) \/ WakeThread(c)
             \/ DestroyWake(c) \/ DestroyJoin(c) \/ DestroyFree(c)

WorkerRuns == \/ WorkerWoken \/ NothingToServe \/ SomethingToServe \/ BeginServing
              \/ Serve \/ Reschedule \/ AllServed

ClockFinished == ~clock_allocated /\ UNCHANGED clockvars

ClockNext == \/ \E c \in ClockClients : Begins(c) \/ ClockGoesOn(c)
        \/ \E t \in Times : Elapse(t)
        \/ TimerExpires \/ WorkerRuns
        \/ ClockFinished

ClockSpec == ClockInit /\ [][ClockNext]_clockvars

\* Threads run on, the lock goes in the end to who waits for it, a timer that stays set
\* expires.  No client has to do anything.
ClockFairness ==
  /\ \A c \in ClockClients : SF_clockvars(ClockGoesOn(c))
  /\ SF_clockvars(WorkerRuns) /\ WF_clockvars(TimerExpires)

ClockFairSpec == ClockSpec /\ ClockFairness

-----------------------------------------------------------------------------
(* Properties.                                                             *)

Pending == Range(list_pending)

\* Every slot is free, or is that of one pending request, or in the hands of a client that
\* adds one: none is lost but as the clock is destroyed, none is used twice.
SlotsConserved ==
  /\ IsInjective(list_free \o list_pending)
  /\ \A s \in Slots :
       Cardinality({x \in {<<"free">>, <<"pending">>, <<"lost">>}
                           \cup {<<"client", c>> : c \in ClockClients} :
                      \/ x = <<"free">> /\ s \in Range(list_free)
                      \/ x = <<"pending">> /\ s \in Pending
                      \/ x = <<"lost">> /\ s \in lost
                      \/ x[1] = "client" /\ slot[x[2]] = s}) = 1
  /\ lost # {} => stop_thread

\* The requests are in the order of their times, whatever the order they came in, as long
\* as the media time runs one way: the timer is set for the first of them alone.
PendingSorted ==
  \A i, j \in DOMAIN list_pending :
    i < j => media_time_adj[list_pending[i]] <= media_time_adj[list_pending[j]]

\* "Earliest request is always at the front": no request comes before the first.
EarliestAtFront == \A s \in Pending : ~Before(s, Head(list_pending))

\* While the clock is active and has requests, its thread is awake, or will be: by a post,
\* a client that is about to post, or the timer.
WakeupCovers ==
  is_active /\ list_pending # <<>> /\ ~stop_thread =>
    \/ event > 0 \/ timer \/ worker \in {"check", "lock", "serve"}
    \/ \E c \in ClockClients : clock_pc[c] = "wake"

\* A clock that is freed has called back every request it accepted.
NonePendingWhenFreed == ~clock_allocated => list_pending = <<>> /\ worker = "gone"

\* A request is called back once the media time stays past it, or it is flushed, or the
\* clock stopped.
Served ==
  \A s \in Slots :
    <>[](is_active /\ ~stop_thread /\ scale > 0 /\ media_time >= media_time_adj[s])
      => []<>(s \notin Pending)

\* Destroying a clock returns, whatever its thread and the other clients were doing.
DestroyReturns == stop_thread ~> ~clock_allocated

\* The clock is sound: no slot is lost, its requests stay in order, its thread never sleeps
\* through one and it is freed with none.
ClockInv ==
  ClockTypeOK /\ SlotsConserved /\ PendingSorted /\ WakeupCovers /\ NonePendingWhenFreed
=============================================================================
