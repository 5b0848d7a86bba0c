------------------------------ MODULE MmalPort ------------------------------
(***************************************************************************)
(* One unconnected MMAL port (core/mmal_port.c): enabling, disabling,      *)
(* sending, flushing, pausing and resuming it, and the return of its       *)
(* buffers by the component's action thread, run by concurrent threads     *)
(* that synchronise as the code does: the port lock, the sending lock, the *)
(* component's action lock, and the counter of buffers in transit with its *)
(* semaphore (IN_TRANSIT_* in mmal_port.c).                                *)
(*                                                                         *)
(* The internal queue of a paused port is the linked list of the code:     *)
(* queue_first, queue_last and the `next' link inside each header, which   *)
(* is the very link that mmal_queue.c uses for the queue of the pool the   *)
(* header comes from.  mmal_queue_get() does not reset it.                 *)
(***************************************************************************)
EXTENDS Integers, Sequences, FiniteSets

CONSTANTS
  Buffers,       \* buffer headers
  Pools,         \* the client's pools
  Headers,       \* Headers[p]: the headers of pool p, as mmal_pool_create queues them
  Controllers,   \* threads that enable and disable the port
  Flushers,      \* threads that flush it
  Pausers,       \* threads in mmal_component_enable/disable: they pause and resume it
  Senders,       \* threads that send buffers of the pools
  ActionThread,  \* the component's action thread, which returns buffers
  NoBuffer,      \* the null buffer pointer; as a queue_last, &core->queue_first
  NoThread       \* the holder of a free lock

Threads == Controllers \cup Flushers \cup Pausers \cup Senders \cup {ActionThread}

ASSUME ConstantsAssumption ==
  /\ NoBuffer \notin Buffers
  /\ NoThread \notin Threads
  /\ Headers \in [Pools -> Seq(Buffers)]
  /\ ActionThread \notin Controllers \cup Flushers \cup Pausers \cup Senders

VARIABLES
  \* the port
  is_enabled, is_paused,
  callback,                  \* buffer_header_callback is not NULL
  queue_first, queue_last,   \* internal queue of a paused port
  transit_buffer_headers, transit_sema,
  port_lock, send_lock, action_lock,   \* the thread that holds it, or NoThread
  \* the buffer headers
  next,                      \* the link inside each header
  at,                        \* where each header is
  pool,                      \* pool[p]: the headers in the queue of pool p
  \* the threads
  op, pc,                    \* the operation each thread runs, and where it is in it
  buffer, saved              \* its local variables `buffer' and `next'

queue   == <<queue_first, queue_last>>
transit == <<transit_buffer_headers, transit_sema>>
locks   == <<port_lock, send_lock, action_lock>>
headers == <<next, at, pool>>
flags   == <<is_enabled, is_paused, callback>>
control == <<op, pc, buffer, saved>>
vars    == <<flags, queue, transit, locks, headers, control>>

Places == {"pool", "sender", "queue", "component", "callback"}
Labels == {"idle", "start", "deliver", "unlock", "enable", "off", "stop", "restore",
           "take", "walk", "callback", "decrement", "wait", "post", "clear",
           "flush", "resend", "event"}
Operations == {"none", "send", "enable", "disable", "flush", "resume", "return", "event"}

TypeOK ==
  /\ is_enabled \in BOOLEAN /\ is_paused \in BOOLEAN /\ callback \in BOOLEAN
  /\ queue_first \in Buffers \cup {NoBuffer}
  /\ queue_last \in Buffers \cup {NoBuffer}
  /\ transit_buffer_headers \in Int
  /\ transit_sema \in {0, 1}
  /\ port_lock \in Threads \cup {NoThread}
  /\ send_lock \in Threads \cup {NoThread}
  /\ action_lock \in Threads \cup {NoThread}
  /\ next \in [Buffers -> Buffers \cup {NoBuffer}]
  /\ at \in [Buffers -> Places]
  /\ pool \in [Pools -> Seq(Buffers)]
  /\ op \in [Threads -> Operations]
  /\ pc \in [Threads -> Labels]
  /\ buffer \in [Threads -> Buffers \cup {NoBuffer}]
  /\ saved \in [Threads -> Buffers \cup {NoBuffer}]

-----------------------------------------------------------------------------
(* Pools and semaphores.                                                   *)

\* The successor of a header in the queue of a freshly created pool.
InitialNext(b) ==
  IF \E p \in Pools : \E i \in 1 .. Len(Headers[p]) - 1 : Headers[p][i] = b
  THEN CHOOSE n \in Buffers :
         \E p \in Pools : \E i \in 1 .. Len(Headers[p]) - 1 :
            Headers[p][i] = b /\ Headers[p][i + 1] = n
  ELSE NoBuffer

\* mmal_queue_put() on the queue of the pool b belongs to: the link of the last
\* header of that queue, and b's own, are written.
PoolPut(b) ==
  \E p \in Pools :
    /\ \E i \in 1 .. Len(Headers[p]) : Headers[p][i] = b
    /\ pool' = [pool EXCEPT ![p] = Append(@, b)]
    /\ next' = [x \in Buffers |->
                  IF x = b THEN NoBuffer
                  ELSE IF pool[p] # <<>> /\ x = pool[p][Len(pool[p])] THEN b
                  ELSE next[x]]
    /\ at' = [at EXCEPT ![b] = "pool"]

\* IN_TRANSIT_INCREMENT: the first buffer takes the semaphore, which must be there.
CanIncrement == transit_buffer_headers = 0 => transit_sema > 0

Increment ==
  /\ transit_buffer_headers' = transit_buffer_headers + 1
  /\ transit_sema' = IF transit_buffer_headers = 0 THEN transit_sema - 1 ELSE transit_sema

\* Mutant: every returned buffer posts the semaphore, not the last one only.
DecrementAlwaysPosts ==
  /\ transit_buffer_headers' = transit_buffer_headers - 1
  /\ transit_sema' = transit_sema + 1

\* IN_TRANSIT_DECREMENT: the last buffer posts it.
Decrement ==
  /\ transit_buffer_headers' = transit_buffer_headers - 1
  /\ transit_sema' = IF transit_buffer_headers = 1 THEN transit_sema + 1 ELSE transit_sema

-----------------------------------------------------------------------------
(* Control flow of the threads.                                            *)

Begin(t, o, l) == /\ op' = [op EXCEPT ![t] = o]
                  /\ pc' = [pc EXCEPT ![t] = l]

Goto(t, l) == pc' = [pc EXCEPT ![t] = l] /\ UNCHANGED op

End(t) == Begin(t, "none", "idle")

Running(t, o, l) == op[t] = o /\ pc[t] = l

Idle(t) == Running(t, "none", "idle")

SetBuffer(t, b) == buffer' = [buffer EXCEPT ![t] = b]

EmptyQueue == queue_first' = NoBuffer /\ queue_last' = NoBuffer

Init ==
  /\ is_enabled = FALSE /\ is_paused = FALSE /\ callback = FALSE
  /\ queue_first = NoBuffer /\ queue_last = NoBuffer
  /\ transit_buffer_headers = 0 /\ transit_sema = 1
  /\ port_lock = NoThread /\ send_lock = NoThread /\ action_lock = NoThread
  /\ next = [b \in Buffers |-> InitialNext(b)]
  /\ at = [b \in Buffers |-> "pool"]
  /\ pool = Headers
  /\ op = [t \in Threads |-> "none"]
  /\ pc = [t \in Threads |-> "idle"]
  /\ buffer = [t \in Threads |-> NoBuffer]
  /\ saved = [t \in Threads |-> NoBuffer]

-----------------------------------------------------------------------------
(* mmal_port_send_buffer(), by a client that takes the buffer from a pool  *)
(* and releases it to the pool again when the send fails.                  *)

TakeFromPool(s) ==
  /\ Idle(s)
  /\ \E p \in Pools :
       /\ pool[p] # <<>>
       /\ pool' = [pool EXCEPT ![p] = Tail(@)]
       /\ at' = [at EXCEPT ![Head(pool[p])] = "sender"]
       /\ SetBuffer(s, Head(pool[p]))
  /\ Begin(s, "send", "start")
  /\ UNCHANGED <<flags, queue, transit, locks, next, saved>>

SendRejected(s) ==
  /\ Running(s, "send", "start")
  /\ send_lock = NoThread
  /\ ~is_enabled
  /\ PoolPut(buffer[s])
  /\ SetBuffer(s, NoBuffer)
  /\ End(s)
  /\ UNCHANGED <<flags, queue, transit, locks, saved>>

SendStart(s) ==
  /\ Running(s, "send", "start")
  /\ send_lock = NoThread
  /\ is_enabled
  /\ CanIncrement
  /\ Increment
  /\ send_lock' = s
  /\ Goto(s, "deliver")
  /\ UNCHANGED <<flags, queue, port_lock, action_lock, headers, buffer, saved>>

\* On a paused port: *queue_last = buffer; queue_last = &buffer->next.
SendQueued(s) ==
  /\ Running(s, "send", "deliver")
  /\ is_paused
  /\ queue_last' = buffer[s]
  /\ IF queue_last = NoBuffer
       THEN queue_first' = buffer[s] /\ UNCHANGED next
       ELSE next' = [next EXCEPT ![queue_last] = buffer[s]] /\ UNCHANGED queue_first
  /\ at' = [at EXCEPT ![buffer[s]] = "queue"]
  /\ Goto(s, "unlock")
  /\ UNCHANGED <<flags, transit, locks, pool, buffer, saved>>

SendAccepted(s) ==
  /\ Running(s, "send", "deliver")
  /\ ~is_paused
  /\ at' = [at EXCEPT ![buffer[s]] = "component"]
  /\ Goto(s, "unlock")
  /\ UNCHANGED <<flags, queue, transit, locks, next, pool, buffer, saved>>

\* Mutant: a refused buffer stays counted as in transit.
SendRefusedStaysCounted(s) ==
  /\ Running(s, "send", "deliver")
  /\ ~is_paused
  /\ send_lock' = NoThread
  /\ PoolPut(buffer[s])
  /\ SetBuffer(s, NoBuffer)
  /\ End(s)
  /\ UNCHANGED <<flags, queue, transit, port_lock, action_lock, saved>>

\* pf_send fails: the buffer stays with the client.
SendRefused(s) ==
  /\ Running(s, "send", "deliver")
  /\ ~is_paused
  /\ Decrement
  /\ send_lock' = NoThread
  /\ PoolPut(buffer[s])
  /\ SetBuffer(s, NoBuffer)
  /\ End(s)
  /\ UNCHANGED <<flags, queue, port_lock, action_lock, saved>>

SendEnd(s) ==
  /\ Running(s, "send", "unlock")
  /\ send_lock' = NoThread
  /\ SetBuffer(s, NoBuffer)
  /\ End(s)
  /\ UNCHANGED <<flags, queue, transit, port_lock, action_lock, headers, saved>>

-----------------------------------------------------------------------------
(* Buffers on their way back to the client.                                *)

\* mmal_component_action_thread_func: the component is done with b, and the
\* action thread returns it, holding the action lock.
ReturnBuffer(b) ==
  /\ Idle(ActionThread)
  /\ action_lock = NoThread
  /\ at[b] = "component"
  /\ action_lock' = ActionThread
  /\ at' = [at EXCEPT ![b] = "callback"]
  /\ SetBuffer(ActionThread, b)
  /\ Begin(ActionThread, "return", "callback")
  /\ UNCHANGED <<flags, queue, transit, port_lock, send_lock, next, pool, saved>>

\* mmal_port_buffer_header_callback(): the client's callback releases the
\* buffer, which goes back to its pool.  A NULL callback has no step.
Callback(t) ==
  /\ pc[t] = "callback"
  /\ callback
  /\ PoolPut(buffer[t])
  /\ Goto(t, "decrement")
  /\ UNCHANGED <<flags, queue, transit, locks, buffer, saved>>

\* ... and the counter goes down only once the callback has returned.
ReturnDone ==
  /\ Running(ActionThread, "return", "decrement")
  /\ Decrement
  /\ action_lock' = NoThread
  /\ SetBuffer(ActionThread, NoBuffer)
  /\ End(ActionThread)
  /\ UNCHANGED <<flags, queue, port_lock, send_lock, headers, saved>>

\* The loops of mmal_port_flush() and mmal_port_disable_internal() over the
\* internal queue: the link is read before the callback is called.
WalkNext(t) ==
  /\ pc[t] = "walk"
  /\ buffer[t] # NoBuffer
  /\ saved' = [saved EXCEPT ![t] = next[buffer[t]]]
  /\ at' = [at EXCEPT ![buffer[t]] = "callback"]
  /\ Goto(t, "callback")
  /\ UNCHANGED <<flags, queue, transit, locks, next, pool, buffer>>
\* Mutant: the buffers of the internal queue are returned but not discounted.
WalkDoneStaysCounted(t) ==
  /\ op[t] \in {"flush", "disable"}
  /\ pc[t] = "decrement"
  /\ SetBuffer(t, saved[t])
  /\ saved' = [saved EXCEPT ![t] = NoBuffer]
  /\ Goto(t, "walk")
  /\ UNCHANGED <<flags, queue, transit, locks, headers>>

WalkDone(t) ==
  /\ op[t] \in {"flush", "disable"}
  /\ pc[t] = "decrement"
  /\ Decrement
  /\ SetBuffer(t, saved[t])
  /\ saved' = [saved EXCEPT ![t] = NoBuffer]
  /\ Goto(t, "walk")
  /\ UNCHANGED <<flags, queue, locks, headers>>

-----------------------------------------------------------------------------
(* mmal_port_enable(), mmal_port_enable_internal().                        *)

EnableStart(c) ==
  /\ Idle(c)
  /\ port_lock = NoThread
  /\ ~is_enabled
  /\ port_lock' = c
  /\ callback' = TRUE
  /\ Begin(c, "enable", "enable")
  /\ UNCHANGED <<is_enabled, is_paused, queue, transit, send_lock, action_lock, headers,
                 buffer, saved>>

EnableDone(c) ==
  /\ Running(c, "enable", "enable")
  /\ send_lock = NoThread
  /\ is_enabled' = TRUE
  /\ port_lock' = NoThread
  /\ End(c)
  /\ UNCHANGED <<is_paused, callback, queue, transit, send_lock, action_lock, headers,
                 buffer, saved>>

\* pf_enable fails: the callback stays set on the disabled port.
EnableFailed(c) ==
  /\ Running(c, "enable", "enable")
  /\ port_lock' = NoThread
  /\ End(c)
  /\ UNCHANGED <<flags, queue, transit, send_lock, action_lock, headers, buffer, saved>>

-----------------------------------------------------------------------------
(* mmal_port_disable(), mmal_port_disable_internal().                      *)

DisableStart(c) ==
  /\ Idle(c)
  /\ port_lock = NoThread
  /\ is_enabled
  /\ port_lock' = c
  /\ Begin(c, "disable", "off")
  /\ UNCHANGED <<flags, queue, transit, send_lock, action_lock, headers, buffer, saved>>

DisableOff(c) ==
  /\ Running(c, "disable", "off")
  /\ send_lock = NoThread
  /\ is_enabled' = FALSE
  /\ Goto(c, "stop")
  /\ UNCHANGED <<is_paused, callback, queue, transit, locks, headers, buffer, saved>>

\* pf_disable, between mmal_component_action_lock and _unlock, succeeds or fails.
DisableStop(c) ==
  /\ Running(c, "disable", "stop")
  /\ action_lock = NoThread
  /\ \E l \in {"take", "restore"} : Goto(c, l)
  /\ UNCHANGED <<flags, queue, transit, locks, headers, buffer, saved>>

DisableRestore(c) ==
  /\ Running(c, "disable", "restore")
  /\ send_lock = NoThread
  /\ is_enabled' = TRUE
  /\ port_lock' = NoThread
  /\ End(c)
  /\ UNCHANGED <<is_paused, callback, queue, transit, send_lock, action_lock, headers,
                 buffer, saved>>

\* The internal queue is read, walked (WalkNext, Callback, WalkDone) and emptied
\* without the sending lock.
DisableTake(c) ==
  /\ Running(c, "disable", "take")
  /\ SetBuffer(c, queue_first)
  /\ Goto(c, "walk")
  /\ UNCHANGED <<flags, queue, transit, locks, headers, saved>>
\* Mutant: the callback is cleared before the buffers in transit are waited for.
DisableEmptyClearsEarly(c) ==
  /\ Running(c, "disable", "walk")
  /\ buffer[c] = NoBuffer
  /\ EmptyQueue
  /\ callback' = FALSE
  /\ Goto(c, "wait")
  /\ UNCHANGED <<is_enabled, is_paused, transit, locks, headers, buffer, saved>>

DisableEmpty(c) ==
  /\ Running(c, "disable", "walk")
  /\ buffer[c] = NoBuffer
  /\ EmptyQueue
  /\ Goto(c, "wait")
  /\ UNCHANGED <<flags, transit, locks, headers, buffer, saved>>

\* Mutant: the disable does not wait for the buffers in transit.
DisableWaitSkipped(c) ==
  /\ Running(c, "disable", "wait")
  /\ Goto(c, "clear")
  /\ UNCHANGED <<flags, queue, transit, locks, headers, buffer, saved>>

\* IN_TRANSIT_WAIT takes the semaphore and gives it back.
DisableWait(c) ==
  /\ Running(c, "disable", "wait")
  /\ transit_sema > 0
  /\ transit_sema' = transit_sema - 1
  /\ Goto(c, "post")
  /\ UNCHANGED <<flags, queue, transit_buffer_headers, locks, headers, buffer, saved>>
\* Mutant: IN_TRANSIT_WAIT keeps the semaphore.
DisablePostForgotten(c) ==
  /\ Running(c, "disable", "post")
  /\ Goto(c, "clear")
  /\ UNCHANGED <<flags, queue, transit, locks, headers, buffer, saved>>

DisablePost(c) ==
  /\ Running(c, "disable", "post")
  /\ transit_sema' = transit_sema + 1
  /\ Goto(c, "clear")
  /\ UNCHANGED <<flags, queue, transit_buffer_headers, locks, headers, buffer, saved>>

DisableClear(c) ==
  /\ Running(c, "disable", "clear")
  /\ callback' = FALSE
  /\ port_lock' = NoThread
  /\ End(c)
  /\ UNCHANGED <<is_enabled, is_paused, queue, transit, send_lock, action_lock, headers,
                 buffer, saved>>

-----------------------------------------------------------------------------
(* mmal_port_flush(): the component is asked to return its buffers, and the *)
(* internal queue is taken away under the sending lock, then walked.       *)

FlushStart(f) ==
  /\ Idle(f)
  /\ action_lock = NoThread
  /\ action_lock' = f
  /\ Begin(f, "flush", "flush")
  /\ UNCHANGED <<flags, queue, transit, port_lock, send_lock, headers, buffer, saved>>
\* Mutant: the internal queue is walked but not emptied.
FlushTakeLeavesQueue(f) ==
  /\ Running(f, "flush", "flush")
  /\ send_lock = NoThread
  /\ SetBuffer(f, queue_first)
  /\ action_lock' = NoThread
  /\ Goto(f, "walk")
  /\ UNCHANGED <<flags, queue, transit, port_lock, send_lock, headers, saved>>

FlushTake(f) ==
  /\ Running(f, "flush", "flush")
  /\ send_lock = NoThread
  /\ SetBuffer(f, queue_first)
  /\ EmptyQueue
  /\ action_lock' = NoThread
  /\ Goto(f, "walk")
  /\ UNCHANGED <<flags, transit, port_lock, send_lock, headers, saved>>

\* pf_flush fails.
FlushFailed(f) ==
  /\ Running(f, "flush", "flush")
  /\ send_lock = NoThread
  /\ action_lock' = NoThread
  /\ End(f)
  /\ UNCHANGED <<flags, queue, transit, port_lock, send_lock, headers, buffer, saved>>

FlushEnd(f) ==
  /\ Running(f, "flush", "walk")
  /\ buffer[f] = NoBuffer
  /\ End(f)
  /\ UNCHANGED <<flags, queue, transit, locks, headers, buffer, saved>>

-----------------------------------------------------------------------------
(* mmal_port_pause(), called by mmal_component_disable() and _enable().    *)

Pause(p) ==
  /\ Idle(p)
  /\ send_lock = NoThread
  /\ is_paused' = TRUE
  /\ UNCHANGED <<is_enabled, callback, queue, transit, locks, headers, control>>

ResumeDisabled(p) ==
  /\ Idle(p)
  /\ send_lock = NoThread
  /\ ~is_enabled
  /\ is_paused' = FALSE
  /\ UNCHANGED <<is_enabled, callback, queue, transit, locks, headers, control>>

ResumeStart(p) ==
  /\ Idle(p)
  /\ send_lock = NoThread
  /\ is_enabled
  /\ send_lock' = p
  /\ SetBuffer(p, queue_first)
  /\ Begin(p, "resume", "resend")
  /\ UNCHANGED <<flags, queue, transit, port_lock, action_lock, headers, saved>>

\* The buffers of the internal queue were counted when they were sent.
ResumeSend(p) ==
  /\ Running(p, "resume", "resend")
  /\ buffer[p] # NoBuffer
  /\ at' = [at EXCEPT ![buffer[p]] = "component"]
  /\ SetBuffer(p, next[buffer[p]])
  /\ UNCHANGED <<flags, queue, transit, locks, next, pool, op, pc, saved>>

\* Mutant: a resume that fails empties the queue as one that succeeds does.
ResumeFailedEmpties(p) ==
  /\ Running(p, "resume", "resend")
  /\ buffer[p] # NoBuffer
  /\ EmptyQueue
  /\ send_lock' = NoThread
  /\ SetBuffer(p, NoBuffer)
  /\ End(p)
  /\ UNCHANGED <<flags, transit, port_lock, action_lock, headers, saved>>

\* pf_send fails: this buffer and those after it stay queued, the port paused.
ResumeFailed(p) ==
  /\ Running(p, "resume", "resend")
  /\ buffer[p] # NoBuffer
  /\ queue_first' = buffer[p]
  /\ send_lock' = NoThread
  /\ SetBuffer(p, NoBuffer)
  /\ End(p)
  /\ UNCHANGED <<flags, queue_last, transit, port_lock, action_lock, headers, saved>>

ResumeEnd(p) ==
  /\ Running(p, "resume", "resend")
  /\ buffer[p] = NoBuffer
  /\ EmptyQueue
  /\ is_paused' = FALSE
  /\ send_lock' = NoThread
  /\ End(p)
  /\ UNCHANGED <<is_enabled, callback, transit, port_lock, action_lock, headers, buffer,
                 saved>>

-----------------------------------------------------------------------------
(* mmal_port_event_send(), by the action thread (mmal_vc_do_callback): the *)
(* callback pointer is tested and then read again, under no lock that      *)
(* mmal_port_disable() holds when it clears the pointer.                   *)

EventTest ==
  /\ Idle(ActionThread)
  /\ action_lock = NoThread
  /\ callback
  /\ action_lock' = ActionThread
  /\ Begin(ActionThread, "event", "event")
  /\ UNCHANGED <<flags, queue, transit, port_lock, send_lock, headers, buffer, saved>>

EventCall ==
  /\ Running(ActionThread, "event", "event")
  /\ callback
  /\ action_lock' = NoThread
  /\ End(ActionThread)
  /\ UNCHANGED <<flags, queue, transit, port_lock, send_lock, headers, buffer, saved>>

-----------------------------------------------------------------------------
Send(s) == \/ TakeFromPool(s) \/ SendRejected(s) \/ SendStart(s) \/ SendQueued(s)
           \/ SendAccepted(s) \/ SendRefused(s) \/ SendEnd(s)

Return == ReturnDone \/ \E b \in Buffers : ReturnBuffer(b)

Walk(t) == Callback(t) \/ WalkNext(t) \/ WalkDone(t)

Enable(c) == EnableStart(c) \/ EnableDone(c) \/ EnableFailed(c)

\* The steps of a disable that has begun, those of its walk apart.
DisableGoesOn(c) ==
  \/ DisableOff(c) \/ DisableStop(c) \/ DisableRestore(c) \/ DisableTake(c)
  \/ DisableEmpty(c) \/ DisableWait(c) \/ DisablePost(c) \/ DisableClear(c)

Flush(f) == FlushStart(f) \/ FlushTake(f) \/ FlushFailed(f) \/ FlushEnd(f)

PauseOrResume(p) == \/ Pause(p) \/ ResumeDisabled(p) \/ ResumeStart(p)
                    \/ ResumeSend(p) \/ ResumeFailed(p) \/ ResumeEnd(p)

Next == \/ \E s \in Senders : Send(s)
        \/ Return
        \/ \E t \in Threads : Walk(t)
        \/ \E c \in Controllers : Enable(c) \/ DisableStart(c) \/ DisableGoesOn(c)
        \/ \E f \in Flushers : Flush(f)
        \/ \E p \in Pausers : PauseOrResume(p)

Spec == Init /\ [][Next]_vars

\* The same port with events sent to it as well.
EventSpec == Init /\ [][Next \/ EventTest \/ EventCall]_vars

-----------------------------------------------------------------------------
(* Fairness.  A thread inside the port code goes on; a lock is granted in  *)
(* the end to a thread that keeps asking for it (SF); the component gives  *)
(* back each buffer it holds, as pf_disable and pf_flush oblige it to.     *)
(* Nobody has to begin an operation.                                       *)
Fairness ==
  /\ \A s \in Senders :
       WF_vars(SendQueued(s) \/ SendAccepted(s) \/ SendRefused(s) \/ SendEnd(s))
  /\ \A t \in Threads : WF_vars(Walk(t))
  /\ WF_vars(ReturnDone)
  /\ \A b \in Buffers : SF_vars(ReturnBuffer(b))
  /\ \A c \in Controllers : SF_vars(DisableGoesOn(c)) /\ SF_vars(EnableDone(c) \/ EnableFailed(c))
  /\ \A f \in Flushers : SF_vars(FlushTake(f) \/ FlushFailed(f) \/ FlushEnd(f))
  /\ \A p \in Pausers : WF_vars(ResumeSend(p) \/ ResumeFailed(p) \/ ResumeEnd(p))

FairSpec == Spec /\ Fairness

-----------------------------------------------------------------------------
(* Properties.                                                             *)

\* The buffers the port owes to the client.
Held == {b \in Buffers : at[b] \in {"queue", "component", "callback"}}

\* The threads between a change of `Held' and that of the counter.
Uncounted == {t \in Threads : pc[t] \in {"deliver", "decrement"}}

\* transit_buffer_headers counts the buffers held, wherever in the port they are,
\* and those whose send or callback is still running.
TransitAccount ==
  transit_buffer_headers = Cardinality(Held) + Cardinality(Uncounted)

\* The semaphore that mmal_port_disable() waits for is there exactly when no
\* buffer is in transit, or a disable holds it for a moment (IN_TRANSIT_*): no
\* interleaving of sends, returns and disables loses or duplicates its token.
SemaphoreToken ==
  transit_sema = IF transit_buffer_headers <= 0 /\ \A t \in Threads : pc[t] # "post"
                 THEN 1 ELSE 0

\* When a buffer is returned, mmal_port_buffer_header_callback() verifies that the
\* number of buffers in transit is not negative (mmal_port.c:892).
TransitNotNegative ==
  \A t \in Threads : pc[t] = "callback" => transit_buffer_headers >= 0

\* A buffer is never returned through the callback that mmal_port_disable() cleared.
ReturnHasCallback == \A t \in Threads : pc[t] = "callback" => callback

\* mmal_port_event_send() calls the callback only when there is one: without one it
\* reports the event as lost and releases it (mmal_port.c:912-917).
EventHasCallback == Running(ActionThread, "event", "event") => callback

\* The client is never called back with a buffer that it owns already: one in a
\* pool, one that another thread is sending, or one that is being returned to it
\* by another thread.
OwnedOnce ==
  \A t \in Threads : pc[t] = "callback" =>
    /\ \A p \in Pools : \A i \in 1 .. Len(pool[p]) : pool[p][i] # buffer[t]
    /\ \A u \in Threads \ {t} : pc[u] \in {"start", "deliver", "callback"} => buffer[u] # buffer[t]

Queued == {b \in Buffers : at[b] = "queue"}

\* The thread walks buffers taken off the internal queue (or abandoned by a disable).
Walking(t) == op[t] \in {"flush", "disable"} /\ pc[t] \in {"walk", "callback", "decrement"}

\* The next buffer it will return.
Cursor(t) == IF pc[t] = "walk" THEN buffer[t] ELSE saved[t]

\* queue_first is the head of the internal queue: no disable is walking it already, no
\* resume is sending it.
QueueIntact == \A t \in Threads : op[t] # "resume" /\ (Walking(t) => op[t] # "disable")

\* Where somebody will begin to read the links: at queue_first, or at the next buffer of
\* a walk or of a resume.
Entry(b) ==
  \/ QueueIntact /\ b = queue_first
  \/ \E t \in Threads :
       (Walking(t) /\ b = Cursor(t)) \/ (op[t] = "resume" /\ b = buffer[t])

\* The queued buffers of S are found if S has every queued buffer that is an entry or
\* that one of S links to.
Follows(S) ==
  \A b \in Queued : Entry(b) \/ (\E a \in S : next[a] = b) => b \in S

\* A buffer sent to a paused port is never lost: following the links, from queue_first or
\* from where a walk or a resume has come to, meets every queued buffer, whatever sends,
\* flushes and failed resumes happen meanwhile.
NoneLost == \A S \in SUBSET Queued : Follows(S) => S = Queued

\* mmal_port_disable() always returns: the buffers it waits for all come back.
DisableReturns == \A c \in Controllers : op[c] = "disable" ~> op[c] = "none"

-----------------------------------------------------------------------------
(* The port keeps its promise to the client (PortContract).                *)
Phase == IF is_enabled THEN "enabled"
         ELSE IF \E c \in Controllers : op[c] = "disable" THEN "disabling"
         ELSE "disabled"

Contract == INSTANCE PortContract WITH phase <- Phase, held <- Held

\* An enabled port takes buffers, gives each back once, and a disable that succeeds
\* has given all of them back (mmal_port.h:134-165).
KeepsContract == Contract!Spec
=============================================================================
