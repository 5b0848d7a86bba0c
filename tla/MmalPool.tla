------------------------------ MODULE MmalPool ------------------------------
(***************************************************************************)
(* A pool of buffer headers: its queue (core/mmal_queue.c), the reference  *)
(* counts of the headers (core/mmal_buffer.c) and their way back into the  *)
(* queue (core/mmal_pool.c), used by several threads.                      *)
(*                                                                         *)
(* The queue has a lock and a semaphore; the reference counts have no      *)
(* lock, and ++ and -- on them are a load followed by a store.  A release  *)
(* is a stack of frames, since the release of a replica releases the       *)
(* header it was replicated from.                                          *)
(***************************************************************************)
EXTENDS Integers, Sequences, FiniteSets, SequencesExt

CONSTANTS
  HeaderArray,   \* pool->header: the headers of the pool, in order
  Threads,       \* the threads of the client and of the components
  Shared,        \* the headers to which two threads may have a reference at a time
  MaxRefs,       \* bound: references of one thread to one header
  NoHeader,      \* the null header pointer
  NoThread       \* the holder of a free lock

Headers == ToSet(HeaderArray)

ASSUME PoolAssumption ==
  /\ HeaderArray \in Seq(Headers) /\ IsInjective(HeaderArray)
  /\ Shared \subseteq Headers
  /\ MaxRefs \in Nat \ {0}
  /\ NoHeader \notin Headers
  /\ IsFiniteSet(Threads) /\ NoThread \notin Threads

VARIABLES
  queue, sema,      \* the queue: its headers from first to last, its semaphore
  lock,             \* the thread that holds the lock of the queue
  headers_num,      \* pool->headers_num
  laid_out,         \* the number of headers pool->header was laid out for
  refcount,         \* refcount of each header
  reference,        \* the header each header was replicated from
  delayed,          \* the headers whose pre-release callback said "not yet"
  held,             \* held[t][h]: the references thread t has to release
  stack,            \* the calls each thread is in, innermost last
  waiting           \* where each thread is in mmal_queue_get() and mmal_queue_wait()

queues == <<queue, sema, lock>>
counts == <<refcount, reference, delayed, held>>
sizes  == <<headers_num, laid_out>>
vars   == <<queues, counts, sizes, stack, waiting>>

\* A call of mmal_buffer_header_acquire (by = 1) or _release (by = -1) on h: where it
\* is, the count it has loaded, and the header to be made a replica of h.
Frame == [h : Headers, by : {1, -1}, count : Int, dest : Headers \cup {NoHeader},
          pc : {"load", "store", "pre", "continue", "recycle", "put"}]

TypeOK ==
  /\ queue \in Seq(Headers) /\ sema \in 0 .. Len(HeaderArray)
  /\ lock \in Threads \cup {NoThread}
  /\ headers_num \in 0 .. laid_out /\ laid_out \in 0 .. Len(HeaderArray)
  /\ refcount \in [Headers -> Int]
  /\ reference \in [Headers -> Headers \cup {NoHeader}]
  /\ delayed \subseteq Headers
  /\ held \in [Threads -> [Headers -> Nat]]
  /\ stack \in [Threads -> Seq(Frame)]
  /\ waiting \in [Threads -> {"no", "semaphore", "post", "get", "locked"}]

\* The headers of the pool, which a resize may leave with fewer.
Live == {HeaderArray[i] : i \in 1 .. headers_num}

Queued(h) == h \in ToSet(queue)

\* The calls under way.
Frames == UNION {ToSet(stack[t]) : t \in Threads}

-----------------------------------------------------------------------------
(* mmal_pool_create().                                                     *)

Init ==
  /\ queue = HeaderArray /\ sema = Len(HeaderArray) /\ lock = NoThread
  /\ headers_num = Len(HeaderArray) /\ laid_out = Len(HeaderArray)
  /\ refcount = [h \in Headers |-> 1]
  /\ reference = [h \in Headers |-> NoHeader]
  /\ delayed = {}
  /\ held = [t \in Threads |-> [h \in Headers |-> 0]]
  /\ stack = [t \in Threads |-> <<>>]
  /\ waiting = [t \in Threads |-> "no"]

Idle(t) == stack[t] = <<>> /\ waiting[t] = "no"

Top(t) == Last(stack[t])

At(t, l) == stack[t] # <<>> /\ Top(t).pc = l

Hold(t, h, n) == held' = [held EXCEPT ![t][h] = @ + n]

Return(t) == stack' = [stack EXCEPT ![t] = Front(@)]

Goto(t, l) == stack' = [stack EXCEPT ![t] = Append(Front(@), [Top(t) EXCEPT !.pc = l])]

Call(t, h, n, d) ==
  stack' = [stack EXCEPT ![t] =
              Append(@, [h |-> h, by |-> n, count |-> 0, dest |-> d, pc |-> "load"])]

-----------------------------------------------------------------------------
(* mmal_queue_get(), mmal_queue_wait(): a caller that finds the queue       *)
(* empty gets NULL.                                                        *)

Get(t) ==
  /\ Idle(t)
  /\ waiting' = [waiting EXCEPT ![t] = "get"]
  /\ UNCHANGED <<queues, counts, sizes, stack>>

Wait(t) ==
  /\ Idle(t)
  /\ waiting' = [waiting EXCEPT ![t] = "semaphore"]
  /\ UNCHANGED <<queues, counts, sizes, stack>>

WaitSemaphore(t) ==
  /\ waiting[t] = "semaphore"
  /\ sema > 0
  /\ sema' = sema - 1
  /\ waiting' = [waiting EXCEPT ![t] = "post"]
  /\ UNCHANGED <<queue, lock, counts, sizes, stack>>

\* Mutant: the wait keeps the token it took.
WaitPostForgotten(t) ==
  /\ waiting[t] = "post"
  /\ waiting' = [waiting EXCEPT ![t] = "get"]
  /\ UNCHANGED <<queues, counts, sizes, stack>>

WaitPost(t) ==
  /\ waiting[t] = "post"
  /\ sema' = sema + 1
  /\ waiting' = [waiting EXCEPT ![t] = "get"]
  /\ UNCHANGED <<queue, lock, counts, sizes, stack>>

GetNull(t) ==
  /\ waiting[t] = "get"
  /\ lock = NoThread
  /\ queue = <<>>
  /\ waiting' = [waiting EXCEPT ![t] = "no"]
  /\ UNCHANGED <<queues, counts, sizes, stack>>

GetLock(t) ==
  /\ waiting[t] = "get"
  /\ lock = NoThread
  /\ queue # <<>>
  /\ lock' = t
  /\ waiting' = [waiting EXCEPT ![t] = "locked"]
  /\ UNCHANGED <<queue, sema, counts, sizes, stack>>

\* The semaphore is waited for under the lock.
GetHeader(t) ==
  /\ waiting[t] = "locked"
  /\ sema > 0
  /\ sema' = sema - 1
  /\ queue' = Tail(queue)
  /\ lock' = NoThread
  /\ Hold(t, Head(queue), 1)
  /\ waiting' = [waiting EXCEPT ![t] = "no"]
  /\ UNCHANGED <<refcount, reference, delayed, sizes, stack>>

\* mmal_queue_put_back() of a header that was not used after all.
PutBack(t, h) ==
  /\ Idle(t)
  /\ lock = NoThread
  /\ held[t][h] = 1 /\ refcount[h] = 1 /\ reference[h] = NoHeader
  /\ queue' = <<h>> \o queue
  /\ sema' = sema + 1
  /\ Hold(t, h, -1)
  /\ UNCHANGED <<lock, refcount, reference, delayed, sizes, stack, waiting>>

-----------------------------------------------------------------------------
(* References: taken, handed to another thread (through a port or a queue),*)
(* and dropped.                                                            *)

\* h, and whatever is a replica of one of the family, or one of the family a replica of it.
Family(h) ==
  {d \in Headers :
     \A F \in SUBSET Headers :
       /\ h \in F
       /\ \A x, y \in Headers : reference[x] = y => (x \in F <=> y \in F)
       => d \in F}

\* Unless one of them is shared, the references to a family are with one thread at a time.
Confined(t, h) ==
  \/ Family(h) \cap Shared # {}
  \/ \A u \in Threads \ {t}, d \in Family(h) :
       held[u][d] = 0 /\ \A f \in ToSet(stack[u]) : f.h # d

Acquire(t, h) ==
  /\ Idle(t)
  /\ held[t][h] \in 1 .. MaxRefs - 1
  /\ Call(t, h, 1, NoHeader)
  /\ UNCHANGED <<queues, counts, sizes, waiting>>

\* mmal_buffer_header_replicate(): refused for a header that is a replica already.  A
\* header that others were replicated from is never made a replica itself.
Replicate(t, d, h) ==
  /\ Idle(t)
  /\ d # h
  /\ held[t][d] > 0 /\ \A x \in Headers : reference[x] # d
  /\ held[t][h] > 0 \/ (h \in Shared /\ \E u \in Threads : held[u][h] > 0)
  /\ reference[d] = NoHeader
  /\ Call(t, h, 1, d)
  /\ UNCHANGED <<queues, counts, sizes, waiting>>

HandOver(t, u, h) ==
  /\ Idle(t)
  /\ held[t][h] > 0 /\ held[u][h] < MaxRefs
  /\ Family(h) \cap Shared = {} =>
       held[t][h] = 1 /\ \A d \in Family(h) \ {h} : held[t][d] = 0
  /\ held' = [held EXCEPT ![t][h] = @ - 1, ![u][h] = @ + 1]
  /\ UNCHANGED <<queues, refcount, reference, delayed, sizes, stack, waiting>>

\* mmal_buffer_header_release().
Release(t, h) ==
  /\ Idle(t)
  /\ held[t][h] > 0
  /\ Hold(t, h, -1)
  /\ Call(t, h, -1, NoHeader)
  /\ UNCHANGED <<queues, refcount, reference, delayed, sizes, waiting>>

Load(t) ==
  /\ At(t, "load")
  /\ stack' = [stack EXCEPT ![t] = Append(Front(@),
                 [Top(t) EXCEPT !.pc = "store", !.count = refcount[Top(t).h]])]
  /\ UNCHANGED <<queues, counts, sizes, waiting>>

StoreAcquired(t) ==
  /\ At(t, "store")
  /\ Top(t).by = 1
  /\ refcount' = [refcount EXCEPT ![Top(t).h] = Top(t).count + 1]
  /\ IF Top(t).dest = NoHeader
       THEN Hold(t, Top(t).h, 1) /\ UNCHANGED reference
       ELSE reference' = [reference EXCEPT ![Top(t).dest] = Top(t).h] /\ UNCHANGED held
  /\ Return(t)
  /\ UNCHANGED <<queues, delayed, sizes, waiting>>

\* The last reference was released, or another one is left.
StoreReleased(t) ==
  /\ At(t, "store")
  /\ Top(t).by = -1
  /\ refcount' = [refcount EXCEPT ![Top(t).h] = Top(t).count - 1]
  /\ IF Top(t).count = 1 THEN Goto(t, "pre") ELSE Return(t)
  /\ UNCHANGED <<queues, reference, delayed, held, sizes, waiting>>

\* The pre-release callback, if there is one, may delay the release ...
PreRelease(t) ==
  /\ At(t, "pre")
  /\ \/ Goto(t, "continue") /\ UNCHANGED delayed
     \/ Return(t) /\ delayed' = delayed \cup {Top(t).h}
  /\ UNCHANGED <<queues, refcount, reference, held, sizes, waiting>>

\* ... until somebody calls mmal_buffer_header_release_continue().
ContinueDelayed(t, h) ==
  /\ Idle(t)
  /\ h \in delayed
  /\ Confined(t, h)
  /\ delayed' = delayed \ {h}
  /\ stack' = [stack EXCEPT ![t] =
       <<[h |-> h, by |-> -1, count |-> 0, dest |-> NoHeader, pc |-> "continue"]>>]
  /\ UNCHANGED <<queues, refcount, reference, held, sizes, waiting>>

\* Mutant: the header a replica stands for is not released with it.
ContinueKeepsReference(t) ==
  /\ At(t, "continue")
  /\ Goto(t, "recycle")
  /\ UNCHANGED <<queues, counts, sizes, waiting>>

\* mmal_buffer_header_release_continue() releases the reference first.
Continue(t) ==
  /\ At(t, "continue")
  /\ LET h == Top(t).h
         c == [Top(t) EXCEPT !.pc = "recycle"]
         r == [h |-> reference[h], by |-> -1, count |-> 0, dest |-> NoHeader, pc |-> "load"]
     IN  stack' = [stack EXCEPT ![t] =
           Append(Front(@), c) \o IF reference[h] = NoHeader THEN <<>> ELSE <<r>>]
  /\ UNCHANGED <<queues, counts, sizes, waiting>>

\* mmal_pool_buffer_header_release(): the pool's callback lets the header be queued,
\* or sends it somewhere itself.
Recycle(t) ==
  /\ At(t, "recycle")
  /\ reference' = [reference EXCEPT ![Top(t).h] = NoHeader]
  /\ refcount' = [refcount EXCEPT ![Top(t).h] = 1]
  /\ \/ Goto(t, "put") /\ UNCHANGED held
     \/ Return(t) /\ Hold(t, Top(t).h, 1)
  /\ UNCHANGED <<queues, delayed, sizes, waiting>>

Put(t) ==
  /\ At(t, "put")
  /\ lock = NoThread
  /\ queue' = Append(queue, Top(t).h)
  /\ sema' = sema + 1
  /\ Return(t)
  /\ UNCHANGED <<lock, counts, sizes, waiting>>

-----------------------------------------------------------------------------
(* mmal_pool_resize() to n headers, by a client that has all the headers   *)
(* back and lets nobody else at the pool (mmal_connection_enable): the      *)
(* queue is drained, the headers are initialised again and queued.  The     *)
(* last n - m payloads may fail to be allocated, which leaves m headers in  *)
(* an array laid out for n: the next resize looks for the headers in the    *)
(* wrong place, unless m = 0, and is not modelled.                          *)

Reinitialised(n, m) ==
  /\ laid_out' = n /\ headers_num' = m
  /\ queue' = SubSeq(HeaderArray, 1, m)
  /\ sema' = m
  /\ refcount' = [h \in Headers |-> 1]
  /\ reference' = [h \in Headers |-> NoHeader]
  /\ UNCHANGED <<lock, delayed, held, stack, waiting>>

AllBack == /\ \A t \in Threads : Idle(t)
           /\ Live \subseteq ToSet(queue)
           /\ headers_num \in {0, laid_out}

Resize(n, m) ==
  /\ AllBack
  /\ n > 0
  /\ m <= n
  /\ Reinitialised(n, m)

\* The array of headers itself cannot be allocated: ENOMEM, and a pool with no headers.
ResizeFailed == AllBack /\ Reinitialised(0, 0)

-----------------------------------------------------------------------------
InCall(t) == \/ Load(t) \/ StoreAcquired(t) \/ StoreReleased(t) \/ PreRelease(t)
             \/ Continue(t) \/ Recycle(t) \/ Put(t)

Getting(t) == WaitPost(t) \/ GetNull(t) \/ GetLock(t) \/ GetHeader(t)

Client(t) ==
  \/ Get(t) \/ Wait(t)
  \/ \E h \in Headers :
       \/ PutBack(t, h) \/ Acquire(t, h) \/ Release(t, h) \/ ContinueDelayed(t, h)
       \/ \E d \in Headers : Replicate(t, d, h)
       \/ \E u \in Threads \ {t} : HandOver(t, u, h)

Next == \/ \E t \in Threads : Client(t) \/ WaitSemaphore(t) \/ Getting(t) \/ InCall(t)
        \/ \E n, m \in 0 .. Len(HeaderArray) : Resize(n, m)
        \/ ResizeFailed

Spec == Init /\ [][Next]_vars

\* Threads run on inside the calls they make, and the mutex is not withheld for ever
\* from a thread that waits for it.  Nothing makes a client call anything.
Fairness == \A t \in Threads : SF_vars(Getting(t)) /\ SF_vars(InCall(t))

FairSpec == Spec /\ Fairness

-----------------------------------------------------------------------------
(* Properties.                                                             *)

\* The references to h: those threads have, each with its number, ...
HeldRefs(h) == UNION {{t} \X (1 .. held[t][h]) : t \in Threads}

\* ... those replicas have, which they drop before they are recycled, ...
Replicas(h) == {d \in Headers : /\ reference[d] = h
                                /\ \A f \in Frames : f.h = d => f.pc # "recycle"}

\* ... and those that a thread has given to a call of mmal_buffer_header_release() and the
\* call has not taken off the count yet.
Releasing(h) == {t \in Threads : /\ At(t, "load") \/ At(t, "store")
                                 /\ Top(t).h = h /\ Top(t).by = -1}

References(h) == Cardinality(HeldRefs(h)) + Cardinality(Replicas(h)) + Cardinality(Releasing(h))

Putting(h) == \E f \in Frames : f.h = h /\ f.pc = "put"

\* The count of a header out of its pool is the number of references there are to it:
\* "Buffer headers ... are reference counted" (mmal.h).  A count that is too low
\* recycles a header in use, one that is too high loses the header for ever.
RefcountExact ==
  \A h \in Live : ~Queued(h) /\ ~Putting(h) => refcount[h] = References(h)

\* Acquiring a header "makes sure that the buffer header won't be recycled until all the
\* references to it are gone" (mmal_buffer.h): a header is in the queue at most once, and
\* then nobody has a reference to it, has yet to release it or to put it there.
RecycledWhenFree ==
  /\ IsInjective(queue)
  /\ \A h \in ToSet(queue) :
       /\ References(h) = 0 /\ reference[h] = NoHeader /\ h \notin delayed
       /\ \A f \in Frames : f.by = -1 => f.h # h

\* The semaphore counts the headers of the queue, less the tokens that threads in
\* mmal_queue_wait() are about to post again: the wait under the lock in
\* mmal_queue_get(), which "will always succeed", is only for those.
SemaphoreMatches ==
  sema + Cardinality({t \in Threads : waiting[t] = "post"}) = Len(queue)

\* Every call returns: a thread that releases, acquires or gets a header, or that has
\* seen one in mmal_queue_wait(), is not kept waiting for the queue's lock or semaphore.
CallsReturn ==
  \A t \in Threads : stack[t] # <<>> \/ waiting[t] \in {"post", "get", "locked"} ~> Idle(t)

\* The pool is sound: counts are exact, headers are recycled when they are free, and the
\* semaphore follows the queue.
PoolInv == TypeOK /\ RefcountExact /\ RecycledWhenFree /\ SemaphoreMatches
=============================================================================
