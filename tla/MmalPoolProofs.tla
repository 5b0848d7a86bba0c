--------------------------- MODULE MmalPoolProofs ---------------------------
(***************************************************************************)
(* Theorems about MmalPool, for any number of threads and headers.         *)
(*                                                                         *)
(* SemaphoreCorrect: the semaphore of the queue follows its list.          *)
(*                                                                         *)
(* PoolIsSound: counts are exact and headers are recycled when they are    *)
(* free, if no two threads have references to a header at a time.  The     *)
(* invariant, PoolCountInv, has an owner for each family of headers and    *)
(* their replicas, so that what a call has loaded of a count stays true;   *)
(* a header without references is in the queue, delayed or in one call.    *)
(*                                                                         *)
(* Then those about CamICGame, the program whose frames come out of such a *)
(* pool: what its two threads do to each other, for any number of frames,  *)
(* the cursor, for any screen and displacement, and the buffers, the       *)
(* square and the textures.                                                *)
(***************************************************************************)
EXTENDS MmalPool, CamICGame, FiniteSetTheorems, TLAPS

Types ==
  /\ queue \in Seq(Headers) /\ sema \in Nat
  /\ refcount \in [Headers -> Int]
  /\ reference \in [Headers -> Headers \cup {NoHeader}]
  /\ stack \in [Threads -> Seq(Frame)]
  /\ waiting \in [Threads -> {"no", "semaphore", "post", "get", "locked"}]

\* The threads that have taken a token off the semaphore only to see whether there is one.
Posting == {t \in Threads : waiting[t] = "post"}

SemaphoreInv == Types /\ SemaphoreMatches

-----------------------------------------------------------------------------
\* The innermost call of a thread that is in one, and those around it.
LEMMA InnermostCall ==
  ASSUME Types, NEW t \in Threads, stack[t] # <<>>
  PROVE  Top(t) \in Frame /\ Front(stack[t]) \in Seq(Frame)
<1>1. stack[t] \in Seq(Frame) /\ Len(stack[t]) \in Nat \ {0}
  BY DEF Types
<1>2. Top(t) = stack[t][Len(stack[t])] /\ Front(stack[t]) = SubSeq(stack[t], 1, Len(stack[t]) - 1)
  BY DEF Top, Last, Front
<1> QED BY <1>1, <1>2

\* Calls are typed, whatever a thread goes on to.
LEMMA CallTypes ==
  ASSUME Types, NEW t \in Threads, InCall(t)
  PROVE  /\ stack[t] # <<>> /\ Top(t) \in Frame
         /\ stack' \in [Threads -> Seq(Frame)]
         /\ refcount' \in [Headers -> Int]
         /\ reference' \in [Headers -> Headers \cup {NoHeader}]
<1>1. stack[t] # <<>>
  BY DEF InCall, Load, StoreAcquired, StoreReleased, PreRelease, Continue, Recycle, Put, At
<1>2. Top(t) \in Frame /\ Front(stack[t]) \in Seq(Frame)
  BY <1>1, InnermostCall
<1>3. /\ Top(t).h \in Headers /\ Top(t).count \in Int /\ Top(t).dest \in Headers \cup {NoHeader}
  BY <1>2 DEF Frame
<1>4. ASSUME Return(t) PROVE stack' \in [Threads -> Seq(Frame)]
  BY <1>2, <1>4 DEF Return, Types
<1>5. ASSUME NEW l \in {"pre", "continue", "recycle", "put"}, Goto(t, l)
      PROVE  stack' \in [Threads -> Seq(Frame)]
  <2>1. [Top(t) EXCEPT !.pc = l] \in Frame
    BY <1>2 DEF Frame
  <2> QED BY <1>2, <1>5, <2>1 DEF Goto, Types
<1>6. CASE Load(t)
  <2>1. [Top(t) EXCEPT !.pc = "store", !.count = refcount[Top(t).h]] \in Frame
    BY <1>2, <1>3 DEF Frame, Types
  <2> QED BY <1>1, <1>2, <1>6, <2>1 DEF Load, Types, counts
<1>7. CASE StoreAcquired(t)
  <2>1. stack' \in [Threads -> Seq(Frame)]
    BY <1>4, <1>7 DEF StoreAcquired
  <2>2. Top(t).count + 1 \in Int
    BY <1>3
  <2>3. refcount' \in [Headers -> Int]
    BY <1>3, <1>7, <2>2 DEF StoreAcquired, Types
  <2>4. reference' \in [Headers -> Headers \cup {NoHeader}]
    BY <1>3, <1>7 DEF StoreAcquired, Types
  <2> QED BY <1>1, <1>2, <2>1, <2>3, <2>4
<1>8. CASE StoreReleased(t)
  BY <1>1, <1>2, <1>3, <1>4, <1>5, <1>8 DEF StoreReleased, Types
<1>9. CASE PreRelease(t)
  BY <1>1, <1>2, <1>4, <1>5, <1>9 DEF PreRelease, Types
<1>10. CASE Continue(t)
  <2> DEFINE c == [Top(t) EXCEPT !.pc = "recycle"]
             r == [h |-> reference[Top(t).h], by |-> -1, count |-> 0, dest |-> NoHeader, pc |-> "load"]
             s == Append(Front(stack[t]), c) \o IF reference[Top(t).h] = NoHeader THEN <<>> ELSE <<r>>
  <2>1. c \in Frame /\ Append(Front(stack[t]), c) \in Seq(Frame)
    <3>1. c \in Frame
      BY <1>2 DEF Frame
    <3> HIDE DEF c
    <3> QED BY <1>2, <3>1
  <2>2. reference[Top(t).h] # NoHeader => r \in Frame
    BY <1>3 DEF Frame, Types
  <2>3. stack' = [stack EXCEPT ![t] = s] /\ UNCHANGED <<refcount, reference>>
    BY <1>10 DEF Continue, counts
  <2> HIDE DEF c, r
  <2>4. s \in Seq(Frame)
    BY <2>1, <2>2
  <2> HIDE DEF s
  <2> QED BY <1>1, <1>2, <2>3, <2>4 DEF Types
<1>11. CASE Recycle(t)
  BY <1>1, <1>2, <1>3, <1>4, <1>5, <1>11 DEF Recycle, Types
<1>12. CASE Put(t)
  BY <1>1, <1>2, <1>4, <1>12 DEF Put, Types, counts
<1> QED BY <1>6, <1>7, <1>8, <1>9, <1>10, <1>11, <1>12 DEF InCall

\* A call that is begun is typed too.
LEMMA BegunTypes ==
  ASSUME Types, NEW t \in Threads, NEW h \in Headers, NEW n \in {1, -1},
         NEW d \in Headers \cup {NoHeader}, Call(t, h, n, d)
  PROVE  stack' \in [Threads -> Seq(Frame)]
<1>1. [h |-> h, by |-> n, count |-> 0, dest |-> d, pc |-> "load"] \in Frame
  BY DEF Frame
<1> QED BY <1>1 DEF Call, Types

-----------------------------------------------------------------------------
\* Going to "post" and from it, and nowhere else, changes the number of those who are there.
LEMMA PostingCount ==
  ASSUME Types
  PROVE  /\ Cardinality(Posting) \in Nat
         /\ waiting' = waiting => Cardinality(Posting') = Cardinality(Posting)
         /\ \A t \in Threads, l \in {"no", "semaphore", "get", "locked"} :
              waiting' = [waiting EXCEPT ![t] = l] =>
                Cardinality(Posting') = IF waiting[t] = "post" THEN Cardinality(Posting) - 1
                                        ELSE Cardinality(Posting)
         /\ \A t \in Threads : waiting' = [waiting EXCEPT ![t] = "post"] /\ waiting[t] # "post" =>
                Cardinality(Posting') = Cardinality(Posting) + 1
<1>1. IsFiniteSet(Posting)
  BY FS_Subset, PoolAssumption DEF Posting
<1>2. Cardinality(Posting) \in Nat
  BY <1>1, FS_CardinalityType
<1>3. ASSUME waiting' = waiting PROVE Cardinality(Posting') = Cardinality(Posting)
  <2>1. Posting' = Posting
    BY <1>3 DEF Posting
  <2> QED BY <2>1
<1>4. ASSUME NEW t \in Threads, NEW l \in {"no", "semaphore", "get", "locked"},
             waiting' = [waiting EXCEPT ![t] = l]
      PROVE  Cardinality(Posting') = IF waiting[t] = "post" THEN Cardinality(Posting) - 1
                                     ELSE Cardinality(Posting)
  <2>1. Posting' = Posting \ {t} /\ (t \in Posting <=> waiting[t] = "post")
    BY <1>4 DEF Posting, Types
  <2> QED BY <1>1, <2>1, FS_RemoveElement
<1>5. ASSUME NEW t \in Threads, waiting' = [waiting EXCEPT ![t] = "post"], waiting[t] # "post"
      PROVE  Cardinality(Posting') = Cardinality(Posting) + 1
  <2>1. Posting' = Posting \cup {t} /\ t \notin Posting
    BY <1>5 DEF Posting, Types
  <2> QED BY <1>1, <2>1, FS_AddElement
<1> QED BY <1>2, <1>3, <1>4, <1>5

\* A header is queued and the semaphore posted, or taken and the semaphore waited for, or
\* neither.
LEMMA Followed ==
  ASSUME SemaphoreInv, Types',
         \/ Len(queue') = Len(queue) /\ sema' = sema /\ Cardinality(Posting') = Cardinality(Posting)
         \/ Len(queue') = Len(queue) + 1 /\ sema' = sema + 1 /\ Cardinality(Posting') = Cardinality(Posting)
         \/ Len(queue') = Len(queue) - 1 /\ sema' = sema - 1 /\ Cardinality(Posting') = Cardinality(Posting)
         \/ Len(queue') = Len(queue) /\ sema' = sema - 1 /\ Cardinality(Posting') = Cardinality(Posting) + 1
         \/ Len(queue') = Len(queue) /\ sema' = sema + 1 /\ Cardinality(Posting') = Cardinality(Posting) - 1
  PROVE  SemaphoreInv'
<1>1. /\ sema + Cardinality(Posting) = Len(queue) /\ sema \in Nat /\ Len(queue) \in Nat
      /\ Cardinality(Posting) \in Nat
  BY PostingCount DEF SemaphoreInv, SemaphoreMatches, Posting, Types
<1>2. sema' + Cardinality(Posting') = Len(queue')
  BY <1>1
<1> QED BY <1>2 DEF SemaphoreInv, SemaphoreMatches, Posting

\* At the start every header is in the queue and counted.
LEMMA SemaphoreInit == Init => SemaphoreInv
<1> SUFFICES ASSUME Init PROVE SemaphoreInv
  OBVIOUS
<1>1. HeaderArray \in Seq(Headers) /\ Len(HeaderArray) \in Nat
  BY PoolAssumption
<1>2. Types
  BY <1>1 DEF Init, Types
<1>3. {t \in Threads : waiting[t] = "post"} = {}
  BY DEF Init
<1>4. sema + 0 = Len(queue)
  BY <1>1 DEF Init
<1> QED BY <1>2, <1>3, <1>4, FS_EmptySet DEF SemaphoreInv, SemaphoreMatches

\* What a client begins, and putting a header back.
LEMMA ClientStep ==
  ASSUME SemaphoreInv, NEW t \in Threads, Client(t)
  PROVE  SemaphoreInv'
<1> USE DEF SemaphoreInv
<1>1. CASE Get(t) \/ Wait(t)
  <2>1. /\ waiting[t] # "post" /\ UNCHANGED <<queue, sema, refcount, reference, stack>>
        /\ \E l \in {"no", "semaphore", "get", "locked"} : waiting' = [waiting EXCEPT ![t] = l]
    BY <1>1 DEF Get, Wait, Idle, queues, counts
  <2>2. Types'
    BY <2>1 DEF Types
  <2>3. Cardinality(Posting') = Cardinality(Posting)
    BY <2>1, PostingCount
  <2> QED BY <2>1, <2>2, <2>3, Followed
<1>2. ASSUME NEW h \in Headers, PutBack(t, h) PROVE SemaphoreInv'
  <2>1. /\ queue' = <<h>> \o queue /\ sema' = sema + 1
        /\ UNCHANGED <<refcount, reference, stack, waiting>>
    BY <1>2 DEF PutBack
  <2>2. queue' \in Seq(Headers) /\ Len(queue') = Len(queue) + 1
    BY <2>1 DEF Types
  <2>3. Types'
    BY <2>1, <2>2 DEF Types
  <2>4. Cardinality(Posting') = Cardinality(Posting)
    BY <2>1, PostingCount
  <2> QED BY <2>1, <2>2, <2>3, <2>4, Followed
<1>3. ASSUME UNCHANGED <<queue, sema, refcount, reference, waiting>>,
             stack' \in [Threads -> Seq(Frame)]
      PROVE  SemaphoreInv'
  <2>1. Types'
    BY <1>3 DEF Types
  <2>2. Cardinality(Posting') = Cardinality(Posting)
    BY <1>3, PostingCount
  <2> QED BY <1>3, <2>1, <2>2, Followed
<1>4. ASSUME NEW h \in Headers, Acquire(t, h) \/ Release(t, h) PROVE SemaphoreInv'
  <2>1. \E n \in {1, -1} : Call(t, h, n, NoHeader)
    BY <1>4 DEF Acquire, Release
  <2>2. stack' \in [Threads -> Seq(Frame)]
    BY <2>1, BegunTypes
  <2> QED BY <1>3, <1>4, <2>2 DEF Acquire, Release, queues, counts
<1>5. ASSUME NEW h \in Headers, NEW d \in Headers, Replicate(t, d, h) PROVE SemaphoreInv'
  <2>1. stack' \in [Threads -> Seq(Frame)]
    BY <1>5, BegunTypes DEF Replicate
  <2> QED BY <1>3, <1>5, <2>1 DEF Replicate, queues, counts
<1>6. ASSUME NEW h \in Headers, ContinueDelayed(t, h) PROVE SemaphoreInv'
  <2> DEFINE f == [h |-> h, by |-> -1, count |-> 0, dest |-> NoHeader, pc |-> "continue"]
  <2>1. f \in Frame
    BY DEF Frame
  <2>2. stack' = [stack EXCEPT ![t] = <<f>>]
    BY <1>6 DEF ContinueDelayed
  <2> HIDE DEF f
  <2>3. stack' \in [Threads -> Seq(Frame)]
    BY <2>1, <2>2 DEF Types
  <2> QED BY <1>3, <1>6, <2>3 DEF ContinueDelayed, queues
<1>7. ASSUME NEW h \in Headers, NEW u \in Threads, HandOver(t, u, h) PROVE SemaphoreInv'
  BY <1>3, <1>7 DEF HandOver, queues, Types
<1> QED BY <1>1, <1>2, <1>4, <1>5, <1>6, <1>7 DEF Client

\* mmal_queue_get() and mmal_queue_wait().
LEMMA GettingStep ==
  ASSUME SemaphoreInv, NEW t \in Threads, WaitSemaphore(t) \/ Getting(t)
  PROVE  SemaphoreInv'
<1> USE DEF SemaphoreInv
<1>0. UNCHANGED <<refcount, reference, stack>>
  BY DEF WaitSemaphore, Getting, WaitPost, GetNull, GetLock, GetHeader, counts
<1>1. CASE WaitSemaphore(t)
  <2>1. /\ waiting[t] # "post" /\ waiting' = [waiting EXCEPT ![t] = "post"]
        /\ sema > 0 /\ sema' = sema - 1 /\ queue' = queue
    BY <1>1 DEF WaitSemaphore
  <2>2. Types'
    BY <1>0, <2>1 DEF Types
  <2>3. Cardinality(Posting') = Cardinality(Posting) + 1
    BY <2>1, PostingCount
  <2> QED BY <2>1, <2>2, <2>3, Followed
<1>2. CASE WaitPost(t)
  <2>1. /\ waiting[t] = "post" /\ waiting' = [waiting EXCEPT ![t] = "get"]
        /\ sema' = sema + 1 /\ queue' = queue
    BY <1>2 DEF WaitPost
  <2>2. Types'
    BY <1>0, <2>1 DEF Types
  <2>3. Cardinality(Posting') = Cardinality(Posting) - 1
    BY <2>1, PostingCount
  <2> QED BY <2>1, <2>2, <2>3, Followed
<1>3. CASE GetNull(t) \/ GetLock(t)
  <2>1. /\ waiting[t] = "get" /\ UNCHANGED <<queue, sema>>
        /\ \E l \in {"no", "semaphore", "get", "locked"} : waiting' = [waiting EXCEPT ![t] = l]
    BY <1>3 DEF GetNull, GetLock, queues
  <2>2. Types'
    BY <1>0, <2>1 DEF Types
  <2>3. Cardinality(Posting') = Cardinality(Posting)
    BY <2>1, PostingCount
  <2> QED BY <2>1, <2>2, <2>3, Followed
<1>4. CASE GetHeader(t)
  <2>1. /\ waiting[t] = "locked" /\ waiting' = [waiting EXCEPT ![t] = "no"]
        /\ sema > 0 /\ sema' = sema - 1 /\ queue' = Tail(queue)
    BY <1>4 DEF GetHeader
  <2>2. Len(queue) \in Nat /\ Len(queue) > 0
    BY <2>1, PostingCount DEF SemaphoreMatches, Posting, Types
  <2>3. queue' \in Seq(Headers) /\ Len(queue') = Len(queue) - 1
    BY <2>1, <2>2 DEF Types
  <2>4. Types'
    BY <1>0, <2>1, <2>3 DEF Types
  <2>5. Cardinality(Posting') = Cardinality(Posting)
    BY <2>1, PostingCount
  <2> QED BY <2>1, <2>3, <2>4, <2>5, Followed
<1> QED BY <1>1, <1>2, <1>3, <1>4 DEF Getting

\* A header that is released for the last time is queued and counted.
LEMMA InCallStep ==
  ASSUME SemaphoreInv, NEW t \in Threads, InCall(t)
  PROVE  SemaphoreInv'
<1> USE DEF SemaphoreInv
<1>1. /\ stack' \in [Threads -> Seq(Frame)] /\ refcount' \in [Headers -> Int]
      /\ reference' \in [Headers -> Headers \cup {NoHeader}] /\ Top(t) \in Frame
  BY CallTypes
<1>2. waiting' = waiting
  BY DEF InCall, Load, StoreAcquired, StoreReleased, PreRelease, Continue, Recycle, Put
<1>3. CASE Put(t)
  <2>1. Top(t).h \in Headers
    BY <1>1 DEF Frame
  <2>2. sema' = sema + 1 /\ queue' \in Seq(Headers) /\ Len(queue') = Len(queue) + 1
    BY <1>3, <2>1 DEF Put, Types
  <2>3. Types'
    BY <1>1, <1>2, <2>2 DEF Types
  <2>4. Cardinality(Posting') = Cardinality(Posting)
    BY <1>2, PostingCount
  <2> QED BY <2>2, <2>3, <2>4, Followed
<1>4. CASE ~Put(t)
  <2>1. UNCHANGED <<queue, sema>>
    BY <1>4 DEF InCall, Load, StoreAcquired, StoreReleased, PreRelease, Continue, Recycle, queues
  <2>2. Types'
    BY <1>1, <1>2, <2>1 DEF Types
  <2>3. Cardinality(Posting') = Cardinality(Posting)
    BY <1>2, PostingCount
  <2> QED BY <2>1, <2>2, <2>3, Followed
<1> QED BY <1>3, <1>4

\* A resize makes the queue and the semaphore anew while nobody waits.
LEMMA ResizeStep ==
  ASSUME SemaphoreInv,
         \/ \E n, m \in 0 .. Len(HeaderArray) : Resize(n, m)
         \/ ResizeFailed
  PROVE  SemaphoreInv'
<1> USE DEF SemaphoreInv
<1>1. PICK n, m \in 0 .. Len(HeaderArray) : AllBack /\ Reinitialised(n, m)
  <2>1. HeaderArray \in Seq(Headers) /\ 0 \in 0 .. Len(HeaderArray)
    BY PoolAssumption
  <2> QED BY <2>1 DEF Resize, ResizeFailed
<1>2. /\ queue' = SubSeq(HeaderArray, 1, m) /\ sema' = m
      /\ refcount' = [h \in Headers |-> 1] /\ reference' = [h \in Headers |-> NoHeader]
      /\ UNCHANGED <<stack, waiting>>
  BY <1>1 DEF Reinitialised
<1>3. queue' \in Seq(Headers) /\ Len(queue') = m /\ m \in Nat
  BY <1>1, <1>2, PoolAssumption
<1>4. Types'
  BY <1>2, <1>3 DEF Types
<1>5. {t \in Threads : waiting'[t] = "post"} = {}
  BY <1>1, <1>2 DEF AllBack, Idle
<1>6. Cardinality({t \in Threads : waiting'[t] = "post"}) = 0
  BY <1>5, FS_EmptySet
<1>7. sema' + 0 = Len(queue')
  BY <1>2, <1>3
<1>8. SemaphoreMatches'
  BY <1>6, <1>7 DEF SemaphoreMatches
<1> QED BY <1>4, <1>8

\* In every execution the semaphore of a queue counts its headers, less the tokens that threads
\* in mmal_queue_wait() are about to post again: mmal_queue_get() waits with the lock held, in
\* the belief that this "will always succeed".
THEOREM SemaphoreCorrect == Spec => []SemaphoreMatches
<1>1. SemaphoreInv /\ [Next]_vars => SemaphoreInv'
  <2> SUFFICES ASSUME SemaphoreInv, [Next]_vars PROVE SemaphoreInv'
    OBVIOUS
  <2>1. CASE UNCHANGED vars
    <3>1. UNCHANGED <<queue, sema, refcount, reference, stack, waiting>>
      BY <2>1 DEF vars, queues, counts
    <3> QED BY <3>1 DEF SemaphoreInv, Types, SemaphoreMatches
  <2> QED BY <2>1, ClientStep, GettingStep, InCallStep, ResizeStep DEF Next
<1>2. SemaphoreInv => SemaphoreMatches
  BY DEF SemaphoreInv
<1> QED BY <1>1, <1>2, SemaphoreInit, PTL DEF Spec

-----------------------------------------------------------------------------
(* The references to a header, of each kind.                               *)

\* The references threads have to h, when they have those of hld.
Tokens(hld, h) == UNION {{t} \X (1 .. hld[t][h]) : t \in Threads}

Holds == [Threads -> [Headers -> Nat]]

\* There is one for each number up to what a thread has.
LEMMA TokenOf ==
  ASSUME NEW hld, NEW h, NEW x
  PROVE  x \in Tokens(hld, h) <=> \E t \in Threads : \E k \in 1 .. hld[t][h] : x = <<t, k>>
<1>1. x \in Tokens(hld, h) <=> \E t \in Threads : x \in {t} \X (1 .. hld[t][h])
  BY DEF Tokens
<1>2. \A t \in Threads : x \in {t} \X (1 .. hld[t][h]) <=> \E k \in 1 .. hld[t][h] : x = <<t, k>>
  OBVIOUS
<1> QED BY <1>1, <1>2

\* There are finitely many.
LEMMA TokensFinite ==
  ASSUME NEW hld \in Holds, NEW h \in Headers
  PROVE  IsFiniteSet(Tokens(hld, h)) /\ Cardinality(Tokens(hld, h)) \in Nat
<1> DEFINE f == [t \in Threads |-> {t} \X (1 .. hld[t][h])]
           T == {{t} \X (1 .. hld[t][h]) : t \in Threads}
<1>1. f \in Surjection(Threads, T)
  BY DEF Surjection
<1>2. IsFiniteSet(T)
  <2> HIDE DEF f, T
  <2>1. IsFiniteSet(Threads)
    BY PoolAssumption
  <2> QED BY <1>1, <2>1, FS_Surjection
<1>3. ASSUME NEW t \in Threads PROVE IsFiniteSet({t} \X (1 .. hld[t][h]))
  <2> DEFINE n == hld[t][h]
  <2>1. n \in Int /\ 1 \in Int
    BY DEF Holds
  <2> HIDE DEF n
  <2>2. IsFiniteSet(1 .. n)
    BY <2>1, FS_Interval
  <2>3. IsFiniteSet({t})
    BY FS_Singleton
  <2>4. IsFiniteSet({t} \X (1 .. n))
    BY <2>2, <2>3, FS_Product
  <2> QED BY <2>4 DEF n
<1>4. \A S \in T : IsFiniteSet(S)
  BY <1>3
<1> HIDE DEF T
<1>5. IsFiniteSet(UNION T)
  BY <1>2, <1>4, FS_UNION
<1> QED BY <1>5, FS_CardinalityType DEF T, Tokens

\* A reference more of one thread is a reference more in all.
LEMMA TokenAdded ==
  ASSUME NEW hld \in Holds, NEW new \in Holds, NEW t \in Threads, NEW h \in Headers,
         new[t][h] = hld[t][h] + 1,
         \A u \in Threads, g \in Headers : u # t \/ g # h => new[u][g] = hld[u][g]
  PROVE  /\ Cardinality(Tokens(new, h)) = Cardinality(Tokens(hld, h)) + 1
         /\ \A g \in Headers \ {h} : Tokens(new, g) = Tokens(hld, g)
<1> DEFINE x == <<t, hld[t][h] + 1>>
<1>1. hld[t][h] \in Nat /\ new[t][h] = hld[t][h] + 1
  BY DEF Holds
<1>2. Tokens(new, h) = Tokens(hld, h) \cup {x}
  <2>1. ASSUME NEW u \in Threads, NEW k
        PROVE  k \in 1 .. new[u][h] <=> k \in 1 .. hld[u][h] \/ (u = t /\ k = hld[t][h] + 1)
    <3>1. CASE u = t
      BY <1>1, <3>1
    <3>2. CASE u # t
      BY <3>2
    <3> QED BY <3>1, <3>2
  <2>2. ASSUME NEW y PROVE y \in Tokens(new, h) <=> y \in Tokens(hld, h) \/ y = x
    <3>1. ASSUME NEW u \in Threads, NEW k, y = <<u, k>>
          PROVE  y \in Tokens(new, h) <=> y \in Tokens(hld, h) \/ y = x
      <4>1. /\ y \in Tokens(new, h) <=> k \in 1 .. new[u][h]
            /\ y \in Tokens(hld, h) <=> k \in 1 .. hld[u][h]
        BY <3>1, TokenOf
      <4>2. y = x <=> u = t /\ k = hld[t][h] + 1
        BY <3>1
      <4> QED BY <2>1, <4>1, <4>2
    <3>2. y \in Tokens(new, h) \/ y \in Tokens(hld, h) \/ y = x => \E u \in Threads : \E k : y = <<u, k>>
      BY TokenOf
    <3> QED BY <3>1, <3>2
  <2> QED BY <2>2
<1>3. x \notin Tokens(hld, h)
  BY <1>1, TokenOf
<1>4. Cardinality(Tokens(new, h)) = Cardinality(Tokens(hld, h)) + 1
  <2>1. IsFiniteSet(Tokens(hld, h))
    BY TokensFinite
  <2> HIDE DEF x
  <2> QED BY <1>2, <1>3, <2>1, FS_AddElement
<1>5. \A g \in Headers \ {h} : Tokens(new, g) = Tokens(hld, g)
  <2> SUFFICES ASSUME NEW g \in Headers \ {h} PROVE Tokens(new, g) = Tokens(hld, g)
    OBVIOUS
  <2>1. \A u \in Threads : new[u][g] = hld[u][g]
    OBVIOUS
  <2>2. \A y : y \in Tokens(new, g) <=> y \in Tokens(hld, g)
    BY <2>1, TokenOf
  <2> QED BY <2>2
<1> QED BY <1>4, <1>5

\* A thread takes a reference, or drops one.
LEMMA HoldChange ==
  ASSUME held \in Holds, NEW t \in Threads, NEW h \in Headers, NEW n \in {1, -1},
         n = -1 => held[t][h] > 0, Hold(t, h, n)
  PROVE  /\ held' \in Holds
         /\ Cardinality(Tokens(held', h)) = Cardinality(Tokens(held, h)) + n
         /\ \A g \in Headers \ {h} : Tokens(held', g) = Tokens(held, g)
         /\ \A u \in Threads \ {t} : held'[u] = held[u]
         /\ \A u \in Threads, g \in Headers : u # t \/ g # h => held'[u][g] = held[u][g]
         /\ held'[t][h] = held[t][h] + n
<1>1. held' = [held EXCEPT ![t][h] = @ + n] /\ held[t][h] \in Nat
  BY DEF Hold, Holds
<1>2. held[t][h] + n \in Nat
  BY <1>1
<1>3. /\ held' \in Holds /\ held'[t][h] = held[t][h] + n
      /\ \A u \in Threads \ {t} : held'[u] = held[u]
      /\ \A g \in Headers : g # h => held'[t][g] = held[t][g]
  BY <1>1, <1>2 DEF Holds
<1>4. \A u \in Threads, g \in Headers : u # t \/ g # h => held'[u][g] = held[u][g]
  BY <1>3
<1>5. CASE n = 1
  BY <1>3, <1>4, <1>5, TokenAdded
<1>6. CASE n = -1
  <2>1. held[t][h] = held'[t][h] + 1
    BY <1>1, <1>3, <1>6
  <2>2. /\ Cardinality(Tokens(held, h)) = Cardinality(Tokens(held', h)) + 1
        /\ \A g \in Headers \ {h} : Tokens(held, g) = Tokens(held', g)
    <3> DEFINE hld == held'
               new == held
    <3>1. hld \in Holds /\ new \in Holds /\ new[t][h] = hld[t][h] + 1
      BY <1>3, <2>1
    <3>2. \A u \in Threads, g \in Headers : u # t \/ g # h => new[u][g] = hld[u][g]
      BY <1>4
    <3> HIDE DEF hld, new
    <3>3. /\ Cardinality(Tokens(new, h)) = Cardinality(Tokens(hld, h)) + 1
          /\ \A g \in Headers \ {h} : Tokens(new, g) = Tokens(hld, g)
      BY <3>1, <3>2, TokenAdded
    <3> QED BY <3>3 DEF hld, new
  <2>3. Cardinality(Tokens(held, h)) \in Nat /\ Cardinality(Tokens(held', h)) \in Nat
    BY <1>3, TokensFinite
  <2>4. Cardinality(Tokens(held', h)) = Cardinality(Tokens(held, h)) + n
    BY <1>6, <2>2, <2>3
  <2> QED BY <1>3, <1>4, <2>2, <2>4
<1> QED BY <1>5, <1>6

\* There are none exactly when no thread has one.
LEMMA NoTokens ==
  ASSUME NEW hld \in Holds, NEW h \in Headers
  PROVE  Cardinality(Tokens(hld, h)) = 0 <=> \A t \in Threads : hld[t][h] = 0
<1>1. \A t \in Threads : hld[t][h] \in Nat
  BY DEF Holds
<1>2. ASSUME \A t \in Threads : hld[t][h] = 0 PROVE Tokens(hld, h) = {}
  BY <1>2, TokenOf
<1>3. ASSUME NEW t \in Threads, hld[t][h] # 0 PROVE <<t, 1>> \in Tokens(hld, h)
  <2>1. 1 \in 1 .. hld[t][h]
    BY <1>1, <1>3
  <2> QED BY <2>1, TokenOf
<1> QED BY <1>2, <1>3, TokensFinite, FS_EmptySet

-----------------------------------------------------------------------------
(* The invariant of the references.                                        *)

\* Calls that have dropped the last reference, before the header is recycled and after.
Dead    == {"pre", "continue", "recycle"}
Leaving == Dead \cup {"put"}

\* d is being recycled, and has dropped what it was a replica of.
Recycling(d) ==
  \E t \in Threads : \E i \in 1 .. Len(stack[t]) : stack[t][i].h = d /\ stack[t][i].pc = "recycle"

\* A header in the pool, on its way into it, or not in use since a resize.
Stored(h) == Queued(h) \/ Putting(h) \/ h \notin Live

CountTypes ==
  /\ Types
  /\ held \in Holds /\ delayed \subseteq Headers
  /\ lock \in Threads \cup {NoThread}
  /\ headers_num \in 0 .. laid_out /\ laid_out \in 0 .. Len(HeaderArray)

\* A call within another one is the release of the header that the other recycles.
Nested ==
  \A t \in Threads : \A i \in 1 .. Len(stack[t]) :
    /\ i < Len(stack[t]) => stack[t][i].pc = "recycle"
    /\ stack[t][i].by = 1 => Len(stack[t]) = 1 /\ stack[t][i].pc \in {"load", "store"}

\* A header without references is in one place.
Placed ==
  /\ IsInjective(queue)
  /\ \A h \in Headers : Queued(h) => h \in Live /\ h \notin delayed
  /\ delayed \subseteq Live
  /\ \A t \in Threads : \A i \in 1 .. Len(stack[t]) :
       stack[t][i].pc \in Leaving =>
         /\ stack[t][i].h \in Live /\ stack[t][i].h \notin delayed /\ ~Queued(stack[t][i].h)
         /\ \A u \in Threads : \A j \in 1 .. Len(stack[u]) :
              stack[u][j].pc \in Leaving /\ stack[u][j].h = stack[t][i].h => u = t /\ j = i

\* A stored header has its count and no references; of the others the count is exact, and
\* what a call has loaded is still true.
Counted ==
  /\ \A h \in Headers :
       /\ refcount[h] = References(h) + (IF Stored(h) THEN 1 ELSE 0)
       /\ Stored(h) => refcount[h] = 1 /\ reference[h] = NoHeader
  /\ \A h \in delayed : refcount[h] = 0
  /\ \A t \in Threads : \A i \in 1 .. Len(stack[t]) :
       /\ stack[t][i].pc = "store" => stack[t][i].count = refcount[stack[t][i].h]
       /\ stack[t][i].pc \in Dead => refcount[stack[t][i].h] = 0

\* A thread that is acquiring a header, or replicating it, has a reference to it.
Acquiring ==
  \A t \in Threads : \A i \in 1 .. Len(stack[t]) :
    LET f == stack[t][i] IN
      f.by = 1 => /\ held[t][f.h] > 0
                  /\ f.dest # NoHeader =>
                       f.dest # f.h /\ held[t][f.dest] > 0 /\ reference[f.dest] = NoHeader

\* The references to a header, and to what it is a replica of, are with one thread.
Owned(own) ==
  /\ \A t \in Threads, h \in Headers : held[t][h] > 0 => own[h] = t
  /\ \A t \in Threads : \A i \in 1 .. Len(stack[t]) : own[stack[t][i].h] = t
  /\ \A d \in Headers : reference[d] # NoHeader /\ ~Recycling(d) => own[reference[d]] = own[d]

Owners == [Headers -> Threads \cup {NoThread}]

CountInv == CountTypes /\ Nested /\ Placed /\ Counted /\ Acquiring

-----------------------------------------------------------------------------
(* Calls and references, as the invariant speaks of them.                  *)

\* The calls under way are those in the stacks.
LEMMA FramesAre ==
  ASSUME Types
  PROVE  \A f : f \in Frames <=> \E t \in Threads : \E i \in 1 .. Len(stack[t]) : f = stack[t][i]
<1>1. \A t \in Threads : stack[t] \in Seq(Frame)
  BY DEF Types
<1>2. \A t \in Threads : \A f : f \in ToSet(stack[t]) <=> \E i \in 1 .. Len(stack[t]) : f = stack[t][i]
  BY <1>1 DEF ToSet
<1> SUFFICES ASSUME NEW f
             PROVE  f \in Frames <=> \E t \in Threads : \E i \in 1 .. Len(stack[t]) : f = stack[t][i]
  OBVIOUS
<1>3. f \in Frames <=> \E t \in Threads : f \in ToSet(stack[t])
  BY DEF Frames
<1>4. \A t \in Threads : f \in ToSet(stack[t]) <=> \E i \in 1 .. Len(stack[t]) : f = stack[t][i]
  BY <1>2
<1> QED BY <1>3, <1>4, Zenon

\* What the definitions of the model say of calls, said of the stacks.
LEMMA CallsAre ==
  ASSUME Types
  PROVE  /\ \A h : Putting(h) <=> \E t \in Threads : \E i \in 1 .. Len(stack[t]) :
                                    stack[t][i].h = h /\ stack[t][i].pc = "put"
         /\ \A h, d : d \in Replicas(h) <=> d \in Headers /\ reference[d] = h /\ ~Recycling(d)
<1>1. \A h : Putting(h) <=> \E t \in Threads : \E i \in 1 .. Len(stack[t]) :
                                    stack[t][i].h = h /\ stack[t][i].pc = "put"
  BY FramesAre DEF Putting
<1>2. \A d : (\A f \in Frames : f.h = d => f.pc # "recycle") <=> ~Recycling(d)
  BY FramesAre DEF Recycling
<1> QED BY <1>1, <1>2 DEF Replicas

\* The same after a step.
LEMMA CallsAreThen ==
  ASSUME Types'
  PROVE  /\ \A h : Putting(h)' <=> \E t \in Threads : \E i \in 1 .. Len(stack'[t]) :
                                    stack'[t][i].h = h /\ stack'[t][i].pc = "put"
         /\ \A h, d : d \in Replicas(h)' <=> d \in Headers /\ reference'[d] = h /\ ~Recycling(d)'
<1>1. \A t \in Threads : stack'[t] \in Seq(Frame)
  BY DEF Types
<1>2. \A t \in Threads : \A f : f \in ToSet(stack'[t]) <=> \E i \in 1 .. Len(stack'[t]) : f = stack'[t][i]
  BY <1>1 DEF ToSet
<1>3. ASSUME NEW f
      PROVE  f \in Frames' <=> \E t \in Threads : \E i \in 1 .. Len(stack'[t]) : f = stack'[t][i]
  <2>1. f \in Frames' <=> \E t \in Threads : f \in ToSet(stack'[t])
    BY DEF Frames
  <2>2. \A t \in Threads : f \in ToSet(stack'[t]) <=> \E i \in 1 .. Len(stack'[t]) : f = stack'[t][i]
    BY <1>2
  <2> QED BY <2>1, <2>2, Zenon
<1>4. \A h : Putting(h)' <=> \E t \in Threads : \E i \in 1 .. Len(stack'[t]) :
                                    stack'[t][i].h = h /\ stack'[t][i].pc = "put"
  BY <1>3 DEF Putting
<1>5. \A d : (\A f \in Frames' : f.h = d => f.pc # "recycle") <=> ~Recycling(d)'
  BY <1>3 DEF Recycling
<1> QED BY <1>4, <1>5 DEF Replicas

\* The innermost call of a thread.
LEMMA TopIs ==
  ASSUME Types, NEW t \in Threads, stack[t] # <<>>
  PROVE  /\ Len(stack[t]) \in Nat \ {0} /\ Top(t) = stack[t][Len(stack[t])]
         /\ Top(t) \in Frame /\ Top(t).h \in Headers /\ Top(t).by \in {1, -1}
         /\ Top(t).count \in Int /\ Top(t).dest \in Headers \cup {NoHeader}
<1>1. stack[t] \in Seq(Frame) /\ Len(stack[t]) \in Nat \ {0}
  BY DEF Types
<1>2. Top(t) = stack[t][Len(stack[t])] /\ Top(t) \in Frame
  BY <1>1 DEF Top, Last
<1> QED BY <1>1, <1>2 DEF Frame

\* Headers are as many as the array has places.
LEMMA HeadersFinite ==
  /\ HeaderArray \in [1 .. Len(HeaderArray) -> Headers] /\ Len(HeaderArray) \in Nat
  /\ \A h \in Headers : \E i \in 1 .. Len(HeaderArray) : h = HeaderArray[i]
  /\ IsFiniteSet(Headers) /\ Cardinality(Headers) <= Len(HeaderArray)
<1>1. /\ HeaderArray \in [1 .. Len(HeaderArray) -> Headers] /\ Len(HeaderArray) \in Nat
      /\ DOMAIN HeaderArray = 1 .. Len(HeaderArray)
  BY PoolAssumption
<1>2. \A h \in Headers : \E i \in 1 .. Len(HeaderArray) : h = HeaderArray[i]
  <2>1. DOMAIN HeaderArray = 1 .. Len(HeaderArray)
    BY <1>1
  <2> QED BY <2>1 DEF Headers, ToSet
<1>3. HeaderArray \in Surjection(1 .. Len(HeaderArray), Headers)
  BY <1>1, <1>2 DEF Surjection
<1>4. IsFiniteSet(1 .. Len(HeaderArray)) /\ Cardinality(1 .. Len(HeaderArray)) = Len(HeaderArray)
  <2> DEFINE n == Len(HeaderArray)
  <2>1. n \in Nat /\ n \in Int /\ 1 \in Int
    BY <1>1
  <2> HIDE DEF n
  <2>2. IsFiniteSet(1 .. n) /\ Cardinality(1 .. n) = IF 1 > n THEN 0 ELSE n - 1 + 1
    BY <2>1, FS_Interval
  <2>3. Cardinality(1 .. n) = n
    BY <2>1, <2>2
  <2> QED BY <2>2, <2>3 DEF n
<1>5. IsFiniteSet(Headers) /\ Cardinality(Headers) <= Cardinality(1 .. Len(HeaderArray))
  BY <1>3, <1>4, FS_Surjection
<1> QED BY <1>1, <1>2, <1>4, <1>5

\* The references to a header are of three kinds, of each of which there are finitely many.
LEMMA ReferencesAre ==
  ASSUME held \in Holds, NEW h \in Headers
  PROVE  /\ References(h) = Cardinality(Tokens(held, h)) + Cardinality(Replicas(h))
                              + Cardinality(Releasing(h))
         /\ IsFiniteSet(Replicas(h)) /\ IsFiniteSet(Releasing(h))
         /\ Cardinality(Tokens(held, h)) \in Nat /\ Cardinality(Replicas(h)) \in Nat
         /\ Cardinality(Releasing(h)) \in Nat /\ References(h) \in Nat
<1>1. IsFiniteSet(Replicas(h))
  BY HeadersFinite, FS_Subset DEF Replicas
<1>2. IsFiniteSet(Releasing(h))
  BY PoolAssumption, FS_Subset DEF Releasing
<1>3. References(h) = Cardinality(Tokens(held, h)) + Cardinality(Replicas(h))
                        + Cardinality(Releasing(h))
  BY DEF References, HeldRefs, Tokens
<1>4. /\ Cardinality(Tokens(held, h)) \in Nat /\ Cardinality(Replicas(h)) \in Nat
      /\ Cardinality(Releasing(h)) \in Nat
  BY <1>1, <1>2, TokensFinite, FS_CardinalityType
<1> QED BY <1>1, <1>2, <1>3, <1>4

\* Who has no references.
LEMMA Unreferenced ==
  ASSUME Types, held \in Holds, NEW h \in Headers
  PROVE  References(h) = 0 <=>
           /\ \A t \in Threads : held[t][h] = 0
           /\ \A d \in Headers : reference[d] = h => Recycling(d)
           /\ \A t \in Threads : stack[t] # <<>> /\ Top(t).h = h /\ Top(t).by = -1
                                   => Top(t).pc \notin {"load", "store"}
<1>1. /\ References(h) = 0 <=> /\ Cardinality(Tokens(held, h)) = 0
                               /\ Cardinality(Replicas(h)) = 0
                               /\ Cardinality(Releasing(h)) = 0
  BY ReferencesAre
<1>2. Cardinality(Replicas(h)) = 0 <=> Replicas(h) = {}
  BY ReferencesAre, FS_EmptySet
<1>3. Cardinality(Releasing(h)) = 0 <=> Releasing(h) = {}
  BY ReferencesAre, FS_EmptySet
<1>4. Replicas(h) = {} <=> \A d \in Headers : reference[d] = h => Recycling(d)
  BY CallsAre
<1>5. Releasing(h) = {} <=> \A t \in Threads : stack[t] # <<>> /\ Top(t).h = h /\ Top(t).by = -1
                                   => Top(t).pc \notin {"load", "store"}
  BY DEF Releasing, At
<1> QED BY <1>1, <1>2, <1>3, <1>4, <1>5, NoTokens

\* Nobody uses a stored header, or one whose count is zero.
LEMMA NotInUse ==
  ASSUME CountInv, NEW h \in Headers, Stored(h) \/ refcount[h] = 0
  PROVE  /\ References(h) = 0
         /\ \A t \in Threads : held[t][h] = 0
         /\ \A d \in Headers : reference[d] = h => Recycling(d)
         /\ \A t \in Threads : \A i \in 1 .. Len(stack[t]) :
              stack[t][i].h = h => stack[t][i].pc \in Leaving
<1>1. Types /\ held \in Holds
  BY DEF CountInv, CountTypes
<1>2. References(h) = 0
  BY <1>1, ReferencesAre DEF CountInv, Counted
<1>3. /\ \A t \in Threads : held[t][h] = 0
      /\ \A d \in Headers : reference[d] = h => Recycling(d)
      /\ \A t \in Threads : stack[t] # <<>> /\ Top(t).h = h /\ Top(t).by = -1
                              => Top(t).pc \notin {"load", "store"}
  BY <1>1, <1>2, Unreferenced
<1>4. ASSUME NEW t \in Threads, NEW i \in 1 .. Len(stack[t]), stack[t][i].h = h,
             stack[t][i].pc \notin Leaving
      PROVE  FALSE
  <2>1. stack[t] \in Seq(Frame) /\ stack[t][i] \in Frame
    BY <1>1 DEF Types
  <2>2. stack[t][i].pc \in {"load", "store"}
    BY <1>4, <2>1 DEF Frame, Leaving, Dead
  <2>3. i = Len(stack[t]) /\ stack[t] # <<>>
    BY <1>4, <2>1, <2>2 DEF CountInv, Nested
  <2>4. Top(t) = stack[t][i]
    BY <1>1, <2>3, TopIs
  <2>5. stack[t][i].by = 1
    BY <1>1, <1>3, <1>4, <2>2, <2>3, <2>4, TopIs
  <2> QED BY <1>3, <1>4, <2>5 DEF CountInv, Acquiring
<1> QED BY <1>2, <1>3, <1>4

\* Whoever uses a header has a reference to it, so that it is nowhere else.
LEMMA InUse ==
  ASSUME CountInv, NEW h \in Headers,
         \/ \E t \in Threads : held[t][h] > 0
         \/ \E d \in Headers : reference[d] = h /\ ~Recycling(d)
         \/ \E t \in Threads : \E i \in 1 .. Len(stack[t]) :
              stack[t][i].h = h /\ stack[t][i].pc \in {"load", "store"}
  PROVE  /\ ~Stored(h) /\ refcount[h] = References(h) /\ References(h) \in Nat \ {0}
         /\ h \in Live /\ ~Queued(h) /\ h \notin delayed
         /\ \A t \in Threads : \A i \in 1 .. Len(stack[t]) :
              stack[t][i].h = h => stack[t][i].pc \notin Leaving
<1>1. Types /\ held \in Holds
  BY DEF CountInv, CountTypes
<1>2. ~Stored(h) /\ refcount[h] # 0
  <2>1. ~(Stored(h) \/ refcount[h] = 0)
    BY NotInUse DEF Leaving, Dead
  <2> QED BY <2>1
<1>3. refcount[h] = References(h) /\ References(h) \in Nat
  BY <1>1, <1>2, ReferencesAre DEF CountInv, Counted
<1>4. h \in Live /\ ~Queued(h) /\ ~Putting(h) /\ h \notin delayed
  BY <1>2 DEF Stored, CountInv, Counted
<1>5. ASSUME NEW t \in Threads, NEW i \in 1 .. Len(stack[t]), stack[t][i].h = h
      PROVE  stack[t][i].pc \notin Leaving
  <2>1. stack[t][i].pc # "put"
    BY <1>1, <1>4, <1>5, CallsAre
  <2>2. stack[t][i].pc \notin Dead
    BY <1>2, <1>5 DEF CountInv, Counted
  <2> QED BY <2>1, <2>2 DEF Leaving
<1> QED BY <1>2, <1>3, <1>4, <1>5

-----------------------------------------------------------------------------
(* What a step does to the stacks.                                         *)

\* Only the innermost call of t changes: it returns, or calls another function.
Beside(t) ==
  /\ \A u \in Threads \ {t} : stack'[u] = stack[u]
  /\ Len(stack[t]) \in Nat \ {0}
  /\ Len(stack'[t]) \in {Len(stack[t]) - 1, Len(stack[t]), Len(stack[t]) + 1}
  /\ \A i \in 1 .. Len(stack[t]) - 1 : stack'[t][i] = stack[t][i]

\* A call returns.
LEMMA Returned ==
  ASSUME Types, NEW t \in Threads, stack[t] # <<>>, Return(t)
  PROVE  Beside(t) /\ Len(stack'[t]) = Len(stack[t]) - 1 /\ stack' \in [Threads -> Seq(Frame)]
<1>1. stack[t] \in Seq(Frame) /\ Len(stack[t]) \in Nat \ {0}
  BY DEF Types
<1>2. Front(stack[t]) = SubSeq(stack[t], 1, Len(stack[t]) - 1)
  BY DEF Front
<1>3. /\ Front(stack[t]) \in Seq(Frame) /\ Len(Front(stack[t])) = Len(stack[t]) - 1
      /\ \A i \in 1 .. Len(stack[t]) - 1 : Front(stack[t])[i] = stack[t][i]
  BY <1>1, <1>2
<1>4. /\ stack'[t] = Front(stack[t]) /\ \A u \in Threads \ {t} : stack'[u] = stack[u]
      /\ stack' \in [Threads -> Seq(Frame)]
  BY <1>3 DEF Return, Types
<1> QED BY <1>1, <1>3, <1>4 DEF Beside

\* A call goes on.
LEMMA Replaced ==
  ASSUME Types, NEW t \in Threads, stack[t] # <<>>, NEW g \in Frame,
         stack' = [stack EXCEPT ![t] = Append(Front(@), g)]
  PROVE  /\ Beside(t) /\ Len(stack'[t]) = Len(stack[t]) /\ stack'[t][Len(stack[t])] = g
         /\ stack' \in [Threads -> Seq(Frame)]
<1>1. stack[t] \in Seq(Frame) /\ Len(stack[t]) \in Nat \ {0}
  BY DEF Types
<1>2. Front(stack[t]) = SubSeq(stack[t], 1, Len(stack[t]) - 1)
  BY DEF Front
<1>3. /\ Front(stack[t]) \in Seq(Frame) /\ Len(Front(stack[t])) = Len(stack[t]) - 1
      /\ \A i \in 1 .. Len(stack[t]) - 1 : Front(stack[t])[i] = stack[t][i]
  BY <1>1, <1>2
<1>4. /\ stack'[t] = Append(Front(stack[t]), g)
      /\ \A u \in Threads \ {t} : stack'[u] = stack[u]
      /\ stack' \in [Threads -> Seq(Frame)]
  BY <1>3 DEF Types
<1>5. /\ Len(stack'[t]) = Len(stack[t]) /\ stack'[t][Len(stack[t])] = g
      /\ \A i \in 1 .. Len(stack[t]) - 1 : stack'[t][i] = stack[t][i]
  BY <1>1, <1>3, <1>4
<1> QED BY <1>1, <1>4, <1>5 DEF Beside

\* A call goes on and makes another one.
LEMMA Nests ==
  ASSUME Types, NEW t \in Threads, stack[t] # <<>>, NEW g \in Frame, NEW r \in Frame,
         stack' = [stack EXCEPT ![t] = Append(Front(@), g) \o <<r>>]
  PROVE  /\ Beside(t) /\ Len(stack'[t]) = Len(stack[t]) + 1
         /\ stack'[t][Len(stack[t])] = g /\ stack'[t][Len(stack[t]) + 1] = r
         /\ stack' \in [Threads -> Seq(Frame)]
<1>1. stack[t] \in Seq(Frame) /\ Len(stack[t]) \in Nat \ {0}
  BY DEF Types
<1>2. Front(stack[t]) = SubSeq(stack[t], 1, Len(stack[t]) - 1)
  BY DEF Front
<1>3. /\ Front(stack[t]) \in Seq(Frame) /\ Len(Front(stack[t])) = Len(stack[t]) - 1
      /\ \A i \in 1 .. Len(stack[t]) - 1 : Front(stack[t])[i] = stack[t][i]
  BY <1>1, <1>2
<1> DEFINE s == Append(Front(stack[t]), g)
<1>4. /\ s \in Seq(Frame) /\ Len(s) = Len(stack[t]) /\ s[Len(stack[t])] = g
      /\ \A i \in 1 .. Len(stack[t]) - 1 : s[i] = stack[t][i]
  BY <1>1, <1>3
<1> HIDE DEF s
<1>5. /\ stack'[t] = s \o <<r>> /\ s \o <<r>> \in Seq(Frame)
      /\ \A u \in Threads \ {t} : stack'[u] = stack[u]
      /\ stack' \in [Threads -> Seq(Frame)]
  BY <1>4 DEF Types, s
<1>6. /\ Len(stack'[t]) = Len(stack[t]) + 1
      /\ stack'[t][Len(stack[t])] = g /\ stack'[t][Len(stack[t]) + 1] = r
      /\ \A i \in 1 .. Len(stack[t]) - 1 : stack'[t][i] = stack[t][i]
  BY <1>1, <1>4, <1>5
<1> QED BY <1>1, <1>5, <1>6 DEF Beside

\* A thread that is in no call begins one.
LEMMA Begun ==
  ASSUME Types, NEW t \in Threads, stack[t] = <<>>, NEW g \in Frame,
         stack' = [stack EXCEPT ![t] = <<g>>]
  PROVE  /\ \A u \in Threads \ {t} : stack'[u] = stack[u]
         /\ Len(stack'[t]) = 1 /\ stack'[t][1] = g /\ Len(stack[t]) = 0
         /\ stack' \in [Threads -> Seq(Frame)]
<1>1. stack'[t] = <<g>> /\ <<g>> \in Seq(Frame)
  BY DEF Types
<1> QED BY <1>1 DEF Types

\* The header of the innermost call, which it alone puts or recycles, and the others.
LEMMA Whereabouts ==
  ASSUME CountInv, Types', NEW t \in Threads, stack[t] # <<>>, Beside(t),
         NEW h, h = Top(t).h,
         Len(stack'[t]) >= Len(stack[t]) => stack'[t][Len(stack[t])].h = h,
         Len(stack'[t]) > Len(stack[t]) => stack'[t][Len(stack[t]) + 1].pc = "load"
  PROVE  LET n == Len(stack[t]) IN
           /\ \A d : d # h => (Recycling(d)' <=> Recycling(d)) /\ (Putting(d)' <=> Putting(d))
           /\ Recycling(h) <=> Top(t).pc = "recycle"
           /\ Putting(h) <=> Top(t).pc = "put"
           /\ Recycling(h)' <=> Len(stack'[t]) >= n /\ stack'[t][n].pc = "recycle"
           /\ Putting(h)' <=> Len(stack'[t]) >= n /\ stack'[t][n].pc = "put"
<1> DEFINE n == Len(stack[t])
<1>1. /\ Types /\ Top(t) = stack[t][n] /\ n \in Nat \ {0} /\ h \in Headers
      /\ Top(t).pc \in {"load", "store"} \cup Leaving
  BY TopIs DEF CountInv, CountTypes, Frame, Leaving, Dead
<1>2. ASSUME NEW u \in Threads, NEW i \in 1 .. Len(stack[u]), stack[u][i].h = h,
             stack[u][i].pc \in Leaving
      PROVE  u = t /\ i = n
  <2>1. n \in 1 .. Len(stack[t])
    BY <1>1
  <2>2. CASE Top(t).pc \in Leaving
    BY <1>1, <1>2, <2>1, <2>2 DEF CountInv, Placed
  <2>3. CASE Top(t).pc \in {"load", "store"}
    BY <1>1, <1>2, <2>1, <2>3, InUse
  <2> QED BY <1>1, <2>2, <2>3
<1>3. \A u \in Threads, i \in Nat : u # t \/ i < n =>
        /\ i \in 1 .. Len(stack'[u]) <=> i \in 1 .. Len(stack[u])
        /\ i \in 1 .. Len(stack[u]) => stack'[u][i] = stack[u][i]
  BY <1>1 DEF Beside
<1>4. \A i \in 1 .. Len(stack'[t]) : i < n \/ i = n \/ (i = n + 1 /\ Len(stack'[t]) > n)
  BY <1>1 DEF Beside
<1>5. \A u \in Threads : Len(stack[u]) \in Nat /\ Len(stack'[u]) \in Nat
  BY <1>1 DEF Types
<1> DEFINE Has(l, d)  == \E u \in Threads : \E i \in 1 .. Len(stack[u]) :
                           stack[u][i].h = d /\ stack[u][i].pc = l
<1> DEFINE Has2(l, d) == \E u \in Threads : \E i \in 1 .. Len(stack'[u]) :
                           stack'[u][i].h = d /\ stack'[u][i].pc = l
<1>6. ASSUME NEW l \in {"recycle", "put"}
      PROVE  /\ \A d : d # h => (Has2(l, d) <=> Has(l, d))
             /\ Has(l, h) <=> Top(t).pc = l
             /\ Has2(l, h) <=> Len(stack'[t]) >= n /\ stack'[t][n].pc = l
  <2>1. ASSUME NEW d, d # h, Has(l, d) PROVE Has2(l, d)
    <3>1. PICK u \in Threads : \E i \in 1 .. Len(stack[u]) : stack[u][i].h = d /\ stack[u][i].pc = l
      BY <2>1
    <3>2. PICK i \in 1 .. Len(stack[u]) : stack[u][i].h = d /\ stack[u][i].pc = l
      BY <3>1
    <3>3. u # t \/ i < n
      BY <1>1, <2>1, <3>2
    <3> QED BY <1>3, <3>2, <3>3
  <2>2. ASSUME NEW d, d # h, Has2(l, d) PROVE Has(l, d)
    <3>1. PICK u \in Threads : \E i \in 1 .. Len(stack'[u]) : stack'[u][i].h = d /\ stack'[u][i].pc = l
      BY <2>2
    <3>2. PICK i \in 1 .. Len(stack'[u]) : stack'[u][i].h = d /\ stack'[u][i].pc = l
      BY <3>1
    <3>3. u # t \/ i < n
      BY <1>1, <1>4, <2>2, <3>2
    <3> QED BY <1>3, <3>2, <3>3
  <2>3. Has(l, h) <=> Top(t).pc = l
    BY <1>1, <1>2 DEF Leaving, Dead
  <2>4. ASSUME Has2(l, h) PROVE Len(stack'[t]) >= n /\ stack'[t][n].pc = l
    <3>1. PICK u \in Threads : \E i \in 1 .. Len(stack'[u]) : stack'[u][i].h = h /\ stack'[u][i].pc = l
      BY <2>4
    <3>2. PICK i \in 1 .. Len(stack'[u]) : stack'[u][i].h = h /\ stack'[u][i].pc = l
      BY <3>1
    <3>3. ~(u # t \/ i < n)
      BY <1>1, <1>2, <1>3, <3>2 DEF Leaving, Dead
    <3> QED BY <1>1, <1>4, <1>5, <3>2, <3>3
  <2>5. ASSUME Len(stack'[t]) >= n, stack'[t][n].pc = l PROVE Has2(l, h)
    <3>1. n \in 1 .. Len(stack'[t])
      BY <1>1, <1>5, <2>5
    <3> QED BY <2>5, <3>1
  <2> QED BY <2>1, <2>2, <2>3, <2>4, <2>5
<1>7. \A d : Putting(d) <=> Has("put", d)
  BY <1>1, CallsAre
<1>8. \A d : Putting(d)' <=> Has2("put", d)
  BY CallsAreThen
<1>9. \A d : /\ Recycling(d) <=> Has("recycle", d)
             /\ Recycling(d)' <=> Has2("recycle", d)
  BY DEF Recycling
<1> HIDE DEF Has, Has2
<1>10. ASSUME NEW d, d # h PROVE (Recycling(d)' <=> Recycling(d)) /\ (Putting(d)' <=> Putting(d))
  <2>1. (Has2("recycle", d) <=> Has("recycle", d)) /\ (Has2("put", d) <=> Has("put", d))
    BY <1>6, <1>10
  <2>2. (Recycling(d) <=> Has("recycle", d)) /\ (Recycling(d)' <=> Has2("recycle", d))
    BY <1>9
  <2>3. (Putting(d) <=> Has("put", d)) /\ (Putting(d)' <=> Has2("put", d))
    BY <1>7, <1>8
  <2> QED BY <2>1, <2>2, <2>3
<1>11. /\ Recycling(h) <=> Top(t).pc = "recycle"
       /\ Putting(h) <=> Top(t).pc = "put"
  BY <1>6, <1>7, <1>9
<1>12. /\ Recycling(h)' <=> Len(stack'[t]) >= n /\ stack'[t][n].pc = "recycle"
       /\ Putting(h)' <=> Len(stack'[t]) >= n /\ stack'[t][n].pc = "put"
  BY <1>6, <1>8, <1>9
<1> QED BY <1>10, <1>11, <1>12

-----------------------------------------------------------------------------
(* References after a step.                                                *)

\* The references to a header after a step are of the same three kinds.
LEMMA ReferencesThen ==
  ASSUME held' \in Holds, NEW h \in Headers
  PROVE  /\ References(h)' = Cardinality(Tokens(held', h)) + Cardinality(Replicas(h)')
                               + Cardinality(Releasing(h)')
         /\ IsFiniteSet(Replicas(h)') /\ IsFiniteSet(Releasing(h)')
         /\ Cardinality(Tokens(held', h)) \in Nat /\ Cardinality(Replicas(h)') \in Nat
         /\ Cardinality(Releasing(h)') \in Nat /\ References(h)' \in Nat
<1>1. IsFiniteSet(Replicas(h)')
  BY HeadersFinite, FS_Subset DEF Replicas
<1>2. IsFiniteSet(Releasing(h)')
  BY PoolAssumption, FS_Subset DEF Releasing
<1>3. References(h)' = Cardinality(Tokens(held', h)) + Cardinality(Replicas(h)')
                         + Cardinality(Releasing(h)')
  BY DEF References, HeldRefs, Tokens
<1>4. /\ Cardinality(Tokens(held', h)) \in Nat /\ Cardinality(Replicas(h)') \in Nat
      /\ Cardinality(Releasing(h)') \in Nat
  BY <1>1, <1>2, TokensFinite, FS_CardinalityType
<1> QED BY <1>1, <1>2, <1>3, <1>4

\* A header whose references and place have not changed is counted as before.
LEMMA CountKept ==
  ASSUME CountInv, held' \in Holds, NEW g \in Headers,
         Tokens(held', g) = Tokens(held, g), Replicas(g)' = Replicas(g), Releasing(g)' = Releasing(g),
         Stored(g)' <=> Stored(g), refcount'[g] = refcount[g],
         Stored(g) => reference'[g] = reference[g]
  PROVE  /\ refcount'[g] = References(g)' + (IF Stored(g)' THEN 1 ELSE 0)
         /\ Stored(g)' => refcount'[g] = 1 /\ reference'[g] = NoHeader
<1>1. held \in Holds
  BY DEF CountInv, CountTypes
<1>2. References(g)' = References(g)
  BY <1>1, ReferencesAre, ReferencesThen
<1> QED BY <1>2 DEF CountInv, Counted

-----------------------------------------------------------------------------
(* A step inside a call.                                                   *)

\* The n-th and innermost call of t, which is on h, goes on, or calls the release of
\* another header, or returns.
Inside(t, h, n) ==
  /\ stack[t] # <<>> /\ h = Top(t).h /\ n = Len(stack[t]) /\ Beside(t)
  /\ Len(stack'[t]) = n =>
       /\ stack'[t][n].h = h
       /\ stack'[t][n].by = 1 => stack'[t][n].pc \in {"load", "store"} /\ Top(t).by = 1
  /\ Len(stack'[t]) > n =>
       /\ stack'[t][n].h = h /\ stack'[t][n].pc = "recycle" /\ stack'[t][n].by = -1
       /\ stack'[t][n + 1].pc = "load" /\ stack'[t][n + 1].by = -1

\* What the lemmas below assume.
InsideStep(own, t, h, n) == CountInv /\ Owned(own) /\ Types' /\ Inside(t, h, n)

\* Which call it is, and what becomes of it.
LEMMA InsideTop ==
  ASSUME Types, NEW t \in Threads, NEW h, NEW n, Inside(t, h, n)
  PROVE  /\ n \in Nat \ {0} /\ n \in 1 .. Len(stack[t]) /\ n = Len(stack[t])
         /\ Top(t) = stack[t][n] /\ Top(t).h = h /\ h \in Headers
         /\ Len(stack'[t]) \in {n - 1, n, n + 1}
         /\ Len(stack'[t]) >= n => stack'[t][n].h = h
<1>1. stack[t] # <<>> /\ n = Len(stack[t]) /\ Top(t).h = h /\ Beside(t)
  BY DEF Inside
<1>2. n \in Nat \ {0} /\ Top(t) = stack[t][n] /\ h \in Headers
  BY <1>1, TopIs
<1>3. n \in 1 .. Len(stack[t])
  BY <1>1, <1>2
<1>4. Len(stack'[t]) \in {n - 1, n, n + 1}
  BY <1>1 DEF Beside
<1>5. Len(stack'[t]) = n \/ Len(stack'[t]) > n => stack'[t][n].h = h
  BY DEF Inside
<1>6. Len(stack'[t]) >= n <=> Len(stack'[t]) = n \/ Len(stack'[t]) > n
  BY <1>2, <1>4
<1> QED BY <1>1, <1>2, <1>3, <1>4, <1>5, <1>6

\* The calls after the step.
LEMMA InsideCalls ==
  ASSUME Types, Types', NEW t \in Threads, NEW h, NEW n, Inside(t, h, n)
  PROVE  /\ n \in Nat \ {0} /\ n \in 1 .. Len(stack[t]) /\ Top(t) = stack[t][n] /\ h \in Headers
         /\ Len(stack'[t]) \in {n - 1, n, n + 1}
         /\ \A u \in Threads : \A j \in 1 .. Len(stack'[u]) :
              \/ (u # t \/ j < n) /\ j \in 1 .. Len(stack[u]) /\ stack'[u][j] = stack[u][j]
              \/ u = t /\ j = n
              \/ u = t /\ j = n + 1 /\ Len(stack'[t]) > n
         /\ \A u \in Threads : \A j \in 1 .. Len(stack[u]) :
              u # t \/ j < n => j \in 1 .. Len(stack'[u]) /\ stack'[u][j] = stack[u][j]
<1>1. /\ n \in Nat \ {0} /\ Top(t) = stack[t][n] /\ h \in Headers
      /\ Len(stack'[t]) \in {n - 1, n, n + 1}
  BY TopIs DEF Inside, Beside
<1>2. \A u \in Threads : Len(stack[u]) \in Nat /\ Len(stack'[u]) \in Nat
  BY DEF Types
<1>3. /\ \A u \in Threads \ {t} : stack'[u] = stack[u]
      /\ \A i \in 1 .. n - 1 : stack'[t][i] = stack[t][i]
      /\ n = Len(stack[t])
  BY DEF Inside, Beside
<1>4. n \in 1 .. Len(stack[t])
  BY <1>1, <1>3
<1>5. ASSUME NEW u \in Threads, NEW j \in 1 .. Len(stack'[u])
      PROVE  \/ (u # t \/ j < n) /\ j \in 1 .. Len(stack[u]) /\ stack'[u][j] = stack[u][j]
             \/ u = t /\ j = n
             \/ u = t /\ j = n + 1 /\ Len(stack'[t]) > n
  <2>1. CASE u # t
    BY <1>3, <2>1
  <2>2. CASE u = t
    BY <1>1, <1>2, <1>3, <2>2
  <2> QED BY <2>1, <2>2
<1>6. ASSUME NEW u \in Threads, NEW j \in 1 .. Len(stack[u]), u # t \/ j < n
      PROVE  j \in 1 .. Len(stack'[u]) /\ stack'[u][j] = stack[u][j]
  <2>1. CASE u # t
    BY <1>3, <2>1
  <2>2. CASE u = t
    BY <1>1, <1>2, <1>3, <1>6, <2>2
  <2> QED BY <2>1, <2>2
<1> QED BY <1>1, <1>4, <1>5, <1>6

\* No call but the n-th one of t is on h.
OnlyCall(t, h, n) ==
  \A u \in Threads : \A j \in 1 .. Len(stack[u]) : u # t \/ j < n => stack[u][j].h # h

\* No other call is on that header.
LEMMA Alone ==
  ASSUME NEW own, NEW t \in Threads, NEW h, NEW n, InsideStep(own, t, h, n)
  PROVE  OnlyCall(t, h, n)
<1>1. Types /\ Types' /\ Inside(t, h, n)
  BY DEF InsideStep, CountInv, CountTypes
<1>2. /\ n \in Nat \ {0} /\ n \in 1 .. Len(stack[t]) /\ n = Len(stack[t]) /\ Top(t) = stack[t][n]
      /\ h \in Headers /\ h = stack[t][n].h /\ stack[t][n] \in Frame
  BY <1>1, InsideCalls, TopIs DEF Inside
<1>3. SUFFICES ASSUME NEW u \in Threads, NEW j \in 1 .. Len(stack[u]), u # t \/ j < n,
                      stack[u][j].h = h
               PROVE  FALSE
  BY DEF OnlyCall
<1>4. stack[u] \in Seq(Frame) /\ stack[u][j] \in Frame
  BY <1>1, <1>3 DEF Types
<1>5. own[h] = t /\ own[h] = u
  BY <1>2, <1>3 DEF InsideStep, Owned
<1>6. stack[u][j].pc = "recycle"
  BY <1>2, <1>3, <1>5 DEF InsideStep, CountInv, Nested
<1>7. CASE stack[t][n].pc \in Leaving
  BY <1>2, <1>3, <1>6, <1>7 DEF InsideStep, CountInv, Placed, Leaving, Dead
<1>8. CASE stack[t][n].pc \in {"load", "store"}
  BY <1>2, <1>3, <1>6, <1>8, InUse DEF InsideStep, Leaving, Dead
<1> QED BY <1>2, <1>7, <1>8 DEF Frame, Leaving, Dead

\* Calls are nested after the step.
LEMMA InsideNested ==
  ASSUME NEW own, NEW t \in Threads, NEW h, NEW n, InsideStep(own, t, h, n)
  PROVE  Nested'
<1>1. Types /\ Types' /\ Inside(t, h, n) /\ Nested
  BY DEF InsideStep, CountInv, CountTypes
<1>2. /\ n \in Nat \ {0} /\ n \in 1 .. Len(stack[t]) /\ n = Len(stack[t]) /\ Top(t) = stack[t][n]
      /\ Len(stack'[t]) \in {n - 1, n, n + 1}
  BY <1>1, InsideTop
<1>3. SUFFICES ASSUME NEW u \in Threads, NEW j \in 1 .. Len(stack'[u])
               PROVE  /\ j < Len(stack'[u]) => stack'[u][j].pc = "recycle"
                      /\ stack'[u][j].by = 1 => Len(stack'[u]) = 1 /\ stack'[u][j].pc \in {"load", "store"}
  BY DEF Nested
<1>4. CASE u # t
  <2>1. stack'[u] = stack[u]
    BY <1>1, <1>4 DEF Inside, Beside
  <2> QED BY <1>1, <2>1 DEF Nested
<1>5. CASE u = t /\ j < n
  <2>1. j \in 1 .. Len(stack[t]) /\ stack'[t][j] = stack[t][j] /\ j < Len(stack[t]) /\ Len(stack[t]) > 1
    BY <1>1, <1>2, <1>3, <1>5, InsideCalls
  <2>2. stack[t][j].pc = "recycle" /\ stack[t][j].by # 1
    BY <1>1, <2>1 DEF Nested
  <2> QED BY <1>5, <2>1, <2>2
<1>6. CASE u = t /\ j = n
  <2>1. CASE Len(stack'[t]) = n
    <3>1. Top(t).by = 1 => n = 1
      BY <1>1, <1>2 DEF Nested
    <3> QED BY <1>1, <1>2, <1>6, <2>1, <3>1 DEF Inside
  <2>2. CASE Len(stack'[t]) > n
    BY <1>1, <1>2, <1>6, <2>2 DEF Inside
  <2> QED BY <1>2, <1>3, <1>6, <2>1, <2>2
<1>7. CASE u = t /\ j = n + 1 /\ Len(stack'[t]) > n
  BY <1>1, <1>2, <1>7 DEF Inside
<1> QED BY <1>1, <1>3, <1>4, <1>5, <1>6, <1>7, InsideCalls

\* The releases under way are those in the stacks.
LEMMA ReleasingAre ==
  ASSUME Types, Nested, NEW t \in Threads, NEW g
  PROVE  t \in Releasing(g) <=> \E i \in 1 .. Len(stack[t]) :
           stack[t][i].h = g /\ stack[t][i].by = -1 /\ stack[t][i].pc \in {"load", "store"}
<1>1. Len(stack[t]) \in Nat /\ (stack[t] # <<>> <=> Len(stack[t]) > 0)
  BY DEF Types
<1>2. stack[t] # <<>> => Top(t) = stack[t][Len(stack[t])]
  BY TopIs
<1>3. ASSUME NEW i \in 1 .. Len(stack[t]), stack[t][i].pc \in {"load", "store"}
      PROVE  i = Len(stack[t]) /\ stack[t] # <<>>
  BY <1>1, <1>3 DEF Nested
<1>4. t \in Releasing(g) <=> /\ stack[t] # <<>> /\ Top(t).pc \in {"load", "store"}
                             /\ Top(t).h = g /\ Top(t).by = -1
  BY DEF Releasing, At
<1>5. stack[t] # <<>> => Len(stack[t]) \in 1 .. Len(stack[t])
  BY <1>1
<1> QED BY <1>2, <1>3, <1>4, <1>5

\* The same after a step.
LEMMA ReleasingAreThen ==
  ASSUME Types', Nested', NEW t \in Threads, NEW g
  PROVE  t \in Releasing(g)' <=> \E i \in 1 .. Len(stack'[t]) :
           stack'[t][i].h = g /\ stack'[t][i].by = -1 /\ stack'[t][i].pc \in {"load", "store"}
<1>1. Len(stack'[t]) \in Nat /\ (stack'[t] # <<>> <=> Len(stack'[t]) > 0)
  BY DEF Types
<1>2. stack'[t] # <<>> => Top(t)' = stack'[t][Len(stack'[t])]
  BY DEF Top, Last
<1>3. ASSUME NEW i \in 1 .. Len(stack'[t]), stack'[t][i].pc \in {"load", "store"}
      PROVE  i = Len(stack'[t]) /\ stack'[t] # <<>>
  BY <1>1, <1>3 DEF Nested
<1>4. t \in Releasing(g)' <=> /\ stack'[t] # <<>> /\ Top(t)'.pc \in {"load", "store"}
                              /\ Top(t)'.h = g /\ Top(t)'.by = -1
  BY DEF Releasing, At
<1>5. stack'[t] # <<>> => Len(stack'[t]) \in 1 .. Len(stack'[t])
  BY <1>1
<1> QED BY <1>2, <1>3, <1>4, <1>5

\* The releases of g that a step inside a call leaves, begins and ends.
ReleasesAre(t, h, n, g) ==
  /\ \A u \in Threads \ {t} : u \in Releasing(g)' <=> u \in Releasing(g)
  /\ t \in Releasing(g) <=> g = h /\ Top(t).by = -1 /\ Top(t).pc \in {"load", "store"}
  /\ t \in Releasing(g)' <=>
       \/ /\ Len(stack'[t]) = n /\ g = h
          /\ stack'[t][n].by = -1 /\ stack'[t][n].pc \in {"load", "store"}
       \/ Len(stack'[t]) > n /\ g = stack'[t][n + 1].h

\* A step inside a call changes the references under release only as that call does.
LEMMA InsideReleasing ==
  ASSUME NEW own, NEW t \in Threads, NEW h, NEW n, InsideStep(own, t, h, n), NEW g
  PROVE  ReleasesAre(t, h, n, g)
<1>1. /\ Types /\ Types' /\ Inside(t, h, n) /\ Nested /\ Nested'
  <2>1. Nested'
    BY InsideNested
  <2> QED BY <2>1 DEF InsideStep, CountInv, CountTypes
<1>2. /\ n \in Nat \ {0} /\ n \in 1 .. Len(stack[t]) /\ n = Len(stack[t]) /\ Top(t) = stack[t][n]
      /\ Len(stack'[t]) \in {n - 1, n, n + 1} /\ h = Top(t).h
  BY <1>1, InsideTop
<1>3. ASSUME NEW u \in Threads \ {t} PROVE u \in Releasing(g)' <=> u \in Releasing(g)
  <2>1. stack'[u] = stack[u]
    BY <1>1 DEF Inside, Beside
  <2> QED BY <1>1, <2>1, ReleasingAre, ReleasingAreThen
<1>4. \A i \in 1 .. Len(stack[t]) : i # n => stack[t][i].pc \notin {"load", "store"}
  BY <1>1, <1>2 DEF Nested
<1>5. t \in Releasing(g) <=> g = h /\ Top(t).by = -1 /\ Top(t).pc \in {"load", "store"}
  BY <1>1, <1>2, <1>4, ReleasingAre
<1>6. \A i \in 1 .. Len(stack'[t]) : i < n => stack'[t][i].pc \notin {"load", "store"}
  <2> SUFFICES ASSUME NEW i \in 1 .. Len(stack'[t]), i < n
               PROVE  stack'[t][i].pc \notin {"load", "store"}
    OBVIOUS
  <2>1. i # n /\ i # n + 1
    BY <1>2
  <2>2. i \in 1 .. Len(stack[t]) /\ stack'[t][i] = stack[t][i]
    BY <1>1, <2>1, InsideCalls
  <2> QED BY <1>4, <2>1, <2>2
<1>7. \A i \in 1 .. Len(stack'[t]) : i < n \/ i = n \/ (i = n + 1 /\ Len(stack'[t]) > n)
  BY <1>2
<1>8. CASE Len(stack'[t]) = n - 1
  <2>1. \A i \in 1 .. Len(stack'[t]) : i < n
    BY <1>2, <1>8
  <2>2. t \notin Releasing(g)'
    BY <1>1, <1>6, <2>1, ReleasingAreThen
  <2>3. Len(stack'[t]) # n /\ ~(Len(stack'[t]) > n)
    BY <1>2, <1>8
  <2> QED BY <1>3, <1>5, <2>2, <2>3 DEF ReleasesAre
<1>9. CASE Len(stack'[t]) = n
  <2>1. n \in 1 .. Len(stack'[t]) /\ ~(Len(stack'[t]) > n) /\ \A i \in 1 .. Len(stack'[t]) : i < n \/ i = n
    BY <1>2, <1>9
  <2>2. stack'[t][n].h = h
    BY <1>1, <1>9 DEF Inside
  <2>3. t \in Releasing(g)' <=> g = h /\ stack'[t][n].by = -1 /\ stack'[t][n].pc \in {"load", "store"}
    BY <1>1, <1>6, <2>1, <2>2, ReleasingAreThen
  <2> QED BY <1>3, <1>5, <1>9, <2>1, <2>3 DEF ReleasesAre
<1>10. CASE Len(stack'[t]) = n + 1
  <2>1. n + 1 \in 1 .. Len(stack'[t]) /\ Len(stack'[t]) > n /\ Len(stack'[t]) # n
    BY <1>2, <1>10
  <2>2. /\ stack'[t][n].pc = "recycle"
        /\ stack'[t][n + 1].pc = "load" /\ stack'[t][n + 1].by = -1
    BY <1>1, <2>1 DEF Inside
  <2>3. t \in Releasing(g)' <=> g = stack'[t][n + 1].h
    BY <1>1, <1>6, <1>7, <2>1, <2>2, ReleasingAreThen
  <2> QED BY <1>3, <1>5, <2>1, <2>3 DEF ReleasesAre
<1> QED BY <1>2, <1>8, <1>9, <1>10

\* Headers without references stay in one place.
LEMMA InsidePlaced ==
  ASSUME NEW own, NEW t \in Threads, NEW h, NEW n, InsideStep(own, t, h, n),
         queue' = queue, headers_num' = headers_num, delayed \subseteq delayed',
         delayed' \subseteq delayed \cup {h},
         h \in delayed' => h \in Live /\ ~Queued(h),
         Len(stack'[t]) >= n /\ stack'[t][n].pc \in Leaving =>
           h \in Live /\ ~Queued(h) /\ h \notin delayed'
  PROVE  Placed'
<1>1. Types /\ Types' /\ Inside(t, h, n) /\ Placed
  BY DEF InsideStep, CountInv, CountTypes
<1>2. /\ n \in Nat \ {0} /\ Len(stack'[t]) \in {n - 1, n, n + 1}
      /\ Len(stack'[t]) >= n => stack'[t][n].h = h
  BY <1>1, InsideTop
<1>3. \A g : (Queued(g)' <=> Queued(g)) /\ (g \in Live' <=> g \in Live)
  BY DEF Queued, Live
<1>4. IsInjective(queue') /\ delayed' \subseteq Live'
  BY <1>1, <1>3 DEF Placed
<1>5. \A g \in Headers : Queued(g)' => g \in Live' /\ g \notin delayed'
  BY <1>1, <1>3 DEF Placed
<1>6. ASSUME NEW u \in Threads, NEW i \in 1 .. Len(stack'[u]), stack'[u][i].pc \in Leaving,
             ~(u = t /\ i = n)
      PROVE  /\ u # t \/ i < n
             /\ i \in 1 .. Len(stack[u]) /\ stack'[u][i] = stack[u][i] /\ stack[u][i].h # h
  <2>1. ~(u = t /\ i = n + 1 /\ Len(stack'[t]) > n)
    BY <1>1, <1>6 DEF Inside, Leaving, Dead
  <2>2. /\ u # t \/ i < n
        /\ i \in 1 .. Len(stack[u]) /\ stack'[u][i] = stack[u][i]
    BY <1>1, <1>6, <2>1, InsideCalls
  <2>3. OnlyCall(t, h, n)
    BY Alone
  <2> QED BY <2>2, <2>3 DEF OnlyCall
<1>7. ASSUME NEW u \in Threads, NEW i \in 1 .. Len(stack'[u]), stack'[u][i].pc \in Leaving
      PROVE  /\ stack'[u][i].h \in Live' /\ stack'[u][i].h \notin delayed' /\ stack'[u][i].h \notin ToSet(queue')
             /\ \A v \in Threads : \A j \in 1 .. Len(stack'[v]) :
                  stack'[v][j].pc \in Leaving /\ stack'[v][j].h = stack'[u][i].h => v = u /\ j = i
  <2>1. CASE u = t /\ i = n
    <3>1. Len(stack'[t]) >= n /\ stack'[t][n].h = h
      BY <1>2, <1>7, <2>1
    <3>2. h \in Live' /\ h \notin delayed' /\ h \notin ToSet(queue')
      BY <1>3, <1>7, <2>1, <3>1 DEF Queued
    <3>3. ASSUME NEW v \in Threads, NEW j \in 1 .. Len(stack'[v]),
                 stack'[v][j].pc \in Leaving, stack'[v][j].h = h
          PROVE  v = t /\ j = n
      BY <1>6, <3>3
    <3> QED BY <2>1, <3>1, <3>2, <3>3
  <2>2. CASE ~(u = t /\ i = n)
    <3>1. i \in 1 .. Len(stack[u]) /\ stack'[u][i] = stack[u][i] /\ stack[u][i].h # h
      BY <1>6, <1>7, <2>2
    <3>2. /\ stack[u][i].h \in Live /\ stack[u][i].h \notin delayed /\ ~Queued(stack[u][i].h)
          /\ \A v \in Threads : \A j \in 1 .. Len(stack[v]) :
               stack[v][j].pc \in Leaving /\ stack[v][j].h = stack[u][i].h => v = u /\ j = i
      BY <1>1, <1>7, <3>1 DEF Placed
    <3>3. ASSUME NEW v \in Threads, NEW j \in 1 .. Len(stack'[v]),
                 stack'[v][j].pc \in Leaving, stack'[v][j].h = stack[u][i].h
          PROVE  v = u /\ j = i
      <4>1. ~(v = t /\ j = n)
        BY <1>2, <3>1, <3>3
      <4> QED BY <1>6, <3>2, <3>3, <4>1
    <3>4. stack'[u][i].h \in Live' /\ stack'[u][i].h \notin delayed' /\ stack'[u][i].h \notin ToSet(queue')
      BY <1>3, <3>1, <3>2 DEF Queued
    <3> QED BY <3>1, <3>3, <3>4
  <2> QED BY <2>1, <2>2
<1> QED BY <1>4, <1>5, <1>7 DEF Placed, Queued

\* What calls have loaded, or know to be zero, stays true.
LEMMA InsideLoaded ==
  ASSUME NEW own, NEW t \in Threads, NEW h, NEW n, InsideStep(own, t, h, n),
         \A g \in Headers \ {h} : refcount'[g] = refcount[g],
         delayed' \subseteq delayed \cup {h}, h \in delayed' => refcount'[h] = 0,
         Len(stack'[t]) >= n =>
           /\ stack'[t][n].pc = "store" => stack'[t][n].count = refcount'[h]
           /\ stack'[t][n].pc \in Dead => refcount'[h] = 0
  PROVE  /\ \A g \in delayed' : refcount'[g] = 0
         /\ \A u \in Threads : \A i \in 1 .. Len(stack'[u]) :
              /\ stack'[u][i].pc = "store" => stack'[u][i].count = refcount'[stack'[u][i].h]
              /\ stack'[u][i].pc \in Dead => refcount'[stack'[u][i].h] = 0
<1>1. Types /\ Types' /\ Inside(t, h, n) /\ Counted /\ delayed \subseteq Headers
  BY DEF InsideStep, CountInv, CountTypes
<1>2. /\ n \in Nat \ {0} /\ Len(stack'[t]) \in {n - 1, n, n + 1}
      /\ Len(stack'[t]) >= n => stack'[t][n].h = h
      /\ Len(stack'[t]) > n => stack'[t][n + 1].pc = "load"
  <2>1. Len(stack'[t]) > n => stack'[t][n + 1].pc = "load"
    BY <1>1 DEF Inside
  <2> QED BY <1>1, <2>1, InsideTop
<1>3. \A g \in delayed' : refcount'[g] = 0
  BY <1>1 DEF Counted
<1>4. OnlyCall(t, h, n)
  BY Alone
<1>5. ASSUME NEW u \in Threads, NEW i \in 1 .. Len(stack'[u])
      PROVE  /\ stack'[u][i].pc = "store" => stack'[u][i].count = refcount'[stack'[u][i].h]
             /\ stack'[u][i].pc \in Dead => refcount'[stack'[u][i].h] = 0
  <2>1. CASE u = t /\ i = n
    <3>1. Len(stack'[t]) >= n
      BY <1>2, <1>5, <2>1
    <3> QED BY <1>2, <2>1, <3>1
  <2>2. CASE u = t /\ i = n + 1 /\ Len(stack'[t]) > n
    BY <1>2, <2>2 DEF Dead
  <2>3. CASE (u # t \/ i < n) /\ i \in 1 .. Len(stack[u]) /\ stack'[u][i] = stack[u][i]
    <3>1. stack[u][i].h \in Headers \ {h}
      <4>1. stack[u][i] \in Frame
        BY <1>1, <2>3 DEF Types
      <4>2. stack[u][i].h # h
        BY <1>4, <2>3 DEF OnlyCall
      <4> QED BY <4>1, <4>2 DEF Frame
    <3> QED BY <1>1, <2>3, <3>1 DEF Counted
  <2> QED BY <1>1, <2>1, <2>2, <2>3, InsideCalls
<1> QED BY <1>3, <1>5

\* Threads that are acquiring a header keep what they need.
LEMMA InsideAcquiring ==
  ASSUME NEW own, NEW t \in Threads, NEW h, NEW n, InsideStep(own, t, h, n),
         \A u \in Threads \ {t} : held'[u] = held[u],
         \A g \in Headers : reference'[g] \in {reference[g], NoHeader} \/ own[g] = t,
         Len(stack'[t]) = n /\ stack'[t][n].by = 1 =>
           UNCHANGED <<held, reference>> /\ stack'[t][n].dest = Top(t).dest
  PROVE  Acquiring'
<1>1. Types /\ Types' /\ Inside(t, h, n) /\ Acquiring /\ Nested /\ Owned(own)
  BY DEF InsideStep, CountInv, CountTypes
<1>2. /\ n \in Nat \ {0} /\ n \in 1 .. Len(stack[t]) /\ Len(stack'[t]) \in {n - 1, n, n + 1}
      /\ Top(t) = stack[t][n] /\ n = Len(stack[t]) /\ Top(t).h = h
  BY <1>1, InsideTop
<1>3. SUFFICES ASSUME NEW u \in Threads, NEW i \in 1 .. Len(stack'[u]), stack'[u][i].by = 1
               PROVE  /\ held'[u][stack'[u][i].h] > 0
                      /\ stack'[u][i].dest # NoHeader =>
                           /\ stack'[u][i].dest # stack'[u][i].h
                           /\ held'[u][stack'[u][i].dest] > 0 /\ reference'[stack'[u][i].dest] = NoHeader
  BY DEF Acquiring
<1>4. CASE u # t
  <2>1. stack'[u] = stack[u] /\ held'[u] = held[u]
    BY <1>1, <1>4 DEF Inside, Beside
  <2>2. /\ held[u][stack[u][i].h] > 0
        /\ stack[u][i].dest # NoHeader =>
             /\ stack[u][i].dest # stack[u][i].h
             /\ held[u][stack[u][i].dest] > 0 /\ reference[stack[u][i].dest] = NoHeader
    BY <1>1, <1>3, <2>1 DEF Acquiring
  <2>3. stack[u][i].dest \in Headers \cup {NoHeader}
    <3>1. stack[u][i] \in Frame
      BY <1>1, <1>3, <2>1 DEF Types
    <3> QED BY <3>1 DEF Frame
  <2>4. stack[u][i].dest # NoHeader => own[stack[u][i].dest] = u
    BY <1>1, <2>2, <2>3 DEF Owned
  <2>5. stack[u][i].dest # NoHeader => reference'[stack[u][i].dest] = NoHeader
    BY <1>4, <2>2, <2>3, <2>4
  <2> QED BY <2>1, <2>2, <2>5
<1>5. CASE u = t
  <2>1. ~(i < n)
    <3>1. ASSUME i < n PROVE FALSE
      <4>1. i # n /\ i # n + 1
        BY <1>2, <3>1
      <4>2. i \in 1 .. Len(stack[t]) /\ stack'[t][i] = stack[t][i] /\ i < Len(stack[t])
        BY <1>1, <1>2, <1>5, <3>1, <4>1, InsideCalls
      <4>3. stack[t][i].by = 1 => Len(stack[t]) = 1
        BY <1>1, <4>2 DEF Nested
      <4> QED BY <1>2, <1>3, <1>5, <4>2, <4>3
    <3> QED BY <3>1
  <2>2. i = n /\ Len(stack'[t]) = n
    BY <1>1, <1>2, <1>3, <1>5, <2>1 DEF Inside
  <2>3. /\ stack'[t][n].h = h /\ Top(t).by = 1
        /\ held' = held /\ reference' = reference /\ stack'[t][n].dest = Top(t).dest
    BY <1>1, <1>3, <1>5, <2>2 DEF Inside
  <2>4. /\ held[t][h] > 0
        /\ Top(t).dest # NoHeader =>
             Top(t).dest # h /\ held[t][Top(t).dest] > 0 /\ reference[Top(t).dest] = NoHeader
    BY <1>1, <1>2, <2>3 DEF Acquiring
  <2> QED BY <1>5, <2>2, <2>3, <2>4
<1> QED BY <1>4, <1>5

\* References stay with the threads that have them.
LEMMA InsideOwned ==
  ASSUME NEW own, NEW t \in Threads, NEW h, NEW n, InsideStep(own, t, h, n),
         \A u \in Threads, g \in Headers : held'[u][g] > 0 => held[u][g] > 0 \/ (u = t /\ g = h),
         \A d \in Headers : \/ reference'[d] = NoHeader
                            \/ reference'[d] = reference[d] /\ (Recycling(d) => Recycling(d)')
                            \/ own[reference'[d]] = own[d],
         Len(stack'[t]) > n => own[stack'[t][n + 1].h] = t
  PROVE  Owned(own)'
<1>1. Types /\ Types' /\ Inside(t, h, n) /\ Owned(own)
  BY DEF InsideStep, CountInv, CountTypes
<1>2. /\ n \in Nat \ {0} /\ n \in 1 .. Len(stack[t]) /\ Len(stack'[t]) \in {n - 1, n, n + 1}
      /\ Top(t) = stack[t][n] /\ n = Len(stack[t]) /\ Top(t).h = h
      /\ Len(stack'[t]) >= n => stack'[t][n].h = h
  BY <1>1, InsideTop
<1>3. own[h] = t
  BY <1>1, <1>2 DEF Owned
<1>4. \A u \in Threads, g \in Headers : held'[u][g] > 0 => own[g] = u
  BY <1>1, <1>3 DEF Owned
<1>5. ASSUME NEW u \in Threads, NEW i \in 1 .. Len(stack'[u]) PROVE own[stack'[u][i].h] = u
  <2>1. CASE u = t /\ i = n
    <3>1. Len(stack'[t]) >= n
      BY <1>2, <1>5, <2>1
    <3> QED BY <1>2, <1>3, <2>1, <3>1
  <2>2. CASE u = t /\ i = n + 1 /\ Len(stack'[t]) > n
    BY <2>2
  <2>3. CASE (u # t \/ i < n) /\ i \in 1 .. Len(stack[u]) /\ stack'[u][i] = stack[u][i]
    BY <1>1, <2>3 DEF Owned
  <2> QED BY <1>1, <2>1, <2>2, <2>3, InsideCalls
<1>6. \A d \in Headers : reference'[d] # NoHeader /\ ~Recycling(d)' => own[reference'[d]] = own[d]
  BY <1>1 DEF Owned
<1> QED BY <1>4, <1>5, <1>6 DEF Owned

\* Where the headers are after a step inside a call.
LEMMA InsideWhereabouts ==
  ASSUME NEW own, NEW t \in Threads, NEW h, NEW n, InsideStep(own, t, h, n)
  PROVE  /\ \A d : d # h => (Recycling(d)' <=> Recycling(d)) /\ (Putting(d)' <=> Putting(d))
         /\ Recycling(h) <=> Top(t).pc = "recycle"
         /\ Putting(h) <=> Top(t).pc = "put"
         /\ Recycling(h)' <=> Len(stack'[t]) >= n /\ stack'[t][n].pc = "recycle"
         /\ Putting(h)' <=> Len(stack'[t]) >= n /\ stack'[t][n].pc = "put"
<1>1. Types /\ Types' /\ CountInv /\ Inside(t, h, n)
  BY DEF InsideStep, CountInv, CountTypes
<1>2. /\ stack[t] # <<>> /\ h = Top(t).h /\ n = Len(stack[t]) /\ Beside(t)
      /\ Len(stack'[t]) >= Len(stack[t]) => stack'[t][Len(stack[t])].h = h
      /\ Len(stack'[t]) > Len(stack[t]) => stack'[t][Len(stack[t]) + 1].pc = "load"
  <2>1. n \in Nat \ {0} /\ Len(stack'[t]) \in {n - 1, n, n + 1}
    BY <1>1, InsideCalls
  <2> QED BY <1>1, <2>1 DEF Inside
<1> QED BY <1>1, <1>2, Whereabouts

-----------------------------------------------------------------------------
(* The steps inside a call.                                                *)

\* What the count of g is to be.
CountOf(g) ==
  /\ refcount[g] = References(g) + (IF Stored(g) THEN 1 ELSE 0)
  /\ Stored(g) => refcount[g] = 1 /\ reference[g] = NoHeader

\* What a step must show of the parts of the invariant, when references stay with the
\* threads that have them.
Kept(own) == Nested' /\ Placed' /\ Counted' /\ Acquiring' /\ Owned(own)'

\* Counts are right when that of each header is, and what has been loaded is still true.
LEMMA CountedThen ==
  ASSUME \A g \in Headers : CountOf(g)',
         \A g \in delayed' : refcount'[g] = 0,
         \A u \in Threads : \A i \in 1 .. Len(stack'[u]) :
              /\ stack'[u][i].pc = "store" => stack'[u][i].count = refcount'[stack'[u][i].h]
              /\ stack'[u][i].pc \in Dead => refcount'[stack'[u][i].h] = 0
  PROVE  Counted'
BY DEF Counted, CountOf

\* A step inside a call leaves the releases of a header that it is not about.
LEMMA ReleasingKept ==
  ASSUME NEW own, NEW t \in Threads, NEW h, NEW n, InsideStep(own, t, h, n), NEW g,
         g = h =>
           (Top(t).by = -1 /\ Top(t).pc \in {"load", "store"} <=>
              /\ Len(stack'[t]) = n
              /\ stack'[t][n].by = -1 /\ stack'[t][n].pc \in {"load", "store"}),
         Len(stack'[t]) > n => stack'[t][n + 1].h # g
  PROVE  Releasing(g)' = Releasing(g)
<1>1. ReleasesAre(t, h, n, g)
  BY InsideReleasing
<1>2. /\ \A u \in Threads \ {t} : u \in Releasing(g)' <=> u \in Releasing(g)
      /\ t \in Releasing(g) <=> g = h /\ Top(t).by = -1 /\ Top(t).pc \in {"load", "store"}
      /\ t \in Releasing(g)' <=>
           \/ /\ Len(stack'[t]) = n /\ g = h
              /\ stack'[t][n].by = -1 /\ stack'[t][n].pc \in {"load", "store"}
           \/ Len(stack'[t]) > n /\ g = stack'[t][n + 1].h
  BY <1>1 DEF ReleasesAre
<1>3. CASE g # h
  <2>1. ~(Len(stack'[t]) > n /\ g = stack'[t][n + 1].h)
    OBVIOUS
  <2>2. t \notin Releasing(g)' /\ t \notin Releasing(g)
    BY <1>2, <1>3, <2>1, Zenon
  <2>3. \A u \in Threads : u \in Releasing(g)' <=> u \in Releasing(g)
    BY <1>2, <2>2
  <2> QED BY <2>3 DEF Releasing
<1>4. CASE g = h
  <2>1. t \in Releasing(g)' <=> /\ Len(stack'[t]) = n
                               /\ stack'[t][n].by = -1 /\ stack'[t][n].pc \in {"load", "store"}
    BY <1>2, <1>4
  <2>2. t \in Releasing(g) <=> Top(t).by = -1 /\ Top(t).pc \in {"load", "store"}
    BY <1>2, <1>4
  <2>3. t \in Releasing(g)' <=> t \in Releasing(g)
    BY <1>4, <2>1, <2>2
  <2>4. \A u \in Threads : u \in Releasing(g)' <=> u \in Releasing(g)
    BY <1>2, <2>3
  <2> QED BY <2>4 DEF Releasing
<1> QED BY <1>3, <1>4

\* A step inside a call leaves the replicas of a header that it is not about.
LEMMA ReplicasKept ==
  ASSUME NEW own, NEW t \in Threads, NEW h, NEW n, InsideStep(own, t, h, n), NEW g,
         \A d \in Headers \ {h} : reference'[d] = g <=> reference[d] = g,
         reference'[h] = g /\ ~Recycling(h)' <=> reference[h] = g /\ ~Recycling(h)
  PROVE  Replicas(g)' = Replicas(g)
<1>1. Types /\ Types'
  BY DEF InsideStep, CountInv, CountTypes
<1>2. \A d : d # h => (Recycling(d)' <=> Recycling(d))
  BY InsideWhereabouts
<1>3. ASSUME NEW d PROVE d \in Replicas(g)' <=> d \in Replicas(g)
  <2>1. /\ d \in Replicas(g)' <=> d \in Headers /\ reference'[d] = g /\ ~Recycling(d)'
        /\ d \in Replicas(g) <=> d \in Headers /\ reference[d] = g /\ ~Recycling(d)
    BY <1>1, CallsAre, CallsAreThen
  <2>2. CASE d = h
    BY <2>1, <2>2
  <2>3. CASE d # h
    BY <1>2, <2>1, <2>3
  <2> QED BY <2>2, <2>3
<1> QED BY <1>3

\* A step inside a call leaves the count of a header that it is not about.
LEMMA InsideCount ==
  ASSUME NEW own, NEW t \in Threads, NEW h, NEW n, InsideStep(own, t, h, n),
         NEW g \in Headers, g \in ToSet(queue') <=> g \in ToSet(queue), headers_num' = headers_num,
         held' \in Holds, Tokens(held', g) = Tokens(held, g),
         refcount'[g] = refcount[g], Stored(g) => reference'[g] = reference[g],
         \A d \in Headers \ {h} : reference'[d] = g <=> reference[d] = g,
         reference'[h] = g /\ ~Recycling(h)' <=> reference[h] = g /\ ~Recycling(h),
         g = h =>
           /\ Putting(h)' <=> Putting(h)
           /\ Top(t).by = -1 /\ Top(t).pc \in {"load", "store"} <=>
                /\ Len(stack'[t]) = n
                /\ stack'[t][n].by = -1 /\ stack'[t][n].pc \in {"load", "store"},
         Len(stack'[t]) > n => stack'[t][n + 1].h # g
  PROVE  CountOf(g)'
<1>1. Types /\ Types' /\ CountInv
  BY DEF InsideStep, CountInv, CountTypes
<1>2. /\ \A d : d # h => (Recycling(d)' <=> Recycling(d)) /\ (Putting(d)' <=> Putting(d))
  BY InsideWhereabouts
<1>3. Replicas(g)' = Replicas(g)
  BY ReplicasKept
<1>4. Releasing(g)' = Releasing(g)
  BY ReleasingKept
<1>5. Stored(g)' <=> Stored(g)
  <2>1. Putting(g)' <=> Putting(g)
    BY <1>2
  <2>2. (Queued(g)' <=> Queued(g)) /\ (g \in Live' <=> g \in Live)
    BY DEF Queued, Live
  <2> QED BY <2>1, <2>2 DEF Stored
<1> QED BY <1>1, <1>3, <1>4, <1>5, CountKept DEF CountOf

\* A header's count is loaded.
LEMMA LoadStep ==
  ASSUME CountInv, NEW own, Owned(own), Types', NEW t \in Threads,
         NEW h, h = Top(t).h, NEW n, n = Len(stack[t]), Load(t)
  PROVE  Kept(own)
<1> DEFINE g == [Top(t) EXCEPT !.pc = "store", !.count = refcount[h]]
<1>1. Types /\ held \in Holds /\ delayed \subseteq Headers
  BY DEF CountInv, CountTypes
<1>2. /\ stack[t] # <<>> /\ Top(t).pc = "load" /\ Top(t) \in Frame /\ h \in Headers /\ n \in Nat \ {0}
      /\ Top(t) = stack[t][n] /\ n \in 1 .. Len(stack[t])
  BY <1>1, TopIs DEF Load, At
<1>3. stack' = [stack EXCEPT ![t] = Append(Front(@), g)] /\ UNCHANGED <<queues, counts, sizes, waiting>>
  BY DEF Load
<1>4. /\ g \in Frame /\ g.h = h /\ g.pc = "store" /\ g.by = Top(t).by /\ g.dest = Top(t).dest
      /\ g.count = refcount[h]
  BY <1>1, <1>2 DEF Types, Frame
<1> HIDE DEF g
<1>5. Beside(t) /\ Len(stack'[t]) = n /\ stack'[t][n] = g
  BY <1>1, <1>2, <1>3, <1>4, Replaced
<1>6. Len(stack'[t]) >= n /\ ~(Len(stack'[t]) > n)
  BY <1>2, <1>5
<1>7. InsideStep(own, t, h, n)
  BY <1>2, <1>4, <1>5, <1>6 DEF InsideStep, Inside
<1>8. UNCHANGED <<queue, headers_num, refcount, reference, delayed, held>>
  BY <1>3 DEF queues, counts, sizes
<1>9. h \in Live /\ ~Queued(h) /\ h \notin delayed
  BY <1>2, InUse
<1>10. \A d : (Recycling(d)' <=> Recycling(d)) /\ (Putting(d)' <=> Putting(d))
  BY <1>2, <1>4, <1>5, <1>6, <1>7, InsideWhereabouts
<1>11. Nested'
  BY <1>7, InsideNested
<1>12. Placed'
  BY <1>4, <1>5, <1>7, <1>8, <1>9, InsidePlaced DEF Leaving, Dead
<1>13. \A k \in Headers : CountOf(k)'
  BY <1>1, <1>2, <1>4, <1>5, <1>6, <1>7, <1>8, <1>10, InsideCount
<1>14. Counted'
  BY <1>4, <1>5, <1>7, <1>8, <1>9, <1>13, InsideLoaded, CountedThen DEF Dead
<1>15. Acquiring'
  BY <1>4, <1>5, <1>7, <1>8, InsideAcquiring
<1>16. Owned(own)'
  BY <1>6, <1>7, <1>8, <1>10, InsideOwned
<1> QED BY <1>11, <1>12, <1>14, <1>15, <1>16 DEF Kept

\* A reference is taken off the count.
LEMMA StoreReleasedStep ==
  ASSUME CountInv, NEW own, Owned(own), Types', NEW t \in Threads,
         NEW h, h = Top(t).h, NEW n, n = Len(stack[t]), StoreReleased(t)
  PROVE  Kept(own)
<1> DEFINE g == [Top(t) EXCEPT !.pc = "pre"]
<1>1. Types /\ held \in Holds /\ delayed \subseteq Headers /\ Nested
  BY DEF CountInv, CountTypes
<1>2. /\ stack[t] # <<>> /\ Top(t).pc = "store" /\ Top(t).by = -1
      /\ Top(t) \in Frame /\ h \in Headers /\ n \in Nat \ {0}
      /\ Top(t) = stack[t][n] /\ n \in 1 .. Len(stack[t])
  BY <1>1, TopIs DEF StoreReleased, At
<1>3. /\ refcount' = [refcount EXCEPT ![h] = Top(t).count - 1]
      /\ IF Top(t).count = 1 THEN stack' = [stack EXCEPT ![t] = Append(Front(@), g)] ELSE Return(t)
      /\ UNCHANGED <<queue, headers_num, reference, delayed, held>>
  BY DEF StoreReleased, Goto, queues, sizes
<1>4. g \in Frame /\ g.h = h /\ g.pc = "pre" /\ g.by = -1
  BY <1>1, <1>2 DEF Types, Frame
<1> HIDE DEF g
<1>5. /\ Beside(t)
      /\ Top(t).count = 1 => Len(stack'[t]) = n /\ stack'[t][n] = g
      /\ Top(t).count # 1 => Len(stack'[t]) = n - 1
  <2>1. CASE Top(t).count = 1
    BY <1>1, <1>2, <1>3, <1>4, <2>1, Replaced
  <2>2. CASE Top(t).count # 1
    BY <1>1, <1>2, <1>3, <2>2, Returned
  <2> QED BY <2>1, <2>2
<1>6. /\ ~(Len(stack'[t]) > n)
      /\ Len(stack'[t]) >= n => Top(t).count = 1 /\ Len(stack'[t]) = n /\ stack'[t][n] = g
  BY <1>2, <1>5
<1>7. InsideStep(own, t, h, n)
  BY <1>2, <1>4, <1>6, <1>5 DEF InsideStep, Inside
<1>8. /\ h \in Live /\ ~Queued(h) /\ h \notin delayed /\ ~Stored(h) /\ ~Putting(h)
      /\ refcount[h] = References(h) /\ References(h) \in Nat \ {0}
  BY <1>2, InUse DEF Stored
<1>9. \A d : (Recycling(d)' <=> Recycling(d)) /\ (Putting(d)' <=> Putting(d))
  <2>1. ~Recycling(h) /\ ~Putting(h)
    BY <1>2, <1>7, InsideWhereabouts
  <2>2. ~Recycling(h)' /\ ~Putting(h)'
    BY <1>4, <1>6, <1>7, InsideWhereabouts
  <2> QED BY <1>7, <2>1, <2>2, InsideWhereabouts
<1>10. /\ Top(t).count = refcount[h] /\ refcount'[h] = refcount[h] - 1
       /\ \A d \in Headers \ {h} : refcount'[d] = refcount[d]
  <2>1. stack[t][n].pc = "store" => stack[t][n].count = refcount[stack[t][n].h]
    BY <1>2 DEF CountInv, Counted
  <2>2. Top(t).count = refcount[h]
    BY <1>2, <2>1
  <2>3. /\ refcount'[h] = Top(t).count - 1
        /\ \A d \in Headers \ {h} : refcount'[d] = refcount[d]
    BY <1>1, <1>2, <1>3 DEF Types
  <2> QED BY <2>2, <2>3
<1>11. CountOf(h)'
  <2>1. Replicas(h)' = Replicas(h)
    BY <1>3, <1>7, <1>9, ReplicasKept
  <2>2. Releasing(h) = Releasing(h)' \cup {t} /\ t \notin Releasing(h)'
    <3>1. ReleasesAre(t, h, n, h)
      BY <1>7, InsideReleasing
    <3>2. t \in Releasing(h)
      BY <1>2, <3>1 DEF ReleasesAre
    <3>3. t \notin Releasing(h)'
      BY <1>4, <1>6, <3>1 DEF ReleasesAre
    <3>4. \A u \in Threads : u # t => (u \in Releasing(h)' <=> u \in Releasing(h))
      BY <3>1 DEF ReleasesAre
    <3> QED BY <3>2, <3>3, <3>4 DEF Releasing
  <2>3. held' \in Holds /\ Tokens(held', h) = Tokens(held, h)
    BY <1>1, <1>3
  <2>4. IsFiniteSet(Releasing(h)')
    BY <1>2, <2>3, ReferencesThen
  <2>5. Cardinality(Releasing(h)) = Cardinality(Releasing(h)') + 1
    BY <2>2, <2>4, FS_AddElement
  <2>6. References(h) = References(h)' + 1 /\ References(h)' \in Nat
    BY <1>1, <1>2, <2>1, <2>3, <2>5, ReferencesAre, ReferencesThen
  <2>7. refcount'[h] = References(h)'
    BY <1>8, <1>10, <2>6
  <2>8. ~Stored(h)'
    BY <1>3, <1>8, <1>9 DEF Stored, Queued, Live
  <2> QED BY <2>6, <2>7, <2>8 DEF CountOf
<1>12. \A k \in Headers : k # h => CountOf(k)'
  BY <1>1, <1>2, <1>3, <1>6, <1>7, <1>9, <1>10, InsideCount
<1>13. Nested'
  BY <1>7, InsideNested
<1>14. Placed'
  BY <1>3, <1>6, <1>7, <1>8, InsidePlaced
<1>15. Counted'
  <2>1. Top(t).count = 1 => refcount'[h] = 0
    BY <1>10
  <2> QED BY <1>3, <1>4, <1>6, <1>7, <1>8, <1>10, <1>11, <1>12, <2>1, InsideLoaded, CountedThen
<1>16. Acquiring'
  BY <1>3, <1>4, <1>6, <1>7, InsideAcquiring
<1>17. Owned(own)'
  BY <1>3, <1>6, <1>7, <1>9, InsideOwned
<1> QED BY <1>13, <1>14, <1>15, <1>16, <1>17 DEF Kept

\* The pre-release callback lets the header go, or delays it.
LEMMA PreReleaseStep ==
  ASSUME CountInv, NEW own, Owned(own), Types', NEW t \in Threads,
         NEW h, h = Top(t).h, NEW n, n = Len(stack[t]), PreRelease(t)
  PROVE  Kept(own)
<1> DEFINE g == [Top(t) EXCEPT !.pc = "continue"]
<1>1. Types /\ held \in Holds /\ delayed \subseteq Headers /\ Nested
  BY DEF CountInv, CountTypes
<1>2. /\ stack[t] # <<>> /\ Top(t).pc = "pre" /\ Top(t) \in Frame /\ h \in Headers /\ n \in Nat \ {0}
      /\ Top(t) = stack[t][n] /\ n \in 1 .. Len(stack[t])
  BY <1>1, TopIs DEF PreRelease, At
<1>3. /\ \/ stack' = [stack EXCEPT ![t] = Append(Front(@), g)] /\ delayed' = delayed
         \/ Return(t) /\ delayed' = delayed \cup {h}
      /\ UNCHANGED <<queue, headers_num, refcount, reference, held>>
  BY DEF PreRelease, Goto, queues, sizes
<1>4. g \in Frame /\ g.h = h /\ g.pc = "continue" /\ g.by = Top(t).by
  BY <1>1, <1>2 DEF Types, Frame
<1> HIDE DEF g
<1>5. /\ Beside(t)
      /\ \/ Len(stack'[t]) = n /\ stack'[t][n] = g /\ delayed' = delayed
         \/ Len(stack'[t]) = n - 1 /\ delayed' = delayed \cup {h}
  <2>1. CASE stack' = [stack EXCEPT ![t] = Append(Front(@), g)] /\ delayed' = delayed
    BY <1>1, <1>2, <1>4, <2>1, Replaced
  <2>2. CASE Return(t) /\ delayed' = delayed \cup {h}
    BY <1>1, <1>2, <2>2, Returned
  <2> QED BY <1>3, <2>1, <2>2
<1>6. /\ ~(Len(stack'[t]) > n)
      /\ Len(stack'[t]) >= n => delayed' = delayed /\ Len(stack'[t]) = n /\ stack'[t][n] = g
      /\ delayed \subseteq delayed' /\ delayed' \subseteq delayed \cup {h}
  BY <1>2, <1>5
<1>7. /\ h \in Live /\ ~Queued(h) /\ h \notin delayed /\ refcount[h] = 0 /\ Top(t).by = -1
  <2>1. Top(t).by \in {1, -1} /\ Top(t).by # 1
    BY <1>1, <1>2, TopIs DEF Nested
  <2>2. Top(t).by = -1
    BY <2>1
  <2> QED BY <1>2, <2>2 DEF CountInv, Placed, Counted, Leaving, Dead
<1>8. InsideStep(own, t, h, n)
  BY <1>2, <1>4, <1>6, <1>7, <1>5 DEF InsideStep, Inside
<1>9. \A d : (Recycling(d)' <=> Recycling(d)) /\ (Putting(d)' <=> Putting(d))
  <2>1. ~Recycling(h) /\ ~Putting(h)
    BY <1>2, <1>8, InsideWhereabouts
  <2>2. ~Recycling(h)' /\ ~Putting(h)'
    BY <1>4, <1>6, <1>8, InsideWhereabouts
  <2> QED BY <1>8, <2>1, <2>2, InsideWhereabouts
<1>10. \A k \in Headers : CountOf(k)'
  BY <1>1, <1>2, <1>3, <1>4, <1>6, <1>8, <1>9, InsideCount
<1>11. Nested'
  BY <1>8, InsideNested
<1>12. Placed'
  BY <1>3, <1>6, <1>7, <1>8, InsidePlaced
<1>13. Counted'
  BY <1>3, <1>4, <1>6, <1>7, <1>8, <1>10, InsideLoaded, CountedThen
<1>14. Acquiring'
  BY <1>3, <1>4, <1>6, <1>7, <1>8, InsideAcquiring
<1>15. Owned(own)'
  BY <1>3, <1>6, <1>8, <1>9, InsideOwned
<1> QED BY <1>11, <1>12, <1>13, <1>14, <1>15 DEF Kept

\* The release of a header goes on, with that of the header it is a replica of first.
LEMMA ContinueStep ==
  ASSUME CountInv, NEW own, Owned(own), Types', NEW t \in Threads,
         NEW h, h = Top(t).h, NEW n, n = Len(stack[t]), Continue(t)
  PROVE  Kept(own)
<1>1. PICK x : x = reference[h]
  OBVIOUS
<1> DEFINE g == [Top(t) EXCEPT !.pc = "recycle"]
           r == [h |-> x, by |-> -1, count |-> 0, dest |-> NoHeader, pc |-> "load"]
<1>2. Types /\ held \in Holds /\ delayed \subseteq Headers /\ Nested
  BY DEF CountInv, CountTypes
<1>3. /\ stack[t] # <<>> /\ Top(t).pc = "continue" /\ Top(t) \in Frame /\ h \in Headers
      /\ n \in Nat \ {0} /\ Top(t) = stack[t][n] /\ n \in 1 .. Len(stack[t])
      /\ x \in Headers \cup {NoHeader} /\ reference[h] = x
  BY <1>2, <1>1, TopIs DEF Continue, At, Types
<1>4. /\ stack' = [stack EXCEPT ![t] =
           Append(Front(@), g) \o IF x = NoHeader THEN <<>> ELSE <<r>>]
      /\ UNCHANGED <<queue, headers_num, refcount, reference, delayed, held>>
  BY <1>1 DEF Continue, queues, counts, sizes
<1>5. /\ g \in Frame /\ g.h = h /\ g.pc = "recycle" /\ g.by = Top(t).by
      /\ x # NoHeader => r \in Frame
      /\ r.h = x /\ r.pc = "load" /\ r.by = -1
  <2>1. g \in Frame /\ g.h = h /\ g.pc = "recycle" /\ g.by = Top(t).by
    BY <1>3 DEF Frame
  <2>2. x # NoHeader => r \in Frame
    BY <1>3 DEF Frame
  <2> QED BY <2>1, <2>2
<1> HIDE DEF g, r
<1>6. /\ Beside(t) /\ Len(stack'[t]) = (IF x = NoHeader THEN n ELSE n + 1) /\ stack'[t][n] = g
      /\ x # NoHeader => stack'[t][n + 1] = r
  <2>1. CASE x = NoHeader
    <3>1. Front(stack[t]) \in Seq(Frame)
      BY <1>2, <1>3, InnermostCall
    <3>2. Append(Front(stack[t]), g) \o <<>> = Append(Front(stack[t]), g)
      BY <1>5, <3>1
    <3>3. stack' = [stack EXCEPT ![t] = Append(Front(@), g)]
      BY <1>2, <1>4, <2>1, <3>2 DEF Types
    <3> QED BY <1>2, <1>3, <1>5, <2>1, <3>3, Replaced
  <2>2. CASE x # NoHeader
    <3>1. stack' = [stack EXCEPT ![t] = Append(Front(@), g) \o <<r>>]
      BY <1>4, <2>2
    <3>2. g \in Frame /\ r \in Frame
      BY <1>5, <2>2
    <3>3. /\ Beside(t) /\ Len(stack'[t]) = Len(stack[t]) + 1
          /\ stack'[t][Len(stack[t])] = g /\ stack'[t][Len(stack[t]) + 1] = r
      BY <1>2, <1>3, <3>1, <3>2, Nests
    <3> QED BY <2>2, <3>3
  <2> QED BY <2>1, <2>2
<1>7. /\ Len(stack'[t]) >= n
      /\ Len(stack'[t]) > n => x # NoHeader /\ stack'[t][n + 1] = r
      /\ x # NoHeader => Len(stack'[t]) > n
  BY <1>3, <1>6
<1>8. /\ h \in Live /\ ~Queued(h) /\ h \notin delayed /\ refcount[h] = 0 /\ Top(t).by = -1
  <2>1. Top(t).by \in {1, -1} /\ Top(t).by # 1
    BY <1>2, <1>3, TopIs DEF Nested
  <2>2. Top(t).by = -1
    BY <2>1
  <2> QED BY <1>3, <2>2 DEF CountInv, Placed, Counted, Leaving, Dead
<1>9. InsideStep(own, t, h, n)
  BY <1>3, <1>5, <1>7, <1>8, <1>6 DEF InsideStep, Inside
<1>10. /\ \A d : d # h => (Recycling(d)' <=> Recycling(d))
       /\ \A d : Putting(d)' <=> Putting(d)
       /\ ~Recycling(h) /\ Recycling(h)'
  <2>1. ~Recycling(h) /\ ~Putting(h)
    BY <1>3, <1>9, InsideWhereabouts
  <2>2. Recycling(h)' /\ ~Putting(h)'
    BY <1>5, <1>6, <1>7, <1>9, InsideWhereabouts
  <2> QED BY <1>9, <2>1, <2>2, InsideWhereabouts
<1>11. ASSUME x \in Headers
       PROVE  /\ ~Stored(x) /\ refcount[x] = References(x) /\ x # h /\ own[x] = t
  <2>1. ~Stored(x) /\ refcount[x] = References(x) /\ References(x) # 0
    BY <1>3, <1>10, <1>11, InUse
  <2>2. own[h] = t
    BY <1>3 DEF Owned
  <2>3. own[x] = own[h]
    BY <1>3, <1>10, <1>11, PoolAssumption DEF Owned
  <2> QED BY <1>8, <2>1, <2>2, <2>3
<1>12. ASSUME x \in Headers PROVE CountOf(x)'
  <2>1. Replicas(x) = Replicas(x)' \cup {h} /\ h \notin Replicas(x)'
    <3>1. \A d : /\ d \in Replicas(x)' <=> d \in Headers /\ reference'[d] = x /\ ~Recycling(d)'
                 /\ d \in Replicas(x) <=> d \in Headers /\ reference[d] = x /\ ~Recycling(d)
      BY <1>2, CallsAre, CallsAreThen
    <3>2. h \in Replicas(x) /\ h \notin Replicas(x)'
      BY <1>3, <1>10, <3>1
    <3>3. \A d : d # h => (d \in Replicas(x)' <=> d \in Replicas(x))
      BY <1>4, <1>10, <3>1
    <3> QED BY <3>2, <3>3
  <2>2. Releasing(x)' = Releasing(x) \cup {t} /\ t \notin Releasing(x)
    <3>1. ReleasesAre(t, h, n, x)
      BY <1>9, InsideReleasing
    <3>2. t \notin Releasing(x)
      BY <1>11, <1>12, <3>1 DEF ReleasesAre
    <3>3. t \in Releasing(x)'
      BY <1>5, <1>7, <1>12, <3>1, PoolAssumption DEF ReleasesAre
    <3>4. \A u \in Threads : u # t => (u \in Releasing(x)' <=> u \in Releasing(x))
      BY <3>1 DEF ReleasesAre
    <3> QED BY <3>2, <3>3, <3>4 DEF Releasing
  <2>3. held' \in Holds /\ Tokens(held', x) = Tokens(held, x)
    BY <1>2, <1>4
  <2>4. IsFiniteSet(Releasing(x)) /\ IsFiniteSet(Replicas(x)')
    BY <1>2, <1>12, <2>3, ReferencesAre, ReferencesThen
  <2>5. Cardinality(Releasing(x)') = Cardinality(Releasing(x)) + 1
    BY <2>2, <2>4, FS_AddElement
  <2>6. Cardinality(Replicas(x)) = Cardinality(Replicas(x)') + 1
    BY <2>1, <2>4, FS_AddElement
  <2>7. References(x) = References(x)'
    BY <1>2, <1>12, <2>3, <2>5, <2>6, ReferencesAre, ReferencesThen
  <2>8. ~Stored(x)'
    BY <1>4, <1>10, <1>11, <1>12 DEF Stored, Queued, Live
  <2>9. refcount'[x] = References(x)'
    BY <1>4, <1>11, <1>12, <2>7
  <2>10. References(x)' \in Nat
    BY <1>12, <2>3, ReferencesThen
  <2> QED BY <2>8, <2>9, <2>10 DEF CountOf
<1>13. \A k \in Headers : k # x => CountOf(k)'
  <2> SUFFICES ASSUME NEW k \in Headers, k # x PROVE CountOf(k)'
    OBVIOUS
  <2>1. Len(stack'[t]) > n => stack'[t][n + 1].h # k
    BY <1>5, <1>7
  <2>2. /\ Top(t).pc \notin {"load", "store"}
        /\ stack'[t][n].pc \notin {"load", "store"}
    BY <1>3, <1>5, <1>6
  <2>3. /\ reference' = reference /\ reference[h] # k
        /\ refcount' = refcount /\ queue' = queue /\ headers_num' = headers_num /\ held' = held
    BY <1>3, <1>4
  <2>4. Putting(h)' <=> Putting(h)
    BY <1>10
  <2>5. /\ held' \in Holds /\ Tokens(held', k) = Tokens(held, k)
        /\ \A d \in Headers \ {h} : reference'[d] = k <=> reference[d] = k
    BY <1>2, <2>3
  <2> QED BY <1>9, <2>1, <2>2, <2>3, <2>4, <2>5, InsideCount
<1>14. \A k \in Headers : CountOf(k)'
  BY <1>12, <1>13
<1>15. Nested'
  BY <1>9, InsideNested
<1>16. Placed'
  BY <1>4, <1>8, <1>9, InsidePlaced
<1>17. Counted'
  BY <1>4, <1>5, <1>6, <1>8, <1>9, <1>14, InsideLoaded, CountedThen
<1>18. Acquiring'
  BY <1>4, <1>5, <1>6, <1>8, <1>9, InsideAcquiring
<1>19. Owned(own)'
  <2>1. Len(stack'[t]) > n => own[stack'[t][n + 1].h] = t
    BY <1>3, <1>5, <1>7, <1>11
  <2>2. \A d \in Headers : Recycling(d) => Recycling(d)'
    BY <1>10
  <2> QED BY <1>4, <1>9, <2>1, <2>2, InsideOwned
<1> QED BY <1>15, <1>16, <1>17, <1>18, <1>19 DEF Kept

\* A header without references is initialised again: on its way to the queue, or in the
\* hands of the pool's callback.
LEMMA RecycleStep ==
  ASSUME CountInv, NEW own, Owned(own), Types', NEW t \in Threads,
         NEW h, h = Top(t).h, NEW n, n = Len(stack[t]), Recycle(t)
  PROVE  Kept(own)
<1> DEFINE g == [Top(t) EXCEPT !.pc = "put"]
<1>1. Types /\ held \in Holds /\ delayed \subseteq Headers /\ Nested
  BY DEF CountInv, CountTypes
<1>2. /\ stack[t] # <<>> /\ Top(t).pc = "recycle" /\ Top(t) \in Frame /\ h \in Headers
      /\ n \in Nat \ {0} /\ Top(t) = stack[t][n] /\ n \in 1 .. Len(stack[t])
  BY <1>1, TopIs DEF Recycle, At
<1>3. /\ refcount' = [refcount EXCEPT ![h] = 1] /\ reference' = [reference EXCEPT ![h] = NoHeader]
      /\ \/ stack' = [stack EXCEPT ![t] = Append(Front(@), g)] /\ held' = held
         \/ Return(t) /\ Hold(t, h, 1)
      /\ UNCHANGED <<queue, headers_num, delayed>>
  BY DEF Recycle, Goto, queues, sizes
<1>4. g \in Frame /\ g.h = h /\ g.pc = "put" /\ g.by = Top(t).by
  BY <1>2 DEF Frame
<1>5. Hold(t, h, 1) =>
        /\ held' \in Holds
        /\ Cardinality(Tokens(held', h)) = Cardinality(Tokens(held, h)) + 1
        /\ \A k \in Headers \ {h} : Tokens(held', k) = Tokens(held, k)
        /\ \A u \in Threads \ {t} : held'[u] = held[u]
        /\ \A u \in Threads, k \in Headers : u # t \/ k # h => held'[u][k] = held[u][k]
  BY <1>1, <1>2, HoldChange
<1> HIDE DEF g
<1>6. /\ Beside(t)
      /\ \/ Len(stack'[t]) = n /\ stack'[t][n] = g /\ held' = held
         \/ Len(stack'[t]) = n - 1 /\ Hold(t, h, 1)
  <2>1. CASE stack' = [stack EXCEPT ![t] = Append(Front(@), g)] /\ held' = held
    BY <1>1, <1>2, <1>4, <2>1, Replaced
  <2>2. CASE Return(t) /\ Hold(t, h, 1)
    BY <1>1, <1>2, <2>2, Returned
  <2> QED BY <1>3, <2>1, <2>2
<1>7. /\ ~(Len(stack'[t]) > n)
      /\ Len(stack'[t]) >= n => held' = held /\ Len(stack'[t]) = n /\ stack'[t][n] = g
      /\ Len(stack'[t]) < n => Hold(t, h, 1)
  BY <1>2, <1>6
<1>8. /\ h \in Live /\ ~Queued(h) /\ h \notin delayed /\ refcount[h] = 0 /\ Top(t).by = -1
  <2>1. Top(t).by \in {1, -1} /\ Top(t).by # 1
    BY <1>1, <1>2, TopIs DEF Nested
  <2>2. Top(t).by = -1
    BY <2>1
  <2> QED BY <1>2, <2>2 DEF CountInv, Placed, Counted, Leaving, Dead
<1>9. InsideStep(own, t, h, n)
  BY <1>2, <1>4, <1>6, <1>7, <1>8 DEF InsideStep, Inside
<1>10. /\ \A d : d # h => (Recycling(d)' <=> Recycling(d)) /\ (Putting(d)' <=> Putting(d))
       /\ Recycling(h) /\ ~Putting(h)
       /\ Putting(h)' <=> Len(stack'[t]) = n
  <2>1. Recycling(h) /\ ~Putting(h)
    BY <1>2, <1>9, InsideWhereabouts
  <2>2. Putting(h)' <=> Len(stack'[t]) >= n /\ stack'[t][n].pc = "put"
    BY <1>9, InsideWhereabouts
  <2>3. Len(stack'[t]) >= n <=> Len(stack'[t]) = n
    BY <1>2, <1>7
  <2>4. Putting(h)' <=> Len(stack'[t]) = n
    BY <1>4, <1>7, <2>2, <2>3
  <2> QED BY <1>9, <2>1, <2>4, InsideWhereabouts
<1>11. held' \in Holds /\ \A k \in Headers \ {h} : Tokens(held', k) = Tokens(held, k)
  BY <1>1, <1>3, <1>5
<1>12. /\ refcount'[h] = 1 /\ reference'[h] = NoHeader
       /\ \A d \in Headers \ {h} : refcount'[d] = refcount[d] /\ reference'[d] = reference[d]
  BY <1>1, <1>2, <1>3 DEF Types
<1>13. CountOf(h)'
  <2>1. Replicas(h)' = Replicas(h)
    BY <1>2, <1>9, <1>10, <1>12, PoolAssumption, ReplicasKept
  <2>2. Releasing(h)' = Releasing(h)
    BY <1>2, <1>4, <1>7, <1>9, ReleasingKept
  <2>3. References(h) = 0
    BY <1>2, <1>8, NotInUse
  <2>4. CASE Len(stack'[t]) = n
    <3>1. held' = held
      BY <1>2, <1>7, <2>4
    <3>2. References(h)' = 0
      BY <1>1, <1>2, <1>11, <2>1, <2>2, <2>3, <3>1, ReferencesAre, ReferencesThen
    <3>3. Stored(h)'
      BY <1>10, <2>4 DEF Stored
    <3> QED BY <1>12, <3>2, <3>3 DEF CountOf
  <2>5. CASE Len(stack'[t]) # n
    <3>1. Hold(t, h, 1)
      BY <1>2, <1>6, <1>7, <2>5
    <3>2. References(h)' = 1
      BY <1>1, <1>2, <1>5, <1>11, <2>1, <2>2, <2>3, <3>1, ReferencesAre, ReferencesThen
    <3>3. ~Stored(h)'
      BY <1>3, <1>8, <1>10, <2>5 DEF Stored, Queued, Live
    <3> QED BY <1>12, <3>2, <3>3 DEF CountOf
  <2> QED BY <2>4, <2>5
<1>14. \A k \in Headers : k # h => CountOf(k)'
  <2> SUFFICES ASSUME NEW k \in Headers, k # h PROVE CountOf(k)'
    OBVIOUS
  <2>1. reference'[h] # k
    BY <1>12, PoolAssumption
  <2>2. /\ refcount'[k] = refcount[k] /\ reference'[k] = reference[k]
        /\ \A d \in Headers \ {h} : reference'[d] = k <=> reference[d] = k
        /\ queue' = queue /\ headers_num' = headers_num
    BY <1>3, <1>12
  <2>3. held' \in Holds /\ Tokens(held', k) = Tokens(held, k) /\ ~(Len(stack'[t]) > n)
    BY <1>7, <1>11
  <2> QED BY <1>9, <1>10, <2>1, <2>2, <2>3, InsideCount
<1>15. Nested'
  BY <1>9, InsideNested
<1>16. Placed'
  BY <1>3, <1>8, <1>9, InsidePlaced
<1>17. Counted'
  <2>1. \A k \in Headers : CountOf(k)'
    BY <1>13, <1>14
  <2>2. Len(stack'[t]) >= n => stack'[t][n].pc = "put"
    BY <1>4, <1>7
  <2>3. /\ \A k \in delayed' : refcount'[k] = 0
        /\ \A u \in Threads : \A i \in 1 .. Len(stack'[u]) :
             /\ stack'[u][i].pc = "store" => stack'[u][i].count = refcount'[stack'[u][i].h]
             /\ stack'[u][i].pc \in Dead => refcount'[stack'[u][i].h] = 0
    <3>1. /\ \A k \in Headers \ {h} : refcount'[k] = refcount[k]
          /\ delayed' \subseteq delayed \cup {h} /\ h \notin delayed'
      BY <1>3, <1>8, <1>12
    <3>2. Len(stack'[t]) >= n =>
            stack'[t][n].pc # "store" /\ stack'[t][n].pc \notin Dead
      BY <2>2 DEF Dead
    <3> QED BY <1>9, <3>1, <3>2, InsideLoaded
  <2> QED BY <2>1, <2>3, CountedThen
<1>18. Acquiring'
  <2>1. \A u \in Threads \ {t} : held'[u] = held[u]
    BY <1>3, <1>5
  <2> QED BY <1>4, <1>7, <1>8, <1>9, <1>12, <2>1, InsideAcquiring
<1>19. Owned(own)'
  <2>1. \A u \in Threads, k \in Headers : held'[u][k] > 0 => held[u][k] > 0 \/ (u = t /\ k = h)
    BY <1>3, <1>5
  <2> QED BY <1>7, <1>9, <1>10, <1>12, <2>1, InsideOwned
<1> QED BY <1>15, <1>16, <1>17, <1>18, <1>19 DEF Kept

\* A sequence with one element before those of another one, which it is not one of.
LEMMA Prefixed ==
  ASSUME NEW q \in Seq(Headers), NEW p \in Seq(Headers), NEW h, IsInjective(q), h \notin ToSet(q),
         Len(p) = Len(q) + 1, p[1] = h, \A i \in 1 .. Len(q) : p[i + 1] = q[i]
  PROVE  IsInjective(p) /\ \A g : g \in ToSet(p) <=> g = h \/ g \in ToSet(q)
<1>1. Len(q) \in Nat /\ DOMAIN p = 1 .. Len(p) /\ DOMAIN q = 1 .. Len(q)
  OBVIOUS
<1>2. /\ \A i \in 1 .. Len(q) : q[i] # h
      /\ \A i, j \in 1 .. Len(q) : q[i] = q[j] => i = j
  BY <1>1 DEF ToSet, IsInjective
<1>3. ASSUME NEW i \in 1 .. Len(p), i # 1
      PROVE  i - 1 \in 1 .. Len(q) /\ p[i] = q[i - 1]
  <2>1. i - 1 \in 1 .. Len(q) /\ (i - 1) + 1 = i
    BY <1>1, <1>3
  <2>2. p[(i - 1) + 1] = q[i - 1]
    BY <2>1
  <2> QED BY <2>1, <2>2
<1>4. ASSUME NEW i \in 1 .. Len(p), NEW j \in 1 .. Len(p), p[i] = p[j]
      PROVE  i = j
  <2>1. CASE i = 1 /\ j # 1
    BY <1>2, <1>3, <1>4, <2>1
  <2>2. CASE i # 1 /\ j = 1
    BY <1>2, <1>3, <1>4, <2>2
  <2>3. CASE i # 1 /\ j # 1
    <3>1. i - 1 = j - 1
      <4>1. /\ i - 1 \in 1 .. Len(q) /\ p[i] = q[i - 1]
            /\ j - 1 \in 1 .. Len(q) /\ p[j] = q[j - 1]
        BY <1>3, <2>3
      <4>2. q[i - 1] = q[j - 1]
        BY <1>4, <4>1
      <4> QED BY <1>2, <4>1, <4>2
    <3> QED BY <3>1
  <2> QED BY <2>1, <2>2, <2>3
<1>5. IsInjective(p)
  BY <1>1, <1>4 DEF IsInjective
<1>6. ASSUME NEW g, g \in ToSet(p) PROVE g = h \/ g \in ToSet(q)
  <2>1. PICK i \in 1 .. Len(p) : g = p[i]
    BY <1>1, <1>6 DEF ToSet
  <2>2. i = 1 \/ \E k \in 1 .. Len(q) : g = q[k]
    BY <1>3, <2>1
  <2> QED BY <1>1, <2>1, <2>2 DEF ToSet
<1>7. ASSUME NEW g, g \in ToSet(q) PROVE g \in ToSet(p)
  <2>1. PICK i \in 1 .. Len(q) : g = q[i]
    BY <1>1, <1>7 DEF ToSet
  <2>2. i + 1 \in 1 .. Len(p) /\ g = p[i + 1]
    BY <1>1, <2>1
  <2> QED BY <1>1, <2>2 DEF ToSet
<1>8. h \in ToSet(p)
  <2>1. 1 \in 1 .. Len(p)
    BY <1>1
  <2> QED BY <1>1, <2>1 DEF ToSet
<1> QED BY <1>5, <1>6, <1>7, <1>8

\* A header that is put at the end of the queue, which it is not in, is in it once.
LEMMA QueueLengthened ==
  ASSUME queue \in Seq(Headers), IsInjective(queue), NEW h \in Headers, ~Queued(h),
         queue' \in {Append(queue, h), <<h>> \o queue}
  PROVE  IsInjective(queue') /\ \A g : g \in ToSet(queue') <=> g = h \/ g \in ToSet(queue)
<1>1. Len(queue) \in Nat /\ \A i \in 1 .. Len(queue) : queue[i] # h
  BY DEF Queued, ToSet
<1>2. \A i, j \in 1 .. Len(queue) : queue[i] = queue[j] => i = j
  BY DEF IsInjective
<1>3. CASE queue' = Append(queue, h)
  <2>1. /\ queue' \in Seq(Headers) /\ Len(queue') = Len(queue) + 1 /\ queue'[Len(queue) + 1] = h
        /\ \A i \in 1 .. Len(queue) : queue'[i] = queue[i]
    BY <1>3
  <2>2. \A i \in 1 .. Len(queue') : i = Len(queue) + 1 \/ i \in 1 .. Len(queue)
    BY <1>1, <2>1
  <2>3. DOMAIN queue' = 1 .. Len(queue') /\ DOMAIN queue = 1 .. Len(queue)
    BY <2>1
  <2>4. IsInjective(queue')
    BY <1>1, <1>2, <2>1, <2>2, <2>3 DEF IsInjective
  <2>5. Len(queue) + 1 \in 1 .. Len(queue') /\ 1 .. Len(queue) \subseteq 1 .. Len(queue')
    BY <1>1, <2>1
  <2>6. \A g : g \in ToSet(queue') <=> g = h \/ g \in ToSet(queue)
    BY <2>1, <2>2, <2>3, <2>5 DEF ToSet
  <2> QED BY <2>4, <2>6
<1>4. CASE queue' = <<h>> \o queue
  <2>1. /\ queue' \in Seq(Headers) /\ Len(queue') = Len(queue) + 1 /\ queue'[1] = h
        /\ \A i \in 1 .. Len(queue) : queue'[i + 1] = queue[i]
    BY <1>1, <1>4
  <2>2. h \notin ToSet(queue)
    BY DEF Queued
  <2> QED BY <2>1, <2>2, Prefixed
<1> QED BY <1>3, <1>4

\* The header that is taken from the queue is in it no more.
LEMMA QueueShortened ==
  ASSUME queue \in Seq(Headers), IsInjective(queue), queue # <<>>, queue' = Tail(queue),
         NEW h, h = Head(queue)
  PROVE  /\ IsInjective(queue') /\ Queued(h) /\ h \in Headers
         /\ \A g : g \in ToSet(queue') <=> g # h /\ g \in ToSet(queue)
<1>1. /\ Len(queue) \in Nat \ {0} /\ h = queue[1]
      /\ queue' \in Seq(Headers) /\ Len(queue') = Len(queue) - 1
      /\ \A i \in 1 .. Len(queue') : queue'[i] = queue[i + 1]
  OBVIOUS
<1>2. DOMAIN queue' = 1 .. Len(queue') /\ DOMAIN queue = 1 .. Len(queue)
  BY <1>1
<1>3. \A i, j \in 1 .. Len(queue) : queue[i] = queue[j] => i = j
  BY <1>2 DEF IsInjective
<1>4. 1 \in 1 .. Len(queue) /\ \A i \in 1 .. Len(queue') : i + 1 \in 1 .. Len(queue) /\ i + 1 # 1
  BY <1>1
<1>5. \A i \in 1 .. Len(queue) : i # 1 => i - 1 \in 1 .. Len(queue') /\ queue'[i - 1] = queue[i]
  <2> SUFFICES ASSUME NEW i \in 1 .. Len(queue), i # 1
               PROVE  i - 1 \in 1 .. Len(queue') /\ queue'[i - 1] = queue[i]
    OBVIOUS
  <2>1. i - 1 \in 1 .. Len(queue') /\ (i - 1) + 1 = i
    BY <1>1
  <2> QED BY <1>1, <2>1
<1>6. IsInjective(queue')
  <2> SUFFICES ASSUME NEW i \in 1 .. Len(queue'), NEW j \in 1 .. Len(queue'), queue'[i] = queue'[j]
               PROVE  i = j
    BY <1>2 DEF IsInjective
  <2>1. i + 1 = j + 1
    BY <1>1, <1>3, <1>4
  <2> QED BY <2>1
<1>7. Queued(h) /\ h \in Headers
  <2>1. queue[1] \in Headers
    BY <1>4
  <2> QED BY <1>1, <1>2, <1>4, <2>1 DEF Queued, ToSet
<1>8. ASSUME NEW g PROVE g \in ToSet(queue') <=> g # h /\ g \in ToSet(queue)
  <2>1. ASSUME g \in ToSet(queue') PROVE g # h /\ g \in ToSet(queue)
    <3>1. PICK i \in 1 .. Len(queue') : g = queue'[i]
      BY <1>2, <2>1 DEF ToSet
    <3>2. g = queue[i + 1] /\ i + 1 \in 1 .. Len(queue) /\ i + 1 # 1
      BY <1>1, <1>4, <3>1
    <3> QED BY <1>1, <1>2, <1>3, <1>4, <3>2 DEF ToSet
  <2>2. ASSUME g # h, g \in ToSet(queue) PROVE g \in ToSet(queue')
    <3>1. PICK i \in 1 .. Len(queue) : g = queue[i]
      BY <1>2, <2>2 DEF ToSet
    <3> QED BY <1>1, <1>2, <1>5, <2>2, <3>1 DEF ToSet
  <2> QED BY <2>1, <2>2
<1> QED BY <1>6, <1>7, <1>8

\* A header is queued.
LEMMA PutStep ==
  ASSUME CountInv, NEW own, Owned(own), Types', NEW t \in Threads,
         NEW h, h = Top(t).h, NEW n, n = Len(stack[t]), Put(t)
  PROVE  Kept(own)
<1>1. Types /\ held \in Holds /\ delayed \subseteq Headers /\ Nested /\ Placed
  BY DEF CountInv, CountTypes
<1>2. /\ stack[t] # <<>> /\ Top(t).pc = "put" /\ Top(t) \in Frame /\ h \in Headers
      /\ n \in Nat \ {0} /\ Top(t) = stack[t][n] /\ n \in 1 .. Len(stack[t])
  BY <1>1, TopIs DEF Put, At
<1>3. /\ queue' = Append(queue, h) /\ Return(t)
      /\ UNCHANGED <<headers_num, refcount, reference, delayed, held>>
  BY DEF Put, counts, sizes
<1>4. Beside(t) /\ Len(stack'[t]) = n - 1
  BY <1>1, <1>2, <1>3, Returned
<1>5. ~(Len(stack'[t]) > n) /\ ~(Len(stack'[t]) >= n) /\ Len(stack'[t]) # n
  BY <1>2, <1>4
<1>6. InsideStep(own, t, h, n)
  BY <1>2, <1>4, <1>5 DEF InsideStep, Inside
<1>7. /\ h \in Live /\ ~Queued(h) /\ h \notin delayed
      /\ \A u \in Threads : \A j \in 1 .. Len(stack[u]) :
           stack[u][j].pc \in Leaving /\ stack[u][j].h = h => u = t /\ j = n
  BY <1>1, <1>2 DEF Placed, Leaving
<1>8. /\ \A d : d # h => (Recycling(d)' <=> Recycling(d)) /\ (Putting(d)' <=> Putting(d))
      /\ ~Recycling(h) /\ ~Recycling(h)' /\ Putting(h)
  BY <1>2, <1>5, <1>6, InsideWhereabouts
<1>9. IsInjective(queue') /\ \A g : g \in ToSet(queue') <=> g = h \/ g \in ToSet(queue)
  BY <1>1, <1>2, <1>3, <1>7, QueueLengthened DEF Placed, Types
<1>10. CountOf(h)'
  <2>1. Stored(h) /\ Stored(h)'
    BY <1>8, <1>9 DEF Stored, Queued
  <2>2. Replicas(h)' = Replicas(h)
    BY <1>3, <1>6, <1>8, ReplicasKept
  <2>3. Releasing(h)' = Releasing(h)
    BY <1>2, <1>5, <1>6, ReleasingKept
  <2>4. held' \in Holds /\ Tokens(held', h) = Tokens(held, h)
    BY <1>1, <1>3
  <2> QED BY <1>2, <1>3, <2>1, <2>2, <2>3, <2>4, CountKept DEF CountOf
<1>11. \A k \in Headers : k # h => CountOf(k)'
  <2> SUFFICES ASSUME NEW k \in Headers, k # h PROVE CountOf(k)'
    OBVIOUS
  <2>1. k \in ToSet(queue') <=> k \in ToSet(queue)
    BY <1>9
  <2> QED BY <1>1, <1>3, <1>5, <1>6, <1>8, <2>1, InsideCount
<1>12. Nested'
  BY <1>6, InsideNested
<1>13. Placed'
  <2>1. Live' = Live
    BY <1>3 DEF Live
  <2>2. \A g \in Headers : g \in ToSet(queue') => g \in Live' /\ g \notin delayed'
    BY <1>1, <1>3, <1>7, <1>9, <2>1 DEF Placed, Queued
  <2>3. ASSUME NEW u \in Threads, NEW i \in 1 .. Len(stack'[u])
        PROVE  /\ i \in 1 .. Len(stack[u]) /\ stack'[u][i] = stack[u][i]
               /\ stack[u][i].pc \in Leaving => stack[u][i].h # h
    <3>1. /\ u # t \/ i < n
          /\ i \in 1 .. Len(stack[u]) /\ stack'[u][i] = stack[u][i]
      <4>1. Types' /\ Inside(t, h, n)
        BY <1>6 DEF InsideStep
      <4>2. ~(u = t /\ i = n)
        BY <1>2, <1>4
      <4> QED BY <1>1, <1>5, <4>1, <4>2, InsideCalls
    <3>2. ~(u = t /\ i = n)
      BY <1>2, <3>1
    <3> QED BY <1>7, <3>1, <3>2
  <2>4. ASSUME NEW u \in Threads, NEW i \in 1 .. Len(stack'[u]), stack'[u][i].pc \in Leaving
        PROVE  /\ stack'[u][i].h \in Live' /\ stack'[u][i].h \notin delayed'
               /\ stack'[u][i].h \notin ToSet(queue')
               /\ \A v \in Threads : \A j \in 1 .. Len(stack'[v]) :
                    stack'[v][j].pc \in Leaving /\ stack'[v][j].h = stack'[u][i].h => v = u /\ j = i
    <3>1. /\ i \in 1 .. Len(stack[u]) /\ stack'[u][i] = stack[u][i] /\ stack[u][i].h # h
          /\ stack[u][i].pc \in Leaving
      BY <2>3, <2>4
    <3>2. /\ stack[u][i].h \in Live /\ stack[u][i].h \notin delayed /\ ~Queued(stack[u][i].h)
          /\ \A v \in Threads : \A j \in 1 .. Len(stack[v]) :
               stack[v][j].pc \in Leaving /\ stack[v][j].h = stack[u][i].h => v = u /\ j = i
      BY <1>1, <3>1 DEF Placed
    <3>3. ASSUME NEW v \in Threads, NEW j \in 1 .. Len(stack'[v]),
                 stack'[v][j].pc \in Leaving, stack'[v][j].h = stack[u][i].h
          PROVE  v = u /\ j = i
      BY <2>3, <3>2, <3>3
    <3>4. /\ stack'[u][i].h \in Live' /\ stack'[u][i].h \notin delayed'
          /\ stack'[u][i].h \notin ToSet(queue')
      BY <1>3, <1>9, <2>1, <3>1, <3>2 DEF Queued
    <3> QED BY <3>1, <3>3, <3>4
  <2>5. delayed' \subseteq Live'
    BY <1>1, <1>3, <2>1 DEF Placed
  <2> QED BY <1>9, <2>2, <2>4, <2>5 DEF Placed, Queued
<1>14. Counted'
  BY <1>3, <1>5, <1>6, <1>7, <1>10, <1>11, InsideLoaded, CountedThen
<1>15. Acquiring'
  BY <1>3, <1>5, <1>6, InsideAcquiring
<1>16. Owned(own)'
  <2>1. \A d \in Headers : Recycling(d) => Recycling(d)'
    BY <1>8
  <2> QED BY <1>3, <1>5, <1>6, <2>1, InsideOwned
<1> QED BY <1>12, <1>13, <1>14, <1>15, <1>16 DEF Kept

\* A reference is added to the count: the thread has it, or the replica it makes.
LEMMA StoreAcquiredStep ==
  ASSUME CountInv, NEW own, Owned(own), Types', NEW t \in Threads,
         NEW h, h = Top(t).h, NEW n, n = Len(stack[t]), NEW x, x = Top(t).dest, StoreAcquired(t)
  PROVE  Kept(own)
<1>1. Types /\ held \in Holds /\ delayed \subseteq Headers /\ Nested
  BY DEF CountInv, CountTypes
<1>2. /\ stack[t] # <<>> /\ Top(t).pc = "store" /\ Top(t).by = 1 /\ Top(t) \in Frame /\ h \in Headers
      /\ n \in Nat \ {0} /\ Top(t) = stack[t][n] /\ n \in 1 .. Len(stack[t])
      /\ x \in Headers \cup {NoHeader}
  BY <1>1, TopIs DEF StoreAcquired, At
<1>3. /\ refcount' = [refcount EXCEPT ![h] = Top(t).count + 1] /\ Return(t)
      /\ \/ x = NoHeader /\ Hold(t, h, 1) /\ reference' = reference
         \/ x # NoHeader /\ reference' = [reference EXCEPT ![x] = h] /\ held' = held
      /\ UNCHANGED <<queue, headers_num, delayed>>
  BY DEF StoreAcquired, queues, sizes
<1>4. Beside(t) /\ Len(stack'[t]) = n - 1
  BY <1>1, <1>2, <1>3, Returned
<1>5. ~(Len(stack'[t]) > n) /\ ~(Len(stack'[t]) >= n) /\ Len(stack'[t]) # n
  BY <1>2, <1>4
<1>6. InsideStep(own, t, h, n)
  BY <1>2, <1>4, <1>5 DEF InsideStep, Inside
<1>7. \A d : (Recycling(d)' <=> Recycling(d)) /\ (Putting(d)' <=> Putting(d))
  <2>1. ~Recycling(h) /\ ~Putting(h)
    BY <1>2, <1>6, InsideWhereabouts
  <2>2. ~Recycling(h)' /\ ~Putting(h)'
    BY <1>5, <1>6, InsideWhereabouts
  <2> QED BY <1>6, <2>1, <2>2, InsideWhereabouts
<1>8. /\ ~Stored(h) /\ h \notin delayed /\ h \in Live /\ ~Queued(h)
      /\ refcount[h] = References(h) /\ References(h) \in Nat
  BY <1>2, InUse
<1>9. /\ x # NoHeader => x # h /\ held[t][x] > 0 /\ reference[x] = NoHeader
      /\ own[h] = t
  <2>1. stack[t][n].by = 1 /\ stack[t][n].dest = x /\ stack[t][n].h = h
    BY <1>2
  <2> QED BY <1>2, <2>1 DEF CountInv, Acquiring, Owned
<1>10. x # NoHeader => ~Stored(x) /\ ~Recycling(x) /\ own[x] = t
  <2>1. ASSUME x # NoHeader PROVE ~Stored(x) /\ ~Recycling(x)
    <3>1. /\ ~Stored(x)
          /\ \A u \in Threads : \A i \in 1 .. Len(stack[u]) :
               stack[u][i].h = x => stack[u][i].pc \notin Leaving
      BY <1>2, <1>9, <2>1, InUse
    <3> QED BY <3>1 DEF Recycling, Leaving, Dead
  <2> QED BY <1>2, <1>9, <2>1 DEF Owned
<1>11. /\ refcount'[h] = refcount[h] + 1
       /\ \A d \in Headers \ {h} : refcount'[d] = refcount[d]
  <2>1. stack[t][n].pc = "store" => stack[t][n].count = refcount[stack[t][n].h]
    BY <1>2 DEF CountInv, Counted
  <2>2. Top(t).count = refcount[h]
    BY <1>2, <2>1
  <2>3. /\ refcount'[h] = Top(t).count + 1
        /\ \A d \in Headers \ {h} : refcount'[d] = refcount[d]
    BY <1>1, <1>2, <1>3 DEF Types
  <2> QED BY <2>2, <2>3
<1>12. Hold(t, h, 1) =>
        /\ held' \in Holds
        /\ Cardinality(Tokens(held', h)) = Cardinality(Tokens(held, h)) + 1
        /\ \A k \in Headers \ {h} : Tokens(held', k) = Tokens(held, k)
        /\ \A u \in Threads \ {t} : held'[u] = held[u]
        /\ \A u \in Threads, k \in Headers : u # t \/ k # h => held'[u][k] = held[u][k]
  BY <1>1, <1>2, HoldChange
<1>13. held' \in Holds /\ \A k \in Headers \ {h} : Tokens(held', k) = Tokens(held, k)
  BY <1>1, <1>3, <1>12
<1>14. \A d \in Headers : reference'[d] = IF d = x THEN h ELSE reference[d]
  BY <1>1, <1>2, <1>3, PoolAssumption DEF Types
<1>15. Releasing(h)' = Releasing(h)
  BY <1>2, <1>5, <1>6, ReleasingKept
<1>16. References(h)' = References(h) + 1
  <2>1. /\ References(h) = Cardinality(Tokens(held, h)) + Cardinality(Replicas(h))
                             + Cardinality(Releasing(h))
        /\ References(h)' = Cardinality(Tokens(held', h)) + Cardinality(Replicas(h)')
                              + Cardinality(Releasing(h)')
        /\ Cardinality(Tokens(held, h)) \in Nat /\ Cardinality(Replicas(h)) \in Nat
        /\ Cardinality(Releasing(h)) \in Nat
    BY <1>1, <1>2, <1>13, ReferencesAre, ReferencesThen
  <2>2. CASE x = NoHeader
    <3>1. Replicas(h)' = Replicas(h)
      BY <1>3, <1>6, <1>7, <2>2, ReplicasKept
    <3>2. Hold(t, h, 1)
      BY <1>3, <2>2
    <3>3. Cardinality(Tokens(held', h)) = Cardinality(Tokens(held, h)) + 1
      BY <1>12, <3>2
    <3> QED BY <1>15, <2>1, <3>1, <3>3
  <2>3. CASE x # NoHeader
    <3>1. \A d : /\ d \in Replicas(h)' <=> d \in Headers /\ reference'[d] = h /\ ~Recycling(d)'
                 /\ d \in Replicas(h) <=> d \in Headers /\ reference[d] = h /\ ~Recycling(d)
      BY <1>1, CallsAre, CallsAreThen
    <3>2. x \in Replicas(h)'
      BY <1>2, <1>7, <1>10, <1>14, <2>3, <3>1
    <3>3. x \notin Replicas(h)
      BY <1>2, <1>9, <2>3, <3>1, PoolAssumption
    <3>4. \A d : d # x => (d \in Replicas(h)' <=> d \in Replicas(h))
      BY <1>7, <1>14, <3>1
    <3>5. Replicas(h)' = Replicas(h) \cup {x}
      BY <3>2, <3>4
    <3>6. IsFiniteSet(Replicas(h))
      BY <1>1, <1>2, ReferencesAre
    <3>7. Cardinality(Replicas(h)') = Cardinality(Replicas(h)) + 1
      BY <3>3, <3>5, <3>6, FS_AddElement
    <3>8. Tokens(held', h) = Tokens(held, h)
      BY <1>3, <2>3
    <3> QED BY <1>15, <2>1, <3>7, <3>8
  <2> QED BY <2>2, <2>3
<1>17. CountOf(h)'
  <2>1. ~Stored(h)'
    BY <1>3, <1>7, <1>8 DEF Stored, Queued, Live
  <2>2. refcount'[h] = References(h)' /\ References(h)' \in Nat
    BY <1>8, <1>11, <1>16
  <2> QED BY <2>1, <2>2 DEF CountOf
<1>18. \A k \in Headers : k # h => CountOf(k)'
  <2> SUFFICES ASSUME NEW k \in Headers, k # h PROVE CountOf(k)'
    OBVIOUS
  <2>1. Stored(k) => reference'[k] = reference[k]
    BY <1>2, <1>10, <1>14, PoolAssumption
  <2>2. \A d \in Headers : reference'[d] = k <=> reference[d] = k
    BY <1>2, <1>9, <1>14, PoolAssumption
  <2> QED BY <1>2, <1>3, <1>5, <1>6, <1>7, <1>11, <1>13, <2>1, <2>2, InsideCount
<1>19. Nested'
  BY <1>6, InsideNested
<1>20. Placed'
  BY <1>3, <1>5, <1>6, <1>8, InsidePlaced
<1>21. Counted'
  BY <1>3, <1>5, <1>6, <1>8, <1>11, <1>17, <1>18, InsideLoaded, CountedThen
<1>22. Acquiring'
  <2>1. \A u \in Threads \ {t} : held'[u] = held[u]
    BY <1>3, <1>12
  <2>2. \A g \in Headers : reference'[g] \in {reference[g], NoHeader} \/ own[g] = t
    BY <1>10, <1>14, PoolAssumption
  <2> QED BY <1>5, <1>6, <2>1, <2>2, InsideAcquiring
<1>23. Owned(own)'
  <2>1. \A u \in Threads, k \in Headers : held'[u][k] > 0 => held[u][k] > 0 \/ (u = t /\ k = h)
    BY <1>3, <1>12
  <2>2. \A d \in Headers : reference'[d] = reference[d] \/ own[reference'[d]] = own[d]
    BY <1>9, <1>10, <1>14, PoolAssumption
  <2>3. \A d \in Headers : Recycling(d) => Recycling(d)'
    BY <1>7
  <2> QED BY <1>5, <1>6, <2>1, <2>2, <2>3, InsideOwned
<1> QED BY <1>19, <1>20, <1>21, <1>22, <1>23 DEF Kept

-----------------------------------------------------------------------------
(* The calls that an idle thread makes.                                    *)

\* t is in no call, and makes the call g.
Begin(t, g) ==
  /\ stack[t] = <<>> /\ stack' = [stack EXCEPT ![t] = <<g>>]
  /\ g \in Frame /\ g.pc \in {"load", "continue"} /\ (g.by = 1 => g.pc = "load")
  /\ UNCHANGED <<queue, headers_num, refcount, reference>>

\* What the lemmas below assume.
BeginStep(own, t, g) == CountInv /\ Owned(own) /\ Types' /\ Begin(t, g)

\* The calls after the step are those of before and g.
CallsWith(t, g) ==
  /\ \A u \in Threads : \A j \in 1 .. Len(stack'[u]) :
       \/ u # t /\ j \in 1 .. Len(stack[u]) /\ stack'[u][j] = stack[u][j]
       \/ u = t /\ j = 1 /\ stack'[u][j] = g
  /\ \A u \in Threads : \A j \in 1 .. Len(stack[u]) :
       u # t /\ j \in 1 .. Len(stack'[u]) /\ stack'[u][j] = stack[u][j]
  /\ \A u \in Threads \ {t} : stack'[u] = stack[u]
  /\ Len(stack'[t]) = 1 /\ 1 \in 1 .. Len(stack'[t]) /\ stack'[t][1] = g

\* The calls of the others stay as they are.
LEMMA BeginCalls ==
  ASSUME Types, NEW t \in Threads, NEW g, Begin(t, g)
  PROVE  CallsWith(t, g)
<1>1. /\ \A u \in Threads \ {t} : stack'[u] = stack[u]
      /\ Len(stack'[t]) = 1 /\ stack'[t][1] = g /\ Len(stack[t]) = 0
  BY Begun DEF Begin
<1>2. 1 \in 1 .. Len(stack'[t]) /\ \A j \in 1 .. Len(stack'[t]) : j = 1
  BY <1>1
<1>3. \A j \in 1 .. Len(stack[t]) : FALSE
  BY <1>1
<1> QED BY <1>1, <1>2, <1>3 DEF CallsWith

\* No header is recycled or put by it, or is replicated yet.
BeginsOnly(t, g) ==
  /\ \A d : (Recycling(d)' <=> Recycling(d)) /\ (Putting(d)' <=> Putting(d))
  /\ \A k : Replicas(k)' = Replicas(k)
  /\ \A k, u : u # t => (u \in Releasing(k)' <=> u \in Releasing(k))
  /\ \A k : t \notin Releasing(k) /\ (t \in Releasing(k)' <=> g.h = k /\ g.by = -1 /\ g.pc = "load")

\* A call that is begun recycles nothing and puts nothing into the queue.
LEMMA BeginWhereabouts ==
  ASSUME NEW own, NEW t \in Threads, NEW g, BeginStep(own, t, g)
  PROVE  BeginsOnly(t, g) /\ Nested'
<1>1. Types /\ Types' /\ Begin(t, g) /\ Nested
  BY DEF BeginStep, CountInv, CountTypes
<1>2. CallsWith(t, g)
  BY <1>1, BeginCalls
<1>3. \A d : Recycling(d)' <=> Recycling(d)
  BY <1>1, <1>2 DEF CallsWith, Recycling, Begin
<1>4. \A d : Putting(d)' <=> Putting(d)
  <2> SUFFICES ASSUME NEW d PROVE Putting(d)' <=> Putting(d)
    OBVIOUS
  <2>1. Putting(d) <=> \E u \in Threads : \E i \in 1 .. Len(stack[u]) :
                         stack[u][i].h = d /\ stack[u][i].pc = "put"
    BY <1>1, CallsAre
  <2>2. Putting(d)' <=> \E u \in Threads : \E i \in 1 .. Len(stack'[u]) :
                          stack'[u][i].h = d /\ stack'[u][i].pc = "put"
    BY <1>1, CallsAreThen
  <2> QED BY <1>1, <1>2, <2>1, <2>2 DEF CallsWith, Begin
<1>5. ASSUME NEW k PROVE Replicas(k)' = Replicas(k)
  <2>1. \A d : d \in Replicas(k)' <=> d \in Replicas(k)
    BY <1>1, <1>3, CallsAre, CallsAreThen DEF Begin
  <2> QED BY <2>1
<1>6. Nested'
  BY <1>1, <1>2 DEF Nested, CallsWith, Begin
<1>7. ASSUME NEW k, NEW u, u # t PROVE u \in Releasing(k)' <=> u \in Releasing(k)
  <2>1. CASE u \in Threads
    <3>1. stack'[u] = stack[u]
      BY <1>2, <1>7, <2>1 DEF CallsWith
    <3> QED BY <1>1, <1>6, <2>1, <3>1, ReleasingAre, ReleasingAreThen
  <2>2. CASE u \notin Threads
    BY <2>2 DEF Releasing
  <2> QED BY <2>1, <2>2
<1>8. ASSUME NEW k
      PROVE  t \notin Releasing(k) /\ (t \in Releasing(k)' <=> g.h = k /\ g.by = -1 /\ g.pc = "load")
  <2>1. t \notin Releasing(k)
    BY <1>1 DEF Releasing, At, Begin
  <2>2. t \in Releasing(k)' <=> g.h = k /\ g.by = -1 /\ g.pc \in {"load", "store"}
    <3>1. \A i \in 1 .. Len(stack'[t]) : i = 1
      BY <1>2 DEF CallsWith
    <3> QED BY <1>1, <1>2, <1>6, <3>1, ReleasingAreThen DEF CallsWith
  <2>3. g.pc \in {"load", "store"} <=> g.pc = "load"
    BY <1>1 DEF Begin
  <2> QED BY <2>1, <2>2, <2>3
<1> QED BY <1>3, <1>4, <1>5, <1>6, <1>7, <1>8 DEF BeginsOnly

\* The count of a header that the call does not release.
LEMMA BeginCount ==
  ASSUME NEW own, NEW t \in Threads, NEW g, BeginStep(own, t, g), NEW k \in Headers,
         held' \in Holds, Tokens(held', k) = Tokens(held, k),
         ~(g.h = k /\ g.by = -1 /\ g.pc = "load")
  PROVE  CountOf(k)'
<1>1. CountInv /\ BeginsOnly(t, g) /\ Begin(t, g)
  <2>1. BeginsOnly(t, g)
    BY BeginWhereabouts
  <2> QED BY <2>1 DEF BeginStep
<1>2. Replicas(k)' = Replicas(k)
  BY <1>1 DEF BeginsOnly
<1>3. \A u : u \in Releasing(k)' <=> u \in Releasing(k)
  BY <1>1 DEF BeginsOnly
<1>4. Stored(k)' <=> Stored(k)
  <2>1. Putting(k)' <=> Putting(k)
    BY <1>1 DEF BeginsOnly
  <2>2. (Queued(k)' <=> Queued(k)) /\ (k \in Live' <=> k \in Live)
    BY <1>1 DEF Queued, Live, Begin
  <2> QED BY <2>1, <2>2 DEF Stored
<1>5. Releasing(k)' = Releasing(k)
  BY <1>3
<1> QED BY <1>1, <1>2, <1>4, <1>5, CountKept DEF CountOf, Begin

\* Headers without references stay where they are.
LEMMA BeginPlaced ==
  ASSUME NEW own, NEW t \in Threads, NEW g, BeginStep(own, t, g), delayed' \subseteq delayed,
         g.pc = "continue" => g.h \in delayed \ delayed'
  PROVE  Placed'
<1>1. Types /\ Types' /\ Begin(t, g) /\ Placed /\ CallsWith(t, g)
  BY BeginCalls DEF BeginStep, CountInv, CountTypes
<1>2. /\ \A k : k \in ToSet(queue') <=> Queued(k)
      /\ Live' = Live /\ queue' = queue
  BY <1>1 DEF Queued, Live, Begin
<1>3. ASSUME NEW u \in Threads, NEW i \in 1 .. Len(stack'[u]), stack'[u][i].pc \in Leaving
      PROVE  /\ stack'[u][i].h \in Live' /\ stack'[u][i].h \notin delayed'
             /\ stack'[u][i].h \notin ToSet(queue')
             /\ \A v \in Threads : \A j \in 1 .. Len(stack'[v]) :
                  stack'[v][j].pc \in Leaving /\ stack'[v][j].h = stack'[u][i].h => v = u /\ j = i
  <2>1. ASSUME NEW v \in Threads, NEW j \in 1 .. Len(stack'[v]), v # t, stack'[v][j].pc \in Leaving
        PROVE  /\ j \in 1 .. Len(stack[v]) /\ stack'[v][j] = stack[v][j] /\ stack[v][j].h \notin delayed
    BY <1>1, <2>1 DEF CallsWith, Placed
  <2>2. CASE u = t
    <3>1. i = 1 /\ stack'[u][i] = g
      BY <1>1, <1>3, <2>2 DEF CallsWith
    <3>2. g.pc = "continue"
      BY <1>1, <1>3, <3>1 DEF Begin, Leaving, Dead
    <3>3. g.h \in delayed /\ g.h \notin delayed'
      BY <3>2
    <3>4. g.h \in Live /\ ~Queued(g.h)
      <4>1. g.h \in Headers
        BY <1>1 DEF Begin, Frame
      <4> QED BY <1>1, <3>3, <4>1 DEF Placed
    <3>5. ASSUME NEW v \in Threads, NEW j \in 1 .. Len(stack'[v]),
                 stack'[v][j].pc \in Leaving, stack'[v][j].h = g.h
          PROVE  v = u /\ j = i
      <4>1. v = t
        BY <2>1, <3>3, <3>5
      <4> QED BY <1>1, <2>2, <3>1, <4>1 DEF CallsWith
    <3> QED BY <1>2, <3>1, <3>3, <3>4, <3>5
  <2>3. CASE u # t
    <3>1. /\ i \in 1 .. Len(stack[u]) /\ stack'[u][i] = stack[u][i] /\ stack[u][i].pc \in Leaving
      BY <1>3, <2>1, <2>3
    <3>2. /\ stack[u][i].h \in Live /\ stack[u][i].h \notin delayed /\ ~Queued(stack[u][i].h)
          /\ \A v \in Threads : \A j \in 1 .. Len(stack[v]) :
               stack[v][j].pc \in Leaving /\ stack[v][j].h = stack[u][i].h => v = u /\ j = i
      BY <1>1, <3>1 DEF Placed
    <3>3. ASSUME NEW v \in Threads, NEW j \in 1 .. Len(stack'[v]),
                 stack'[v][j].pc \in Leaving, stack'[v][j].h = stack[u][i].h
          PROVE  v = u /\ j = i
      <4>1. CASE v = t
        <5>1. stack'[v][j] = g
          BY <1>1, <4>1, <3>3 DEF CallsWith
        <5>2. g.pc = "continue"
          BY <1>1, <3>3, <5>1 DEF Begin, Leaving, Dead
        <5> QED BY <3>2, <3>3, <5>1, <5>2
      <4>2. CASE v # t
        BY <2>1, <3>2, <3>3, <4>2
      <4> QED BY <4>1, <4>2
    <3> QED BY <1>2, <3>1, <3>2, <3>3
  <2> QED BY <2>2, <2>3
<1>4. /\ IsInjective(queue') /\ delayed' \subseteq Live'
      /\ \A k \in Headers : k \in ToSet(queue') => k \in Live' /\ k \notin delayed'
  BY <1>1, <1>2 DEF Placed
<1> QED BY <1>3, <1>4 DEF Placed, Queued

\* What calls have loaded, or know to be zero, stays true.
LEMMA BeginLoaded ==
  ASSUME NEW own, NEW t \in Threads, NEW g, BeginStep(own, t, g), delayed' \subseteq delayed,
         g.pc = "continue" => g.h \in delayed
  PROVE  /\ \A k \in delayed' : refcount'[k] = 0
         /\ \A u \in Threads : \A i \in 1 .. Len(stack'[u]) :
              /\ stack'[u][i].pc = "store" => stack'[u][i].count = refcount'[stack'[u][i].h]
              /\ stack'[u][i].pc \in Dead => refcount'[stack'[u][i].h] = 0
<1>1. Types /\ Begin(t, g) /\ Counted /\ CallsWith(t, g)
  BY BeginCalls DEF BeginStep, CountInv, CountTypes
<1>2. \A k \in delayed' : refcount'[k] = 0
  BY <1>1 DEF Counted, Begin
<1>3. ASSUME NEW u \in Threads, NEW i \in 1 .. Len(stack'[u])
      PROVE  /\ stack'[u][i].pc = "store" => stack'[u][i].count = refcount'[stack'[u][i].h]
             /\ stack'[u][i].pc \in Dead => refcount'[stack'[u][i].h] = 0
  <2>1. CASE u = t
    <3>1. stack'[u][i] = g
      BY <1>1, <2>1 DEF CallsWith
    <3> QED BY <1>1, <3>1 DEF Begin, Dead, Counted
  <2>2. CASE u # t
    <3>1. i \in 1 .. Len(stack[u]) /\ stack'[u][i] = stack[u][i]
      BY <1>1, <2>2 DEF CallsWith
    <3> QED BY <1>1, <3>1 DEF Begin, Counted
  <2> QED BY <2>1, <2>2
<1> QED BY <1>2, <1>3

\* The caller has the references that it acquires another with, and so have the others.
LEMMA BeginOwned ==
  ASSUME NEW own, NEW t \in Threads, NEW g, BeginStep(own, t, g),
         \A u \in Threads \ {t} : held'[u] = held[u],
         \A k \in Headers : held'[t][k] > 0 => held[t][k] > 0,
         own[g.h] = t,
         g.by = 1 => /\ held'[t][g.h] > 0
                     /\ g.dest # NoHeader =>
                          g.dest # g.h /\ held'[t][g.dest] > 0 /\ reference[g.dest] = NoHeader
  PROVE  Acquiring' /\ Owned(own)'
<1>1. /\ Types /\ Begin(t, g) /\ Acquiring /\ Owned(own) /\ CallsWith(t, g)
      /\ \A d : Recycling(d)' <=> Recycling(d)
  <2>1. BeginsOnly(t, g)
    BY BeginWhereabouts
  <2> QED BY <2>1, BeginCalls DEF BeginStep, CountInv, CountTypes, BeginsOnly
<1>2. Acquiring'
  <2> SUFFICES ASSUME NEW u \in Threads, NEW i \in 1 .. Len(stack'[u]), stack'[u][i].by = 1
               PROVE  /\ held'[u][stack'[u][i].h] > 0
                      /\ stack'[u][i].dest # NoHeader =>
                           /\ stack'[u][i].dest # stack'[u][i].h
                           /\ held'[u][stack'[u][i].dest] > 0 /\ reference'[stack'[u][i].dest] = NoHeader
    BY DEF Acquiring
  <2>1. CASE u = t
    <3>1. stack'[u][i] = g
      BY <1>1, <2>1 DEF CallsWith
    <3> QED BY <1>1, <2>1, <3>1 DEF Begin
  <2>2. CASE u # t
    <3>1. i \in 1 .. Len(stack[u]) /\ stack'[u][i] = stack[u][i] /\ held'[u] = held[u]
      BY <1>1, <2>2 DEF CallsWith
    <3> QED BY <1>1, <3>1 DEF Begin, Acquiring
  <2> QED BY <2>1, <2>2
<1>3. \A u \in Threads, k \in Headers : held'[u][k] > 0 => own[k] = u
  BY <1>1 DEF Owned
<1>4. \A u \in Threads : \A i \in 1 .. Len(stack'[u]) : own[stack'[u][i].h] = u
  BY <1>1 DEF Owned, CallsWith
<1>5. \A d \in Headers : reference'[d] # NoHeader /\ ~Recycling(d)' => own[reference'[d]] = own[d]
  BY <1>1 DEF Owned, Begin
<1> QED BY <1>2, <1>3, <1>4, <1>5 DEF Owned

\* mmal_buffer_header_acquire(), also for a replica, begins.
LEMMA AcquireStep ==
  ASSUME CountInv, NEW own, Owned(own), Types', NEW t \in Threads, NEW h \in Headers,
         NEW x \in Headers \cup {NoHeader}, stack[t] = <<>>, held[t][h] > 0,
         x # NoHeader => x # h /\ held[t][x] > 0 /\ reference[x] = NoHeader,
         Call(t, h, 1, x), UNCHANGED <<queue, headers_num, refcount, reference, delayed, held>>
  PROVE  Kept(own)
<1> DEFINE g == [h |-> h, by |-> 1, count |-> 0, dest |-> x, pc |-> "load"]
<1>1. /\ Types /\ held \in Holds /\ delayed \subseteq Headers /\ Placed /\ Counted
  BY DEF CountInv, CountTypes
<1>2. /\ g \in Frame /\ g.h = h /\ g.by = 1 /\ g.dest = x /\ g.pc = "load"
  BY DEF Frame
<1>3. stack' = [stack EXCEPT ![t] = <<g>>]
  BY <1>1 DEF Call, Types
<1> HIDE DEF g
<1>4. BeginStep(own, t, g)
  BY <1>2, <1>3 DEF BeginStep, Begin
<1>5. own[h] = t
  BY DEF Owned
<1>6. Nested'
  BY <1>4, BeginWhereabouts
<1>7. \A k \in Headers : CountOf(k)'
  BY <1>1, <1>2, <1>4, BeginCount
<1>8. Placed'
  BY <1>2, <1>4, BeginPlaced
<1>9. Counted'
  BY <1>2, <1>4, <1>7, BeginLoaded, CountedThen
<1>10. Acquiring' /\ Owned(own)'
  BY <1>2, <1>4, <1>5, BeginOwned
<1> QED BY <1>6, <1>8, <1>9, <1>10 DEF Kept

\* mmal_buffer_header_release() begins.
LEMMA ReleaseStep ==
  ASSUME CountInv, NEW own, Owned(own), Types', NEW t \in Threads, NEW h \in Headers,
         stack[t] = <<>>, held[t][h] > 0, Hold(t, h, -1), Call(t, h, -1, NoHeader),
         UNCHANGED <<queue, headers_num, refcount, reference, delayed>>
  PROVE  Kept(own)
<1> DEFINE g == [h |-> h, by |-> -1, count |-> 0, dest |-> NoHeader, pc |-> "load"]
<1>1. /\ Types /\ held \in Holds /\ delayed \subseteq Headers /\ Placed /\ Counted
  BY DEF CountInv, CountTypes
<1>2. /\ g \in Frame /\ g.h = h /\ g.by = -1 /\ g.dest = NoHeader /\ g.pc = "load"
  BY DEF Frame
<1>3. stack' = [stack EXCEPT ![t] = <<g>>]
  BY <1>1 DEF Call, Types
<1> HIDE DEF g
<1>4. BeginStep(own, t, g)
  BY <1>2, <1>3 DEF BeginStep, Begin
<1>5. own[h] = t
  BY DEF Owned
<1>6. /\ held' \in Holds
      /\ Cardinality(Tokens(held', h)) = Cardinality(Tokens(held, h)) - 1
      /\ \A k \in Headers \ {h} : Tokens(held', k) = Tokens(held, k)
      /\ \A u \in Threads \ {t} : held'[u] = held[u]
      /\ \A u \in Threads, k \in Headers : u # t \/ k # h => held'[u][k] = held[u][k]
  <2>1. /\ held' \in Holds
        /\ Cardinality(Tokens(held', h)) = Cardinality(Tokens(held, h)) + (-1)
        /\ \A k \in Headers \ {h} : Tokens(held', k) = Tokens(held, k)
        /\ \A u \in Threads \ {t} : held'[u] = held[u]
        /\ \A u \in Threads, k \in Headers : u # t \/ k # h => held'[u][k] = held[u][k]
    BY <1>1, HoldChange
  <2>2. Cardinality(Tokens(held, h)) \in Nat
    BY <1>1, TokensFinite
  <2> QED BY <2>1, <2>2
<1>7. BeginsOnly(t, g)
  BY <1>4, BeginWhereabouts
<1>8. /\ ~Stored(h) /\ refcount[h] = References(h) /\ References(h) \in Nat
      /\ h \in Live /\ ~Queued(h)
  BY InUse
<1>9. CountOf(h)'
  <2>1. Replicas(h)' = Replicas(h)
    BY <1>7 DEF BeginsOnly
  <2>2. Releasing(h)' = Releasing(h) \cup {t} /\ t \notin Releasing(h)
    <3>1. t \in Releasing(h)' /\ t \notin Releasing(h)
      BY <1>2, <1>7 DEF BeginsOnly
    <3>2. \A u : u # t => (u \in Releasing(h)' <=> u \in Releasing(h))
      BY <1>7 DEF BeginsOnly
    <3> QED BY <3>1, <3>2
  <2>3. IsFiniteSet(Releasing(h))
    BY <1>1, ReferencesAre
  <2>4. Cardinality(Releasing(h)') = Cardinality(Releasing(h)) + 1
    BY <2>2, <2>3, FS_AddElement
  <2>5. /\ References(h) = Cardinality(Tokens(held, h)) + Cardinality(Replicas(h))
                             + Cardinality(Releasing(h))
        /\ References(h)' = Cardinality(Tokens(held', h)) + Cardinality(Replicas(h)')
                              + Cardinality(Releasing(h)')
        /\ Cardinality(Tokens(held, h)) \in Nat /\ Cardinality(Replicas(h)) \in Nat
        /\ Cardinality(Releasing(h)) \in Nat
    BY <1>1, <1>6, ReferencesAre, ReferencesThen
  <2>6. References(h)' = References(h)
    BY <1>6, <2>1, <2>4, <2>5
  <2>7. ~Stored(h)'
    <3>1. ~Putting(h)'
      BY <1>7, <1>8 DEF BeginsOnly, Stored
    <3> QED BY <1>8, <3>1 DEF Stored, Queued, Live
  <2>8. refcount'[h] = References(h)' /\ References(h)' \in Nat
    BY <1>8, <2>6
  <2> QED BY <2>7, <2>8 DEF CountOf
<1>10. \A k \in Headers : k # h => CountOf(k)'
  BY <1>2, <1>4, <1>6, BeginCount
<1>11. Nested'
  BY <1>4, BeginWhereabouts
<1>12. Placed'
  BY <1>2, <1>4, BeginPlaced
<1>13. Counted'
  BY <1>2, <1>4, <1>9, <1>10, BeginLoaded, CountedThen
<1>14. Acquiring' /\ Owned(own)'
  <2>1. \A k \in Headers : held'[t][k] > 0 => held[t][k] > 0
    BY <1>6
  <2> QED BY <1>2, <1>4, <1>5, <1>6, <2>1, BeginOwned
<1> QED BY <1>11, <1>12, <1>13, <1>14 DEF Kept

\* Families are closed.
LEMMA Families ==
  ASSUME NEW h \in Headers
  PROVE  /\ h \in Family(h) /\ Family(h) \subseteq Headers
         /\ \A x, y \in Headers : reference[x] = y => (x \in Family(h) <=> y \in Family(h))
<1>1. h \in Family(h) /\ Family(h) \subseteq Headers
  BY DEF Family
<1>2. ASSUME NEW x \in Headers, NEW y \in Headers, reference[x] = y
      PROVE  x \in Family(h) <=> y \in Family(h)
  <2>1. ASSUME NEW F \in SUBSET Headers,
               \A v, w \in Headers : reference[v] = w => (v \in F <=> w \in F)
        PROVE  x \in F <=> y \in F
    BY <1>2, <2>1
  <2> QED BY <2>1 DEF Family
<1> QED BY <1>1, <1>2

\* mmal_buffer_header_release_continue() is called for a delayed header, whose family
\* nobody else uses.
LEMMA ContinueDelayedStep ==
  ASSUME Shared = {}, CountInv, NEW own \in Owners, Owned(own), Types', NEW t \in Threads,
         NEW h \in Headers, ContinueDelayed(t, h)
  PROVE  \E then \in Owners : Kept(then)
<1>1. PICK F : F = Family(h)
  OBVIOUS
<1> DEFINE then == [d \in Headers |-> IF d \in F THEN t ELSE own[d]]
           g == [h |-> h, by |-> -1, count |-> 0, dest |-> NoHeader, pc |-> "continue"]
<1>2. /\ stack[t] = <<>> /\ h \in delayed /\ stack' = [stack EXCEPT ![t] = <<g>>]
      /\ delayed' = delayed \ {h} /\ UNCHANGED <<queue, headers_num, refcount, reference, held>>
  BY DEF ContinueDelayed, Idle, queues, sizes
<1>3. \A u \in Threads \ {t} : \A d \in F :
        held[u][d] = 0 /\ \A f \in ToSet(stack[u]) : f.h # d
  BY <1>1 DEF ContinueDelayed, Confined
<1>4. /\ h \in F /\ F \subseteq Headers
      /\ \A x, y \in Headers : reference[x] = y => (x \in F <=> y \in F)
  BY <1>1, Families
<1>5. then \in Owners
  BY DEF Owners
<1>6. Types /\ held \in Holds /\ delayed \subseteq Headers
  BY DEF CountInv, CountTypes
<1>7. Owned(then)
  <2>1. ASSUME NEW u \in Threads, NEW k \in Headers, held[u][k] > 0 PROVE then[k] = u
    BY <1>3, <2>1 DEF Owned
  <2>2. ASSUME NEW u \in Threads, NEW i \in 1 .. Len(stack[u]) PROVE then[stack[u][i].h] = u
    <3>1. u # t
      BY <1>2
    <3>2. stack[u] \in Seq(Frame) /\ stack[u][i] \in Frame
      BY <1>6 DEF Types
    <3>3. stack[u][i] \in ToSet(stack[u]) /\ stack[u][i].h \in Headers
      BY <3>2 DEF ToSet, Frame
    <3>4. stack[u][i].h \notin F
      BY <1>3, <3>1, <3>3
    <3> QED BY <3>3, <3>4 DEF Owned
  <2>3. ASSUME NEW d \in Headers, reference[d] # NoHeader, ~Recycling(d)
        PROVE  then[reference[d]] = then[d]
    <3>1. reference[d] \in Headers
      BY <1>6, <2>3 DEF Types
    <3>2. reference[d] \in F <=> d \in F
      BY <1>4, <3>1
    <3> QED BY <2>3, <3>1, <3>2 DEF Owned
  <2> HIDE DEF then
  <2> QED BY <2>1, <2>2, <2>3 DEF Owned
<1>8. then[h] = t
  BY <1>4
<1>9. g \in Frame /\ g.h = h /\ g.by = -1 /\ g.dest = NoHeader /\ g.pc = "continue"
  BY DEF Frame
<1> HIDE DEF then, g
<1>10. BeginStep(then, t, g)
  BY <1>2, <1>7, <1>9 DEF BeginStep, Begin
<1>11. Nested'
  BY <1>10, BeginWhereabouts
<1>12. \A k \in Headers : CountOf(k)'
  BY <1>2, <1>6, <1>9, <1>10, BeginCount
<1>13. Placed'
  BY <1>2, <1>9, <1>10, BeginPlaced
<1>14. Counted'
  <2>1. /\ \A k \in delayed' : refcount'[k] = 0
        /\ \A u \in Threads : \A i \in 1 .. Len(stack'[u]) :
             /\ stack'[u][i].pc = "store" => stack'[u][i].count = refcount'[stack'[u][i].h]
             /\ stack'[u][i].pc \in Dead => refcount'[stack'[u][i].h] = 0
    BY <1>2, <1>9, <1>10, BeginLoaded
  <2> QED BY <1>12, <2>1, CountedThen
<1>15. Acquiring' /\ Owned(then)'
  BY <1>2, <1>8, <1>9, <1>10, BeginOwned
<1> QED BY <1>5, <1>11, <1>13, <1>14, <1>15 DEF Kept

-----------------------------------------------------------------------------
(* Steps outside the calls.                                                *)

\* Calls and replicas are as they were.
SameCalls ==
  /\ \A d : (Recycling(d)' <=> Recycling(d)) /\ (Putting(d)' <=> Putting(d))
  /\ \A k : Replicas(k)' = Replicas(k) /\ Releasing(k)' = Releasing(k)

\* Calls and replicas stay as they are with the stacks.
LEMMA CallsKept ==
  ASSUME Types, Types', UNCHANGED <<stack, reference>>
  PROVE  SameCalls
<1>1. \A d : Recycling(d)' <=> Recycling(d)
  BY DEF Recycling
<1>2. \A d : Putting(d)' <=> Putting(d)
  BY CallsAre, CallsAreThen
<1>3. \A k : Replicas(k)' = Replicas(k)
  BY DEF Replicas, Frames
<1>4. \A k : Releasing(k)' = Releasing(k)
  BY DEF Releasing, At, Top
<1> QED BY <1>1, <1>2, <1>3, <1>4 DEF SameCalls

\* Threads that are acquiring a header have their references still.
LEMMA AcquiringKept ==
  ASSUME Types, Acquiring, UNCHANGED <<stack, reference>>,
         \A v \in Threads : stack[v] # <<>> =>
           \A k \in Headers : held[v][k] > 0 => held'[v][k] > 0
  PROVE  Acquiring'
<1> SUFFICES ASSUME NEW v \in Threads, NEW i \in 1 .. Len(stack'[v]), stack'[v][i].by = 1
             PROVE  /\ held'[v][stack'[v][i].h] > 0
                    /\ stack'[v][i].dest # NoHeader =>
                         /\ stack'[v][i].dest # stack'[v][i].h
                         /\ held'[v][stack'[v][i].dest] > 0 /\ reference'[stack'[v][i].dest] = NoHeader
  BY DEF Acquiring
<1>1. stack' = stack /\ reference' = reference /\ i \in 1 .. Len(stack[v]) /\ stack[v] # <<>>
  OBVIOUS
<1>2. stack[v][i].h \in Headers /\ stack[v][i].dest \in Headers \cup {NoHeader}
  <2>1. stack[v][i] \in Frame
    BY <1>1 DEF Types
  <2> QED BY <2>1 DEF Frame
<1>3. \A k \in Headers : held[v][k] > 0 => held'[v][k] > 0
  BY <1>1
<1>4. /\ held[v][stack[v][i].h] > 0
      /\ stack[v][i].dest # NoHeader =>
           /\ stack[v][i].dest # stack[v][i].h
           /\ held[v][stack[v][i].dest] > 0 /\ reference[stack[v][i].dest] = NoHeader
  BY <1>1 DEF Acquiring
<1> QED BY <1>1, <1>2, <1>3, <1>4

\* Headers that are queued anew are nowhere else.
LEMMA PlacedKept ==
  ASSUME Types, Placed, UNCHANGED <<stack, delayed, headers_num>>, IsInjective(queue'),
         \A k \in Headers : k \in ToSet(queue') =>
           \/ Queued(k)
           \/ /\ k \in Live /\ k \notin delayed
              /\ \A u \in Threads : \A i \in 1 .. Len(stack[u]) :
                   stack[u][i].h = k => stack[u][i].pc \notin Leaving
  PROVE  Placed'
<1>1. Live' = Live /\ stack' = stack /\ delayed' = delayed
  BY DEF Live
<1>2. \A k \in Headers : k \in ToSet(queue') => k \in Live' /\ k \notin delayed'
  BY <1>1 DEF Placed
<1>3. ASSUME NEW u \in Threads, NEW i \in 1 .. Len(stack'[u]), stack'[u][i].pc \in Leaving
      PROVE  /\ stack'[u][i].h \in Live' /\ stack'[u][i].h \notin delayed'
             /\ stack'[u][i].h \notin ToSet(queue')
             /\ \A v \in Threads : \A j \in 1 .. Len(stack'[v]) :
                  stack'[v][j].pc \in Leaving /\ stack'[v][j].h = stack'[u][i].h => v = u /\ j = i
  <2>1. stack[u][i].h \in Headers
    <3>1. stack[u][i] \in Frame
      BY <1>1 DEF Types
    <3> QED BY <3>1 DEF Frame
  <2>2. /\ stack[u][i].h \in Live /\ stack[u][i].h \notin delayed /\ ~Queued(stack[u][i].h)
        /\ \A v \in Threads : \A j \in 1 .. Len(stack[v]) :
             stack[v][j].pc \in Leaving /\ stack[v][j].h = stack[u][i].h => v = u /\ j = i
    BY <1>1, <1>3 DEF Placed
  <2> QED BY <1>1, <1>3, <2>1, <2>2
<1>4. delayed' \subseteq Live'
  BY <1>1 DEF Placed
<1> QED BY <1>2, <1>3, <1>4 DEF Placed, Queued

\* The last reference that a thread has to a header, and to its family, goes to another one.
LEMMA HandOverStep ==
  ASSUME Shared = {}, CountInv, NEW own \in Owners, Owned(own), Types', NEW t \in Threads,
         NEW u \in Threads \ {t}, NEW h \in Headers, HandOver(t, u, h)
  PROVE  \E then \in Owners : Kept(then)
<1>1. PICK F : F = Family(h)
  OBVIOUS
<1> DEFINE then == [d \in Headers |-> IF d \in F /\ own[d] = t THEN u ELSE own[d]]
           mid == [held EXCEPT ![t][h] = @ - 1]
<1>2. /\ stack[t] = <<>> /\ held[t][h] = 1 /\ \A d \in F \ {h} : held[t][d] = 0
      /\ held' = [held EXCEPT ![t][h] = @ - 1, ![u][h] = @ + 1]
      /\ UNCHANGED <<queue, headers_num, refcount, reference, delayed, stack>>
  BY <1>1 DEF HandOver, Idle, queues, sizes
<1>3. /\ h \in F /\ F \subseteq Headers
      /\ \A x, y \in Headers : reference[x] = y => (x \in F <=> y \in F)
  BY <1>1, Families
<1>4. then \in Owners
  BY DEF Owners
<1>5. /\ Types /\ held \in Holds /\ Nested /\ Placed /\ Counted /\ Acquiring
      /\ delayed \subseteq Headers
  BY DEF CountInv, CountTypes
<1>6. /\ held' \in Holds /\ mid \in Holds
      /\ held'[t][h] = 0 /\ held'[u][h] = held[u][h] + 1
      /\ \A v \in Threads, k \in Headers : k # h \/ (v # t /\ v # u) => held'[v][k] = held[v][k]
      /\ mid[t][h] = 0 /\ \A v \in Threads, k \in Headers : k # h \/ v # t => mid[v][k] = held[v][k]
  <2>1. held \in [Threads -> [Headers -> Nat]] /\ held[t][h] = 1 /\ u # t
    BY <1>2, <1>5 DEF Holds
  <2>2. /\ mid \in Holds /\ mid[t][h] = 0
        /\ \A v \in Threads, k \in Headers : k # h \/ v # t => mid[v][k] = held[v][k]
    BY <2>1 DEF Holds
  <2>3. held' = [mid EXCEPT ![u][h] = @ + 1]
    BY <1>2, <2>1
  <2> HIDE DEF mid
  <2>4. /\ held' \in Holds /\ held'[u][h] = mid[u][h] + 1
        /\ \A v \in Threads, k \in Headers : k # h \/ v # u => held'[v][k] = mid[v][k]
    BY <2>2, <2>3 DEF Holds
  <2> QED BY <2>1, <2>2, <2>4
<1> HIDE DEF mid
<1>7. /\ Cardinality(Tokens(held', h)) = Cardinality(Tokens(held, h))
      /\ \A k \in Headers \ {h} : Tokens(held', k) = Tokens(held, k)
  <2>1. /\ Cardinality(Tokens(held, h)) = Cardinality(Tokens(mid, h)) + 1
        /\ \A k \in Headers \ {h} : Tokens(held, k) = Tokens(mid, k)
    <3>1. held[t][h] = mid[t][h] + 1 /\ \A v \in Threads, k \in Headers : v # t \/ k # h => held[v][k] = mid[v][k]
      BY <1>2, <1>6
    <3> QED BY <1>5, <1>6, <3>1, TokenAdded
  <2>2. /\ Cardinality(Tokens(held', h)) = Cardinality(Tokens(mid, h)) + 1
        /\ \A k \in Headers \ {h} : Tokens(held', k) = Tokens(mid, k)
    <3>1. /\ held'[u][h] = mid[u][h] + 1
          /\ \A v \in Threads, k \in Headers : v # u \/ k # h => held'[v][k] = mid[v][k]
      BY <1>6
    <3> QED BY <1>6, <3>1, TokenAdded
  <2> QED BY <2>1, <2>2
<1>8. SameCalls
  BY <1>2, <1>5, CallsKept
<1>9. \A k \in Headers : Stored(k)' <=> Stored(k)
  BY <1>2, <1>8 DEF SameCalls, Stored, Queued, Live
<1>10. ASSUME NEW k \in Headers PROVE CountOf(k)'
  <2>1. References(k)' = References(k)
    <3>1. Cardinality(Tokens(held', k)) = Cardinality(Tokens(held, k))
      BY <1>7
    <3> QED BY <1>5, <1>6, <1>8, <3>1, ReferencesAre, ReferencesThen DEF SameCalls
  <2> QED BY <1>2, <1>5, <1>9, <2>1 DEF Counted, CountOf
<1>11. Counted'
  BY <1>2, <1>5, <1>10, CountedThen DEF Counted
<1>12. Nested' /\ Placed'
  BY <1>2, <1>5 DEF Nested, Placed, Queued, Live
<1>13. Acquiring'
  <2>1. ASSUME NEW v \in Threads, stack[v] # <<>>, NEW k \in Headers, held[v][k] > 0
        PROVE  held'[v][k] > 0
    <3>1. v # t
      BY <1>2, <2>1
    <3>2. CASE k = h /\ v = u
      <4>1. held[u][h] \in Nat
        BY <1>5 DEF Holds
      <4> QED BY <1>6, <3>2, <4>1
    <3>3. CASE ~(k = h /\ v = u)
      BY <1>6, <2>1, <3>1, <3>3
    <3> QED BY <3>2, <3>3
  <2> QED BY <1>2, <1>5, <2>1, AcquiringKept
<1>14. Owned(then)'
  <2>1. ASSUME NEW v \in Threads, NEW k \in Headers, held'[v][k] > 0 PROVE then[k] = v
    <3>1. own[h] = t
      BY <1>2 DEF Owned
    <3>2. CASE k = h
      <4>1. v # t
        BY <1>6, <2>1, <3>2
      <4>2. v # u => held[v][h] > 0
        BY <1>6, <2>1, <3>2, <4>1
      <4>3. v = u
        BY <3>1, <4>1, <4>2 DEF Owned
      <4> QED BY <1>3, <3>1, <3>2, <4>3
    <3>3. CASE k # h
      <4>1. held[v][k] > 0
        BY <1>6, <2>1, <3>3
      <4>2. own[k] = v
        BY <4>1 DEF Owned
      <4>3. ~(k \in F /\ v = t)
        BY <1>2, <3>3, <4>1
      <4> QED BY <4>2, <4>3
    <3> QED BY <3>2, <3>3
  <2>2. ASSUME NEW v \in Threads, NEW i \in 1 .. Len(stack'[v]) PROVE then[stack'[v][i].h] = v
    <3>1. v # t /\ stack' = stack
      BY <1>2
    <3>2. stack[v][i] \in Frame /\ own[stack[v][i].h] = v
      BY <1>5, <3>1 DEF Types, Owned
    <3> QED BY <3>1, <3>2 DEF Frame
  <2>3. ASSUME NEW d \in Headers, reference'[d] # NoHeader, ~Recycling(d)'
        PROVE  then[reference'[d]] = then[d]
    <3>1. reference'[d] = reference[d] /\ reference[d] \in Headers /\ ~Recycling(d)
      BY <1>2, <1>5, <1>8, <2>3 DEF Types, SameCalls
    <3>2. reference[d] \in F <=> d \in F
      BY <1>3, <3>1
    <3>3. own[reference[d]] = own[d]
      BY <3>1, PoolAssumption DEF Owned
    <3> QED BY <3>1, <3>2, <3>3
  <2> HIDE DEF then
  <2> QED BY <2>1, <2>2, <2>3 DEF Owned
<1> HIDE DEF then
<1> QED BY <1>4, <1>11, <1>12, <1>13, <1>14 DEF Kept

\* The first header of the queue is taken: whoever takes it has the only reference to it.
LEMMA GetHeaderStep ==
  ASSUME CountInv, NEW own \in Owners, Owned(own), Types', NEW t \in Threads, queue # <<>>,
         GetHeader(t)
  PROVE  \E then \in Owners : Kept(then)
<1>1. PICK h : h = Head(queue)
  OBVIOUS
<1> DEFINE then == [own EXCEPT ![h] = t]
<1>2. /\ queue' = Tail(queue) /\ Hold(t, h, 1)
      /\ UNCHANGED <<headers_num, refcount, reference, delayed, stack>>
  BY <1>1 DEF GetHeader, sizes
<1>3. /\ Types /\ held \in Holds /\ Nested /\ Placed /\ Counted /\ Acquiring
      /\ delayed \subseteq Headers
  BY DEF CountInv, CountTypes
<1>4. /\ IsInjective(queue') /\ Queued(h) /\ h \in Headers
      /\ \A k : k \in ToSet(queue') <=> k # h /\ k \in ToSet(queue)
  BY <1>1, <1>2, <1>3, QueueShortened DEF Placed, Types
<1>5. /\ Stored(h) /\ References(h) = 0 /\ refcount[h] = 1 /\ reference[h] = NoHeader
      /\ \A u \in Threads : held[u][h] = 0
      /\ \A d \in Headers : reference[d] = h => Recycling(d)
  BY <1>3, <1>4, NotInUse DEF Stored, Counted
<1>6. /\ h \in Live /\ \A u \in Threads : \A i \in 1 .. Len(stack[u]) : stack[u][i].h # h
  <2>1. ASSUME NEW u \in Threads, NEW i \in 1 .. Len(stack[u]), stack[u][i].h = h PROVE FALSE
    <3>1. stack[u][i].pc \in Leaving
      BY <1>4, <1>5, <2>1, NotInUse
    <3> QED BY <1>3, <1>4, <2>1, <3>1 DEF Placed
  <2> QED BY <1>3, <1>4, <2>1 DEF Placed
<1>7. /\ held' \in Holds
      /\ Cardinality(Tokens(held', h)) = Cardinality(Tokens(held, h)) + 1
      /\ \A k \in Headers \ {h} : Tokens(held', k) = Tokens(held, k)
      /\ \A u \in Threads, k \in Headers : u # t \/ k # h => held'[u][k] = held[u][k]
      /\ held'[t][h] = held[t][h] + 1
  BY <1>2, <1>3, <1>4, HoldChange
<1>8. SameCalls
  BY <1>2, <1>3, CallsKept
<1>9. ~Putting(h)
  BY <1>3, <1>6, CallsAre
<1>10. CountOf(h)'
  <2>1. ~Stored(h)'
    BY <1>2, <1>4, <1>6, <1>8, <1>9 DEF SameCalls, Stored, Queued, Live
  <2>2. /\ References(h) = Cardinality(Tokens(held, h)) + Cardinality(Replicas(h))
                             + Cardinality(Releasing(h))
        /\ References(h)' = Cardinality(Tokens(held', h)) + Cardinality(Replicas(h)')
                              + Cardinality(Releasing(h)')
        /\ Cardinality(Tokens(held, h)) \in Nat /\ Cardinality(Replicas(h)) \in Nat
        /\ Cardinality(Releasing(h)) \in Nat
    BY <1>3, <1>4, <1>7, ReferencesAre, ReferencesThen
  <2>3. Replicas(h)' = Replicas(h) /\ Releasing(h)' = Releasing(h)
    BY <1>8 DEF SameCalls
  <2>4. References(h)' = 1
    BY <1>5, <1>7, <2>2, <2>3
  <2>5. refcount'[h] = 1
    BY <1>2, <1>5
  <2> QED BY <2>1, <2>4, <2>5 DEF CountOf
<1>11. ASSUME NEW k \in Headers, k # h PROVE CountOf(k)'
  <2>1. Stored(k)' <=> Stored(k)
    BY <1>2, <1>4, <1>8, <1>11 DEF SameCalls, Stored, Queued, Live
  <2> QED BY <1>2, <1>7, <1>8, <1>11, <2>1, CountKept DEF SameCalls, CountOf
<1>12. Counted'
  BY <1>2, <1>3, <1>10, <1>11, CountedThen DEF Counted
<1>13. Nested'
  BY <1>2, <1>3 DEF Nested
<1>14. Placed'
  BY <1>2, <1>3, <1>4, PlacedKept DEF Queued
<1>15. Acquiring'
  <2>1. ASSUME NEW u \in Threads, NEW k \in Headers, held[u][k] > 0 PROVE held'[u][k] > 0
    <3>1. u # t \/ k # h
      BY <1>5, <2>1
    <3> QED BY <1>7, <2>1, <3>1
  <2> QED BY <1>2, <1>3, <2>1, AcquiringKept
<1>16. then \in Owners /\ \A d \in Headers : then[d] = IF d = h THEN t ELSE own[d]
  BY <1>4 DEF Owners
<1> HIDE DEF then
<1>17. Owned(then)'
  <2>1. ASSUME NEW u \in Threads, NEW k \in Headers, held'[u][k] > 0 PROVE then[k] = u
    <3>1. CASE k = h
      <4>1. u = t
        BY <1>5, <1>7, <2>1, <3>1
      <4> QED BY <1>4, <1>16, <3>1, <4>1
    <3>2. CASE k # h
      BY <1>7, <1>16, <2>1, <3>2 DEF Owned
    <3> QED BY <3>1, <3>2
  <2>2. ASSUME NEW u \in Threads, NEW i \in 1 .. Len(stack'[u]) PROVE then[stack'[u][i].h] = u
    <3>1. stack' = stack /\ stack[u][i].h # h
      BY <1>2, <1>6
    <3>2. stack[u][i] \in Frame /\ own[stack[u][i].h] = u
      BY <1>3, <3>1 DEF Types, Owned
    <3> QED BY <1>16, <3>1, <3>2 DEF Frame
  <2>3. ASSUME NEW d \in Headers, reference'[d] # NoHeader, ~Recycling(d)'
        PROVE  then[reference'[d]] = then[d]
    <3>1. reference'[d] = reference[d] /\ reference[d] \in Headers /\ ~Recycling(d)
      BY <1>2, <1>3, <1>8, <2>3 DEF Types, SameCalls
    <3>2. reference[d] # h /\ d # h
      BY <1>5, <3>1, PoolAssumption
    <3>3. own[reference[d]] = own[d]
      BY <3>1, PoolAssumption DEF Owned
    <3> QED BY <1>16, <3>1, <3>2, <3>3
  <2> QED BY <2>1, <2>2, <2>3 DEF Owned
<1> QED BY <1>12, <1>13, <1>14, <1>15, <1>16, <1>17 DEF Kept

\* A header that was not used is put back, with the only reference to it.
LEMMA PutBackStep ==
  ASSUME CountInv, NEW own, Owned(own), Types', NEW t \in Threads, NEW h \in Headers,
         PutBack(t, h)
  PROVE  Kept(own)
<1>1. /\ stack[t] = <<>> /\ held[t][h] = 1 /\ refcount[h] = 1 /\ reference[h] = NoHeader
      /\ queue' = <<h>> \o queue /\ Hold(t, h, -1)
      /\ UNCHANGED <<headers_num, refcount, reference, delayed, stack>>
  BY DEF PutBack, Idle, sizes
<1>2. /\ Types /\ held \in Holds /\ Nested /\ Placed /\ Counted /\ Acquiring
      /\ delayed \subseteq Headers
  BY DEF CountInv, CountTypes
<1>3. /\ ~Stored(h) /\ refcount[h] = References(h) /\ h \in Live /\ ~Queued(h) /\ h \notin delayed
      /\ \A u \in Threads : \A i \in 1 .. Len(stack[u]) :
           stack[u][i].h = h => stack[u][i].pc \notin Leaving
  BY <1>1, InUse
<1>4. IsInjective(queue') /\ \A k : k \in ToSet(queue') <=> k = h \/ k \in ToSet(queue)
  BY <1>1, <1>2, <1>3, QueueLengthened DEF Placed, Types
<1>5. /\ held' \in Holds
      /\ Cardinality(Tokens(held', h)) = Cardinality(Tokens(held, h)) + (-1)
      /\ \A k \in Headers \ {h} : Tokens(held', k) = Tokens(held, k)
      /\ \A u \in Threads, k \in Headers : u # t \/ k # h => held'[u][k] = held[u][k]
      /\ held'[t][h] = held[t][h] + (-1)
  BY <1>1, <1>2, HoldChange
<1>6. SameCalls
  BY <1>1, <1>2, CallsKept
<1>7. CountOf(h)'
  <2>1. Stored(h)'
    BY <1>4 DEF Stored, Queued
  <2>2. /\ References(h) = Cardinality(Tokens(held, h)) + Cardinality(Replicas(h))
                             + Cardinality(Releasing(h))
        /\ References(h)' = Cardinality(Tokens(held', h)) + Cardinality(Replicas(h)')
                              + Cardinality(Releasing(h)')
        /\ Cardinality(Tokens(held, h)) \in Nat /\ Cardinality(Replicas(h)) \in Nat
        /\ Cardinality(Releasing(h)) \in Nat
    BY <1>2, <1>5, ReferencesAre, ReferencesThen
  <2>3. Replicas(h)' = Replicas(h) /\ Releasing(h)' = Releasing(h)
    BY <1>6 DEF SameCalls
  <2>4. References(h)' = 0
    BY <1>1, <1>3, <1>5, <2>2, <2>3
  <2>5. refcount'[h] = 1 /\ reference'[h] = NoHeader
    BY <1>1
  <2> QED BY <2>1, <2>4, <2>5 DEF CountOf
<1>8. ASSUME NEW k \in Headers, k # h PROVE CountOf(k)'
  <2>1. Stored(k)' <=> Stored(k)
    BY <1>1, <1>4, <1>6, <1>8 DEF SameCalls, Stored, Queued, Live
  <2> QED BY <1>1, <1>5, <1>6, <1>8, <2>1, CountKept DEF SameCalls, CountOf
<1>9. Counted'
  BY <1>1, <1>2, <1>7, <1>8, CountedThen DEF Counted
<1>10. Nested'
  BY <1>1, <1>2 DEF Nested
<1>11. Placed'
  BY <1>1, <1>2, <1>3, <1>4, PlacedKept DEF Queued
<1>12. Acquiring'
  BY <1>1, <1>2, <1>5, AcquiringKept
<1>13. Owned(own)'
  <2>1. ASSUME NEW u \in Threads, NEW k \in Headers, held'[u][k] > 0 PROVE own[k] = u
    <3>1. held[u][k] > 0
      BY <1>1, <1>5, <2>1
    <3> QED BY <3>1 DEF Owned
  <2>2. \A d \in Headers : reference'[d] # NoHeader /\ ~Recycling(d)' => own[reference'[d]] = own[d]
    BY <1>1, <1>6 DEF Owned, SameCalls
  <2>3. \A u \in Threads : \A i \in 1 .. Len(stack'[u]) : own[stack'[u][i].h] = u
    BY <1>1 DEF Owned
  <2> QED BY <2>1, <2>2, <2>3 DEF Owned
<1> QED BY <1>9, <1>10, <1>11, <1>12, <1>13 DEF Kept

\* The queue's semaphore and its lock say nothing of the headers.
LEMMA QuietStep ==
  ASSUME CountInv, NEW own, Owned(own), Types',
         UNCHANGED <<queue, headers_num, refcount, reference, delayed, held, stack>>
  PROVE  Kept(own)
<1>1. Types /\ held \in Holds /\ Nested /\ Placed /\ Counted /\ Acquiring
  BY DEF CountInv, CountTypes
<1>2. SameCalls
  BY <1>1, CallsKept
<1>3. ASSUME NEW k \in Headers PROVE CountOf(k)'
  <2>1. Stored(k)' <=> Stored(k)
    BY <1>2 DEF SameCalls, Stored, Queued, Live
  <2>2. Tokens(held', k) = Tokens(held, k) /\ held' \in Holds
    BY <1>1
  <2> QED BY <1>2, <2>1, <2>2, CountKept DEF SameCalls, CountOf
<1>4. Counted'
  BY <1>1, <1>3, CountedThen DEF Counted
<1>5. Nested' /\ Placed'
  BY <1>1 DEF Nested, Placed, Queued, Live
<1>6. Acquiring'
  BY <1>1, AcquiringKept
<1>7. Owned(own)'
  BY <1>2 DEF Owned, SameCalls
<1> QED BY <1>4, <1>5, <1>6, <1>7 DEF Kept

\* A resize finds every header in the pool, and leaves those it keeps there.
LEMMA ResizedStep ==
  ASSUME CountInv, NEW own, Owned(own), Types', AllBack,
         NEW n \in 0 .. Len(HeaderArray), NEW m \in 0 .. Len(HeaderArray), Reinitialised(n, m)
  PROVE  Kept(own)
<1>1. /\ \A t \in Threads : stack[t] = <<>> /\ stack'[t] = <<>>
      /\ Live \subseteq ToSet(queue) /\ UNCHANGED <<delayed, held>> /\ headers_num' = m
      /\ queue' = SubSeq(HeaderArray, 1, m)
      /\ refcount' = [h \in Headers |-> 1] /\ reference' = [h \in Headers |-> NoHeader]
  BY DEF AllBack, Idle, Reinitialised
<1>2. Types /\ held \in Holds /\ delayed \subseteq Headers /\ Placed
  BY DEF CountInv, CountTypes
<1>3. \A t \in Threads, h \in Headers : held[t][h] = 0
  <2>1. \A h \in Headers : Stored(h)
    BY <1>1 DEF Stored, Queued
  <2> QED BY <2>1, NotInUse
<1>4. delayed = {}
  BY <1>1, <1>2 DEF Placed, Queued
<1>5. IsInjective(queue') /\ ToSet(queue') = Live'
  <2>1. /\ HeaderArray \in Seq(Headers) /\ m \in Nat /\ m <= Len(HeaderArray)
        /\ \A i, j \in 1 .. Len(HeaderArray) : HeaderArray[i] = HeaderArray[j] => i = j
    BY PoolAssumption DEF IsInjective
  <2>2. /\ Len(queue') = m /\ DOMAIN queue' = 1 .. m
        /\ \A i \in 1 .. m : queue'[i] = HeaderArray[i] /\ i \in 1 .. Len(HeaderArray)
    BY <1>1, <2>1
  <2>3. IsInjective(queue')
    BY <2>1, <2>2 DEF IsInjective
  <2>4. ToSet(queue') = {HeaderArray[i] : i \in 1 .. m}
    BY <2>2 DEF ToSet
  <2> QED BY <1>1, <2>3, <2>4 DEF Live
<1>6. ASSUME NEW h \in Headers PROVE CountOf(h)'
  <2>1. Stored(h)'
    BY <1>5 DEF Stored, Queued
  <2>2. Cardinality(Tokens(held', h)) = 0 /\ held' \in Holds
    BY <1>1, <1>2, <1>3, NoTokens
  <2>3. Replicas(h)' = {}
    <3>1. h # NoHeader
      BY PoolAssumption
    <3> QED BY <1>1, <3>1 DEF Replicas
  <2>4. Releasing(h)' = {}
    BY <1>1 DEF Releasing, At
  <2>5. Cardinality(Replicas(h)') = 0 /\ Cardinality(Releasing(h)') = 0
    BY <2>3, <2>4, FS_EmptySet
  <2>6. References(h)' = 0
    BY <2>2, <2>5, ReferencesThen
  <2> QED BY <1>1, <2>1, <2>6 DEF CountOf
<1>7. \A t \in Threads : 1 .. Len(stack'[t]) = {}
  BY <1>1
<1>8. Counted'
  BY <1>1, <1>4, <1>6, <1>7, CountedThen
<1>9. Nested' /\ Acquiring'
  BY <1>7 DEF Nested, Acquiring
<1>10. Placed'
  BY <1>1, <1>4, <1>5, <1>7 DEF Placed, Queued
<1>11. Owned(own)'
  BY <1>1, <1>3, <1>7 DEF Owned
<1> QED BY <1>8, <1>9, <1>10, <1>11 DEF Kept

-----------------------------------------------------------------------------
(* The invariant is kept.                                                  *)

\* References are numbers, whatever a thread does, and the rest is typed as well.
LEMMA CountTypesStep ==
  ASSUME CountTypes, Types', NEW t \in Threads,
         Client(t) \/ WaitSemaphore(t) \/ Getting(t) \/ InCall(t), queue # <<>> \/ ~GetHeader(t)
  PROVE  CountTypes'
<1>1. /\ Types /\ held \in Holds /\ delayed \subseteq Headers /\ lock \in Threads \cup {NoThread}
      /\ headers_num \in 0 .. laid_out /\ laid_out \in 0 .. Len(HeaderArray)
  BY DEF CountTypes
<1>2. ASSUME UNCHANGED <<held, delayed, lock, sizes>> PROVE CountTypes'
  BY <1>1, <1>2 DEF CountTypes, sizes
<1>3. ASSUME NEW h \in Headers, NEW n \in {1, -1}, n = -1 => held[t][h] > 0, Hold(t, h, n),
             delayed' = delayed, lock' \in Threads \cup {NoThread}, UNCHANGED sizes
      PROVE  CountTypes'
  <2>1. held' \in Holds
    BY <1>1, <1>3, HoldChange
  <2> QED BY <1>1, <1>3, <2>1 DEF CountTypes, sizes
<1>4. ASSUME stack[t] # <<>> PROVE Top(t).h \in Headers
  BY <1>1, <1>4, TopIs
<1>5. CASE Get(t) \/ Wait(t) \/ WaitSemaphore(t) \/ WaitPost(t) \/ GetNull(t)
  BY <1>2, <1>5 DEF Get, Wait, WaitSemaphore, WaitPost, GetNull, queues, counts
<1>6. CASE GetLock(t)
  BY <1>1, <1>6 DEF GetLock, counts, sizes, CountTypes
<1>7. CASE GetHeader(t)
  <2>1. queue # <<>> /\ Head(queue) \in Headers
    BY <1>1, <1>7 DEF Types
  <2> QED BY <1>3, <1>7, <2>1 DEF GetHeader
<1>8. ASSUME NEW h \in Headers, PutBack(t, h) PROVE CountTypes'
  BY <1>1, <1>3, <1>8 DEF PutBack
<1>9. ASSUME NEW h \in Headers, NEW d \in Headers, Acquire(t, h) \/ Replicate(t, d, h)
      PROVE  CountTypes'
  BY <1>2, <1>9 DEF Acquire, Replicate, queues, counts
<1>10. ASSUME NEW h \in Headers, Release(t, h) PROVE CountTypes'
  BY <1>1, <1>3, <1>10 DEF Release, queues
<1>11. ASSUME NEW h \in Headers, ContinueDelayed(t, h) PROVE CountTypes'
  BY <1>1, <1>11 DEF ContinueDelayed, queues, sizes, CountTypes
<1>12. ASSUME NEW h \in Headers, NEW u \in Threads \ {t}, HandOver(t, u, h) PROVE CountTypes'
  <2>1. held' = [held EXCEPT ![t][h] = @ - 1, ![u][h] = @ + 1] /\ held[t][h] > 0
    BY <1>12 DEF HandOver
  <2>2. held[t][h] - 1 \in Nat /\ held[u][h] + 1 \in Nat
    BY <1>1, <2>1 DEF Holds
  <2>3. held' \in Holds
    BY <1>1, <2>1, <2>2 DEF Holds
  <2> QED BY <1>1, <1>12, <2>3 DEF HandOver, queues, sizes, CountTypes
<1>13. CASE Load(t) \/ StoreReleased(t) \/ Continue(t) \/ Put(t)
  <2>1. held' = held /\ delayed' = delayed
    BY <1>13 DEF Load, StoreReleased, Continue, Put, counts
  <2>2. lock' = lock /\ UNCHANGED sizes
    BY <1>13 DEF Load, StoreReleased, Continue, Put, queues
  <2> QED BY <1>2, <2>1, <2>2
<1>14. CASE StoreAcquired(t)
  <2>1. Top(t).h \in Headers
    BY <1>4, <1>14 DEF StoreAcquired, At
  <2>2. (Hold(t, Top(t).h, 1) \/ held' = held) /\ UNCHANGED <<lock, delayed, sizes>>
    BY <1>14 DEF StoreAcquired, queues
  <2> QED BY <1>1, <1>2, <1>3, <2>1, <2>2
<1>15. CASE PreRelease(t)
  <2>1. Top(t).h \in Headers
    BY <1>4, <1>15 DEF PreRelease, At
  <2>2. delayed' \subseteq Headers /\ UNCHANGED <<held, lock, sizes>>
    BY <1>1, <1>15, <2>1 DEF PreRelease, queues
  <2> QED BY <1>1, <2>2 DEF CountTypes, sizes
<1>16. CASE Recycle(t)
  <2>1. Top(t).h \in Headers
    BY <1>4, <1>16 DEF Recycle, At
  <2>2. (Hold(t, Top(t).h, 1) \/ held' = held) /\ UNCHANGED <<lock, delayed, sizes>>
    BY <1>16 DEF Recycle, queues
  <2> QED BY <1>1, <1>2, <1>3, <2>1, <2>2
<1>17. ASSUME Client(t) PROVE CountTypes'
  BY <1>5, <1>8, <1>9, <1>10, <1>11, <1>12, <1>17 DEF Client
<1>18. ASSUME Getting(t) PROVE CountTypes'
  BY <1>5, <1>6, <1>7, <1>18 DEF Getting
<1>19. ASSUME InCall(t) PROVE CountTypes'
  BY <1>13, <1>14, <1>15, <1>16, <1>19 DEF InCall
<1> QED BY <1>5, <1>17, <1>18, <1>19

\* The lock of a queue is for a header that is there, and the semaphore too.
LEMMA LockedQueue ==
  ASSUME SemaphoreInv, NEW t \in Threads, GetHeader(t)
  PROVE  queue # <<>>
<1>1. /\ sema + Cardinality(Posting) = Len(queue) /\ Cardinality(Posting) \in Nat
      /\ sema > 0 /\ sema \in Nat
  BY PostingCount DEF SemaphoreInv, SemaphoreMatches, Posting, Types, GetHeader
<1>2. Len(queue) > 0 /\ queue \in Seq(Headers)
  BY <1>1 DEF SemaphoreInv, Types
<1> QED BY <1>2

\* The parts of the invariant, of a step inside a call.
LEMMA InCallKept ==
  ASSUME CountInv, NEW own, Owned(own), Types', NEW t \in Threads, InCall(t)
  PROVE  Kept(own)
<1>1. PICK h, n, x : h = Top(t).h /\ n = Len(stack[t]) /\ x = Top(t).dest
  OBVIOUS
<1>2. CASE Load(t)
  BY <1>1, <1>2, LoadStep
<1>3. CASE StoreAcquired(t)
  BY <1>1, <1>3, StoreAcquiredStep
<1>4. CASE StoreReleased(t)
  BY <1>1, <1>4, StoreReleasedStep
<1>5. CASE PreRelease(t)
  BY <1>1, <1>5, PreReleaseStep
<1>6. CASE Continue(t)
  BY <1>1, <1>6, ContinueStep
<1>7. CASE Recycle(t)
  BY <1>1, <1>7, RecycleStep
<1>8. CASE Put(t)
  BY <1>1, <1>8, PutStep
<1> QED BY <1>2, <1>3, <1>4, <1>5, <1>6, <1>7, <1>8 DEF InCall

\* The same of what a client does: references may go to another thread.
LEMMA ClientKept ==
  ASSUME Shared = {}, CountInv, NEW own \in Owners, Owned(own), Types', NEW t \in Threads, Client(t)
  PROVE  \E then \in Owners : Kept(then)
<1>1. CASE Get(t) \/ Wait(t)
  <2>1. UNCHANGED <<queue, headers_num, refcount, reference, delayed, held, stack>>
    BY <1>1 DEF Get, Wait, queues, counts, sizes
  <2> QED BY <2>1, QuietStep
<1>2. ASSUME NEW h \in Headers, PutBack(t, h) PROVE \E then \in Owners : Kept(then)
  BY <1>2, PutBackStep
<1>3. ASSUME NEW h \in Headers, Acquire(t, h) PROVE \E then \in Owners : Kept(then)
  <2>1. /\ stack[t] = <<>> /\ held[t][h] > 0 /\ Call(t, h, 1, NoHeader)
        /\ UNCHANGED <<queue, headers_num, refcount, reference, delayed, held>>
    BY <1>3, PoolAssumption DEF Acquire, Idle, queues, counts, sizes
  <2> QED BY <2>1, AcquireStep
<1>4. ASSUME NEW h \in Headers, NEW d \in Headers, Replicate(t, d, h)
      PROVE  \E then \in Owners : Kept(then)
  <2>1. /\ stack[t] = <<>> /\ held[t][h] > 0 /\ Call(t, h, 1, d)
        /\ d # h /\ held[t][d] > 0 /\ reference[d] = NoHeader
        /\ UNCHANGED <<queue, headers_num, refcount, reference, delayed, held>>
    BY <1>4 DEF Replicate, Idle, queues, counts, sizes
  <2> QED BY <2>1, AcquireStep
<1>5. ASSUME NEW h \in Headers, Release(t, h) PROVE \E then \in Owners : Kept(then)
  <2>1. /\ stack[t] = <<>> /\ held[t][h] > 0 /\ Hold(t, h, -1) /\ Call(t, h, -1, NoHeader)
        /\ UNCHANGED <<queue, headers_num, refcount, reference, delayed>>
    BY <1>5 DEF Release, Idle, queues, sizes
  <2> QED BY <2>1, ReleaseStep
<1>6. ASSUME NEW h \in Headers, ContinueDelayed(t, h) PROVE \E then \in Owners : Kept(then)
  BY <1>6, ContinueDelayedStep
<1>7. ASSUME NEW h \in Headers, NEW u \in Threads \ {t}, HandOver(t, u, h)
      PROVE  \E then \in Owners : Kept(then)
  BY <1>7, HandOverStep
<1> QED BY <1>1, <1>2, <1>3, <1>4, <1>5, <1>6, <1>7 DEF Client

\* The same of whoever waits for a header.
LEMMA GettingKept ==
  ASSUME SemaphoreInv, CountInv, NEW own \in Owners, Owned(own), Types', NEW t \in Threads,
         WaitSemaphore(t) \/ Getting(t)
  PROVE  \E then \in Owners : Kept(then)
<1>1. CASE WaitSemaphore(t) \/ WaitPost(t) \/ GetNull(t) \/ GetLock(t)
  <2>1. UNCHANGED <<queue, headers_num, refcount, reference, delayed, held, stack>>
    BY <1>1 DEF WaitSemaphore, WaitPost, GetNull, GetLock, queues, counts, sizes
  <2> QED BY <2>1, QuietStep
<1>2. CASE GetHeader(t)
  BY <1>2, LockedQueue, GetHeaderStep
<1> QED BY <1>1, <1>2 DEF Getting

\* Counts are exact: there is somebody for each family of headers, so that all references to
\* it are with that thread.
PoolCountInv == SemaphoreInv /\ CountInv /\ \E own \in Owners : Owned(own)

\* At the start every header is in the pool.
LEMMA PoolCountInit == Init => PoolCountInv
<1> SUFFICES ASSUME Init PROVE PoolCountInv
  OBVIOUS
<1>1. SemaphoreInv /\ Types
  BY SemaphoreInit DEF SemaphoreInv
<1>2. /\ \A t \in Threads : stack[t] = <<>> /\ \A h \in Headers : held[t][h] = 0
      /\ queue = HeaderArray /\ headers_num = Len(HeaderArray) /\ delayed = {}
      /\ refcount = [h \in Headers |-> 1] /\ reference = [h \in Headers |-> NoHeader]
  BY DEF Init
<1>3. held \in Holds
  BY DEF Init, Holds
<1>4. CountTypes
  <2>1. headers_num \in 0 .. laid_out /\ laid_out \in 0 .. Len(HeaderArray)
    BY HeadersFinite DEF Init
  <2>2. delayed \subseteq Headers /\ lock \in Threads \cup {NoThread}
    BY DEF Init
  <2> QED BY <1>1, <1>3, <2>1, <2>2 DEF CountTypes
<1>5. Live = Headers /\ ToSet(queue) = Headers /\ IsInjective(queue)
  BY <1>2, HeadersFinite, PoolAssumption DEF Live, ToSet
<1>6. \A t \in Threads : 1 .. Len(stack[t]) = {}
  BY <1>2
<1>7. ASSUME NEW h \in Headers PROVE References(h) = 0 /\ Stored(h)
  <2>1. Stored(h)
    BY <1>5 DEF Stored, Queued
  <2>2. h # NoHeader
    BY PoolAssumption
  <2> QED BY <1>1, <1>2, <1>3, <2>1, <2>2, Unreferenced
<1>8. Nested /\ Placed /\ Acquiring
  BY <1>2, <1>5, <1>6 DEF Nested, Placed, Acquiring, Queued
<1>9. Counted
  BY <1>2, <1>6, <1>7 DEF Counted
<1>10. Owned([h \in Headers |-> NoThread])
  BY <1>2, <1>6 DEF Owned
<1>11. [h \in Headers |-> NoThread] \in Owners
  BY DEF Owners
<1> QED BY <1>1, <1>4, <1>8, <1>9, <1>10, <1>11 DEF PoolCountInv, CountInv

\* Every step keeps it, when no header is shared.
LEMMA PoolCountStep ==
  ASSUME Shared = {}, PoolCountInv, [Next]_vars
  PROVE  PoolCountInv'
<1>1. SemaphoreInv /\ CountInv /\ CountTypes /\ Types
  BY DEF PoolCountInv, CountInv, SemaphoreInv
<1>2. PICK own \in Owners : Owned(own)
  BY DEF PoolCountInv
<1>3. SemaphoreInv' /\ CountTypes' /\ \E then \in Owners : Kept(then)
  <2>1. CASE UNCHANGED vars
    <3>1. /\ UNCHANGED <<queue, sema, refcount, reference, stack, waiting>>
          /\ UNCHANGED <<queue, headers_num, refcount, reference, delayed, held, stack>>
          /\ UNCHANGED <<lock, laid_out>>
      BY <2>1 DEF vars, queues, counts, sizes
    <3>2. SemaphoreInv'
      BY <1>1, <3>1 DEF SemaphoreInv, Types, SemaphoreMatches
    <3>3. Types'
      BY <3>2 DEF SemaphoreInv
    <3>4. CountTypes'
      BY <1>1, <3>1, <3>3 DEF CountTypes
    <3> QED BY <1>1, <1>2, <3>1, <3>2, <3>3, <3>4, QuietStep
  <2>2. ASSUME NEW t \in Threads, Client(t) \/ WaitSemaphore(t) \/ Getting(t) \/ InCall(t)
        PROVE  SemaphoreInv' /\ CountTypes' /\ \E then \in Owners : Kept(then)
    <3>1. SemaphoreInv'
      BY <1>1, <2>2, ClientStep, GettingStep, InCallStep
    <3>2. Types'
      BY <3>1 DEF SemaphoreInv
    <3>3. queue # <<>> \/ ~GetHeader(t)
      BY <1>1, LockedQueue
    <3>4. CountTypes'
      BY <1>1, <2>2, <3>2, <3>3, CountTypesStep
    <3>5. \E then \in Owners : Kept(then)
      BY <1>1, <1>2, <2>2, <3>2, ClientKept, GettingKept, InCallKept
    <3> QED BY <3>1, <3>4, <3>5
  <2>3. CASE (\E n, m \in 0 .. Len(HeaderArray) : Resize(n, m)) \/ ResizeFailed
    <3>1. PICK n, m \in 0 .. Len(HeaderArray) : AllBack /\ Reinitialised(n, m) /\ m <= n
      BY <2>3, HeadersFinite DEF Resize, ResizeFailed
    <3>2. SemaphoreInv'
      BY <1>1, <2>3, ResizeStep
    <3>3. Types'
      BY <3>2 DEF SemaphoreInv
    <3>4. CountTypes'
      <4>1. UNCHANGED <<held, delayed, lock>> /\ laid_out' = n /\ headers_num' = m
        BY <3>1 DEF Reinitialised
      <4>2. m \in 0 .. n /\ n \in 0 .. Len(HeaderArray)
        BY <3>1, HeadersFinite
      <4> QED BY <1>1, <3>3, <4>1, <4>2 DEF CountTypes
    <3>5. Kept(own)
      BY <1>1, <1>2, <3>1, <3>3, ResizedStep
    <3> QED BY <1>2, <3>2, <3>4, <3>5
  <2> QED BY <2>1, <2>2, <2>3 DEF Next
<1> QED BY <1>3 DEF PoolCountInv, CountInv, Kept

\* It says of the pool what it promises.
LEMMA PoolCountSound == PoolCountInv => PoolInv
<1> SUFFICES ASSUME PoolCountInv PROVE PoolInv
  OBVIOUS
<1>1. /\ SemaphoreInv /\ SemaphoreMatches /\ CountInv /\ CountTypes /\ Types /\ held \in Holds
      /\ Placed /\ Counted
  BY DEF PoolCountInv, SemaphoreInv, CountInv, CountTypes
<1>2. sema \in 0 .. Len(HeaderArray)
  <2>1. /\ sema + Cardinality(Posting) = Len(queue) /\ Cardinality(Posting) \in Nat
        /\ sema \in Nat /\ Len(queue) \in Nat
    BY <1>1, PostingCount DEF SemaphoreMatches, Posting, Types
  <2>2. /\ IsFiniteSet(1 .. Len(queue)) /\ Cardinality(1 .. Len(queue)) = Len(queue)
    <3> DEFINE n == Len(queue)
    <3>1. n \in Nat /\ n \in Int /\ 1 \in Int
      BY <2>1
    <3> HIDE DEF n
    <3>2. IsFiniteSet(1 .. n) /\ Cardinality(1 .. n) = IF 1 > n THEN 0 ELSE n - 1 + 1
      BY <3>1, FS_Interval
    <3>3. Cardinality(1 .. n) = n
      BY <3>1, <3>2
    <3> QED BY <3>2, <3>3 DEF n
  <2>3. queue \in Injection(1 .. Len(queue), Headers)
    BY <1>1 DEF Types, Placed, IsInjective, Injection
  <2>4. Cardinality(1 .. Len(queue)) <= Cardinality(Headers)
    BY <2>3, HeadersFinite, FS_Injection
  <2>5. Cardinality(Headers) \in Nat
    BY HeadersFinite, FS_CardinalityType
  <2> QED BY <2>1, <2>2, <2>4, <2>5, HeadersFinite
<1>3. TypeOK
  BY <1>1, <1>2 DEF TypeOK, Types, CountTypes, Holds
<1>4. RefcountExact
  <2> SUFFICES ASSUME NEW h \in Live, ~Queued(h), ~Putting(h) PROVE refcount[h] = References(h)
    BY DEF RefcountExact
  <2>1. h \in Headers
    BY <1>1, HeadersFinite DEF Live, CountTypes
  <2>2. References(h) \in Nat /\ ~Stored(h)
    BY <1>1, <2>1, ReferencesAre DEF Stored
  <2> QED BY <1>1, <2>1, <2>2 DEF Counted
<1>5. RecycledWhenFree
  <2>1. IsInjective(queue)
    BY <1>1 DEF Placed
  <2>2. ASSUME NEW h \in ToSet(queue)
        PROVE  /\ References(h) = 0 /\ reference[h] = NoHeader /\ h \notin delayed
               /\ \A f \in Frames : f.by = -1 => f.h # h
    <3>1. h \in Headers /\ Queued(h) /\ Stored(h)
      BY <1>1, <2>2 DEF Types, ToSet, Queued, Stored
    <3>2. References(h) = 0 /\ reference[h] = NoHeader /\ h \notin delayed
      BY <1>1, <3>1, NotInUse DEF Counted, Placed
    <3>3. ASSUME NEW t \in Threads, NEW i \in 1 .. Len(stack[t]) PROVE stack[t][i].h # h
      BY <1>1, <3>1, NotInUse DEF Placed
    <3> QED BY <1>1, <3>2, <3>3, FramesAre
  <2> QED BY <2>1, <2>2 DEF RecycledWhenFree
<1> QED BY <1>1, <1>3, <1>4, <1>5 DEF PoolInv

\* In every execution in which no header is shared by two threads at a time, the pool is sound:
\* the reference count of a header out of the pool is the number of references there are to it,
\* a header is in the queue at most once, and then nobody has a reference to it, a release of
\* it to finish or a replica of it, and the semaphore follows the queue.
THEOREM PoolIsSound == Shared = {} /\ Spec => []PoolInv
<1> SUFFICES ASSUME Shared = {} PROVE Spec => []PoolInv
  OBVIOUS
<1>1. PoolCountInv /\ [Next]_vars => PoolCountInv'
  BY PoolCountStep
<1> QED BY <1>1, PoolCountInit, PoolCountSound, PTL DEF Spec

-----------------------------------------------------------------------------
(* The inductive invariant of the frames. *)

ImageFrame == [Halves -> Nat]

FrameTypes ==
  /\ frames \in Nat /\ nCount \in Nat
  /\ imageData \in ImageFrame /\ tmpltData \in ImageFrame
  /\ uploaded \in [{6, 7} -> ImageFrame]
  /\ iter \in 0 .. 4
  /\ mpc = "upload" => iter \in 0 .. 3
  /\ cpc \in {"idle", "copy", "copy2", "copy3", "copy4", "release", "get", "send"}

\* The halves the callback has still to give the frame it was called with.
Missing == IF frame = 0 THEN {}
           ELSE CASE cpc \in {"copy", "copy2", "copy3"} -> Halves
                  [] cpc = "copy4" -> {2}
                  [] OTHER -> {}

\* The halves of the template it has still to overwrite.
Untouched == IF frame = 0 THEN {}
             ELSE CASE cpc = "copy" -> Halves
                    [] cpc = "copy2" -> {2}
                    [] OTHER -> {}

\* The image is the last frame that arrived, but for the halves that are missing; the
\* template is one frame behind or up with it, also while the callback copies.
Copying ==
  /\ cpc \in DOMAIN CopyStep => frame \in {0, frames}
  /\ \A h \in Halves :
       /\ imageData[h] = IF h \in Missing THEN frames - 1 ELSE frames
       /\ tmpltData[h] <= IF h \in Untouched THEN frames - 1 ELSE frames
       /\ tmpltData[h] >= IF h \in Untouched THEN frames - 2 ELSE frames - 1

\* The template in memory never falls back behind an image that was uploaded, so that the
\* one uploaded after it is not either.
Overtaken ==
  \A h \in Halves :
    /\ mpc = "upload" /\ iter >= h /\ iter < 2 + h => tmpltData[h] >= uploaded[7][h] - 1
    /\ mpc = "upload" /\ iter >= 2 + h => uploaded[6][h] >= uploaded[7][h] - 1

FramesInv == FrameTypes /\ Copying /\ Overtaken /\ MotionOfOneFrame

-----------------------------------------------------------------------------
\* No frame has arrived at the start.
LEMMA FramesInit == GameInit => FramesInv
<1> SUFFICES ASSUME GameInit PROVE FramesInv
  OBVIOUS
<1> USE DEF Halves
<1>1. /\ mpc = "init" /\ iter = 0 /\ cpc = "idle" /\ frame = 0 /\ frames = 0 /\ nCount = 0
      /\ imageData = Blank /\ tmpltData = Blank /\ uploaded = [t \in {6, 7} |-> Blank]
  BY DEF GameInit
<1>2. Blank \in ImageFrame /\ \A h \in Halves : Blank[h] = 0
  BY DEF Blank, ImageFrame
<1>3. FrameTypes
  BY <1>1, <1>2 DEF FrameTypes
<1>4. Copying
  BY <1>1, <1>2 DEF Copying, CopyStep, Missing, Untouched
<1>5. Overtaken /\ MotionOfOneFrame
  BY <1>1 DEF Overtaken, MotionOfOneFrame
<1> QED BY <1>3, <1>4, <1>5 DEF FramesInv

\* A frame arrives: the image and the template fall one behind.
LEMMA ReturnStep ==
  ASSUME FramesInv, ReturnData \/ ReturnEmpty
  PROVE  FramesInv'
<1> USE DEF FramesInv, FrameTypes, ImageFrame, Halves, buffers, memory, gpu, setup, flow, game
<1>1. /\ cpc = "idle" /\ cpc' = "copy"
      /\ UNCHANGED <<mpc, iter, nCount, imageData, tmpltData, uploaded>>
  BY DEF ReturnData, ReturnEmpty, ReturnBuffer
<1>2. (frames' = frames + 1 /\ frame' = frames') \/ (frames' = frames /\ frame' = 0)
  BY DEF ReturnData, ReturnEmpty, ReturnBuffer
<1>3. FrameTypes'
  BY <1>1, <1>2
<1>4. Copying'
  BY <1>1, <1>2 DEF Copying, CopyStep, Missing, Untouched
<1>5. (Overtaken /\ MotionOfOneFrame)'
  BY <1>1 DEF Overtaken, MotionOfOneFrame
<1> QED BY <1>3, <1>4, <1>5

\* One of the four copies of the callback: the template never gets older.
LEMMA CopyPreserves ==
  ASSUME FramesInv, Copy
  PROVE  FramesInv'
<1> USE DEF FramesInv, FrameTypes, ImageFrame, Halves
<1>1. UNCHANGED <<mpc, iter, uploaded, frame, frames>>
  BY DEF Copy, gpu, buffers
<1>2. CASE frame = 0
  <2>1. cpc \in DOMAIN CopyStep /\ cpc' = "release" /\ UNCHANGED memory
    BY <1>2 DEF Copy
  <2> QED BY <1>1, <1>2, <2>1
     DEF memory, Copying, CopyStep, Missing, Untouched, Overtaken, MotionOfOneFrame
<1>3. CASE frame # 0
  <2>1. frame = frames /\ frames > 0
    BY <1>3 DEF Copy, Copying
  <2>2. CASE cpc = "copy"
    <3>1. /\ cpc' = "copy2" /\ UNCHANGED <<nCount, imageData>>
          /\ tmpltData' = [tmpltData EXCEPT ![1] = IF nCount = 0 THEN frame ELSE imageData[1]]
      BY <1>3, <2>2 DEF Copy, Copies, CopyStep, CopyNext
    <3> QED BY <1>1, <1>3, <2>1, <2>2, <3>1
       DEF Copying, CopyStep, Missing, Untouched, Overtaken, MotionOfOneFrame
  <2>3. CASE cpc = "copy2"
    <3>1. /\ cpc' = "copy3" /\ UNCHANGED <<nCount, imageData>>
          /\ tmpltData' = [tmpltData EXCEPT ![2] = IF nCount = 0 THEN frame ELSE imageData[2]]
      BY <1>3, <2>3 DEF Copy, Copies, CopyStep, CopyNext
    <3> QED BY <1>1, <1>3, <2>1, <2>3, <3>1
       DEF Copying, CopyStep, Missing, Untouched, Overtaken, MotionOfOneFrame
  <2>4. CASE cpc = "copy3"
    <3>1. /\ cpc' = "copy4" /\ UNCHANGED <<nCount, tmpltData>>
          /\ imageData' = [imageData EXCEPT ![1] = frame]
      BY <1>3, <2>4 DEF Copy, Copies, CopyStep, CopyNext
    <3> QED BY <1>1, <1>3, <2>1, <2>4, <3>1
       DEF Copying, CopyStep, Missing, Untouched, Overtaken, MotionOfOneFrame
  <2>5. CASE cpc = "copy4"
    <3>1. /\ cpc' = "release" /\ UNCHANGED tmpltData /\ nCount' = nCount + 1
          /\ imageData' = [imageData EXCEPT ![2] = frame]
      BY <1>3, <2>5 DEF Copy, Copies, CopyStep, CopyNext
    <3> QED BY <1>1, <1>3, <2>1, <2>5, <3>1
       DEF Copying, CopyStep, Missing, Untouched, Overtaken, MotionOfOneFrame
  <2> QED BY <2>2, <2>3, <2>4, <2>5 DEF Copy, CopyStep
<1> QED BY <1>2, <1>3

\* One of the four uploads: the image's first.
LEMMA UploadPreserves ==
  ASSUME FramesInv, Upload
  PROVE  FramesInv'
<1> USE DEF FramesInv, FrameTypes, ImageFrame, Halves
<1>1. mpc = "upload" /\ UNCHANGED <<cpc, frame, frames, nCount, imageData, tmpltData>>
  BY DEF Upload, cb, memory
<1>2. Copying'
  BY <1>1 DEF Copying, CopyStep, Missing, Untouched
<1>3. \A h \in Halves : tmpltData[h] >= imageData[h] - 1
  BY <1>1 DEF Copying, Missing, Untouched
<1>4. CASE iter = 0
  <2>1. /\ uploaded' = [uploaded EXCEPT ![7][1] = imageData[1]]
        /\ iter' = 1 /\ mpc' = mpc
    BY <1>4 DEF Upload, Uploads
  <2> QED BY <1>1, <1>2, <1>3, <1>4, <2>1 DEF Overtaken, MotionOfOneFrame
<1>5. CASE iter = 1
  <2>1. /\ uploaded' = [uploaded EXCEPT ![7][2] = imageData[2]]
        /\ iter' = 2 /\ mpc' = mpc
    BY <1>5 DEF Upload, Uploads
  <2> QED BY <1>1, <1>2, <1>3, <1>5, <2>1 DEF Overtaken, MotionOfOneFrame
<1>6. CASE iter = 2
  <2>1. /\ uploaded' = [uploaded EXCEPT ![6][1] = tmpltData[1]]
        /\ iter' = 3 /\ mpc' = mpc
    BY <1>6 DEF Upload, Uploads
  <2> QED BY <1>1, <1>2, <1>3, <1>6, <2>1 DEF Overtaken, MotionOfOneFrame
<1>7. CASE iter = 3
  <2>1. /\ uploaded' = [uploaded EXCEPT ![6][2] = tmpltData[2]]
        /\ iter' = 0 /\ mpc' = "clock"
    BY <1>7 DEF Upload, Uploads
  <2> QED BY <1>1, <1>2, <1>3, <1>7, <2>1 DEF Overtaken, MotionOfOneFrame
<1> QED BY <1>1, <1>4, <1>5, <1>6, <1>7

\* The steps of main() that neither upload nor let go of the callback's memory.
LEMMA OtherPreserves ==
  ASSUME FramesInv,
         UNCHANGED <<frames, nCount, imageData, tmpltData, uploaded>>,
         \/ UNCHANGED <<cpc, frame>>
         \/ cpc \in {"release", "get", "send"} /\ cpc' \in {"idle", "get", "send"},
         iter' \in 0 .. 4,
         \/ UNCHANGED <<mpc, iter>>
         \/ mpc' = "upload" /\ iter' = 0
         \/ mpc' # "upload" /\ mpc' \notin {"clock", "hessian", "align", "cursor"}
         \/ mpc' # "upload" /\ mpc \in {"clock", "hessian", "align", "cursor"}
  PROVE  FramesInv'
<1> USE DEF FramesInv, FrameTypes, ImageFrame, Halves
<1>1. FrameTypes'
  OBVIOUS
<1>2. Copying'
  BY DEF Copying, CopyStep, Missing, Untouched
<1>3. (Overtaken /\ MotionOfOneFrame)'
  BY DEF Overtaken, MotionOfOneFrame
<1> QED BY <1>1, <1>2, <1>3

\* Every step of main() and of the callback keeps the invariant.
LEMMA FramesStep == FramesInv /\ [GameNext]_gamevars => FramesInv'
<1> SUFFICES ASSUME FramesInv, [GameNext]_gamevars PROVE FramesInv'
  OBVIOUS
<1>0. iter \in 0 .. 4
  BY DEF FramesInv, FrameTypes
<1> USE DEF cb, memory, gpu
<1>1. CASE UNCHANGED gamevars
  BY <1>0, <1>1, OtherPreserves DEF gamevars
<1>2. CASE ReturnData \/ ReturnEmpty \/ Copy \/ Upload
  BY <1>2, ReturnStep, CopyPreserves, UploadPreserves
<1>3. CASE Sigint \/ (Main /\ ~Upload)
  <2>1. UNCHANGED <<frames, nCount, imageData, tmpltData, uploaded, cpc, frame>>
    BY <1>3 DEF Main, InitGL, CreateCamera, CreatePreview, Capture, QueueLength, SendFirst, Loop,
                Tick, DrawHessian, Align, DrawTriangle, ShutDown, DisablePort, DestroyCamera, Sigint
  <2>2. /\ iter' \in 0 .. 4
        /\ \/ UNCHANGED <<mpc, iter>>
           \/ mpc' = "upload" /\ iter' = 0
           \/ mpc' # "upload" /\ mpc' \notin {"clock", "hessian", "align", "cursor"}
           \/ mpc' # "upload" /\ mpc \in {"clock", "hessian", "align", "cursor"}
    BY <1>0, <1>3
       DEF Main, InitGL, InitProgram, CreateCamera, CreatePreview, Capture, QueueLength, SendFirst,
           Loop, Tick, DrawHessian, Align, DrawTriangle, ShutDown, DisablePort, DestroyCamera,
           Sigint
  <2> QED BY <2>1, <2>2, OtherPreserves
<1>4. CASE ReleaseBuffer \/ GetBuffer \/ Send
  <2>1. UNCHANGED <<frames, nCount, imageData, tmpltData, uploaded, mpc, iter>>
    BY <1>4 DEF ReleaseBuffer, GetBuffer, Send
  <2>2. cpc \in {"release", "get", "send"} /\ cpc' \in {"idle", "get", "send"}
    BY <1>4 DEF ReleaseBuffer, GetBuffer, Send
  <2> QED BY <1>0, <2>1, <2>2, OtherPreserves
<1> QED BY <1>1, <1>2, <1>3, <1>4 DEF GameNext, Callback

\* The frames that are aligned are those of one movement, however the callback of the camera
\* overtakes the uploads of the main loop.
THEOREM MotionCorrect == GameSpec => []MotionOfOneFrame
<1>1. FramesInv => MotionOfOneFrame
  BY DEF FramesInv
<1> QED BY <1>1, FramesInit, FramesStep, PTL DEF GameSpec

-----------------------------------------------------------------------------
(* The cursor. *)

CursorInv == cursor \in Int \X Int /\ truncates \in BOOLEAN /\ CursorStays

\* A move keeps the cursor within the area, whatever was measured.
LEMMA MovedStays ==
  ASSUME CursorInv, NEW w \in Displacements
  PROVE  LET c == Moved(cursor, w) IN
           c \in Int \X Int /\ Within(c[1], HalfWidth) /\ Within(c[2], HalfHeight)
<1> USE GameAssumption
<1>1. CASE w = NaN
  BY <1>1 DEF Moved, Within, Dist, CursorInv
<1>2. CASE w # NaN
  <2>1. w \in Int \X Int
    BY <1>2
  <2>2. cursor \in Int \X Int /\ ~Outside(cursor)
    BY DEF CursorInv, CursorStays, Outside, Beyond
  <2>3. PICK m : m = Moved(cursor, w)
    OBVIOUS
  <2>4. CASE m = cursor
    BY <2>2, <2>3, <2>4 DEF Outside, Beyond
  <2>5. CASE m = <<cursor[1] + w[1], cursor[2] + w[2]>> /\ ~Outside(m)
    BY <2>1, <2>2, <2>3, <2>5 DEF Outside, Beyond
  <2> QED BY <1>2, <2>1, <2>2, <2>3, <2>4, <2>5 DEF Moved
<1> QED BY <1>1, <1>2

\* No step but DrawTriangle() moves the cursor.
LEMMA CursorStep == CursorInv /\ [GameNext]_gamevars => CursorInv'
<1> SUFFICES ASSUME CursorInv, [GameNext]_gamevars PROVE CursorInv'
  OBVIOUS
<1>1. CASE UNCHANGED <<cursor, truncates>>
  BY <1>1 DEF CursorInv, CursorStays, Within
<1>2. CASE DrawTriangle
  BY <1>2, MovedStays DEF DrawTriangle, CursorInv, CursorStays, Within
<1>3. \/ UNCHANGED <<cursor, truncates>> \/ DrawTriangle
  BY DEF GameNext, Main, Callback, gamevars, game, InitGL, CreateCamera, CreatePreview, Capture,
         QueueLength, SendFirst, Loop, Upload, Tick, DrawHessian, Align, ShutDown, DisablePort,
         DestroyCamera, Sigint, ReturnData, ReturnEmpty, ReturnBuffer, Copy, ReleaseBuffer, GetBuffer, Send
<1> QED BY <1>1, <1>2, <1>3

\* The cursor stays around the centre, for every displacement and both meanings of abs().
THEOREM CursorCorrect == GameSpec => []CursorStays
<1>1. GameInit => CursorInv
  BY GameAssumption DEF GameInit, CursorInv, CursorStays, Within, Dist
<1>2. CursorInv => CursorStays
  BY DEF CursorInv
<1> QED BY <1>1, <1>2, CursorStep, PTL DEF GameSpec

-----------------------------------------------------------------------------
(* The buffers, the square and the textures. *)

\* A frame arrives once, and the callback counts it when it has copied it.
Counts ==
  /\ frames <= MaxFrames
  /\ nCount + (IF cpc \in DOMAIN CopyStep /\ frame # 0 THEN 1 ELSE 0) <= frames

\* Where main() is when the port has a pool, or the callback its userdata.
HasPool     == {"send", "loop", "upload", "clock", "hessian", "align", "cursor", "shutdown",
                "free", "done"}
HasUserdata == HasPool \cup {"capture", "length", "returned"}

\* The header that the callback has in its hands.
InHand == IF cpc \in {"idle", "get"} THEN 0 ELSE 1

\* The headers of the pool are in it, at the port, lost, or in the callback's hands.  It puts
\* one back before it takes one out, so that main() finds as many as it counted.
Conserved ==
  /\ pool \in -1 .. Buffers /\ at_port \in Nat /\ lost \in Nat /\ tosend \in Nat
  /\ cpc \in {"idle", "copy", "copy2", "copy3", "copy4", "release", "get", "send"}
  /\ \/ pool = -1 /\ at_port = 0 /\ lost = 0 /\ cpc = "idle"
     \/ pool \in Nat /\ pool + at_port + lost + InHand = Buffers
  /\ mpc \in HasPool => pool # -1
  /\ mpc \in HasUserdata => userdata
  /\ at_port > 0 \/ lost > 0 \/ cpc # "idle" => userdata /\ pool # -1
  /\ mpc \in {"init", "camera", "preview", "capture", "length"} =>
       at_port = 0 /\ lost = 0 /\ cpc = "idle"
  /\ mpc = "send" => pool >= tosend + (IF cpc = "get" THEN 1 ELSE 0)

\* The time of a square is never zero.
Timed == gap \in Nat \ {0} /\ totaltime \in Nat /\ SquareInTime

\* What a texture is computed from.
Contents == SUBSET {"stale", "image", "template"}

\* What the passes hand on: the gradients stay in texture 0 during the alignment.
Passes ==
  /\ texture \in [0 .. 5 -> Contents]
  /\ derived \in [Hs0 : Contents, Hs1 : Contents, sd : Contents]
  /\ mpc \in {"align", "cursor"} =>
       texture[0] = {"template"} /\ derived.Hs0 = {"template"} /\ derived.Hs1 = {"template"}
  /\ mpc = "cursor" => derived.sd = {"image", "template"}

GameIInv == FramesInv /\ Counts /\ Conserved /\ Timed /\ Passes

-----------------------------------------------------------------------------
\* The callback has counted no more frames than arrived.
LEMMA CountsStep ==
  ASSUME FramesInv, Counts, [GameNext]_gamevars
  PROVE  Counts'
<1> USE GameAssumption DEF FramesInv, FrameTypes, CopyStep, cb, memory
<1>1. CASE ReturnData
  BY <1>1 DEF Counts, ReturnData, ReturnBuffer
<1>2. CASE ReturnEmpty
  BY <1>2 DEF Counts, ReturnEmpty, ReturnBuffer
<1>3. CASE Copy
  <2>1. CASE frame = 0
    BY <1>3, <2>1 DEF Counts, Copy
  <2>2. CASE frame # 0
    <3>1. /\ nCount' = IF cpc = "copy4" THEN nCount + 1 ELSE nCount
          /\ cpc \in DOMAIN CopyStep /\ cpc' = CopyNext[cpc] /\ UNCHANGED <<frame, frames>>
      BY <1>3, <2>2 DEF Copy
    <3>2. cpc' \in DOMAIN CopyStep <=> cpc # "copy4"
      BY <3>1 DEF CopyNext
    <3> QED BY <2>2, <3>1, <3>2 DEF Counts
  <2> QED BY <2>1, <2>2
<1>4. CASE ReleaseBuffer \/ GetBuffer \/ Send
  BY <1>4 DEF Counts, ReleaseBuffer, GetBuffer, Send
<1>5. CASE UNCHANGED <<cb, memory>>
  BY <1>5 DEF Counts
<1>6. \/ UNCHANGED <<cb, memory>> \/ ReturnData \/ ReturnEmpty \/ Copy
      \/ ReleaseBuffer \/ GetBuffer \/ Send
  BY DEF GameNext, Main, Callback, gamevars, InitGL, CreateCamera, CreatePreview, Capture, QueueLength,
         SendFirst, Loop, Upload, Tick, DrawHessian, Align, DrawTriangle, ShutDown, DisablePort,
         DestroyCamera, Sigint
<1> QED BY <1>1, <1>2, <1>3, <1>4, <1>5, <1>6

\* No step loses a header or calls the callback too early.
LEMMA ConservedStep ==
  ASSUME Conserved, [GameNext]_gamevars
  PROVE  Conserved'
<1> USE GameAssumption DEF Conserved, InHand, HasPool, HasUserdata, setup, flow, buffers, cb
<1>1. CASE InitGL
  BY <1>1 DEF InitGL, InitProgram
<1>2. CASE CreateCamera
  BY <1>2 DEF CreateCamera
<1>3. CASE CreatePreview
  BY <1>3 DEF CreatePreview
<1>4. CASE Capture
  BY <1>4 DEF Capture
<1>5. CASE QueueLength
  BY <1>5 DEF QueueLength
<1>6. CASE SendFirst
  BY <1>6 DEF SendFirst
<1>7. CASE Loop \/ Upload \/ Tick \/ DrawHessian \/ Align \/ DrawTriangle
  <2>1. /\ UNCHANGED <<pool, at_port, lost, tosend, cpc, userdata>>
        /\ mpc \in {"loop", "upload", "clock", "hessian", "align", "cursor"}
        /\ mpc' \in {"loop", "upload", "clock", "hessian", "align", "cursor", "shutdown"}
    BY <1>7 DEF Loop, Upload, Tick, DrawHessian, Align, DrawTriangle
  <2> QED BY <2>1
<1>8. CASE ShutDown
  BY <1>8 DEF ShutDown
<1>9. CASE DisablePort
  BY <1>9 DEF DisablePort
<1>10. CASE DestroyCamera
  BY <1>10 DEF DestroyCamera
<1>11. CASE ReturnData \/ ReturnEmpty
  BY <1>11 DEF ReturnData, ReturnEmpty, ReturnBuffer
<1>12. CASE Copy
  <2>1. /\ UNCHANGED <<mpc, pool, at_port, lost, tosend, userdata>>
        /\ cpc \in {"copy", "copy2", "copy3", "copy4"}
        /\ cpc' \in {"copy2", "copy3", "copy4", "release"}
    BY <1>12 DEF Copy, CopyStep, CopyNext
  <2> QED BY <2>1
<1>13. CASE ReleaseBuffer
  BY <1>13 DEF ReleaseBuffer
<1>14. CASE GetBuffer
  BY <1>14 DEF GetBuffer
<1>15. CASE Send
  BY <1>15 DEF Send
<1>16. CASE Sigint
  BY <1>16 DEF Sigint
<1>17. CASE UNCHANGED gamevars
  BY <1>17 DEF gamevars
<1> QED BY <1>1, <1>2, <1>3, <1>4, <1>5, <1>6, <1>7, <1>8, <1>9, <1>10, <1>11, <1>12, <1>13,
           <1>14, <1>15, <1>16, <1>17 DEF GameNext, Main, Callback

\* No step lets the time of a square pass, or shortens it to nothing.
LEMMA TimedStep ==
  ASSUME Timed, [GameNext]_gamevars
  PROVE  Timed'
<1> USE GameAssumption DEF Timed, SquareInTime
<1>1. CASE Tick
  BY <1>1 DEF Tick, AfterHit, Shortened
<1>2. CASE UNCHANGED <<totaltime, gap>>
  BY <1>2
<1>3. Tick \/ UNCHANGED <<totaltime, gap>>
  BY DEF GameNext, Main, Callback, gamevars, game, square, InitGL, CreateCamera, CreatePreview, Capture,
         QueueLength, SendFirst, Loop, Upload, DrawHessian, Align, DrawTriangle, ShutDown,
         DisablePort, DestroyCamera, Sigint, ReturnData, ReturnEmpty, ReturnBuffer, Copy, ReleaseBuffer,
         GetBuffer, Send
<1> QED BY <1>1, <1>2, <1>3

\* Integrating puts the content of the source into the last three textures.
LEMMA Integrated ==
  ASSUME NEW tex \in [0 .. 5 -> Contents], NEW source \in {1, 2}
  PROVE  LET t == IntegrateImage(tex, source) IN
           t \in [0 .. 5 -> Contents] /\ t[0] = tex[0] /\ t[5] = tex[source]
BY DEF IntegrateImage

\* What each turn derives comes from what it has uploaded.
LEMMA PassesStep ==
  ASSUME Passes, [GameNext]_gamevars
  PROVE  Passes'
<1>1. CASE Upload
  BY <1>1 DEF Passes, Upload, Stale, Contents
<1>2. CASE DrawHessian
  <2>1. PICK t0, t1 : /\ t0 = HessianPasses(GradienImage(texture), 0)
                      /\ t1 = HessianPasses(t0, 1)
                      /\ texture' = t1 /\ derived' = Hessian(derived, t0, t1)
    BY <1>2 DEF DrawHessian
  <2>2. /\ GradienImage(texture) \in [0 .. 5 -> Contents]
        /\ GradienImage(texture)[0] = {"template"}
    BY DEF GradienImage, Content, Passes, Contents
  <2>3. \A tex \in [0 .. 5 -> Contents] : \A flag \in {0, 1} :
          tex[0] = {"template"} =>
            /\ HessianPasses(tex, flag) \in [0 .. 5 -> Contents]
            /\ HessianPasses(tex, flag)[0] = {"template"}
            /\ HessianPasses(tex, flag)[5] = {"template"}
    <3> SUFFICES ASSUME NEW tex \in [0 .. 5 -> Contents], NEW flag \in {0, 1},
                        tex[0] = {"template"}
                 PROVE  LET t == HessianPasses(tex, flag) IN
                          t \in [0 .. 5 -> Contents] /\ t[0] = tex[0] /\ t[5] = tex[0]
      OBVIOUS
    <3>1. /\ MultiplyImage(tex) \in [0 .. 5 -> Contents]
          /\ MultiplyImage(tex)[0] = tex[0] /\ MultiplyImage(tex)[2] = tex[0]
      BY DEF MultiplyImage
    <3> QED BY <3>1, Integrated DEF HessianPasses
  <2>4. t0 \in [0 .. 5 -> Contents] /\ t0[0] = {"template"} /\ t0[5] = {"template"}
    BY <2>1, <2>2, <2>3
  <2>5. t1 \in [0 .. 5 -> Contents] /\ t1[0] = {"template"} /\ t1[5] = {"template"}
    BY <2>1, <2>3, <2>4
  <2>6. mpc' = "align"
    BY <1>2 DEF DrawHessian
  <2> QED BY <2>1, <2>4, <2>5, <2>6 DEF Passes, Hessian, Contents
<1>3. CASE Align
  <2>1. PICK t : /\ t = IntegrateImage(WarpImage(texture), 1)
                 /\ texture' = t /\ derived' = SdUpdate(derived, t)
    BY <1>3 DEF Align
  <2>2. texture[0] = {"template"} /\ texture \in [0 .. 5 -> Contents]
    BY <1>3 DEF Align, Passes
  <2>3. /\ WarpImage(texture) \in [0 .. 5 -> Contents]
        /\ WarpImage(texture)[0] = {"template"}
        /\ WarpImage(texture)[1] = {"image", "template"}
    BY <2>2 DEF WarpImage, Content, Contents
  <2>4. t \in [0 .. 5 -> Contents] /\ t[0] = {"template"} /\ t[5] = {"image", "template"}
    BY <2>1, <2>3, Integrated
  <2> QED BY <1>3, <2>1, <2>4 DEF Passes, SdUpdate, Align, Contents
<1>4. CASE UNCHANGED <<texture, derived>> /\ (mpc' = mpc \/ mpc' \notin {"align", "cursor"})
  BY <1>4 DEF Passes
<1>5. \/ Upload \/ DrawHessian \/ Align
      \/ UNCHANGED <<texture, derived>> /\ (mpc' = mpc \/ mpc' \notin {"align", "cursor"})
  BY DEF GameNext, Main, Callback, gamevars, gpu, InitGL, InitProgram, CreateCamera, CreatePreview,
         Capture, QueueLength, SendFirst, Loop, Tick, DrawTriangle, ShutDown, DisablePort,
         DestroyCamera, Sigint, ReturnData, ReturnEmpty, ReturnBuffer, Copy, ReleaseBuffer, GetBuffer, Send
<1> QED BY <1>1, <1>2, <1>3, <1>4, <1>5

\* The start of the program.
LEMMA GameStarts == GameInit => GameIInv
<1> SUFFICES ASSUME GameInit PROVE GameIInv
  OBVIOUS
<1> USE GameAssumption DEF GameInit
<1>1. Counts
  BY DEF Counts
<1>2. Conserved
  BY DEF Conserved, InHand, HasPool, HasUserdata
<1>3. Timed
  BY DEF Timed, SquareInTime
<1>4. Passes
  BY DEF Passes, Stale, Contents
<1> QED BY <1>1, <1>2, <1>3, <1>4, FramesInit DEF GameIInv

\* What the invariant says of the numbers bounds them.
LEMMA GameTypes == GameIInv => GameTypeOK
<1> SUFFICES ASSUME GameIInv PROVE GameTypeOK
  OBVIOUS
<1> USE GameAssumption DEF GameIInv, FramesInv, FrameTypes, Counts
<1>1. pool \in -1 .. Buffers /\ at_port \in 0 .. Buffers /\ lost \in 0 .. Buffers
  BY DEF Conserved, InHand
<1>2. nCount \in 0 .. MaxFrames /\ frames \in 0 .. MaxFrames
  BY DEF CopyStep
<1>3. /\ imageData \in [Halves -> 0 .. MaxFrames]
      /\ tmpltData \in [Halves -> 0 .. MaxFrames]
  BY <1>2 DEF ImageFrame, Copying
<1> QED BY <1>1, <1>2, <1>3 DEF GameTypeOK, Timed

\* No texture is stale when it is read, no square stays too long, the callback finds its
\* userdata and main() its headers: for any pool, screen, times, frames, hits and failures.
THEOREM GameIsSound == GameSpec => []GameInv
<1>1. GameIInv /\ [GameNext]_gamevars => GameIInv'
  BY FramesStep, CountsStep, ConservedStep, TimedStep, PassesStep DEF GameIInv
<1>2. GameIInv => NothingStale /\ SquareInTime /\ CallbackReady
  BY DEF GameIInv, Passes, NothingStale, Timed, Conserved, CallbackReady
<1>3. GameIInv => GameInv
  BY <1>2, GameTypes DEF GameInv
<1> QED BY <1>1, <1>3, GameStarts, PTL DEF GameSpec
=============================================================================
