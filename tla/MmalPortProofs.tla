--------------------------- MODULE MmalPortProofs ---------------------------
(***************************************************************************)
(* Theorems about MmalPort.  For any pools, buffers and threads its        *)
(* semaphore keeps to its token.  If moreover the client is a CleanClient, *)
(* the obligation that MmalPortStaleLink and MmalPortFlushRace show to be  *)
(* necessary, the accounting of the buffers in transit is exact, no buffer *)
(* is lost, and the port implements PortContract.                          *)
(***************************************************************************)
EXTENDS MmalPort, FiniteSetTheorems, TLAPS

-----------------------------------------------------------------------------
(* The in-transit semaphore.  TypeOK alone is not inductive: that the      *)
(* semaphore stays in {0, 1} depends on SemaphoreToken, and that in turn   *)
(* on no buffer being counted while a disable holds the token.             *)

\* While a disable holds the token no buffer is in transit, and only one does.
TokenHolder ==
  \A t \in Threads : pc[t] = "post" =>
    /\ transit_buffer_headers <= 0
    /\ \A u \in Threads : pc[u] = "post" => u = t

TokenInv == TypeOK /\ SemaphoreToken /\ TokenHolder

LEMMA PoolPutType ==
  ASSUME TypeOK, NEW b \in Buffers \cup {NoBuffer}, PoolPut(b)
  PROVE  /\ next' \in [Buffers -> Buffers \cup {NoBuffer}]
         /\ at' \in [Buffers -> Places]
         /\ pool' \in [Pools -> Seq(Buffers)]
<1>1. PICK p \in Pools :
        /\ \E i \in 1 .. Len(Headers[p]) : Headers[p][i] = b
        /\ pool' = [pool EXCEPT ![p] = Append(@, b)]
  BY DEF PoolPut
<1>2. b \in Buffers
  BY <1>1, ConstantsAssumption
<1>3. pool' \in [Pools -> Seq(Buffers)]
  BY <1>1, <1>2 DEF TypeOK
<1>4. next' \in [Buffers -> Buffers \cup {NoBuffer}]
  <2>1. PICK q \in Pools :
          next' = [x \in Buffers |->
                     IF x = b THEN NoBuffer
                     ELSE IF pool[q] # <<>> /\ x = pool[q][Len(pool[q])] THEN b
                     ELSE next[x]]
    BY DEF PoolPut
  <2> QED BY <2>1, <1>2 DEF TypeOK
<1>5. at' \in [Buffers -> Places]
  BY <1>2 DEF PoolPut, TypeOK, Places
<1> QED BY <1>3, <1>4, <1>5

\* A thread that changes its place, other than to or from "post", keeps the token
\* right as long as it leaves the counter alone, increments or decrements it.
LEMMA TokenKept ==
  ASSUME TypeOK, SemaphoreToken, TokenHolder,
         NEW t \in Threads, NEW l \in Labels \ {"post"},
         pc[t] # "post", pc' = [pc EXCEPT ![t] = l],
         UNCHANGED transit \/ (CanIncrement /\ Increment) \/ Decrement
  PROVE  /\ SemaphoreToken' /\ TokenHolder'
         /\ transit_buffer_headers' \in Int
         /\ transit_sema' \in {0, 1}
<1>1. \A u \in Threads : pc'[u] = "post" <=> pc[u] = "post"
  BY DEF TypeOK
<1>2. CASE UNCHANGED transit
  BY <1>1, <1>2 DEF transit, SemaphoreToken, TokenHolder, TypeOK
<1>3. CASE CanIncrement /\ Increment
  BY <1>1, <1>3 DEF CanIncrement, Increment, SemaphoreToken, TokenHolder, TypeOK
<1>4. CASE Decrement
  <2>1. transit_buffer_headers = 1 => \A u \in Threads : pc[u] # "post"
    BY DEF TokenHolder, TypeOK
  <2> QED
    BY <1>1, <1>4, <2>1 DEF Decrement, SemaphoreToken, TokenHolder, TypeOK
<1> QED
  BY <1>2, <1>3, <1>4

LEMMA TokenInit == Init => TokenInv
<1> SUFFICES ASSUME Init PROVE TokenInv
  OBVIOUS
<1>1. \A b \in Buffers : InitialNext(b) \in Buffers \cup {NoBuffer}
  <2> SUFFICES ASSUME NEW b \in Buffers,
                      \E p \in Pools : \E i \in 1 .. Len(Headers[p]) - 1 : Headers[p][i] = b
               PROVE  InitialNext(b) \in Buffers
    BY DEF InitialNext
  <2>0. PICK p \in Pools : \E i \in 1 .. Len(Headers[p]) - 1 : Headers[p][i] = b
    OBVIOUS
  <2>1. PICK i \in 1 .. Len(Headers[p]) - 1 : Headers[p][i] = b
    BY <2>0
  <2>2. Headers[p][i + 1] \in Buffers
    BY <2>1, ConstantsAssumption
  <2>3. \E n \in Buffers : \E q \in Pools : \E k \in 1 .. Len(Headers[q]) - 1 :
           Headers[q][k] = b /\ Headers[q][k + 1] = n
    BY <2>1, <2>2
  <2> QED
    BY <2>3 DEF InitialNext
<1>2. TypeOK
  <2>1. next \in [Buffers -> Buffers \cup {NoBuffer}]
    BY <1>1 DEF Init
  <2>2. pool \in [Pools -> Seq(Buffers)]
    BY ConstantsAssumption DEF Init
  <2>3. op \in [Threads -> Operations] /\ pc \in [Threads -> Labels]
    BY DEF Init, Labels, Operations
  <2>4. at \in [Buffers -> Places]
    BY DEF Init, Places
  <2>5. is_enabled \in BOOLEAN /\ is_paused \in BOOLEAN /\ callback \in BOOLEAN
    BY DEF Init
  <2>6. /\ buffer \in [Threads -> Buffers \cup {NoBuffer}]
        /\ saved \in [Threads -> Buffers \cup {NoBuffer}]
    BY DEF Init
  <2> QED
    BY <2>1, <2>2, <2>3, <2>4, <2>5, <2>6 DEF Init, TypeOK
<1>3. SemaphoreToken /\ TokenHolder
  BY DEF Init, SemaphoreToken, TokenHolder
<1> QED
  BY <1>2, <1>3 DEF TokenInv

LEMMA SendKeepsToken ==
  ASSUME TokenInv, NEW s \in Senders, Send(s)
  PROVE  TokenInv'
<1> USE DEF TokenInv
<1>0. s \in Threads
  BY DEF Threads
<1>1. CASE TakeFromPool(s)
  <2> USE <1>1 DEF TakeFromPool
  <2>1. PICK p \in Pools :
          /\ pool[p] # <<>>
          /\ pool' = [pool EXCEPT ![p] = Tail(@)]
          /\ at' = [at EXCEPT ![Head(pool[p])] = "sender"]
          /\ SetBuffer(s, Head(pool[p]))
    OBVIOUS
  <2>2. Head(pool[p]) \in Buffers /\ Tail(pool[p]) \in Seq(Buffers)
    BY <2>1 DEF TypeOK
  <2>3. TypeOK'
    BY <1>0, <2>1, <2>2 DEF TypeOK, SetBuffer, Begin, Places, Labels, Operations,
       flags, queue, transit, locks
  <2>4. SemaphoreToken' /\ TokenHolder'
    BY <1>0, TokenKept DEF Begin, Idle, Running, Labels
  <2> QED BY <2>3, <2>4
<1>2. CASE SendRejected(s)
  <2> USE <1>2 DEF SendRejected
  <2>1. buffer[s] \in Buffers \cup {NoBuffer}
    BY <1>0 DEF TypeOK
  <2>2. TypeOK'
    BY <1>0, <2>1, PoolPutType DEF TypeOK, SetBuffer, End, Begin, Labels, Operations,
       flags, queue, transit, locks
  <2>3. SemaphoreToken' /\ TokenHolder'
    BY <1>0, TokenKept DEF End, Begin, Running, Labels
  <2> QED BY <2>2, <2>3
<1>3. CASE SendStart(s)
  <2> USE <1>3 DEF SendStart
  <2>1. SemaphoreToken' /\ TokenHolder' /\ transit_buffer_headers' \in Int /\ transit_sema' \in {0, 1}
    BY <1>0, TokenKept DEF Goto, Running, Labels
  <2>2. TypeOK'
    BY <1>0, <2>1 DEF TypeOK, Goto, Labels, flags, queue, headers
  <2> QED BY <2>1, <2>2
<1>4. CASE SendQueued(s)
  <2> USE <1>4 DEF SendQueued
  <2>1. TypeOK'
    BY <1>0 DEF TypeOK, Goto, Labels, Places, flags, transit, locks
  <2>2. SemaphoreToken' /\ TokenHolder'
    BY <1>0, TokenKept DEF Goto, Running, Labels
  <2> QED BY <2>1, <2>2
<1>5. CASE SendAccepted(s)
  <2> USE <1>5 DEF SendAccepted
  <2>1. TypeOK'
    BY <1>0 DEF TypeOK, Goto, Labels, Places, flags, queue, transit, locks
  <2>2. SemaphoreToken' /\ TokenHolder'
    BY <1>0, TokenKept DEF Goto, Running, Labels
  <2> QED BY <2>1, <2>2
<1>6. CASE SendRefused(s)
  <2> USE <1>6 DEF SendRefused
  <2>1. buffer[s] \in Buffers \cup {NoBuffer}
    BY <1>0 DEF TypeOK
  <2>2. SemaphoreToken' /\ TokenHolder' /\ transit_buffer_headers' \in Int /\ transit_sema' \in {0, 1}
    BY <1>0, TokenKept DEF End, Begin, Running, Labels
  <2>3. TypeOK'
    BY <1>0, <2>1, <2>2, PoolPutType DEF TypeOK, SetBuffer, End, Begin, Labels, Operations,
       flags, queue
  <2> QED BY <2>2, <2>3
<1>7. CASE SendEnd(s)
  <2> USE <1>7 DEF SendEnd
  <2>1. TypeOK'
    BY <1>0 DEF TypeOK, SetBuffer, End, Begin, Labels, Operations, flags, queue, transit, headers
  <2>2. SemaphoreToken' /\ TokenHolder'
    BY <1>0, TokenKept DEF End, Begin, Running, Labels
  <2> QED BY <2>1, <2>2
<1> QED
  BY <1>1, <1>2, <1>3, <1>4, <1>5, <1>6, <1>7 DEF Send

LEMMA ReturnBufferKeepsToken ==
  ASSUME TokenInv, NEW b \in Buffers, ReturnBuffer(b)
  PROVE  TokenInv'
<1> USE DEF TokenInv
<1>0. ActionThread \in Threads
  BY DEF Threads
<1>1. CASE ReturnBuffer(b)
  <2> USE <1>1 DEF ReturnBuffer
  <2>1. SemaphoreToken' /\ TokenHolder'
    BY <1>0, TokenKept DEF Begin, Idle, SetBuffer, Running, Labels
  <2>2. TypeOK'
    BY <1>0 DEF TypeOK, Begin, Idle, SetBuffer, Labels, Operations, Places, flags, queue, transit
  <2> QED BY <2>1, <2>2
<1> QED
  BY <1>1 DEF ReturnBuffer

LEMMA ReturnDoneKeepsToken ==
  ASSUME TokenInv, ReturnDone
  PROVE  TokenInv'
<1> USE DEF TokenInv
<1>0. ActionThread \in Threads
  BY DEF Threads
<1>1. CASE ReturnDone
  <2> USE <1>1 DEF ReturnDone
  <2>1. SemaphoreToken' /\ TokenHolder' /\ transit_buffer_headers' \in Int /\ transit_sema' \in {0, 1}
    BY <1>0, TokenKept DEF End, Begin, SetBuffer, Running, Labels
  <2>2. TypeOK'
    BY <1>0, <2>1 DEF TypeOK, End, Begin, SetBuffer, Labels, Operations, Places, flags, queue, headers
  <2> QED BY <2>1, <2>2
<1> QED
  BY <1>1 DEF ReturnDone

LEMMA WalkKeepsToken ==
  ASSUME TokenInv, NEW t \in Threads, Walk(t)
  PROVE  TokenInv'
<1> USE DEF TokenInv
<1>0. t \in Threads
  BY DEF Threads
<1>1. CASE Callback(t)
  <2> USE <1>1 DEF Callback
  <2>1. SemaphoreToken' /\ TokenHolder'
    BY <1>0, TokenKept DEF Goto, Running, Labels
  <2>2. buffer[t] \in Buffers \cup {NoBuffer}
    BY <1>0 DEF TypeOK
  <2>3. TypeOK'
    BY <1>0, <2>2, PoolPutType DEF TypeOK, Goto, Labels, Operations, Places, flags, queue, transit, locks
  <2> QED BY <2>1, <2>3
<1>2. CASE WalkNext(t)
  <2> USE <1>2 DEF WalkNext
  <2>1. SemaphoreToken' /\ TokenHolder'
    BY <1>0, TokenKept DEF Goto, Running, Labels
  <2>2. TypeOK'
    BY <1>0 DEF TypeOK, Goto, Labels, Operations, Places, flags, queue, transit, locks
  <2> QED BY <2>1, <2>2
<1>3. CASE WalkDone(t)
  <2> USE <1>3 DEF WalkDone
  <2>1. SemaphoreToken' /\ TokenHolder' /\ transit_buffer_headers' \in Int /\ transit_sema' \in {0, 1}
    BY <1>0, TokenKept DEF Goto, SetBuffer, Running, Labels
  <2>2. TypeOK'
    BY <1>0, <2>1 DEF TypeOK, Goto, SetBuffer, Labels, Operations, Places, flags, queue, locks, headers
  <2> QED BY <2>1, <2>2
<1> QED
  BY <1>1, <1>2, <1>3 DEF Walk

LEMMA EnableKeepsToken ==
  ASSUME TokenInv, NEW c \in Controllers, Enable(c)
  PROVE  TokenInv'
<1> USE DEF TokenInv
<1>0. c \in Threads
  BY DEF Threads
<1>1. CASE EnableStart(c)
  <2> USE <1>1 DEF EnableStart
  <2>1. SemaphoreToken' /\ TokenHolder'
    BY <1>0, TokenKept DEF Begin, Idle, Running, Labels
  <2>2. TypeOK'
    BY <1>0 DEF TypeOK, Begin, Idle, Labels, Operations, Places, queue, transit, headers
  <2> QED BY <2>1, <2>2
<1>2. CASE EnableDone(c)
  <2> USE <1>2 DEF EnableDone
  <2>1. SemaphoreToken' /\ TokenHolder'
    BY <1>0, TokenKept DEF End, Begin, Running, Labels
  <2>2. TypeOK'
    BY <1>0 DEF TypeOK, End, Begin, Labels, Operations, Places, queue, transit, headers
  <2> QED BY <2>1, <2>2
<1>3. CASE EnableFailed(c)
  <2> USE <1>3 DEF EnableFailed
  <2>1. SemaphoreToken' /\ TokenHolder'
    BY <1>0, TokenKept DEF End, Begin, Running, Labels
  <2>2. TypeOK'
    BY <1>0 DEF TypeOK, End, Begin, Labels, Operations, Places, flags, queue, transit, headers
  <2> QED BY <2>1, <2>2
<1> QED
  BY <1>1, <1>2, <1>3 DEF Enable

LEMMA FlushKeepsToken ==
  ASSUME TokenInv, NEW f \in Flushers, Flush(f)
  PROVE  TokenInv'
<1> USE DEF TokenInv
<1>0. f \in Threads
  BY DEF Threads
<1>1. CASE FlushStart(f)
  <2> USE <1>1 DEF FlushStart
  <2>1. SemaphoreToken' /\ TokenHolder'
    BY <1>0, TokenKept DEF Begin, Idle, Running, Labels
  <2>2. TypeOK'
    BY <1>0 DEF TypeOK, Begin, Idle, Labels, Operations, Places, flags, queue, transit, headers
  <2> QED BY <2>1, <2>2
<1>2. CASE FlushTake(f)
  <2> USE <1>2 DEF FlushTake
  <2>1. SemaphoreToken' /\ TokenHolder'
    BY <1>0, TokenKept DEF Goto, SetBuffer, EmptyQueue, Running, Labels
  <2>2. TypeOK'
    BY <1>0 DEF TypeOK, Goto, SetBuffer, EmptyQueue, Labels, Operations, Places, flags, transit, headers
  <2> QED BY <2>1, <2>2
<1>3. CASE FlushFailed(f)
  <2> USE <1>3 DEF FlushFailed
  <2>1. SemaphoreToken' /\ TokenHolder'
    BY <1>0, TokenKept DEF End, Begin, Running, Labels
  <2>2. TypeOK'
    BY <1>0 DEF TypeOK, End, Begin, Labels, Operations, Places, flags, queue, transit, headers
  <2> QED BY <2>1, <2>2
<1>4. CASE FlushEnd(f)
  <2> USE <1>4 DEF FlushEnd
  <2>1. SemaphoreToken' /\ TokenHolder'
    BY <1>0, TokenKept DEF End, Begin, Running, Labels
  <2>2. TypeOK'
    BY <1>0 DEF TypeOK, End, Begin, Labels, Operations, Places, flags, queue, transit, locks, headers
  <2> QED BY <2>1, <2>2
<1> QED
  BY <1>1, <1>2, <1>3, <1>4 DEF Flush

LEMMA DisableKeepsToken ==
  ASSUME TokenInv, NEW c \in Controllers, DisableStart(c) \/ DisableGoesOn(c)
  PROVE  TokenInv'
<1> USE DEF TokenInv
<1>0. c \in Threads
  BY DEF Threads
<1>1. CASE DisableStart(c)
  <2> USE <1>1 DEF DisableStart
  <2>1. SemaphoreToken' /\ TokenHolder'
    BY <1>0, TokenKept DEF Begin, Idle, Running, Labels
  <2>2. TypeOK'
    BY <1>0 DEF TypeOK, Begin, Labels, Operations, flags, queue, transit, headers
  <2> QED BY <2>1, <2>2
<1>2. CASE DisableOff(c)
  <2> USE <1>2 DEF DisableOff
  <2>1. SemaphoreToken' /\ TokenHolder'
    BY <1>0, TokenKept DEF Goto, Running, Labels
  <2>2. TypeOK'
    BY <1>0 DEF TypeOK, Goto, Labels, queue, transit, locks, headers
  <2> QED BY <2>1, <2>2
<1>3. CASE DisableStop(c)
  <2> USE <1>3 DEF DisableStop
  <2>1. SemaphoreToken' /\ TokenHolder'
    BY <1>0, TokenKept DEF Goto, Running, Labels
  <2>2. TypeOK'
    BY <1>0 DEF TypeOK, Goto, Labels, flags, queue, transit, locks, headers
  <2> QED BY <2>1, <2>2
<1>4. CASE DisableRestore(c)
  <2> USE <1>4 DEF DisableRestore
  <2>1. SemaphoreToken' /\ TokenHolder'
    BY <1>0, TokenKept DEF End, Begin, Running, Labels
  <2>2. TypeOK'
    BY <1>0 DEF TypeOK, End, Begin, Labels, Operations, queue, transit, headers
  <2> QED BY <2>1, <2>2
<1>5. CASE DisableTake(c)
  <2> USE <1>5 DEF DisableTake
  <2>1. SemaphoreToken' /\ TokenHolder'
    BY <1>0, TokenKept DEF Goto, Running, Labels
  <2>2. TypeOK'
    BY <1>0 DEF TypeOK, Goto, SetBuffer, Labels, flags, queue, transit, locks, headers
  <2> QED BY <2>1, <2>2
<1>6. CASE DisableEmpty(c)
  <2> USE <1>6 DEF DisableEmpty
  <2>1. SemaphoreToken' /\ TokenHolder'
    BY <1>0, TokenKept DEF Goto, Running, Labels
  <2>2. TypeOK'
    BY <1>0 DEF TypeOK, Goto, EmptyQueue, Labels, flags, transit, locks, headers
  <2> QED BY <2>1, <2>2
<1>7. CASE DisableWait(c)
  <2> USE <1>7 DEF DisableWait
  <2>1. /\ transit_sema = 1 /\ transit_sema' = 0
        /\ transit_buffer_headers <= 0
        /\ \A u \in Threads : pc[u] # "post"
    BY DEF SemaphoreToken, TypeOK
  <2>2. \A u \in Threads : pc'[u] = "post" <=> u = c
    BY <1>0, <2>1 DEF Goto, TypeOK
  <2>3. SemaphoreToken' /\ TokenHolder'
    BY <1>0, <2>1, <2>2 DEF SemaphoreToken, TokenHolder
  <2>4. TypeOK'
    BY <1>0, <2>1 DEF TypeOK, Goto, Labels, flags, queue, locks, headers
  <2> QED BY <2>3, <2>4
<1>8. CASE DisablePost(c)
  <2> USE <1>8 DEF DisablePost
  <2>1. /\ transit_sema = 0 /\ transit_sema' = 1
        /\ transit_buffer_headers <= 0
    BY <1>0 DEF SemaphoreToken, TokenHolder, Running, TypeOK
  <2>2. \A u \in Threads : pc'[u] # "post"
    BY <1>0 DEF TokenHolder, Running, Goto, TypeOK
  <2>3. SemaphoreToken' /\ TokenHolder'
    BY <2>1, <2>2 DEF SemaphoreToken, TokenHolder
  <2>4. TypeOK'
    BY <1>0, <2>1 DEF TypeOK, Goto, Labels, flags, queue, locks, headers
  <2> QED BY <2>3, <2>4
<1>9. CASE DisableClear(c)
  <2> USE <1>9 DEF DisableClear
  <2>1. SemaphoreToken' /\ TokenHolder'
    BY <1>0, TokenKept DEF End, Begin, Running, Labels
  <2>2. TypeOK'
    BY <1>0 DEF TypeOK, End, Begin, Labels, Operations, queue, transit, headers
  <2> QED BY <2>1, <2>2
<1> QED
  BY <1>1, <1>2, <1>3, <1>4, <1>5, <1>6, <1>7, <1>8, <1>9 DEF DisableGoesOn

LEMMA PauseKeepsToken ==
  ASSUME TokenInv, NEW p \in Pausers, PauseOrResume(p)
  PROVE  TokenInv'
<1> USE DEF TokenInv
<1>0. p \in Threads
  BY DEF Threads
<1>1. CASE Pause(p) \/ ResumeDisabled(p)
  <2>1. SemaphoreToken' /\ TokenHolder'
    BY <1>1 DEF Pause, ResumeDisabled, SemaphoreToken, TokenHolder, transit, control
  <2>2. TypeOK'
    BY <1>1 DEF Pause, ResumeDisabled, TypeOK, queue, transit, locks, headers, control
  <2> QED BY <2>1, <2>2
<1>2. CASE ResumeStart(p)
  <2> USE <1>2 DEF ResumeStart
  <2>1. SemaphoreToken' /\ TokenHolder'
    BY <1>0, TokenKept DEF Begin, Idle, Running, Labels
  <2>2. TypeOK'
    BY <1>0 DEF TypeOK, Begin, SetBuffer, Labels, Operations, flags, queue, transit, headers
  <2> QED BY <2>1, <2>2
<1>3. CASE ResumeSend(p)
  <2> USE <1>3 DEF ResumeSend
  <2>1. SemaphoreToken' /\ TokenHolder'
    BY DEF SemaphoreToken, TokenHolder, transit
  <2>2. buffer[p] \in Buffers
    BY <1>0 DEF TypeOK
  <2>3. TypeOK'
    BY <1>0, <2>2 DEF TypeOK, SetBuffer, Places, flags, queue, transit, locks
  <2> QED BY <2>1, <2>3
<1>4. CASE ResumeFailed(p)
  <2> USE <1>4 DEF ResumeFailed
  <2>1. SemaphoreToken' /\ TokenHolder'
    BY <1>0, TokenKept DEF End, Begin, Running, Labels
  <2>2. TypeOK'
    BY <1>0 DEF TypeOK, End, Begin, SetBuffer, Labels, Operations, flags, transit, headers
  <2> QED BY <2>1, <2>2
<1>5. CASE ResumeEnd(p)
  <2> USE <1>5 DEF ResumeEnd
  <2>1. SemaphoreToken' /\ TokenHolder'
    BY <1>0, TokenKept DEF End, Begin, Running, Labels
  <2>2. TypeOK'
    BY <1>0 DEF TypeOK, End, Begin, EmptyQueue, Labels, Operations, transit, headers
  <2> QED BY <2>1, <2>2
<1> QED
  BY <1>1, <1>2, <1>3, <1>4, <1>5 DEF PauseOrResume

LEMMA TokenStep == TokenInv /\ [Next]_vars => TokenInv'
<1> SUFFICES ASSUME TokenInv, [Next]_vars PROVE TokenInv'
  OBVIOUS
<1>1. CASE Next
  BY <1>1, SendKeepsToken, ReturnBufferKeepsToken, ReturnDoneKeepsToken, WalkKeepsToken,
     EnableKeepsToken, DisableKeepsToken, FlushKeepsToken, PauseKeepsToken
     DEF Next, Return
<1>2. CASE UNCHANGED vars
  BY <1>2 DEF vars, TokenInv, TypeOK, SemaphoreToken, TokenHolder, flags, queue, transit,
     locks, headers, control
<1> QED BY <1>1, <1>2

\* Whatever the threads do, every variable keeps its type; in particular the in-transit
\* semaphore never exceeds one (mmal_port.c:135-149).
THEOREM TypeCorrect == Spec => []TypeOK
<1>1. TokenInv => TypeOK
  BY DEF TokenInv
<1> QED
  BY <1>1, TokenInit, TokenStep, PTL DEF Spec

\* The semaphore IN_TRANSIT_WAIT waits for is there exactly when nothing is in transit
\* or a disable has just taken it: for any number of threads, pools and buffers, and
\* even where the counter has gone wrong.
THEOREM TokenCorrect == Spec => []SemaphoreToken
<1>1. TokenInv => SemaphoreToken
  BY DEF TokenInv
<1> QED
  BY <1>1, TokenInit, TokenStep, PTL DEF Spec


-----------------------------------------------------------------------------
(* The obligation: a header taken from a pool has no successor, and one    *)
(* thread only disables and flushes the port.                              *)
CleanClient ==
  /\ IsFiniteSet(Buffers) /\ IsFiniteSet(Threads)
  /\ \A p \in Pools : \E b \in Buffers : Headers[p] = <<b>>
  /\ \A p, q \in Pools : Headers[p] = Headers[q] => p = q
  /\ \A t, u \in Controllers \cup Flushers : t = u

-----------------------------------------------------------------------------
(* The inductive invariant, in parts.                                      *)

\* Who runs which operation, and the labels of each operation.
Roles ==
  \A t \in Threads :
    /\ op[t] = "none" <=> pc[t] = "idle"
    /\ op[t] = "send" => t \in Senders /\ pc[t] \in {"start", "deliver", "unlock"}
    /\ op[t] = "enable" => t \in Controllers /\ pc[t] = "enable"
    /\ op[t] = "disable" => t \in Controllers /\ pc[t] \in
         {"off", "stop", "restore", "take", "walk", "callback", "decrement", "wait",
          "post", "clear"}
    /\ op[t] = "flush" => t \in Flushers /\ pc[t] \in {"flush", "walk", "callback", "decrement"}
    /\ op[t] = "resume" => t \in Pausers /\ pc[t] = "resend"
    /\ op[t] = "return" => t = ActionThread /\ pc[t] \in {"callback", "decrement"}
    /\ op[t] # "event"

\* What the locks protect: the port is enabled while somebody sends under the
\* sending lock, and disabled while a disable is past its first step.
Locks ==
  \A t \in Threads :
    /\ op[t] \in {"enable", "disable"} => port_lock = t
    /\ pc[t] \in {"deliver", "unlock", "resend"} => send_lock = t /\ is_enabled
    /\ op[t] = "disable" => (is_enabled <=> pc[t] = "off")
    /\ op[t] = "enable" => ~is_enabled

\* The callback is there while the port is enabled or changing, and while a buffer is in
\* transit; nothing is in transit once a disable has had the semaphore.
Callbacks ==
  /\ is_enabled => callback
  /\ transit_buffer_headers # 0 => callback
  /\ \A t \in Threads :
       /\ op[t] \in {"enable", "disable"} => callback
       /\ pc[t] \in {"post", "clear"} => transit_buffer_headers = 0

\* A buffer is in one place: in its pool, with one sender, in the port, or with one
\* thread that returns it; its link is null while it is in the pool or with the sender.
Ownership ==
  /\ \A t \in Threads :
       /\ pc[t] \in {"start", "deliver"} => buffer[t] \in Buffers /\ at[buffer[t]] = "sender"
       /\ pc[t] = "callback" => buffer[t] \in Buffers /\ at[buffer[t]] = "callback"
  /\ \A t, u \in Threads :
       /\ t # u
       /\ pc[t] \in {"start", "deliver", "callback"}
       /\ pc[u] \in {"start", "deliver", "callback"}
       => buffer[t] # buffer[u]
  /\ \A b \in Buffers : at[b] \in {"pool", "sender"} => next[b] = NoBuffer

\* The queue of a pool holds its header, or nothing.
Pooled ==
  \A p \in Pools : \A b \in Buffers :
    Headers[p] = <<b>> => pool[p] = IF at[b] = "pool" THEN <<b>> ELSE <<>>

\* No queued buffer is linked to x.
Unlinked(x) == \A b \in Queued : next[b] # x

\* x heads the list M of the internal queue, whose last element is queue_last.
HeadOf(x, M) ==
  x # NoBuffer => x \in M /\ queue_last \in M /\ next[queue_last] = NoBuffer /\ Unlinked(x)

\* M is the set of the buffers on the internal queue.
ListOf(M) ==
  /\ M \subseteq Queued
  /\ \A b \in Queued : next[b] # NoBuffer => next[b] \in Queued /\ (b \in M <=> next[b] \in M)
  /\ \A a, b \in Queued : a # b /\ next[a] # NoBuffer => next[a] # next[b]
  /\ \A t \in Threads : Walking(t) /\ Cursor(t) # NoBuffer =>
       Cursor(t) \in Queued \ M /\ Unlinked(Cursor(t))
  /\ QueueIntact => HeadOf(queue_first, M) /\ (queue_first = NoBuffer => queue_last = NoBuffer)
  /\ \A t \in Threads : op[t] = "resume" => HeadOf(buffer[t], M)

Lists == \E M \in SUBSET Buffers : ListOf(M)

ContractInv ==
  /\ TokenInv /\ Roles /\ Locks /\ Callbacks
  /\ Ownership /\ Pooled /\ TransitAccount /\ Lists

-----------------------------------------------------------------------------
(* One lemma for each part: every step keeps it.                           *)

\* The steps of the port, one by one.
LEMMA NextCases ==
  ASSUME [Next]_vars
  PROVE  \/ \E s \in Senders : TakeFromPool(s) \/ SendRejected(s) \/ SendStart(s) \/
              SendQueued(s) \/ SendAccepted(s) \/ SendRefused(s) \/ SendEnd(s)
         \/ \E b \in Buffers : ReturnBuffer(b)
         \/ ReturnDone
         \/ \E t \in Threads : Callback(t) \/ WalkNext(t) \/ WalkDone(t)
         \/ \E c \in Controllers : EnableStart(c) \/ EnableDone(c) \/ EnableFailed(c) \/
              DisableStart(c) \/ DisableOff(c) \/ DisableStop(c) \/ DisableRestore(c) \/
              DisableTake(c) \/ DisableEmpty(c) \/ DisableWait(c) \/ DisablePost(c) \/
              DisableClear(c)
         \/ \E f \in Flushers : FlushStart(f) \/ FlushTake(f) \/ FlushFailed(f) \/ FlushEnd(f)
         \/ \E p \in Pausers : Pause(p) \/ ResumeDisabled(p) \/ ResumeStart(p) \/
              ResumeSend(p) \/ ResumeFailed(p) \/ ResumeEnd(p)
         \/ UNCHANGED vars
  BY DEF Next, Send, Return, Walk, Enable, DisableGoesOn, Flush, PauseOrResume

\* A thread stays within its role.
LEMMA RolesKept ==
  ASSUME TypeOK, Roles, [Next]_vars
  PROVE  Roles'
<1> USE DEF Roles, TypeOK, Threads
<1>1. ASSUME NEW s \in Senders, TakeFromPool(s) PROVE Roles'
  BY <1>1 DEF TakeFromPool, Begin, SetBuffer, Idle, flags, queue, transit, locks, Running
<1>2. ASSUME NEW s \in Senders, SendRejected(s) PROVE Roles'
  BY <1>2 DEF SendRejected, End, SetBuffer, Running, PoolPut, flags, queue, transit, locks,
     Begin
<1>3. ASSUME NEW s \in Senders, SendStart(s) PROVE Roles'
  BY <1>3 DEF SendStart, Goto, Running, Increment, CanIncrement, flags, queue, headers
<1>4. ASSUME NEW s \in Senders, SendQueued(s) PROVE Roles'
  BY <1>4 DEF SendQueued, Goto, Running, flags, queue, transit, locks
<1>5. ASSUME NEW s \in Senders, SendAccepted(s) PROVE Roles'
  BY <1>5 DEF SendAccepted, Goto, Running, flags, queue, transit, locks
<1>6. ASSUME NEW s \in Senders, SendRefused(s) PROVE Roles'
  BY <1>6 DEF SendRefused, End, SetBuffer, Running, Decrement, PoolPut, flags, queue, Begin
<1>7. ASSUME NEW s \in Senders, SendEnd(s) PROVE Roles'
  BY <1>7 DEF SendEnd, End, SetBuffer, Running, flags, queue, transit, headers, Begin
<1>8. ASSUME NEW b \in Buffers, ReturnBuffer(b) PROVE Roles'
  BY <1>8 DEF ReturnBuffer, Begin, SetBuffer, Idle, flags, queue, transit, Running
<1>9. ASSUME ReturnDone PROVE Roles'
  BY <1>9 DEF ReturnDone, End, SetBuffer, Running, Decrement, flags, queue, headers, Begin
<1>10. ASSUME NEW t \in Threads, Callback(t) PROVE Roles'
  BY <1>10 DEF Callback, Goto, PoolPut, flags, queue, transit, locks
<1>11. ASSUME NEW t \in Threads, WalkNext(t) PROVE Roles'
  BY <1>11 DEF WalkNext, Goto, flags, queue, transit, locks
<1>12. ASSUME NEW t \in Threads, WalkDone(t) PROVE Roles'
  BY <1>12 DEF WalkDone, Goto, SetBuffer, Decrement, flags, queue, locks, headers
<1>13. ASSUME NEW c \in Controllers, EnableStart(c) PROVE Roles'
  BY <1>13 DEF EnableStart, Begin, Idle, queue, transit, headers, Running
<1>14. ASSUME NEW c \in Controllers, EnableDone(c) PROVE Roles'
  BY <1>14 DEF EnableDone, End, Running, queue, transit, headers, Begin
<1>15. ASSUME NEW c \in Controllers, EnableFailed(c) PROVE Roles'
  BY <1>15 DEF EnableFailed, End, Running, flags, queue, transit, headers, Begin
<1>16. ASSUME NEW c \in Controllers, DisableStart(c) PROVE Roles'
  BY <1>16 DEF DisableStart, Begin, Idle, flags, queue, transit, headers, Running
<1>17. ASSUME NEW c \in Controllers, DisableOff(c) PROVE Roles'
  BY <1>17 DEF DisableOff, Goto, Running, queue, transit, locks, headers
<1>18. ASSUME NEW c \in Controllers, DisableStop(c) PROVE Roles'
  BY <1>18 DEF DisableStop, Goto, Running, flags, queue, transit, locks, headers
<1>19. ASSUME NEW c \in Controllers, DisableRestore(c) PROVE Roles'
  BY <1>19 DEF DisableRestore, End, Running, queue, transit, headers, Begin
<1>20. ASSUME NEW c \in Controllers, DisableTake(c) PROVE Roles'
  BY <1>20 DEF DisableTake, Goto, SetBuffer, Running, flags, queue, transit, locks, headers
<1>21. ASSUME NEW c \in Controllers, DisableEmpty(c) PROVE Roles'
  BY <1>21 DEF DisableEmpty, Goto, Running, EmptyQueue, flags, transit, locks, headers
<1>22. ASSUME NEW c \in Controllers, DisableWait(c) PROVE Roles'
  BY <1>22 DEF DisableWait, Goto, Running, flags, queue, locks, headers
<1>23. ASSUME NEW c \in Controllers, DisablePost(c) PROVE Roles'
  BY <1>23 DEF DisablePost, Goto, Running, flags, queue, locks, headers
<1>24. ASSUME NEW c \in Controllers, DisableClear(c) PROVE Roles'
  BY <1>24 DEF DisableClear, End, Running, queue, transit, headers, Begin
<1>25. ASSUME NEW f \in Flushers, FlushStart(f) PROVE Roles'
  BY <1>25 DEF FlushStart, Begin, Idle, flags, queue, transit, headers, Running
<1>26. ASSUME NEW f \in Flushers, FlushTake(f) PROVE Roles'
  BY <1>26 DEF FlushTake, Goto, SetBuffer, Running, EmptyQueue, flags, transit, headers
<1>27. ASSUME NEW f \in Flushers, FlushFailed(f) PROVE Roles'
  BY <1>27 DEF FlushFailed, End, Running, flags, queue, transit, headers, Begin
<1>28. ASSUME NEW f \in Flushers, FlushEnd(f) PROVE Roles'
  BY <1>28 DEF FlushEnd, End, Running, flags, queue, transit, locks, headers, Begin
<1>29. ASSUME NEW p \in Pausers, Pause(p) PROVE Roles'
  BY <1>29 DEF Pause, Idle, queue, transit, locks, headers, control, Running
<1>30. ASSUME NEW p \in Pausers, ResumeDisabled(p) PROVE Roles'
  BY <1>30 DEF ResumeDisabled, Idle, queue, transit, locks, headers, control, Running
<1>31. ASSUME NEW p \in Pausers, ResumeStart(p) PROVE Roles'
  BY <1>31 DEF ResumeStart, Begin, SetBuffer, Idle, flags, queue, transit, headers, Running
<1>32. ASSUME NEW p \in Pausers, ResumeSend(p) PROVE Roles'
  BY <1>32 DEF ResumeSend, SetBuffer, Running, flags, queue, transit, locks
<1>33. ASSUME NEW p \in Pausers, ResumeFailed(p) PROVE Roles'
  BY <1>33 DEF ResumeFailed, End, SetBuffer, Running, flags, transit, headers, Begin
<1>34. ASSUME NEW p \in Pausers, ResumeEnd(p) PROVE Roles'
  BY <1>34 DEF ResumeEnd, End, Running, EmptyQueue, transit, headers, Begin
<1>35. ASSUME UNCHANGED vars PROVE Roles'
  BY <1>35 DEF vars, flags, queue, transit, locks, headers, control
<1> QED
  BY <1>1, <1>2, <1>3, <1>4, <1>5, <1>6, <1>7, <1>8, <1>9, <1>10, <1>11, <1>12, <1>13, <1>14,
     <1>15, <1>16, <1>17, <1>18, <1>19, <1>20, <1>21, <1>22, <1>23, <1>24, <1>25, <1>26, <1>27,
     <1>28, <1>29, <1>30, <1>31, <1>32, <1>33, <1>34, <1>35, NextCases

\* The locks exclude what they should.
LEMMA LocksKept ==
  ASSUME TypeOK, Roles, Locks, [Next]_vars
  PROVE  Locks'
<1>0. NoThread \notin Threads
  BY ConstantsAssumption
<1> USE <1>0
<1> USE DEF Locks, Roles, TypeOK, Threads
<1>1. ASSUME NEW s \in Senders, TakeFromPool(s) PROVE Locks'
  BY <1>1 DEF TakeFromPool, Begin, SetBuffer, Idle, flags, queue, transit, locks, Running
<1>2. ASSUME NEW s \in Senders, SendRejected(s) PROVE Locks'
  BY <1>2 DEF SendRejected, End, SetBuffer, Running, PoolPut, flags, queue, transit, locks,
     Begin
<1>3. ASSUME NEW s \in Senders, SendStart(s) PROVE Locks'
  BY <1>3 DEF SendStart, Goto, Running, Increment, CanIncrement, flags, queue, headers
<1>4. ASSUME NEW s \in Senders, SendQueued(s) PROVE Locks'
  BY <1>4 DEF SendQueued, Goto, Running, flags, queue, transit, locks
<1>5. ASSUME NEW s \in Senders, SendAccepted(s) PROVE Locks'
  BY <1>5 DEF SendAccepted, Goto, Running, flags, queue, transit, locks
<1>6. ASSUME NEW s \in Senders, SendRefused(s) PROVE Locks'
  BY <1>6 DEF SendRefused, End, SetBuffer, Running, Decrement, PoolPut, flags, queue, Begin
<1>7. ASSUME NEW s \in Senders, SendEnd(s) PROVE Locks'
  BY <1>7 DEF SendEnd, End, SetBuffer, Running, flags, queue, transit, headers, Begin
<1>8. ASSUME NEW b \in Buffers, ReturnBuffer(b) PROVE Locks'
  BY <1>8 DEF ReturnBuffer, Begin, SetBuffer, Idle, flags, queue, transit, Running
<1>9. ASSUME ReturnDone PROVE Locks'
  BY <1>9 DEF ReturnDone, End, SetBuffer, Running, Decrement, flags, queue, headers, Begin
<1>10. ASSUME NEW t \in Threads, Callback(t) PROVE Locks'
  BY <1>10 DEF Callback, Goto, PoolPut, flags, queue, transit, locks
<1>11. ASSUME NEW t \in Threads, WalkNext(t) PROVE Locks'
  BY <1>11 DEF WalkNext, Goto, flags, queue, transit, locks
<1>12. ASSUME NEW t \in Threads, WalkDone(t) PROVE Locks'
  BY <1>12 DEF WalkDone, Goto, SetBuffer, Decrement, flags, queue, locks, headers
<1>13. ASSUME NEW c \in Controllers, EnableStart(c) PROVE Locks'
  BY <1>13 DEF EnableStart, Begin, Idle, queue, transit, headers, Running
<1>14. ASSUME NEW c \in Controllers, EnableDone(c) PROVE Locks'
  BY <1>14 DEF EnableDone, End, Running, queue, transit, headers, Begin
<1>15. ASSUME NEW c \in Controllers, EnableFailed(c) PROVE Locks'
  BY <1>15 DEF EnableFailed, End, Running, flags, queue, transit, headers, Begin
<1>16. ASSUME NEW c \in Controllers, DisableStart(c) PROVE Locks'
  BY <1>16 DEF DisableStart, Begin, Idle, flags, queue, transit, headers, Running
<1>17. ASSUME NEW c \in Controllers, DisableOff(c) PROVE Locks'
  BY <1>17 DEF DisableOff, Goto, Running, queue, transit, locks, headers
<1>18. ASSUME NEW c \in Controllers, DisableStop(c) PROVE Locks'
  BY <1>18 DEF DisableStop, Goto, Running, flags, queue, transit, locks, headers
<1>19. ASSUME NEW c \in Controllers, DisableRestore(c) PROVE Locks'
  BY <1>19 DEF DisableRestore, End, Running, queue, transit, headers, Begin
<1>20. ASSUME NEW c \in Controllers, DisableTake(c) PROVE Locks'
  BY <1>20 DEF DisableTake, Goto, SetBuffer, Running, flags, queue, transit, locks, headers
<1>21. ASSUME NEW c \in Controllers, DisableEmpty(c) PROVE Locks'
  BY <1>21 DEF DisableEmpty, Goto, Running, EmptyQueue, flags, transit, locks, headers
<1>22. ASSUME NEW c \in Controllers, DisableWait(c) PROVE Locks'
  BY <1>22 DEF DisableWait, Goto, Running, flags, queue, locks, headers
<1>23. ASSUME NEW c \in Controllers, DisablePost(c) PROVE Locks'
  BY <1>23 DEF DisablePost, Goto, Running, flags, queue, locks, headers
<1>24. ASSUME NEW c \in Controllers, DisableClear(c) PROVE Locks'
  BY <1>24 DEF DisableClear, End, Running, queue, transit, headers, Begin
<1>25. ASSUME NEW f \in Flushers, FlushStart(f) PROVE Locks'
  BY <1>25 DEF FlushStart, Begin, Idle, flags, queue, transit, headers, Running
<1>26. ASSUME NEW f \in Flushers, FlushTake(f) PROVE Locks'
  BY <1>26 DEF FlushTake, Goto, SetBuffer, Running, EmptyQueue, flags, transit, headers
<1>27. ASSUME NEW f \in Flushers, FlushFailed(f) PROVE Locks'
  BY <1>27 DEF FlushFailed, End, Running, flags, queue, transit, headers, Begin
<1>28. ASSUME NEW f \in Flushers, FlushEnd(f) PROVE Locks'
  BY <1>28 DEF FlushEnd, End, Running, flags, queue, transit, locks, headers, Begin
<1>29. ASSUME NEW p \in Pausers, Pause(p) PROVE Locks'
  BY <1>29 DEF Pause, Idle, queue, transit, locks, headers, control, Running
<1>30. ASSUME NEW p \in Pausers, ResumeDisabled(p) PROVE Locks'
  BY <1>30 DEF ResumeDisabled, Idle, queue, transit, locks, headers, control, Running
<1>31. ASSUME NEW p \in Pausers, ResumeStart(p) PROVE Locks'
  BY <1>31 DEF ResumeStart, Begin, SetBuffer, Idle, flags, queue, transit, headers, Running
<1>32. ASSUME NEW p \in Pausers, ResumeSend(p) PROVE Locks'
  BY <1>32 DEF ResumeSend, SetBuffer, Running, flags, queue, transit, locks
<1>33. ASSUME NEW p \in Pausers, ResumeFailed(p) PROVE Locks'
  BY <1>33 DEF ResumeFailed, End, SetBuffer, Running, flags, transit, headers, Begin
<1>34. ASSUME NEW p \in Pausers, ResumeEnd(p) PROVE Locks'
  BY <1>34 DEF ResumeEnd, End, Running, EmptyQueue, transit, headers, Begin
<1>35. ASSUME UNCHANGED vars PROVE Locks'
  BY <1>35 DEF vars, flags, queue, transit, locks, headers, control
<1> QED
  BY <1>1, <1>2, <1>3, <1>4, <1>5, <1>6, <1>7, <1>8, <1>9, <1>10, <1>11, <1>12, <1>13, <1>14,
     <1>15, <1>16, <1>17, <1>18, <1>19, <1>20, <1>21, <1>22, <1>23, <1>24, <1>25, <1>26, <1>27,
     <1>28, <1>29, <1>30, <1>31, <1>32, <1>33, <1>34, <1>35, NextCases

-----------------------------------------------------------------------------
(* What taking a header from a pool and putting it back do.                *)

\* A sender takes a header that is in its pool.
LEMMA TakeEffect ==
  ASSUME CleanClient, TypeOK, Pooled, NEW s \in Senders, TakeFromPool(s)
  PROVE  /\ Pooled'
         /\ \E b \in Buffers : /\ at[b] = "pool"
                               /\ at' = [at EXCEPT ![b] = "sender"]
                               /\ buffer' = [buffer EXCEPT ![s] = b]
<1>1. PICK p \in Pools :
        /\ pool[p] # <<>>
        /\ pool' = [pool EXCEPT ![p] = Tail(@)]
        /\ at' = [at EXCEPT ![Head(pool[p])] = "sender"]
        /\ SetBuffer(s, Head(pool[p]))
  BY DEF TakeFromPool
<1>2. PICK b \in Buffers : Headers[p] = <<b>>
  BY DEF CleanClient
<1>3. pool[p] = <<b>> /\ at[b] = "pool"
  BY <1>1, <1>2 DEF Pooled
<1>4. Head(pool[p]) = b /\ Tail(pool[p]) = <<>>
  BY <1>3
<1>5. Pooled'
  <2> SUFFICES ASSUME NEW q \in Pools, NEW c \in Buffers, Headers[q] = <<c>>
               PROVE  pool'[q] = IF at'[c] = "pool" THEN <<c>> ELSE <<>>
    BY DEF Pooled
  <2>1. CASE q = p
    <3>1. c = b
      BY <2>1, <1>2
    <3> QED BY <3>1, <2>1, <1>1, <1>4 DEF TypeOK
  <2>2. CASE q # p
    <3>1. c # b
      BY <2>2, <1>2 DEF CleanClient
    <3> QED BY <3>1, <2>2, <1>1, <1>4 DEF TypeOK, Pooled
  <2> QED BY <2>1, <2>2
<1> QED
  BY <1>1, <1>3, <1>4, <1>5 DEF SetBuffer

\* A header put back is in its pool again, unlinked.
LEMMA PutEffect ==
  ASSUME CleanClient, TypeOK, Pooled, NEW b \in Buffers, at[b] # "pool", PoolPut(b)
  PROVE  /\ Pooled'
         /\ at' = [at EXCEPT ![b] = "pool"]
         /\ next' = [next EXCEPT ![b] = NoBuffer]
<1>1. PICK p \in Pools :
        /\ \E i \in 1 .. Len(Headers[p]) : Headers[p][i] = b
        /\ pool' = [pool EXCEPT ![p] = Append(@, b)]
        /\ next' = [x \in Buffers |->
                      IF x = b THEN NoBuffer
                      ELSE IF pool[p] # <<>> /\ x = pool[p][Len(pool[p])] THEN b
                      ELSE next[x]]
        /\ at' = [at EXCEPT ![b] = "pool"]
  BY DEF PoolPut
<1>2. Headers[p] = <<b>>
  <2>1. PICK c \in Buffers : Headers[p] = <<c>>
    BY DEF CleanClient
  <2>2. PICK i \in 1 .. Len(Headers[p]) : Headers[p][i] = b
    BY <1>1
  <2> QED BY <2>1, <2>2
<1>3. pool[p] = <<>>
  BY <1>2 DEF Pooled
<1>4. Append(<<>>, b) = <<b>>
  OBVIOUS
<1>5. Pooled'
  <2> SUFFICES ASSUME NEW q \in Pools, NEW c \in Buffers, Headers[q] = <<c>>
               PROVE  pool'[q] = IF at'[c] = "pool" THEN <<c>> ELSE <<>>
    BY DEF Pooled
  <2>1. CASE q = p
    <3>1. c = b
      BY <2>1, <1>2
    <3> QED BY <3>1, <2>1, <1>1, <1>3, <1>4 DEF TypeOK
  <2>2. CASE q # p
    <3>1. c # b
      BY <2>2, <1>2 DEF CleanClient
    <3> QED BY <3>1, <2>2, <1>1 DEF TypeOK, Pooled
  <2> QED BY <2>1, <2>2
<1> QED
  BY <1>1, <1>3, <1>5 DEF TypeOK

\* While a send is under way nobody resumes the port or walks its queue in a disable.
LEMMA IntactWhileSending ==
  ASSUME TypeOK, Roles, Locks, NEW s \in Threads, op[s] = "send", pc[s] = "deliver"
  PROVE  QueueIntact
BY DEF TypeOK, Roles, Locks, QueueIntact, Walking

\* The buffer a thread takes from the internal queue, in a walk or a resume, is queued.
LEMMA WalkedIsQueued ==
  ASSUME TypeOK, Roles, Lists, NEW t \in Threads, buffer[t] # NoBuffer,
         op[t] = "resume" \/ pc[t] = "walk"
  PROVE  buffer[t] \in Queued
<1>1. PICK M \in SUBSET Buffers : ListOf(M)
  BY DEF Lists
<1>2. CASE op[t] = "resume"
  BY <1>1, <1>2 DEF ListOf, HeadOf
<1>3. CASE pc[t] = "walk"
  BY <1>1, <1>3 DEF ListOf, Walking, Cursor, Roles, TypeOK, Operations
<1> QED BY <1>2, <1>3

\* A buffer has one owner: sends, returns, walks and resumes hand it over.
LEMMA OwnershipKept ==
  ASSUME CleanClient, TypeOK, Roles, Locks, Lists, Ownership, Pooled, [Next]_vars
  PROVE  (Ownership /\ Pooled)'
<1> USE DEF Ownership, Pooled, TypeOK, Threads
<1>1. ASSUME NEW s \in Senders, TakeFromPool(s) PROVE (Ownership /\ Pooled)'
  <2>1. PICK b \in Buffers : /\ at[b] = "pool"
                             /\ at' = [at EXCEPT ![b] = "sender"]
                             /\ buffer' = [buffer EXCEPT ![s] = b]
    BY <1>1, TakeEffect
  <2>2. Pooled'
    BY <1>1, TakeEffect
  <2>3. pc[s] = "idle" /\ pc' = [pc EXCEPT ![s] = "start"] /\ UNCHANGED next
    BY <1>1 DEF TakeFromPool, Begin, Idle, Running
  <2> QED BY <2>1, <2>2, <2>3
<1>2. ASSUME NEW s \in Senders, SendRejected(s) PROVE (Ownership /\ Pooled)'
  <2>1. buffer[s] \in Buffers /\ at[buffer[s]] = "sender"
    BY <1>2 DEF SendRejected, Running
  <2>2. /\ Pooled'
        /\ at' = [at EXCEPT ![buffer[s]] = "pool"]
        /\ next' = [next EXCEPT ![buffer[s]] = NoBuffer]
    BY <1>2, <2>1, PutEffect DEF SendRejected
  <2> QED BY <1>2, <2>1, <2>2 DEF SendRejected, End, Begin, SetBuffer, Running
<1>3. ASSUME NEW s \in Senders, SendStart(s) PROVE (Ownership /\ Pooled)'
  BY <1>3 DEF SendStart, Goto, Running, Increment, CanIncrement, flags, queue, headers
<1>4. ASSUME NEW s \in Senders, SendQueued(s) PROVE (Ownership /\ Pooled)'
  <2>1. queue_last # NoBuffer => queue_last \in Queued
    BY <1>4, IntactWhileSending DEF SendQueued, Running, Lists, ListOf, HeadOf
  <2> QED BY <1>4, <2>1 DEF SendQueued, Goto, Running, Queued, Pooled, flags, transit, locks
<1>5. ASSUME NEW s \in Senders, SendAccepted(s) PROVE (Ownership /\ Pooled)'
  BY <1>5 DEF SendAccepted, Goto, Running, flags, queue, transit, locks
<1>6. ASSUME NEW s \in Senders, SendRefused(s) PROVE (Ownership /\ Pooled)'
  <2>1. buffer[s] \in Buffers /\ at[buffer[s]] = "sender"
    BY <1>6 DEF SendRefused, Running
  <2>2. /\ Pooled'
        /\ at' = [at EXCEPT ![buffer[s]] = "pool"]
        /\ next' = [next EXCEPT ![buffer[s]] = NoBuffer]
    BY <1>6, <2>1, PutEffect DEF SendRefused
  <2> QED BY <1>6, <2>1, <2>2 DEF SendRefused, End, Begin, SetBuffer, Running
<1>7. ASSUME NEW s \in Senders, SendEnd(s) PROVE (Ownership /\ Pooled)'
  BY <1>7 DEF SendEnd, End, SetBuffer, Running, flags, queue, transit, headers, Begin
<1>8. ASSUME NEW b \in Buffers, ReturnBuffer(b) PROVE (Ownership /\ Pooled)'
  BY <1>8 DEF ReturnBuffer, Begin, SetBuffer, Idle, flags, queue, transit, Running
<1>9. ASSUME ReturnDone PROVE (Ownership /\ Pooled)'
  BY <1>9 DEF ReturnDone, End, SetBuffer, Running, Decrement, flags, queue, headers, Begin
<1>10. ASSUME NEW t \in Threads, Callback(t) PROVE (Ownership /\ Pooled)'
  <2>1. buffer[t] \in Buffers /\ at[buffer[t]] = "callback"
    BY <1>10 DEF Callback
  <2>2. /\ Pooled'
        /\ at' = [at EXCEPT ![buffer[t]] = "pool"]
        /\ next' = [next EXCEPT ![buffer[t]] = NoBuffer]
    BY <1>10, <2>1, PutEffect DEF Callback
  <2> QED BY <1>10, <2>1, <2>2 DEF Callback, Goto
<1>11. ASSUME NEW t \in Threads, WalkNext(t) PROVE (Ownership /\ Pooled)'
  <2>1. buffer[t] \in Queued
    BY <1>11, WalkedIsQueued DEF WalkNext
  <2> QED BY <1>11, <2>1 DEF WalkNext, Goto, Queued, flags, queue, transit, locks
<1>12. ASSUME NEW t \in Threads, WalkDone(t) PROVE (Ownership /\ Pooled)'
  BY <1>12 DEF WalkDone, Goto, SetBuffer, Decrement, flags, queue, locks, headers
<1>13. ASSUME NEW c \in Controllers, EnableStart(c) PROVE (Ownership /\ Pooled)'
  BY <1>13 DEF EnableStart, Begin, Idle, queue, transit, headers, Running
<1>14. ASSUME NEW c \in Controllers, EnableDone(c) PROVE (Ownership /\ Pooled)'
  BY <1>14 DEF EnableDone, End, Running, queue, transit, headers, Begin
<1>15. ASSUME NEW c \in Controllers, EnableFailed(c) PROVE (Ownership /\ Pooled)'
  BY <1>15 DEF EnableFailed, End, Running, flags, queue, transit, headers, Begin
<1>16. ASSUME NEW c \in Controllers, DisableStart(c) PROVE (Ownership /\ Pooled)'
  BY <1>16 DEF DisableStart, Begin, Idle, flags, queue, transit, headers, Running
<1>17. ASSUME NEW c \in Controllers, DisableOff(c) PROVE (Ownership /\ Pooled)'
  BY <1>17 DEF DisableOff, Goto, Running, queue, transit, locks, headers
<1>18. ASSUME NEW c \in Controllers, DisableStop(c) PROVE (Ownership /\ Pooled)'
  BY <1>18 DEF DisableStop, Goto, Running, flags, queue, transit, locks, headers
<1>19. ASSUME NEW c \in Controllers, DisableRestore(c) PROVE (Ownership /\ Pooled)'
  BY <1>19 DEF DisableRestore, End, Running, queue, transit, headers, Begin
<1>20. ASSUME NEW c \in Controllers, DisableTake(c) PROVE (Ownership /\ Pooled)'
  BY <1>20 DEF DisableTake, Goto, SetBuffer, Running, flags, queue, transit, locks, headers
<1>21. ASSUME NEW c \in Controllers, DisableEmpty(c) PROVE (Ownership /\ Pooled)'
  BY <1>21 DEF DisableEmpty, Goto, Running, EmptyQueue, flags, transit, locks, headers
<1>22. ASSUME NEW c \in Controllers, DisableWait(c) PROVE (Ownership /\ Pooled)'
  BY <1>22 DEF DisableWait, Goto, Running, flags, queue, locks, headers
<1>23. ASSUME NEW c \in Controllers, DisablePost(c) PROVE (Ownership /\ Pooled)'
  BY <1>23 DEF DisablePost, Goto, Running, flags, queue, locks, headers
<1>24. ASSUME NEW c \in Controllers, DisableClear(c) PROVE (Ownership /\ Pooled)'
  BY <1>24 DEF DisableClear, End, Running, queue, transit, headers, Begin
<1>25. ASSUME NEW f \in Flushers, FlushStart(f) PROVE (Ownership /\ Pooled)'
  BY <1>25 DEF FlushStart, Begin, Idle, flags, queue, transit, headers, Running
<1>26. ASSUME NEW f \in Flushers, FlushTake(f) PROVE (Ownership /\ Pooled)'
  BY <1>26 DEF FlushTake, Goto, SetBuffer, Running, EmptyQueue, flags, transit, headers
<1>27. ASSUME NEW f \in Flushers, FlushFailed(f) PROVE (Ownership /\ Pooled)'
  BY <1>27 DEF FlushFailed, End, Running, flags, queue, transit, headers, Begin
<1>28. ASSUME NEW f \in Flushers, FlushEnd(f) PROVE (Ownership /\ Pooled)'
  BY <1>28 DEF FlushEnd, End, Running, flags, queue, transit, locks, headers, Begin
<1>29. ASSUME NEW p \in Pausers, Pause(p) PROVE (Ownership /\ Pooled)'
  BY <1>29 DEF Pause, Idle, queue, transit, locks, headers, control, Running
<1>30. ASSUME NEW p \in Pausers, ResumeDisabled(p) PROVE (Ownership /\ Pooled)'
  BY <1>30 DEF ResumeDisabled, Idle, queue, transit, locks, headers, control, Running
<1>31. ASSUME NEW p \in Pausers, ResumeStart(p) PROVE (Ownership /\ Pooled)'
  BY <1>31 DEF ResumeStart, Begin, SetBuffer, Idle, flags, queue, transit, headers, Running
<1>32. ASSUME NEW p \in Pausers, ResumeSend(p) PROVE (Ownership /\ Pooled)'
  <2>1. buffer[p] \in Queued
    BY <1>32, WalkedIsQueued DEF ResumeSend, Running
  <2> QED BY <1>32, <2>1 DEF ResumeSend, SetBuffer, Running, Queued, flags, queue,
     transit, locks
<1>33. ASSUME NEW p \in Pausers, ResumeFailed(p) PROVE (Ownership /\ Pooled)'
  BY <1>33 DEF ResumeFailed, End, SetBuffer, Running, flags, transit, headers, Begin
<1>34. ASSUME NEW p \in Pausers, ResumeEnd(p) PROVE (Ownership /\ Pooled)'
  BY <1>34 DEF ResumeEnd, End, Running, EmptyQueue, transit, headers, Begin
<1>35. ASSUME UNCHANGED vars PROVE (Ownership /\ Pooled)'
  BY <1>35 DEF vars, flags, queue, transit, locks, headers, control
<1> QED
  BY <1>1, <1>2, <1>3, <1>4, <1>5, <1>6, <1>7, <1>8, <1>9, <1>10, <1>11, <1>12, <1>13, <1>14,
     <1>15, <1>16, <1>17, <1>18, <1>19, <1>20, <1>21, <1>22, <1>23, <1>24, <1>25, <1>26, <1>27,
     <1>28, <1>29, <1>30, <1>31, <1>32, <1>33, <1>34, <1>35, NextCases

-----------------------------------------------------------------------------
(* The account of the buffers in transit.                                  *)

\* The sizes of both sets are numbers.
LEMMA Counting ==
  ASSUME CleanClient
  PROVE  /\ IsFiniteSet(Held) /\ Cardinality(Held) \in Nat
         /\ IsFiniteSet(Uncounted) /\ Cardinality(Uncounted) \in Nat
<1>1. Held \subseteq Buffers /\ Uncounted \subseteq Threads
  BY DEF Held, Uncounted
<1>2. IsFiniteSet(Held) /\ IsFiniteSet(Uncounted)
  BY <1>1, FS_Subset DEF CleanClient
<1> QED BY <1>2, FS_CardinalityType

\* Adding an element.
LEMMA Joined ==
  ASSUME NEW S, IsFiniteSet(S), NEW x, x \notin S
  PROVE  Cardinality(S \cup {x}) = Cardinality(S) + 1
BY FS_AddElement

\* Removing an element.
LEMMA Left ==
  ASSUME NEW S, IsFiniteSet(S), NEW x, x \in S
  PROVE  Cardinality(S \ {x}) = Cardinality(S) - 1
BY FS_RemoveElement

\* Each step moves the counter with the buffers.
LEMMA AccountKept ==
  ASSUME CleanClient, TypeOK, Roles, Locks, Lists, Ownership, Pooled, TransitAccount, [Next]_vars
  PROVE  TransitAccount'
<1>0. /\ IsFiniteSet(Held) /\ Cardinality(Held) \in Nat
      /\ IsFiniteSet(Uncounted) /\ Cardinality(Uncounted) \in Nat
  BY Counting
<1> USE DEF TypeOK, Threads
<1>1. ASSUME NEW s \in Senders, TakeFromPool(s) PROVE TransitAccount'
  <2>1. PICK b \in Buffers : at[b] = "pool" /\ at' = [at EXCEPT ![b] = "sender"]
    BY <1>1, TakeEffect
  <2>2. /\ pc[s] = "idle" /\ pc' = [pc EXCEPT ![s] = "start"]
        /\ UNCHANGED transit_buffer_headers
    BY <1>1 DEF TakeFromPool, Begin, Idle, Running, transit
  <2>3. Held' = Held /\ Uncounted' = Uncounted
    BY <2>1, <2>2 DEF Held, Uncounted
  <2> QED BY <2>3, <2>2 DEF TransitAccount
<1>2. ASSUME NEW s \in Senders, SendRejected(s) PROVE TransitAccount'
  <2>1. buffer[s] \in Buffers /\ at[buffer[s]] = "sender"
    BY <1>2 DEF SendRejected, Running, Ownership
  <2>2. at' = [at EXCEPT ![buffer[s]] = "pool"]
    BY <1>2, <2>1, PutEffect DEF SendRejected
  <2>3. Held' = Held /\ Uncounted' = Uncounted
    BY <1>2, <2>1, <2>2 DEF SendRejected, End, SetBuffer, Running, flags, queue,
       transit, locks,
       Begin, Held, Uncounted
  <2> QED BY <1>2, <2>3 DEF SendRejected, transit, TransitAccount
<1>3. ASSUME NEW s \in Senders, SendStart(s) PROVE TransitAccount'
  <2>1. Held' = Held /\ Uncounted' = Uncounted \cup {s}
    BY <1>3 DEF SendStart, Goto, Running, Increment, flags, queue, headers, Held, Uncounted
  <2>2. s \notin Uncounted
    BY <1>3 DEF SendStart, Goto, Running, Increment, flags, queue, headers, Held, Uncounted
  <2>3. Cardinality(Uncounted') = Cardinality(Uncounted) + 1
    BY <2>1, <2>2, <1>0, Joined
  <2> QED BY <1>3, <1>0, <2>1, <2>3 DEF SendStart, Increment, transit, TransitAccount
<1>4. ASSUME NEW s \in Senders, SendQueued(s) PROVE TransitAccount'
  <2>1. buffer[s] \in Buffers /\ at[buffer[s]] = "sender"
    BY <1>4 DEF SendQueued, Running, Ownership
  <2>2. Held' = Held \cup {buffer[s]} /\ Uncounted' = Uncounted \ {s}
    BY <1>4, <2>1 DEF SendQueued, Goto, Running, flags, queue, transit, locks, Held,
       Uncounted
  <2>3. buffer[s] \notin Held /\ s \in Uncounted
    BY <1>4, <2>1 DEF SendQueued, Goto, Running, flags, queue, transit, locks, Held,
       Uncounted
  <2>4. /\ Cardinality(Held') = Cardinality(Held) + 1
        /\ Cardinality(Uncounted') = Cardinality(Uncounted) - 1
    BY <2>2, <2>3, <1>0, Joined, Left
  <2> QED BY <1>4, <1>0, <2>2, <2>4 DEF SendQueued, transit, TransitAccount
<1>5. ASSUME NEW s \in Senders, SendAccepted(s) PROVE TransitAccount'
  <2>1. buffer[s] \in Buffers /\ at[buffer[s]] = "sender"
    BY <1>5 DEF SendAccepted, Running, Ownership
  <2>2. Held' = Held \cup {buffer[s]} /\ Uncounted' = Uncounted \ {s}
    BY <1>5, <2>1 DEF SendAccepted, Goto, Running, flags, queue, transit, locks, Held,
       Uncounted
  <2>3. buffer[s] \notin Held /\ s \in Uncounted
    BY <1>5, <2>1 DEF SendAccepted, Goto, Running, flags, queue, transit, locks, Held,
       Uncounted
  <2>4. /\ Cardinality(Held') = Cardinality(Held) + 1
        /\ Cardinality(Uncounted') = Cardinality(Uncounted) - 1
    BY <2>2, <2>3, <1>0, Joined, Left
  <2> QED BY <1>5, <1>0, <2>2, <2>4 DEF SendAccepted, transit, TransitAccount
<1>6. ASSUME NEW s \in Senders, SendRefused(s) PROVE TransitAccount'
  <2>1. buffer[s] \in Buffers /\ at[buffer[s]] = "sender"
    BY <1>6 DEF SendRefused, Running, Ownership
  <2>2. at' = [at EXCEPT ![buffer[s]] = "pool"]
    BY <1>6, <2>1, PutEffect DEF SendRefused
  <2>3. Held' = Held /\ Uncounted' = Uncounted \ {s}
    BY <1>6, <2>1, <2>2 DEF SendRefused, End, SetBuffer, Running, Decrement, flags,
       queue, Begin,
       Held, Uncounted
  <2>4. s \in Uncounted
    BY <1>6, <2>1, <2>2 DEF SendRefused, End, SetBuffer, Running, Decrement, flags,
       queue, Begin,
       Held, Uncounted
  <2>5. Cardinality(Uncounted') = Cardinality(Uncounted) - 1
    BY <2>3, <2>4, <1>0, Left
  <2> QED BY <1>6, <1>0, <2>3, <2>5 DEF SendRefused, Decrement, transit, TransitAccount
<1>7. ASSUME NEW s \in Senders, SendEnd(s) PROVE TransitAccount'
  <2>1. Held' = Held /\ Uncounted' = Uncounted
    BY <1>7 DEF SendEnd, End, SetBuffer, Running, flags, queue, transit, headers, Begin,
       Held,
       Uncounted
  <2> QED BY <1>7, <2>1 DEF SendEnd, transit, TransitAccount
<1>8. ASSUME NEW b \in Buffers, ReturnBuffer(b) PROVE TransitAccount'
  <2>1. Held' = Held /\ Uncounted' = Uncounted
    BY <1>8 DEF ReturnBuffer, Begin, SetBuffer, Idle, flags, queue, transit, Running, Held,
       Uncounted
  <2> QED BY <1>8, <2>1 DEF ReturnBuffer, transit, TransitAccount
<1>9. ASSUME ReturnDone PROVE TransitAccount'
  <2>1. Held' = Held /\ Uncounted' = Uncounted \ {ActionThread}
    BY <1>9 DEF ReturnDone, End, SetBuffer, Running, Decrement, flags, queue, headers, Begin,
       Held, Uncounted
  <2>2. ActionThread \in Uncounted
    BY <1>9 DEF ReturnDone, End, SetBuffer, Running, Decrement, flags, queue, headers, Begin,
       Held, Uncounted
  <2>3. Cardinality(Uncounted') = Cardinality(Uncounted) - 1
    BY <2>1, <2>2, <1>0, Left
  <2> QED BY <1>9, <1>0, <2>1, <2>3 DEF ReturnDone, Decrement, transit, TransitAccount
<1>10. ASSUME NEW t \in Threads, Callback(t) PROVE TransitAccount'
  <2>1. buffer[t] \in Buffers /\ at[buffer[t]] = "callback"
    BY <1>10 DEF Callback, Running, Ownership
  <2>2. at' = [at EXCEPT ![buffer[t]] = "pool"]
    BY <1>10, <2>1, PutEffect DEF Callback
  <2>3. Held' = Held \ {buffer[t]} /\ Uncounted' = Uncounted \cup {t}
    BY <1>10, <2>1, <2>2 DEF Callback, Goto, flags, queue, transit, locks, Held, Uncounted
  <2>4. buffer[t] \in Held /\ t \notin Uncounted
    BY <1>10, <2>1, <2>2 DEF Callback, Goto, flags, queue, transit, locks, Held, Uncounted
  <2>5. /\ Cardinality(Held') = Cardinality(Held) - 1
        /\ Cardinality(Uncounted') = Cardinality(Uncounted) + 1
    BY <2>3, <2>4, <1>0, Joined, Left
  <2> QED BY <1>10, <1>0, <2>3, <2>5 DEF Callback, transit, TransitAccount
<1>11. ASSUME NEW t \in Threads, WalkNext(t) PROVE TransitAccount'
  <2>1. buffer[t] \in Queued
    BY <1>11, WalkedIsQueued DEF WalkNext, Running
  <2>2. Held' = Held /\ Uncounted' = Uncounted
    BY <1>11, <2>1 DEF WalkNext, Goto, flags, queue, transit, locks, Queued, Held, Uncounted
  <2> QED BY <1>11, <2>2 DEF WalkNext, transit, TransitAccount
<1>12. ASSUME NEW t \in Threads, WalkDone(t) PROVE TransitAccount'
  <2>1. Held' = Held /\ Uncounted' = Uncounted \ {t}
    BY <1>12 DEF WalkDone, Goto, SetBuffer, Decrement, flags, queue, locks, headers, Held,
       Uncounted
  <2>2. t \in Uncounted
    BY <1>12 DEF WalkDone, Goto, SetBuffer, Decrement, flags, queue, locks, headers, Held,
       Uncounted
  <2>3. Cardinality(Uncounted') = Cardinality(Uncounted) - 1
    BY <2>1, <2>2, <1>0, Left
  <2> QED BY <1>12, <1>0, <2>1, <2>3 DEF WalkDone, Decrement, transit, TransitAccount
<1>13. ASSUME NEW c \in Controllers, EnableStart(c) PROVE TransitAccount'
  <2>1. Held' = Held /\ Uncounted' = Uncounted
    BY <1>13 DEF EnableStart, Begin, Idle, queue, transit, headers, Running, Held, Uncounted
  <2> QED BY <1>13, <2>1 DEF EnableStart, transit, TransitAccount
<1>14. ASSUME NEW c \in Controllers, EnableDone(c) PROVE TransitAccount'
  <2>1. Held' = Held /\ Uncounted' = Uncounted
    BY <1>14 DEF EnableDone, End, Running, queue, transit, headers, Begin, Held, Uncounted
  <2> QED BY <1>14, <2>1 DEF EnableDone, transit, TransitAccount
<1>15. ASSUME NEW c \in Controllers, EnableFailed(c) PROVE TransitAccount'
  <2>1. Held' = Held /\ Uncounted' = Uncounted
    BY <1>15 DEF EnableFailed, End, Running, flags, queue, transit, headers, Begin, Held,
       Uncounted
  <2> QED BY <1>15, <2>1 DEF EnableFailed, transit, TransitAccount
<1>16. ASSUME NEW c \in Controllers, DisableStart(c) PROVE TransitAccount'
  <2>1. Held' = Held /\ Uncounted' = Uncounted
    BY <1>16 DEF DisableStart, Begin, Idle, flags, queue, transit, headers, Running, Held,
       Uncounted
  <2> QED BY <1>16, <2>1 DEF DisableStart, transit, TransitAccount
<1>17. ASSUME NEW c \in Controllers, DisableOff(c) PROVE TransitAccount'
  <2>1. Held' = Held /\ Uncounted' = Uncounted
    BY <1>17 DEF DisableOff, Goto, Running, queue, transit, locks, headers, Held, Uncounted
  <2> QED BY <1>17, <2>1 DEF DisableOff, transit, TransitAccount
<1>18. ASSUME NEW c \in Controllers, DisableStop(c) PROVE TransitAccount'
  <2>1. Held' = Held /\ Uncounted' = Uncounted
    BY <1>18 DEF DisableStop, Goto, Running, flags, queue, transit, locks, headers, Held,
       Uncounted
  <2> QED BY <1>18, <2>1 DEF DisableStop, transit, TransitAccount
<1>19. ASSUME NEW c \in Controllers, DisableRestore(c) PROVE TransitAccount'
  <2>1. Held' = Held /\ Uncounted' = Uncounted
    BY <1>19 DEF DisableRestore, End, Running, queue, transit, headers, Begin, Held,
       Uncounted
  <2> QED BY <1>19, <2>1 DEF DisableRestore, transit, TransitAccount
<1>20. ASSUME NEW c \in Controllers, DisableTake(c) PROVE TransitAccount'
  <2>1. Held' = Held /\ Uncounted' = Uncounted
    BY <1>20 DEF DisableTake, Goto, SetBuffer, Running, flags, queue, transit, locks,
       headers,
       Held, Uncounted
  <2> QED BY <1>20, <2>1 DEF DisableTake, transit, TransitAccount
<1>21. ASSUME NEW c \in Controllers, DisableEmpty(c) PROVE TransitAccount'
  <2>1. Held' = Held /\ Uncounted' = Uncounted
    BY <1>21 DEF DisableEmpty, Goto, Running, EmptyQueue, flags, transit, locks,
       headers, Held,
       Uncounted
  <2> QED BY <1>21, <2>1 DEF DisableEmpty, transit, TransitAccount
<1>22. ASSUME NEW c \in Controllers, DisableWait(c) PROVE TransitAccount'
  <2>1. Held' = Held /\ Uncounted' = Uncounted
    BY <1>22 DEF DisableWait, Goto, Running, flags, queue, locks, headers, Held, Uncounted
  <2> QED BY <1>22, <2>1 DEF DisableWait, transit, TransitAccount
<1>23. ASSUME NEW c \in Controllers, DisablePost(c) PROVE TransitAccount'
  <2>1. Held' = Held /\ Uncounted' = Uncounted
    BY <1>23 DEF DisablePost, Goto, Running, flags, queue, locks, headers, Held, Uncounted
  <2> QED BY <1>23, <2>1 DEF DisablePost, transit, TransitAccount
<1>24. ASSUME NEW c \in Controllers, DisableClear(c) PROVE TransitAccount'
  <2>1. Held' = Held /\ Uncounted' = Uncounted
    BY <1>24 DEF DisableClear, End, Running, queue, transit, headers, Begin, Held, Uncounted
  <2> QED BY <1>24, <2>1 DEF DisableClear, transit, TransitAccount
<1>25. ASSUME NEW f \in Flushers, FlushStart(f) PROVE TransitAccount'
  <2>1. Held' = Held /\ Uncounted' = Uncounted
    BY <1>25 DEF FlushStart, Begin, Idle, flags, queue, transit, headers, Running, Held,
       Uncounted
  <2> QED BY <1>25, <2>1 DEF FlushStart, transit, TransitAccount
<1>26. ASSUME NEW f \in Flushers, FlushTake(f) PROVE TransitAccount'
  <2>1. Held' = Held /\ Uncounted' = Uncounted
    BY <1>26 DEF FlushTake, Goto, SetBuffer, Running, EmptyQueue, flags, transit,
       headers, Held,
       Uncounted
  <2> QED BY <1>26, <2>1 DEF FlushTake, transit, TransitAccount
<1>27. ASSUME NEW f \in Flushers, FlushFailed(f) PROVE TransitAccount'
  <2>1. Held' = Held /\ Uncounted' = Uncounted
    BY <1>27 DEF FlushFailed, End, Running, flags, queue, transit, headers, Begin, Held,
       Uncounted
  <2> QED BY <1>27, <2>1 DEF FlushFailed, transit, TransitAccount
<1>28. ASSUME NEW f \in Flushers, FlushEnd(f) PROVE TransitAccount'
  <2>1. Held' = Held /\ Uncounted' = Uncounted
    BY <1>28 DEF FlushEnd, End, Running, flags, queue, transit, locks, headers, Begin, Held,
       Uncounted
  <2> QED BY <1>28, <2>1 DEF FlushEnd, transit, TransitAccount
<1>29. ASSUME NEW p \in Pausers, Pause(p) PROVE TransitAccount'
  <2>1. Held' = Held /\ Uncounted' = Uncounted
    BY <1>29 DEF Pause, Idle, queue, transit, locks, headers, control, Running, Held,
       Uncounted
  <2> QED BY <1>29, <2>1 DEF Pause, transit, TransitAccount, control
<1>30. ASSUME NEW p \in Pausers, ResumeDisabled(p) PROVE TransitAccount'
  <2>1. Held' = Held /\ Uncounted' = Uncounted
    BY <1>30 DEF ResumeDisabled, Idle, queue, transit, locks, headers, control, Running,
       Held,
       Uncounted
  <2> QED BY <1>30, <2>1 DEF ResumeDisabled, transit, TransitAccount, control
<1>31. ASSUME NEW p \in Pausers, ResumeStart(p) PROVE TransitAccount'
  <2>1. Held' = Held /\ Uncounted' = Uncounted
    BY <1>31 DEF ResumeStart, Begin, SetBuffer, Idle, flags, queue, transit, headers,
       Running,
       Held, Uncounted
  <2> QED BY <1>31, <2>1 DEF ResumeStart, transit, TransitAccount
<1>32. ASSUME NEW p \in Pausers, ResumeSend(p) PROVE TransitAccount'
  <2>1. buffer[p] \in Queued
    BY <1>32, WalkedIsQueued DEF ResumeSend, Running
  <2>2. Held' = Held /\ Uncounted' = Uncounted
    BY <1>32, <2>1 DEF ResumeSend, SetBuffer, Running, flags, queue, transit, locks,
       Queued, Held,
       Uncounted
  <2> QED BY <1>32, <2>2 DEF ResumeSend, transit, TransitAccount
<1>33. ASSUME NEW p \in Pausers, ResumeFailed(p) PROVE TransitAccount'
  <2>1. Held' = Held /\ Uncounted' = Uncounted
    BY <1>33 DEF ResumeFailed, End, SetBuffer, Running, flags, transit, headers, Begin, Held,
       Uncounted
  <2> QED BY <1>33, <2>1 DEF ResumeFailed, transit, TransitAccount
<1>34. ASSUME NEW p \in Pausers, ResumeEnd(p) PROVE TransitAccount'
  <2>1. Held' = Held /\ Uncounted' = Uncounted
    BY <1>34 DEF ResumeEnd, End, Running, EmptyQueue, transit, headers, Begin, Held,
       Uncounted
  <2> QED BY <1>34, <2>1 DEF ResumeEnd, transit, TransitAccount
<1>35. ASSUME UNCHANGED vars PROVE TransitAccount'
  BY <1>35 DEF vars, flags, queue, transit, locks, headers, control, TransitAccount, Held,
     Uncounted
<1> QED
  BY <1>1, <1>2, <1>3, <1>4, <1>5, <1>6, <1>7, <1>8, <1>9, <1>10, <1>11, <1>12, <1>13, <1>14,
     <1>15, <1>16, <1>17, <1>18, <1>19, <1>20, <1>21, <1>22, <1>23, <1>24, <1>25, <1>26, <1>27,
     <1>28, <1>29, <1>30, <1>31, <1>32, <1>33, <1>34, <1>35, NextCases

-----------------------------------------------------------------------------
(* The callback outlives the buffers in transit.                           *)

\* A buffer being sent or returned is counted.
LEMMA InTransit ==
  ASSUME CleanClient, TypeOK, Ownership, TransitAccount
  PROVE  /\ transit_buffer_headers >= 0
         /\ \A t \in Threads : pc[t] \in {"deliver", "decrement", "callback"} =>
              transit_buffer_headers >= 1
<1>1. /\ IsFiniteSet(Held) /\ Cardinality(Held) \in Nat
      /\ IsFiniteSet(Uncounted) /\ Cardinality(Uncounted) \in Nat
  BY Counting
<1>2. /\ Held # {} => Cardinality(Held) # 0
      /\ Uncounted # {} => Cardinality(Uncounted) # 0
  BY <1>1, FS_EmptySet
<1>3. ASSUME NEW t \in Threads, pc[t] \in {"deliver", "decrement", "callback"}
      PROVE  Held # {} \/ Uncounted # {}
  BY <1>3 DEF Held, Uncounted, Ownership
<1> QED BY <1>1, <1>2, <1>3 DEF TransitAccount

\* Who is at a label of a disable is in a disable.
LEMMA Disabling ==
  ASSUME TypeOK, Roles, NEW t \in Threads, pc[t] \in {"wait", "post", "clear"}
  PROVE  op[t] = "disable"
BY DEF TypeOK, Roles, Operations

\* The callback is cleared only when nothing can need it.
LEMMA CallbacksKept ==
  ASSUME CleanClient, TokenInv, Roles, Locks, Callbacks, Ownership, TransitAccount, [Next]_vars
  PROVE  Callbacks'
<1> TypeOK /\ SemaphoreToken
  BY DEF TokenInv
<1>0. /\ transit_buffer_headers >= 0
      /\ \A t \in Threads : pc[t] \in {"deliver", "decrement", "callback"} =>
           transit_buffer_headers >= 1
  BY InTransit
<1>0a. \A t \in Threads : pc[t] \in {"post", "clear"} => op[t] = "disable"
  BY Disabling
<1>0b. \A t, u \in Threads :
         op[t] \in {"enable", "disable"} /\ op[u] \in {"enable", "disable"} => t = u
  BY DEF Locks
<1> USE <1>0, <1>0a, <1>0b
<1> USE DEF Callbacks, Locks, Roles, TypeOK, Threads
<1>1. ASSUME NEW s \in Senders, TakeFromPool(s) PROVE Callbacks'
  BY <1>1 DEF TakeFromPool, Begin, SetBuffer, Idle, flags, queue, transit, locks, Running
<1>2. ASSUME NEW s \in Senders, SendRejected(s) PROVE Callbacks'
  BY <1>2 DEF SendRejected, End, SetBuffer, Running, PoolPut, flags, queue, transit, locks,
     Begin
<1>3. ASSUME NEW s \in Senders, SendStart(s) PROVE Callbacks'
  BY <1>3 DEF SendStart, Goto, Running, Increment, CanIncrement, flags, queue, headers
<1>4. ASSUME NEW s \in Senders, SendQueued(s) PROVE Callbacks'
  BY <1>4 DEF SendQueued, Goto, Running, flags, queue, transit, locks
<1>5. ASSUME NEW s \in Senders, SendAccepted(s) PROVE Callbacks'
  BY <1>5 DEF SendAccepted, Goto, Running, flags, queue, transit, locks
<1>6. ASSUME NEW s \in Senders, SendRefused(s) PROVE Callbacks'
  BY <1>6 DEF SendRefused, End, SetBuffer, Running, Decrement, PoolPut, flags, queue, Begin
<1>7. ASSUME NEW s \in Senders, SendEnd(s) PROVE Callbacks'
  BY <1>7 DEF SendEnd, End, SetBuffer, Running, flags, queue, transit, headers, Begin
<1>8. ASSUME NEW b \in Buffers, ReturnBuffer(b) PROVE Callbacks'
  BY <1>8 DEF ReturnBuffer, Begin, SetBuffer, Idle, flags, queue, transit, Running
<1>9. ASSUME ReturnDone PROVE Callbacks'
  BY <1>9 DEF ReturnDone, End, SetBuffer, Running, Decrement, flags, queue, headers, Begin
<1>10. ASSUME NEW t \in Threads, Callback(t) PROVE Callbacks'
  BY <1>10 DEF Callback, Goto, PoolPut, flags, queue, transit, locks
<1>11. ASSUME NEW t \in Threads, WalkNext(t) PROVE Callbacks'
  BY <1>11 DEF WalkNext, Goto, flags, queue, transit, locks
<1>12. ASSUME NEW t \in Threads, WalkDone(t) PROVE Callbacks'
  BY <1>12 DEF WalkDone, Goto, SetBuffer, Decrement, flags, queue, locks, headers
<1>13. ASSUME NEW c \in Controllers, EnableStart(c) PROVE Callbacks'
  BY <1>13 DEF EnableStart, Begin, Idle, queue, transit, headers, Running
<1>14. ASSUME NEW c \in Controllers, EnableDone(c) PROVE Callbacks'
  BY <1>14 DEF EnableDone, End, Running, queue, transit, headers, Begin
<1>15. ASSUME NEW c \in Controllers, EnableFailed(c) PROVE Callbacks'
  BY <1>15 DEF EnableFailed, End, Running, flags, queue, transit, headers, Begin
<1>16. ASSUME NEW c \in Controllers, DisableStart(c) PROVE Callbacks'
  BY <1>16 DEF DisableStart, Begin, Idle, flags, queue, transit, headers, Running
<1>17. ASSUME NEW c \in Controllers, DisableOff(c) PROVE Callbacks'
  BY <1>17 DEF DisableOff, Goto, Running, queue, transit, locks, headers
<1>18. ASSUME NEW c \in Controllers, DisableStop(c) PROVE Callbacks'
  BY <1>18 DEF DisableStop, Goto, Running, flags, queue, transit, locks, headers
<1>19. ASSUME NEW c \in Controllers, DisableRestore(c) PROVE Callbacks'
  BY <1>19 DEF DisableRestore, End, Running, queue, transit, headers, Begin
<1>20. ASSUME NEW c \in Controllers, DisableTake(c) PROVE Callbacks'
  BY <1>20 DEF DisableTake, Goto, SetBuffer, Running, flags, queue, transit, locks, headers
<1>21. ASSUME NEW c \in Controllers, DisableEmpty(c) PROVE Callbacks'
  BY <1>21 DEF DisableEmpty, Goto, Running, EmptyQueue, flags, transit, locks, headers
<1>22. ASSUME NEW c \in Controllers, DisableWait(c) PROVE Callbacks'
  <2>1. transit_buffer_headers = 0
    BY <1>22 DEF DisableWait, SemaphoreToken
  <2> QED BY <1>22, <2>1 DEF DisableWait, Goto, Running, flags, queue, locks, headers
<1>23. ASSUME NEW c \in Controllers, DisablePost(c) PROVE Callbacks'
  BY <1>23 DEF DisablePost, Goto, Running, flags, queue, locks, headers
<1>24. ASSUME NEW c \in Controllers, DisableClear(c) PROVE Callbacks'
  BY <1>24 DEF DisableClear, End, Running, queue, transit, headers, Begin
<1>25. ASSUME NEW f \in Flushers, FlushStart(f) PROVE Callbacks'
  BY <1>25 DEF FlushStart, Begin, Idle, flags, queue, transit, headers, Running
<1>26. ASSUME NEW f \in Flushers, FlushTake(f) PROVE Callbacks'
  BY <1>26 DEF FlushTake, Goto, SetBuffer, Running, EmptyQueue, flags, transit, headers
<1>27. ASSUME NEW f \in Flushers, FlushFailed(f) PROVE Callbacks'
  BY <1>27 DEF FlushFailed, End, Running, flags, queue, transit, headers, Begin
<1>28. ASSUME NEW f \in Flushers, FlushEnd(f) PROVE Callbacks'
  BY <1>28 DEF FlushEnd, End, Running, flags, queue, transit, locks, headers, Begin
<1>29. ASSUME NEW p \in Pausers, Pause(p) PROVE Callbacks'
  BY <1>29 DEF Pause, Idle, queue, transit, locks, headers, control, Running
<1>30. ASSUME NEW p \in Pausers, ResumeDisabled(p) PROVE Callbacks'
  BY <1>30 DEF ResumeDisabled, Idle, queue, transit, locks, headers, control, Running
<1>31. ASSUME NEW p \in Pausers, ResumeStart(p) PROVE Callbacks'
  BY <1>31 DEF ResumeStart, Begin, SetBuffer, Idle, flags, queue, transit, headers, Running
<1>32. ASSUME NEW p \in Pausers, ResumeSend(p) PROVE Callbacks'
  BY <1>32 DEF ResumeSend, SetBuffer, Running, flags, queue, transit, locks
<1>33. ASSUME NEW p \in Pausers, ResumeFailed(p) PROVE Callbacks'
  BY <1>33 DEF ResumeFailed, End, SetBuffer, Running, flags, transit, headers, Begin
<1>34. ASSUME NEW p \in Pausers, ResumeEnd(p) PROVE Callbacks'
  BY <1>34 DEF ResumeEnd, End, Running, EmptyQueue, transit, headers, Begin
<1>35. ASSUME UNCHANGED vars PROVE Callbacks'
  BY <1>35 DEF vars, flags, queue, transit, locks, headers, control
<1> QED
  BY <1>1, <1>2, <1>3, <1>4, <1>5, <1>6, <1>7, <1>8, <1>9, <1>10, <1>11, <1>12, <1>13, <1>14,
     <1>15, <1>16, <1>17, <1>18, <1>19, <1>20, <1>21, <1>22, <1>23, <1>24, <1>25, <1>26, <1>27,
     <1>28, <1>29, <1>30, <1>31, <1>32, <1>33, <1>34, <1>35, NextCases

-----------------------------------------------------------------------------
(* The internal queue stays a list.                                        *)

\* Sends, walks and resumes keep the internal queue a null-terminated list, apart from
\* the buffers a walk has taken.
LEMMA ListsKept ==
  ASSUME CleanClient, TypeOK, Roles, Locks, Ownership, Pooled, Lists, [Next]_vars
  PROVE  Lists'
<1>0. PICK M \in SUBSET Buffers : ListOf(M)
  BY DEF Lists
<1> USE DEF TypeOK, Threads
<1>1. ASSUME NEW s \in Senders, TakeFromPool(s) PROVE Lists'
  <2>1. PICK b \in Buffers : /\ at[b] = "pool" /\ at' = [at EXCEPT ![b] = "sender"]
                             /\ buffer' = [buffer EXCEPT ![s] = b]
    BY <1>1, TakeEffect
  <2>2. /\ op[s] = "none" /\ op' = [op EXCEPT ![s] = "send"] /\ UNCHANGED <<queue, next, saved>>
        /\ pc[s] = "idle" /\ pc' = [pc EXCEPT ![s] = "start"]
    BY <1>1 DEF TakeFromPool, Begin, Idle, Running
  <2>3. ListOf(M)'
    BY <1>0, <2>1, <2>2 DEF queue, ListOf, HeadOf, Queued, Unlinked, Walking, Cursor,
       QueueIntact
  <2> QED BY <2>3 DEF Lists
<1>2. ASSUME NEW s \in Senders, SendRejected(s) PROVE Lists'
  <2>1. buffer[s] \in Buffers /\ at[buffer[s]] = "sender"
    BY <1>2 DEF SendRejected, Running, Ownership
  <2>2. at' = [at EXCEPT ![buffer[s]] = "pool"] /\ next' = [next EXCEPT ![buffer[s]] = NoBuffer]
    BY <1>2, <2>1, PutEffect DEF SendRejected
  <2>3. ListOf(M)'
    BY <1>0, <1>2, <2>1, <2>2 DEF SendRejected, End, SetBuffer, Running, flags, queue,
       transit, locks, Begin, ListOf, HeadOf, Queued, Unlinked, Walking, Cursor,
       QueueIntact
  <2> QED BY <2>3 DEF Lists
<1>3. ASSUME NEW s \in Senders, SendStart(s) PROVE Lists'
  <2>1. ListOf(M)'
    BY <1>0, <1>3 DEF SendStart, Goto, Running, Increment, flags, queue, headers,
       ListOf, HeadOf, Queued, Unlinked, Walking, Cursor, QueueIntact
  <2> QED BY <2>1 DEF Lists
<1>4. ASSUME NEW s \in Senders, SendQueued(s) PROVE Lists'
  <2>1. PICK x \in Buffers : x = buffer[s] /\ at[x] = "sender" /\ next[x] = NoBuffer
    BY <1>4 DEF SendQueued, Running, Ownership
  <2>2. QueueIntact
    BY <1>4, IntactWhileSending DEF SendQueued, Running
  <2>3. /\ Queued' = Queued \cup {x} /\ x \notin Queued /\ x \notin M
        /\ queue_last' = x
        /\ IF queue_last = NoBuffer
             THEN queue_first' = x /\ next' = next
             ELSE next' = [next EXCEPT ![queue_last] = x] /\ queue_first' = queue_first
    BY <1>0, <1>4, <2>1 DEF SendQueued, Queued, ListOf
  <2>4. /\ UNCHANGED <<op, buffer, saved>>
        /\ \A t \in Threads : /\ Walking(t)' <=> Walking(t)
                              /\ Walking(t) => Cursor(t)' = Cursor(t)
        /\ \A t \in Threads : op[t] # "resume"
    BY <1>4, <2>2 DEF SendQueued, Running, Goto, Walking, Cursor, QueueIntact
  <2>5. queue_last # NoBuffer => queue_last \in M /\ queue_first # NoBuffer /\ next[queue_last] = NoBuffer
    BY <1>0, <2>2 DEF ListOf, HeadOf
  <2>6. next'[x] = NoBuffer /\ \A b \in Queued : next'[b] = IF b = queue_last THEN x ELSE next[b]
    BY <1>0, <2>1, <2>3, <2>5, ConstantsAssumption DEF ListOf, Queued
  <2>7. \A b \in Queued : next[b] # x
    BY <1>0, <2>3, <2>1, ConstantsAssumption DEF ListOf
  <2>8. /\ M \cup {x} \subseteq Queued'
        /\ \A b \in Queued' : next'[b] # NoBuffer =>
             next'[b] \in Queued' /\ (b \in M \cup {x} <=> next'[b] \in M \cup {x})
        /\ \A a, b \in Queued' : a # b /\ next'[a] # NoBuffer => next'[a] # next'[b]
    BY <1>0, <2>3, <2>5, <2>6, <2>7 DEF ListOf
  <2>9. \A c : c # x /\ c # NoBuffer /\ Unlinked(c) => Unlinked(c)'
    BY <2>3, <2>6 DEF Unlinked, Queued
  <2>10. \A t \in Threads : (Walking(t) /\ Cursor(t) # NoBuffer)' =>
           Cursor(t)' \in Queued' \ (M \cup {x}) /\ Unlinked(Cursor(t))'
    BY <1>0, <2>3, <2>4, <2>9 DEF ListOf
  <2>11. HeadOf(queue_first, M \cup {x})' /\ queue_first' # NoBuffer
    <3>1. CASE queue_last = NoBuffer
      <4>1. Unlinked(x)'
        BY <2>3, <2>6, <2>7, <2>1, <3>1, ConstantsAssumption DEF Unlinked, Queued
      <4> QED BY <2>1, <2>3, <2>6, <3>1, <4>1, ConstantsAssumption DEF HeadOf
    <3>2. CASE queue_last # NoBuffer
      <4>1. queue_first' = queue_first /\ queue_first \in M /\ Unlinked(queue_first)
        BY <1>0, <2>2, <2>3, <2>5, <3>2 DEF ListOf, HeadOf
      <4>2. Unlinked(queue_first)'
        BY <4>1, <2>1, <2>3, <2>5, <2>6, ConstantsAssumption DEF Unlinked
      <4> QED BY <2>3, <2>5, <2>6, <3>2, <4>1, <4>2 DEF HeadOf
    <3> QED BY <3>1, <3>2
  <2>12. ListOf(M \cup {x})'
    BY <2>4, <2>8, <2>10, <2>11 DEF ListOf
  <2> QED BY <2>12 DEF Lists
<1>5. ASSUME NEW s \in Senders, SendAccepted(s) PROVE Lists'
  <2>1. buffer[s] \in Buffers /\ at[buffer[s]] = "sender" /\ next[buffer[s]] = NoBuffer
    BY <1>5 DEF SendAccepted, Running, Ownership
  <2>2. ListOf(M)'
    BY <1>0, <1>5, <2>1 DEF SendAccepted, Goto, Running, flags, queue, transit, locks,
       ListOf, HeadOf, Queued, Unlinked, Walking, Cursor, QueueIntact
  <2> QED BY <2>2 DEF Lists
<1>6. ASSUME NEW s \in Senders, SendRefused(s) PROVE Lists'
  <2>1. buffer[s] \in Buffers /\ at[buffer[s]] = "sender"
    BY <1>6 DEF SendRefused, Running, Ownership
  <2>2. at' = [at EXCEPT ![buffer[s]] = "pool"] /\ next' = [next EXCEPT ![buffer[s]] = NoBuffer]
    BY <1>6, <2>1, PutEffect DEF SendRefused
  <2>3. ListOf(M)'
    BY <1>0, <1>6, <2>1, <2>2 DEF SendRefused, End, SetBuffer, Running, Decrement,
       flags, queue, Begin, ListOf, HeadOf, Queued, Unlinked, Walking, Cursor,
       QueueIntact
  <2> QED BY <2>3 DEF Lists
<1>7. ASSUME NEW s \in Senders, SendEnd(s) PROVE Lists'
  <2>1. ListOf(M)'
    BY <1>0, <1>7 DEF SendEnd, End, SetBuffer, Running, flags, queue, transit, headers,
       Begin, ListOf, HeadOf, Queued, Unlinked, Walking, Cursor, QueueIntact
  <2> QED BY <2>1 DEF Lists
<1>8. ASSUME NEW b \in Buffers, ReturnBuffer(b) PROVE Lists'
  <2>1. ListOf(M)'
    BY <1>0, <1>8 DEF ReturnBuffer, Begin, SetBuffer, Idle, flags, queue, transit,
       Running, ListOf, HeadOf, Queued, Unlinked, Walking, Cursor, QueueIntact
  <2> QED BY <2>1 DEF Lists
<1>9. ASSUME ReturnDone PROVE Lists'
  <2>1. ListOf(M)'
    BY <1>0, <1>9 DEF ReturnDone, End, SetBuffer, Running, Decrement, flags, queue,
       headers, Begin, ListOf, HeadOf, Queued, Unlinked, Walking, Cursor, QueueIntact
  <2> QED BY <2>1 DEF Lists
<1>10. ASSUME NEW t \in Threads, Callback(t) PROVE Lists'
  <2>1. buffer[t] \in Buffers /\ at[buffer[t]] = "callback"
    BY <1>10 DEF Callback, Running, Ownership
  <2>2. at' = [at EXCEPT ![buffer[t]] = "pool"] /\ next' = [next EXCEPT ![buffer[t]] = NoBuffer]
    BY <1>10, <2>1, PutEffect DEF Callback
  <2>3. ListOf(M)'
    BY <1>0, <1>10, <2>1, <2>2 DEF Callback, Goto, flags, queue, transit, locks, ListOf,
       HeadOf, Queued, Unlinked, Walking, Cursor, QueueIntact
  <2> QED BY <2>3 DEF Lists
<1>11. ASSUME NEW t \in Threads, WalkNext(t) PROVE Lists'
  <2>1. PICK b \in Queued : b = buffer[t] /\ b \notin M /\ Unlinked(b)
    BY <1>0, <1>11 DEF WalkNext, ListOf, Walking, Cursor, Roles, Operations
  <2>2. /\ Walking(t) /\ Walking(t)' /\ Cursor(t)' = next[b]
        /\ \A u \in Threads : Walking(u) => u = t
    BY <1>11, <2>1 DEF WalkNext, Goto, Walking, Cursor, Roles, Operations, CleanClient
  <2>3. \A u \in Threads \ {t} : ~Walking(u)'
    BY <1>11, <2>2 DEF WalkNext, Goto, Walking
  <2>4. Queued' = Queued \ {b}
    BY <1>11, <2>1 DEF WalkNext, Queued
  <2>5. UNCHANGED <<next, queue_first, queue_last, op, buffer>>
    BY <1>11 DEF WalkNext, Goto, queue
  <2>6. \A x : Unlinked(x) => Unlinked(x)'
    BY <2>4, <2>5 DEF Unlinked
  <2>7. /\ M \subseteq Queued'
        /\ \A x \in Queued' : next[x] # NoBuffer => next[x] \in Queued' /\ (x \in M <=> next[x] \in M)
        /\ \A x, y \in Queued' : x # y /\ next[x] # NoBuffer => next[x] # next[y]
    BY <1>0, <2>1, <2>4 DEF ListOf, Unlinked
  <2>8. next[b] # NoBuffer => next[b] \in Queued' \ M /\ Unlinked(next[b])'
    BY <1>0, <2>1, <2>4, <2>5 DEF ListOf, Unlinked
  <2>9. /\ QueueIntact' => QueueIntact
        /\ \A x : HeadOf(x, M) => HeadOf(x, M)'
    BY <2>2, <2>5, <2>6 DEF QueueIntact, HeadOf
  <2>10. ListOf(M)'
    BY <1>0, <2>2, <2>3, <2>5, <2>7, <2>8, <2>9 DEF ListOf
  <2> QED BY <2>10 DEF Lists
<1>12. ASSUME NEW t \in Threads, WalkDone(t) PROVE Lists'
  <2>1. ListOf(M)'
    BY <1>0, <1>12 DEF WalkDone, Goto, SetBuffer, Decrement, flags, queue, locks,
       headers, ListOf, HeadOf, Queued, Unlinked, Walking, Cursor, QueueIntact
  <2> QED BY <2>1 DEF Lists
<1>13. ASSUME NEW c \in Controllers, EnableStart(c) PROVE Lists'
  <2>1. ListOf(M)'
    BY <1>0, <1>13 DEF EnableStart, Begin, Idle, queue, transit, headers, Running,
       ListOf, HeadOf, Queued, Unlinked, Walking, Cursor, QueueIntact
  <2> QED BY <2>1 DEF Lists
<1>14. ASSUME NEW c \in Controllers, EnableDone(c) PROVE Lists'
  <2>1. ListOf(M)'
    BY <1>0, <1>14 DEF EnableDone, End, Running, queue, transit, headers, Begin, ListOf,
       HeadOf, Queued, Unlinked, Walking, Cursor, QueueIntact
  <2> QED BY <2>1 DEF Lists
<1>15. ASSUME NEW c \in Controllers, EnableFailed(c) PROVE Lists'
  <2>1. ListOf(M)'
    BY <1>0, <1>15 DEF EnableFailed, End, Running, flags, queue, transit, headers,
       Begin, ListOf, HeadOf, Queued, Unlinked, Walking, Cursor, QueueIntact
  <2> QED BY <2>1 DEF Lists
<1>16. ASSUME NEW c \in Controllers, DisableStart(c) PROVE Lists'
  <2>1. ListOf(M)'
    BY <1>0, <1>16 DEF DisableStart, Begin, Idle, flags, queue, transit, headers,
       Running, ListOf, HeadOf, Queued, Unlinked, Walking, Cursor, QueueIntact
  <2> QED BY <2>1 DEF Lists
<1>17. ASSUME NEW c \in Controllers, DisableOff(c) PROVE Lists'
  <2>1. ListOf(M)'
    BY <1>0, <1>17 DEF DisableOff, Goto, Running, queue, transit, locks, headers,
       ListOf, HeadOf, Queued, Unlinked, Walking, Cursor, QueueIntact
  <2> QED BY <2>1 DEF Lists
<1>18. ASSUME NEW c \in Controllers, DisableStop(c) PROVE Lists'
  <2>1. ListOf(M)'
    BY <1>0, <1>18 DEF DisableStop, Goto, Running, flags, queue, transit, locks,
       headers, ListOf, HeadOf, Queued, Unlinked, Walking, Cursor, QueueIntact
  <2> QED BY <2>1 DEF Lists
<1>19. ASSUME NEW c \in Controllers, DisableRestore(c) PROVE Lists'
  <2>1. ListOf(M)'
    BY <1>0, <1>19 DEF DisableRestore, End, Running, queue, transit, headers, Begin,
       ListOf, HeadOf, Queued, Unlinked, Walking, Cursor, QueueIntact
  <2> QED BY <2>1 DEF Lists
<1>20. ASSUME NEW c \in Controllers, DisableTake(c) PROVE Lists'
  <2>1. QueueIntact
    BY <1>20, ConstantsAssumption DEF DisableTake, Running, QueueIntact, Walking, Roles,
       Locks, CleanClient, Operations
  <2>2. queue_first # NoBuffer => queue_first \in Queued /\ Unlinked(queue_first)
    BY <1>0, <2>1 DEF ListOf, HeadOf
  <2>3. /\ UNCHANGED <<next, at, saved>> /\ UNCHANGED op
        /\ buffer' = [buffer EXCEPT ![c] = queue_first]
        /\ pc' = [pc EXCEPT ![c] = "walk"]
    BY <1>20 DEF DisableTake, SetBuffer, Goto, headers
  <2>4. Queued' = Queued /\ \A x : Unlinked(x)' <=> Unlinked(x)
    BY <2>3 DEF Queued, Unlinked
  <2>5. \A t \in Threads : t # c => ~Walking(t)' /\ op'[t] # "resume"
    BY <1>20, <2>1, <2>3 DEF DisableTake, Running, QueueIntact, Walking, Roles, Locks,
       CleanClient, Operations
  <2>6. Cursor(c)' = queue_first /\ op'[c] # "resume"
    BY <1>20, <2>3 DEF DisableTake, Running, Cursor
  <2>7. (QueueIntact => HeadOf(queue_first, {}) /\ (queue_first = NoBuffer => queue_last = NoBuffer))'
    BY <1>20, <2>3 DEF DisableTake, Running, EmptyQueue, QueueIntact, Walking, HeadOf
  <2>8. ListOf({})'
    BY <1>0, <2>2, <2>3, <2>4, <2>5, <2>6, <2>7 DEF ListOf
  <2> QED BY <2>8 DEF Lists
<1>21. ASSUME NEW c \in Controllers, DisableEmpty(c) PROVE Lists'
  <2>1. /\ UNCHANGED <<next, at, op, buffer, saved>>
        /\ pc' = [pc EXCEPT ![c] = "wait"]
        /\ queue_first' = NoBuffer /\ queue_last' = NoBuffer
        /\ op[c] = "disable" /\ pc[c] = "walk"
    BY <1>21 DEF DisableEmpty, Goto, Running, EmptyQueue, headers
  <2>2. Queued' = Queued /\ \A x : Unlinked(x)' <=> Unlinked(x)
    BY <2>1 DEF Queued, Unlinked
  <2>3. \A t \in Threads : ~Walking(t)' /\ op'[t] # "resume"
    BY <2>1 DEF Walking, Roles, Locks, CleanClient, Operations
  <2>4. ListOf({})'
    BY <1>0, <2>1, <2>2, <2>3 DEF ListOf, HeadOf
  <2> QED BY <2>4 DEF Lists
<1>22. ASSUME NEW c \in Controllers, DisableWait(c) PROVE Lists'
  <2>1. ListOf(M)'
    BY <1>0, <1>22 DEF DisableWait, Goto, Running, flags, queue, locks, headers, ListOf,
       HeadOf, Queued, Unlinked, Walking, Cursor, QueueIntact
  <2> QED BY <2>1 DEF Lists
<1>23. ASSUME NEW c \in Controllers, DisablePost(c) PROVE Lists'
  <2>1. ListOf(M)'
    BY <1>0, <1>23 DEF DisablePost, Goto, Running, flags, queue, locks, headers, ListOf,
       HeadOf, Queued, Unlinked, Walking, Cursor, QueueIntact
  <2> QED BY <2>1 DEF Lists
<1>24. ASSUME NEW c \in Controllers, DisableClear(c) PROVE Lists'
  <2>1. ListOf(M)'
    BY <1>0, <1>24 DEF DisableClear, End, Running, queue, transit, headers, Begin,
       ListOf, HeadOf, Queued, Unlinked, Walking, Cursor, QueueIntact
  <2> QED BY <2>1 DEF Lists
<1>25. ASSUME NEW f \in Flushers, FlushStart(f) PROVE Lists'
  <2>1. ListOf(M)'
    BY <1>0, <1>25 DEF FlushStart, Begin, Idle, flags, queue, transit, headers, Running,
       ListOf, HeadOf, Queued, Unlinked, Walking, Cursor, QueueIntact
  <2> QED BY <2>1 DEF Lists
<1>26. ASSUME NEW f \in Flushers, FlushTake(f) PROVE Lists'
  <2>1. QueueIntact
    BY <1>26, ConstantsAssumption DEF FlushTake, Running, QueueIntact, Walking, Roles,
       Locks, CleanClient, Operations
  <2>2. queue_first # NoBuffer => queue_first \in Queued /\ Unlinked(queue_first)
    BY <1>0, <2>1 DEF ListOf, HeadOf
  <2>3. /\ UNCHANGED <<next, at, saved>> /\ UNCHANGED op
        /\ buffer' = [buffer EXCEPT ![f] = queue_first]
        /\ pc' = [pc EXCEPT ![f] = "walk"]
    BY <1>26 DEF FlushTake, SetBuffer, Goto, headers
  <2>4. Queued' = Queued /\ \A x : Unlinked(x)' <=> Unlinked(x)
    BY <2>3 DEF Queued, Unlinked
  <2>5. \A t \in Threads : t # f => ~Walking(t)' /\ op'[t] # "resume"
    BY <1>26, <2>1, <2>3 DEF FlushTake, Running, QueueIntact, Walking, Roles, Locks,
       CleanClient, Operations
  <2>6. Cursor(f)' = queue_first /\ op'[f] # "resume"
    BY <1>26, <2>3 DEF FlushTake, Running, Cursor
  <2>7. (QueueIntact => HeadOf(queue_first, {}) /\ (queue_first = NoBuffer => queue_last = NoBuffer))'
    BY <1>26, <2>3 DEF FlushTake, Running, EmptyQueue, QueueIntact, Walking, HeadOf
  <2>8. ListOf({})'
    BY <1>0, <2>2, <2>3, <2>4, <2>5, <2>6, <2>7 DEF ListOf
  <2> QED BY <2>8 DEF Lists
<1>27. ASSUME NEW f \in Flushers, FlushFailed(f) PROVE Lists'
  <2>1. ListOf(M)'
    BY <1>0, <1>27 DEF FlushFailed, End, Running, flags, queue, transit, headers, Begin,
       ListOf, HeadOf, Queued, Unlinked, Walking, Cursor, QueueIntact
  <2> QED BY <2>1 DEF Lists
<1>28. ASSUME NEW f \in Flushers, FlushEnd(f) PROVE Lists'
  <2>1. ListOf(M)'
    BY <1>0, <1>28 DEF FlushEnd, End, Running, flags, queue, transit, locks, headers,
       Begin, ListOf, HeadOf, Queued, Unlinked, Walking, Cursor, QueueIntact
  <2> QED BY <2>1 DEF Lists
<1>29. ASSUME NEW p \in Pausers, Pause(p) PROVE Lists'
  <2>1. ListOf(M)'
    BY <1>0, <1>29 DEF Pause, Idle, queue, transit, locks, headers, control, Running,
       ListOf, HeadOf, Queued, Unlinked, Walking, Cursor, QueueIntact
  <2> QED BY <2>1 DEF Lists
<1>30. ASSUME NEW p \in Pausers, ResumeDisabled(p) PROVE Lists'
  <2>1. ListOf(M)'
    BY <1>0, <1>30 DEF ResumeDisabled, Idle, queue, transit, locks, headers, control,
       Running, ListOf, HeadOf, Queued, Unlinked, Walking, Cursor, QueueIntact
  <2> QED BY <2>1 DEF Lists
<1>31. ASSUME NEW p \in Pausers, ResumeStart(p) PROVE Lists'
  <2>1. QueueIntact
    BY <1>31, ConstantsAssumption DEF ResumeStart, QueueIntact, Walking, Roles, Locks
  <2>2. /\ UNCHANGED <<next, at, saved, queue>>
        /\ buffer' = [buffer EXCEPT ![p] = queue_first]
        /\ pc' = [pc EXCEPT ![p] = "resend"] /\ op' = [op EXCEPT ![p] = "resume"]
        /\ ~Walking(p)
    BY <1>31 DEF ResumeStart, SetBuffer, Begin, Idle, Running, Walking, headers
  <2>3. Queued' = Queued /\ \A x : Unlinked(x)' <=> Unlinked(x)
    BY <2>2 DEF Queued, Unlinked
  <2>4. \A t \in Threads : Walking(t)' => t # p /\ Walking(t) /\ Cursor(t)' = Cursor(t)
    BY <2>2 DEF Walking, Cursor
  <2>5. ~QueueIntact'
    BY <2>2 DEF QueueIntact
  <2>6. \A x : HeadOf(x, M) => HeadOf(x, M)'
    BY <2>2, <2>3 DEF HeadOf, queue
  <2>7. \A t \in Threads : op'[t] = "resume" => HeadOf(buffer[t], M)'
    BY <1>0, <2>1, <2>2, <2>6 DEF ListOf, QueueIntact
  <2>8. ListOf(M)'
    BY <1>0, <2>2, <2>3, <2>4, <2>5, <2>7 DEF ListOf
  <2> QED BY <2>8 DEF Lists
<1>32. ASSUME NEW p \in Pausers, ResumeSend(p) PROVE Lists'
  <2>1. PICK b \in M : b = buffer[p] /\ HeadOf(b, M) /\ b # NoBuffer /\ b \in Queued
    BY <1>0, <1>32 DEF ResumeSend, Running, ListOf, HeadOf
  <2>2. /\ UNCHANGED <<next, queue_first, queue_last, op, pc, saved>>
        /\ buffer' = [buffer EXCEPT ![p] = next[b]]
        /\ Queued' = Queued \ {b}
        /\ op[p] = "resume" /\ ~Walking(p)
    BY <1>32, <2>1 DEF ResumeSend, SetBuffer, Running, Walking, Queued, queue
  <2>3. \A x : Unlinked(x) => Unlinked(x)'
    BY <2>2 DEF Unlinked
  <2>4. /\ M \ {b} \subseteq Queued'
        /\ \A x \in Queued' : next'[x] # NoBuffer =>
             next'[x] \in Queued' /\ (x \in M \ {b} <=> next'[x] \in M \ {b})
        /\ \A x, y \in Queued' : x # y /\ next'[x] # NoBuffer => next'[x] # next'[y]
    BY <1>0, <2>1, <2>2 DEF ListOf, HeadOf, Unlinked
  <2>5. \A t \in Threads : Walking(t)' => Walking(t) /\ Cursor(t)' = Cursor(t)
    BY <2>2 DEF Walking, Cursor
  <2>6. \A t \in Threads : Walking(t)' /\ Cursor(t)' # NoBuffer =>
          Cursor(t)' \in Queued' \ (M \ {b}) /\ Unlinked(Cursor(t))'
    BY <1>0, <2>1, <2>2, <2>3, <2>5 DEF ListOf
  <2>7. ~QueueIntact'
    BY <2>2 DEF QueueIntact
  <2>8. next[b] # NoBuffer =>
          /\ next[b] \in M \ {b} /\ queue_last \in M \ {b} /\ next[queue_last] = NoBuffer
          /\ Unlinked(next[b])'
    BY <1>0, <2>1, <2>2 DEF ListOf, HeadOf, Unlinked
  <2>9. HeadOf(buffer[p], M \ {b})'
    BY <2>2, <2>8 DEF HeadOf
  <2>10. \A t \in Threads : op'[t] = "resume" => t = p
    BY <2>2 DEF Roles, Locks
  <2>11. ListOf(M \ {b})'
    BY <2>4, <2>6, <2>7, <2>9, <2>10 DEF ListOf
  <2> QED BY <2>11 DEF Lists
<1>33. ASSUME NEW p \in Pausers, ResumeFailed(p) PROVE Lists'
  <2>1. ListOf(M)'
    BY <1>0, <1>33 DEF ResumeFailed, End, SetBuffer, Running, flags, transit, headers,
       Begin, ListOf, HeadOf, Queued, Unlinked, Walking, Cursor, QueueIntact
  <2> QED BY <2>1 DEF Lists
<1>34. ASSUME NEW p \in Pausers, ResumeEnd(p) PROVE Lists'
  <2>1. /\ UNCHANGED <<next, at, buffer, saved>>
        /\ queue_first' = NoBuffer /\ queue_last' = NoBuffer
        /\ op[p] = "resume" /\ op' = [op EXCEPT ![p] = "none"]
        /\ pc' = [pc EXCEPT ![p] = "idle"] /\ ~Walking(p)
    BY <1>34 DEF ResumeEnd, EmptyQueue, End, Begin, Running, Walking, headers
  <2>2. Queued' = Queued /\ \A x : Unlinked(x)' <=> Unlinked(x)
    BY <2>1 DEF Queued, Unlinked
  <2>3. \A t \in Threads : Walking(t)' => Walking(t) /\ Cursor(t)' = Cursor(t)
    BY <2>1 DEF Walking, Cursor
  <2>4. \A t \in Threads : op'[t] # "resume"
    BY <2>1 DEF Roles, Locks
  <2>5. ListOf(M)'
    BY <1>0, <2>1, <2>2, <2>3, <2>4 DEF ListOf, HeadOf
  <2> QED BY <2>5 DEF Lists
<1>35. ASSUME UNCHANGED vars PROVE Lists'
  <2>1. ListOf(M)'
    BY <1>0, <1>35 DEF vars, flags, queue, transit, locks, headers, control, ListOf,
       HeadOf, Queued, Unlinked, Walking, Cursor, QueueIntact
  <2> QED BY <2>1 DEF Lists
<1> QED
  BY <1>1, <1>2, <1>3, <1>4, <1>5, <1>6, <1>7, <1>8, <1>9, <1>10, <1>11, <1>12, <1>13, <1>14,
     <1>15, <1>16, <1>17, <1>18, <1>19, <1>20, <1>21, <1>22, <1>23, <1>24, <1>25, <1>26, <1>27,
     <1>28, <1>29, <1>30, <1>31, <1>32, <1>33, <1>34, <1>35, NextCases

-----------------------------------------------------------------------------
(* The theorems.                                                           *)

\* A new port satisfies the invariant.
LEMMA ContractInit ==
  ASSUME CleanClient, Init
  PROVE  ContractInv
<1>1. TokenInv
  BY TokenInit
<1>2. \A b \in Buffers : next[b] = NoBuffer
  <2>1. \A p \in Pools : Len(Headers[p]) = 1
    BY DEF CleanClient
  <2> QED BY <2>1 DEF Init, InitialNext
<1>3. Roles /\ Locks
  BY DEF Init, Roles, Locks
<1>4. Callbacks
  BY DEF Init, Callbacks
<1>5. Ownership
  BY <1>2 DEF Init, Ownership
<1>6. Pooled
  BY DEF Init, Pooled
<1>7. TransitAccount
  <2>1. Held = {} /\ Uncounted = {}
    BY DEF Init, Held, Uncounted
  <2> QED BY <2>1, FS_EmptySet DEF Init, TransitAccount
<1>8. Lists
  <2>1. Queued = {}
    BY DEF Init, Queued
  <2>2. \A t \in Threads : ~Walking(t) /\ op[t] # "resume"
    BY DEF Init, Walking
  <2>3. ListOf({})
    BY <2>1, <2>2 DEF Init, ListOf, HeadOf
  <2> QED BY <2>3 DEF Lists
<1> QED
  BY <1>1, <1>3, <1>4, <1>5, <1>6, <1>7, <1>8 DEF ContractInv

\* Every step keeps the invariant.
LEMMA ContractStep ==
  ASSUME CleanClient, ContractInv, [Next]_vars
  PROVE  ContractInv'
<1> USE DEF ContractInv
<1>0. TypeOK
  BY DEF TokenInv
<1>1. TokenInv'
  BY TokenStep
<1>2. Roles' /\ Locks'
  BY <1>0, RolesKept, LocksKept
<1>3. Callbacks'
  BY CallbacksKept
<1>4. Ownership' /\ Pooled'
  BY <1>0, OwnershipKept
<1>5. TransitAccount'
  BY <1>0, AccountKept
<1>6. Lists'
  BY <1>0, ListsKept
<1> QED BY <1>1, <1>2, <1>3, <1>4, <1>5, <1>6

\* So it always holds.
LEMMA ContractInvariant == ASSUME CleanClient PROVE Spec => []ContractInv
<1>1. Init => ContractInv
  BY ContractInit
<1>2. ContractInv /\ [Next]_vars => ContractInv'
  BY ContractStep
<1> QED BY <1>1, <1>2, PTL DEF Spec

\* The counter of buffers in transit is exact: it is the number of buffers the port owes
\* to the client, and of sends and callbacks under way (IN_TRANSIT_*, mmal_port.c:135-149).
THEOREM TransitCorrect == ASSUME CleanClient PROVE Spec => []TransitAccount
<1>1. ContractInv => TransitAccount
  BY DEF ContractInv
<1> QED BY <1>1, ContractInvariant, PTL

\* mmal_port_disable() never clears the callback under a buffer on its way back.
THEOREM CallbackCorrect == ASSUME CleanClient PROVE Spec => []ReturnHasCallback
<1>1. ContractInv => ReturnHasCallback
  <2> SUFFICES ASSUME ContractInv, NEW t \in Threads, pc[t] = "callback" PROVE callback
    BY DEF ReturnHasCallback
  <2>1. transit_buffer_headers >= 1
    BY InTransit DEF ContractInv, TokenInv
  <2> QED BY <2>1 DEF ContractInv, Callbacks
<1> QED BY <1>1, ContractInvariant, PTL

\* A buffer given back to the client is not one the client has already.
THEOREM OwnershipCorrect == ASSUME CleanClient PROVE Spec => []OwnedOnce
<1>1. ContractInv => OwnedOnce
  <2> SUFFICES ASSUME ContractInv, NEW t \in Threads, pc[t] = "callback"
               PROVE  /\ \A p \in Pools : \A i \in 1 .. Len(pool[p]) : pool[p][i] # buffer[t]
                      /\ \A u \in Threads \ {t} :
                           pc[u] \in {"start", "deliver", "callback"} => buffer[u] # buffer[t]
    BY DEF OwnedOnce
  <2>1. buffer[t] \in Buffers /\ at[buffer[t]] = "callback"
    BY DEF ContractInv, Ownership
  <2>2. ASSUME NEW p \in Pools PROVE \A i \in 1 .. Len(pool[p]) : pool[p][i] # buffer[t]
    <3>1. PICK b \in Buffers : Headers[p] = <<b>>
      BY DEF CleanClient
    <3>2. pool[p] = IF at[b] = "pool" THEN <<b>> ELSE <<>>
      BY <3>1 DEF ContractInv, Pooled
    <3> QED BY <2>1, <3>2
  <2> QED BY <2>2 DEF ContractInv, Ownership
<1> QED BY <1>1, ContractInvariant, PTL

\* A new port is a disabled one that holds nothing.
LEMMA RefinementInit ==
  ASSUME CleanClient, Init
  PROVE  Contract!Init
BY DEF Init, Contract!Init, Phase, Held, Threads

\* A step that leaves phase and buffers alone is a stutter of the contract.
LEMMA Stutter ==
  ASSUME UNCHANGED <<is_enabled, at>>,
         \A c \in Controllers : op'[c] = "disable" <=> op[c] = "disable"
  PROVE  Phase' = Phase /\ Held' = Held
BY DEF Phase, Held

\* Every step of the port is a step of the contract or a stutter.
LEMMA RefinementStep ==
  ASSUME CleanClient, ContractInv, [Next]_vars
  PROVE  [Contract!Next]_Contract!vars
<1>0. TypeOK /\ Roles /\ Locks /\ Callbacks /\ Ownership /\ Pooled /\ TransitAccount /\ Lists
  BY DEF ContractInv, TokenInv
<1> USE <1>0 DEF TypeOK, Threads, Roles
<1>1. ASSUME NEW s \in Senders, TakeFromPool(s) PROVE [Contract!Next]_Contract!vars
  <2>1. PICK b \in Buffers : at[b] = "pool" /\ at' = [at EXCEPT ![b] = "sender"]
    BY <1>1, TakeEffect
  <2>2. Held' = Held
    BY <2>1 DEF Held
  <2>3. op[s] = "none" /\ op' = [op EXCEPT ![s] = "send"] /\ UNCHANGED is_enabled
    BY <1>1 DEF TakeFromPool, Begin, Idle, Running, flags
  <2>4. Phase' = Phase
    BY <2>3 DEF Phase
  <2> QED BY <2>2, <2>4 DEF Contract!vars
<1>2. ASSUME NEW s \in Senders, SendRejected(s) PROVE [Contract!Next]_Contract!vars
  <2>1. buffer[s] \in Buffers /\ at[buffer[s]] = "sender"
    BY <1>2 DEF SendRejected, Running, Ownership
  <2>2. at' = [at EXCEPT ![buffer[s]] = "pool"]
    BY <1>2, <2>1, PutEffect DEF SendRejected
  <2>3. Phase' = Phase
    BY <1>2 DEF SendRejected, End, SetBuffer, Running, flags, queue, transit, locks,
       Begin, Phase
  <2>4. Held' = Held
    BY <2>1, <2>2 DEF Held
  <2> QED BY <2>3, <2>4 DEF Contract!vars
<1>3. ASSUME NEW s \in Senders, SendStart(s) PROVE [Contract!Next]_Contract!vars
  <2>1. Phase' = Phase /\ Held' = Held
    BY <1>3, Stutter DEF SendStart, Goto, Running, flags, queue, headers
  <2> QED BY <2>1 DEF Contract!vars
<1>4. ASSUME NEW s \in Senders, SendQueued(s) PROVE [Contract!Next]_Contract!vars
  <2>1. buffer[s] \in Buffers /\ at[buffer[s]] = "sender" /\ is_enabled
    BY <1>4 DEF SendQueued, Running, Ownership, Locks
  <2>2. Phase = "enabled" /\ Phase' = "enabled"
    BY <1>4, <2>1 DEF SendQueued, flags, Phase
  <2>3. Contract!Accept(buffer[s])
    BY <1>4, <2>1, <2>2 DEF SendQueued, Contract!Accept, Held
  <2> QED BY <2>1, <2>3 DEF Contract!Next
<1>5. ASSUME NEW s \in Senders, SendAccepted(s) PROVE [Contract!Next]_Contract!vars
  <2>1. buffer[s] \in Buffers /\ at[buffer[s]] = "sender" /\ is_enabled
    BY <1>5 DEF SendAccepted, Running, Ownership, Locks
  <2>2. Phase = "enabled" /\ Phase' = "enabled"
    BY <1>5, <2>1 DEF SendAccepted, flags, Phase
  <2>3. Contract!Accept(buffer[s])
    BY <1>5, <2>1, <2>2 DEF SendAccepted, Contract!Accept, Held
  <2> QED BY <2>1, <2>3 DEF Contract!Next
<1>6. ASSUME NEW s \in Senders, SendRefused(s) PROVE [Contract!Next]_Contract!vars
  <2>1. buffer[s] \in Buffers /\ at[buffer[s]] = "sender"
    BY <1>6 DEF SendRefused, Running, Ownership
  <2>2. at' = [at EXCEPT ![buffer[s]] = "pool"]
    BY <1>6, <2>1, PutEffect DEF SendRefused
  <2>3. Phase' = Phase
    BY <1>6 DEF SendRefused, End, SetBuffer, Running, flags, queue, Begin, Phase
  <2>4. Held' = Held
    BY <2>1, <2>2 DEF Held
  <2> QED BY <2>3, <2>4 DEF Contract!vars
<1>7. ASSUME NEW s \in Senders, SendEnd(s) PROVE [Contract!Next]_Contract!vars
  <2>1. Phase' = Phase /\ Held' = Held
    BY <1>7, Stutter DEF SendEnd, End, SetBuffer, Running, flags, queue, transit,
       headers, Begin
  <2> QED BY <2>1 DEF Contract!vars
<1>8. ASSUME NEW b \in Buffers, ReturnBuffer(b) PROVE [Contract!Next]_Contract!vars
  <2>2. Held' = Held
    BY <1>8 DEF ReturnBuffer, Held, Queued
  <2>3. Phase' = Phase
    BY <1>8 DEF ReturnBuffer, Begin, SetBuffer, Idle, flags, queue, transit, Running, Phase
  <2> QED BY <2>2, <2>3 DEF Contract!vars
<1>9. ASSUME ReturnDone PROVE [Contract!Next]_Contract!vars
  <2>1. Phase' = Phase /\ Held' = Held
    BY <1>9, Stutter DEF ReturnDone, End, SetBuffer, Running, flags, queue, headers, Begin
  <2> QED BY <2>1 DEF Contract!vars
<1>10. ASSUME NEW t \in Threads, Callback(t) PROVE [Contract!Next]_Contract!vars
  <2>1. buffer[t] \in Buffers /\ at[buffer[t]] = "callback"
    BY <1>10 DEF Callback, Running, Ownership
  <2>2. at' = [at EXCEPT ![buffer[t]] = "pool"]
    BY <1>10, <2>1, PutEffect DEF Callback
  <2>3. Phase' = Phase
    BY <1>10 DEF Callback, Goto, flags, queue, transit, locks, Phase
  <2>4. Contract!GiveBack(buffer[t])
    BY <2>1, <2>2, <2>3 DEF Contract!GiveBack, Held
  <2> QED BY <2>1, <2>4 DEF Contract!Next
<1>11. ASSUME NEW t \in Threads, WalkNext(t) PROVE [Contract!Next]_Contract!vars
  <2>1. buffer[t] \in Queued
    BY <1>11, WalkedIsQueued DEF WalkNext, Running
  <2>2. Held' = Held
    BY <1>11, <2>1 DEF WalkNext, Held, Queued
  <2>3. Phase' = Phase
    BY <1>11 DEF WalkNext, Goto, flags, queue, transit, locks, Phase
  <2> QED BY <2>2, <2>3 DEF Contract!vars
<1>12. ASSUME NEW t \in Threads, WalkDone(t) PROVE [Contract!Next]_Contract!vars
  <2>1. Phase' = Phase /\ Held' = Held
    BY <1>12, Stutter DEF WalkDone, Goto, SetBuffer, flags, queue, locks, headers
  <2> QED BY <2>1 DEF Contract!vars
<1>13. ASSUME NEW c \in Controllers, EnableStart(c) PROVE [Contract!Next]_Contract!vars
  <2>1. Phase' = Phase /\ Held' = Held
    BY <1>13, Stutter DEF EnableStart, Begin, Idle, queue, transit, headers, Running
  <2> QED BY <2>1 DEF Contract!vars
<1>14. ASSUME NEW c \in Controllers, EnableDone(c) PROVE [Contract!Next]_Contract!vars
  <2>1. Phase = "disabled" /\ Phase' = "enabled" /\ Held' = Held
    BY <1>14 DEF EnableDone, Running, headers, Phase, Held, Locks
  <2> QED BY <2>1 DEF Contract!Enable, Contract!Next
<1>15. ASSUME NEW c \in Controllers, EnableFailed(c) PROVE [Contract!Next]_Contract!vars
  <2>1. Phase' = Phase /\ Held' = Held
    BY <1>15, Stutter DEF EnableFailed, End, Running, flags, queue, transit, headers, Begin
  <2> QED BY <2>1 DEF Contract!vars
<1>16. ASSUME NEW c \in Controllers, DisableStart(c) PROVE [Contract!Next]_Contract!vars
  <2>1. Phase = "enabled" /\ Phase' = "enabled" /\ Held' = Held
    BY <1>16 DEF DisableStart, flags, headers, Phase, Held
  <2> QED BY <2>1 DEF Contract!vars
<1>17. ASSUME NEW c \in Controllers, DisableOff(c) PROVE [Contract!Next]_Contract!vars
  <2>1. is_enabled
    BY <1>17 DEF DisableOff, Running, Locks
  <2>2. Phase = "enabled" /\ Phase' = "disabling" /\ Held' = Held
    BY <1>17, <2>1 DEF DisableOff, Running, Goto, headers, Phase, Held
  <2> QED BY <2>2 DEF Contract!BeginDisable, Contract!Next
<1>18. ASSUME NEW c \in Controllers, DisableStop(c) PROVE [Contract!Next]_Contract!vars
  <2>1. Phase' = Phase /\ Held' = Held
    BY <1>18, Stutter DEF DisableStop, Goto, Running, flags, queue, transit, locks, headers
  <2> QED BY <2>1 DEF Contract!vars
<1>19. ASSUME NEW c \in Controllers, DisableRestore(c) PROVE [Contract!Next]_Contract!vars
  <2>1. ~is_enabled
    BY <1>19 DEF DisableRestore, Running, Locks
  <2>2. Phase = "disabling" /\ Phase' = "enabled" /\ Held' = Held
    BY <1>19, <2>1 DEF DisableRestore, Running, headers, Phase, Held
  <2> QED BY <2>2 DEF Contract!AbandonDisable, Contract!Next
<1>20. ASSUME NEW c \in Controllers, DisableTake(c) PROVE [Contract!Next]_Contract!vars
  <2>1. Phase' = Phase /\ Held' = Held
    BY <1>20, Stutter DEF DisableTake, Goto, SetBuffer, Running, flags, queue, transit,
       locks, headers
  <2> QED BY <2>1 DEF Contract!vars
<1>21. ASSUME NEW c \in Controllers, DisableEmpty(c) PROVE [Contract!Next]_Contract!vars
  <2>1. Phase' = Phase /\ Held' = Held
    BY <1>21, Stutter DEF DisableEmpty, Goto, Running, EmptyQueue, flags, transit,
       locks, headers
  <2> QED BY <2>1 DEF Contract!vars
<1>22. ASSUME NEW c \in Controllers, DisableWait(c) PROVE [Contract!Next]_Contract!vars
  <2>1. Phase' = Phase /\ Held' = Held
    BY <1>22, Stutter DEF DisableWait, Goto, Running, flags, queue, locks, headers
  <2> QED BY <2>1 DEF Contract!vars
<1>23. ASSUME NEW c \in Controllers, DisablePost(c) PROVE [Contract!Next]_Contract!vars
  <2>1. Phase' = Phase /\ Held' = Held
    BY <1>23, Stutter DEF DisablePost, Goto, Running, flags, queue, locks, headers
  <2> QED BY <2>1 DEF Contract!vars
<1>24. ASSUME NEW c \in Controllers, DisableClear(c) PROVE [Contract!Next]_Contract!vars
  <2>1. ~is_enabled /\ transit_buffer_headers = 0
    BY <1>24 DEF DisableClear, Running, Locks, Callbacks
  <2>2. Held = {}
    BY <2>1, Counting, FS_EmptySet DEF TransitAccount
  <2>3. \A u \in Controllers : op[u] = "disable" => u = c
    BY <1>24 DEF DisableClear, Running, Locks
  <2>4. Phase = "disabling" /\ Phase' = "disabled" /\ Held' = Held
    BY <1>24, <2>1, <2>3 DEF DisableClear, Running, End, Begin, headers, Phase, Held
  <2> QED BY <2>2, <2>4 DEF Contract!EndDisable, Contract!Next
<1>25. ASSUME NEW f \in Flushers, FlushStart(f) PROVE [Contract!Next]_Contract!vars
  <2>1. Phase' = Phase /\ Held' = Held
    BY <1>25, Stutter DEF FlushStart, Begin, Idle, flags, queue, transit, headers, Running
  <2> QED BY <2>1 DEF Contract!vars
<1>26. ASSUME NEW f \in Flushers, FlushTake(f) PROVE [Contract!Next]_Contract!vars
  <2>1. Phase' = Phase /\ Held' = Held
    BY <1>26, Stutter DEF FlushTake, Goto, SetBuffer, Running, EmptyQueue, flags,
       transit, headers
  <2> QED BY <2>1 DEF Contract!vars
<1>27. ASSUME NEW f \in Flushers, FlushFailed(f) PROVE [Contract!Next]_Contract!vars
  <2>1. Phase' = Phase /\ Held' = Held
    BY <1>27, Stutter DEF FlushFailed, End, Running, flags, queue, transit, headers, Begin
  <2> QED BY <2>1 DEF Contract!vars
<1>28. ASSUME NEW f \in Flushers, FlushEnd(f) PROVE [Contract!Next]_Contract!vars
  <2>1. Phase' = Phase /\ Held' = Held
    BY <1>28, Stutter DEF FlushEnd, End, Running, flags, queue, transit, locks, headers,
       Begin
  <2> QED BY <2>1 DEF Contract!vars
<1>29. ASSUME NEW p \in Pausers, Pause(p) PROVE [Contract!Next]_Contract!vars
  <2>1. Phase' = Phase /\ Held' = Held
    BY <1>29, Stutter DEF Pause, Idle, queue, transit, locks, headers, control, Running
  <2> QED BY <2>1 DEF Contract!vars
<1>30. ASSUME NEW p \in Pausers, ResumeDisabled(p) PROVE [Contract!Next]_Contract!vars
  <2>1. Phase' = Phase /\ Held' = Held
    BY <1>30, Stutter DEF ResumeDisabled, Idle, queue, transit, locks, headers, control,
       Running
  <2> QED BY <2>1 DEF Contract!vars
<1>31. ASSUME NEW p \in Pausers, ResumeStart(p) PROVE [Contract!Next]_Contract!vars
  <2>1. Phase' = Phase /\ Held' = Held
    BY <1>31, Stutter DEF ResumeStart, Begin, SetBuffer, Idle, flags, queue, transit,
       headers, Running
  <2> QED BY <2>1 DEF Contract!vars
<1>32. ASSUME NEW p \in Pausers, ResumeSend(p) PROVE [Contract!Next]_Contract!vars
  <2>1. buffer[p] \in Queued
    BY <1>32, WalkedIsQueued DEF ResumeSend, Running
  <2>2. Held' = Held
    BY <1>32, <2>1 DEF ResumeSend, Held, Queued
  <2>3. Phase' = Phase
    BY <1>32 DEF ResumeSend, SetBuffer, Running, flags, queue, transit, locks, Phase
  <2> QED BY <2>2, <2>3 DEF Contract!vars
<1>33. ASSUME NEW p \in Pausers, ResumeFailed(p) PROVE [Contract!Next]_Contract!vars
  <2>1. Phase' = Phase /\ Held' = Held
    BY <1>33, Stutter DEF ResumeFailed, End, SetBuffer, Running, flags, transit,
       headers, Begin
  <2> QED BY <2>1 DEF Contract!vars
<1>34. ASSUME NEW p \in Pausers, ResumeEnd(p) PROVE [Contract!Next]_Contract!vars
  <2>1. Phase' = Phase /\ Held' = Held
    BY <1>34, Stutter DEF ResumeEnd, End, Running, EmptyQueue, transit, headers, Begin
  <2> QED BY <2>1 DEF Contract!vars
<1>35. ASSUME UNCHANGED vars PROVE [Contract!Next]_Contract!vars
  BY <1>35, Stutter DEF vars, flags, headers, control, Contract!vars
<1> QED
  BY <1>1, <1>2, <1>3, <1>4, <1>5, <1>6, <1>7, <1>8, <1>9, <1>10, <1>11, <1>12, <1>13, <1>14,
     <1>15, <1>16, <1>17, <1>18, <1>19, <1>20, <1>21, <1>22, <1>23, <1>24, <1>25, <1>26, <1>27,
     <1>28, <1>29, <1>30, <1>31, <1>32, <1>33, <1>34, <1>35, NextCases

\* The port keeps the promise of mmal_port.h:134-165, whatever the number of buffers,
\* pools and threads and however their steps interleave.
THEOREM ContractCorrect == ASSUME CleanClient PROVE Spec => KeepsContract
<1>1. Init => Contract!Init
  BY RefinementInit
<1>2. ContractInv /\ [Next]_vars => [Contract!Next]_Contract!vars
  BY RefinementStep
<1> QED BY <1>1, <1>2, ContractInvariant, PTL DEF Spec, KeepsContract, Contract!Spec

-----------------------------------------------------------------------------
(* No buffer of the internal queue is lost.                                *)

\* Whoever looks at the queue goes on from where it was.
LEMMA NoneLostSame ==
  ASSUME NoneLost, Queued' = Queued, \A b \in Queued : next'[b] = next[b],
         \A b \in Queued : Entry(b) => Entry(b)'
  PROVE  NoneLost'
<1> SUFFICES ASSUME NEW S \in SUBSET Queued, Follows(S)'
             PROVE  S = Queued
  BY DEF NoneLost
<1>1. Follows(S)
  BY DEF Follows
<1> QED BY <1>1 DEF NoneLost

\* The thread t does not look at the queue, before or after.
LEMMA EntriesSame ==
  ASSUME NEW t \in Threads, TypeOK,
         \A u \in Threads \ {t} :
           op'[u] = op[u] /\ pc'[u] = pc[u] /\ buffer'[u] = buffer[u] /\ saved'[u] = saved[u],
         \/ op[t] # "resume" /\ ~Walking(t)
         \/ op'[t] = op[t] /\ op[t] # "resume" /\ Walking(t)' /\ Cursor(t)' = Cursor(t),
         op'[t] # "resume" /\ (Walking(t)' => Walking(t)),
         queue_first' = queue_first
  PROVE  \A b : Entry(b) => Entry(b)'
<1>1. \A u \in Threads \ {t} : (Walking(u)' <=> Walking(u)) /\ Cursor(u)' = Cursor(u)
  BY DEF Walking, Cursor
<1>2. QueueIntact => QueueIntact'
  BY <1>1 DEF QueueIntact
<1> QED BY <1>1, <1>2 DEF Entry

\* The queue ends for its owner: nothing is left to follow.
LEMMA EntriesEnd ==
  ASSUME NEW t \in Threads, TypeOK,
         \A u \in Threads \ {t} :
           op'[u] = op[u] /\ pc'[u] = pc[u] /\ buffer'[u] = buffer[u] /\ saved'[u] = saved[u],
         op[t] = "resume" \/ (op[t] = "disable" /\ Walking(t)),
         buffer[t] = NoBuffer, pc[t] = "walk" \/ op[t] = "resume"
  PROVE  \A b \in Queued : Entry(b) => Entry(b)'
<1>1. \A u \in Threads \ {t} : (Walking(u)' <=> Walking(u)) /\ Cursor(u)' = Cursor(u)
  BY DEF Walking, Cursor
<1>2. ~QueueIntact
  BY DEF QueueIntact
<1>3. \A b \in Queued : b # buffer[t] /\ (Walking(t) => b # Cursor(t))
  BY ConstantsAssumption DEF Queued, Cursor, Walking
<1> QED BY <1>1, <1>2, <1>3 DEF Entry

\* Sends, walks and resumes leave no queued buffer behind.
LEMMA NoneLostKept ==
  ASSUME CleanClient, TypeOK, Roles, Locks, Ownership, Pooled, Lists, NoneLost, [Next]_vars
  PROVE  NoneLost'
<1>0. PICK M \in SUBSET Buffers : ListOf(M)
  BY DEF Lists
<1> USE DEF TypeOK, Threads
<1>1. ASSUME NEW s \in Senders, TakeFromPool(s) PROVE NoneLost'
  <2>1. PICK b \in Buffers : /\ at[b] = "pool" /\ at' = [at EXCEPT ![b] = "sender"]
                             /\ buffer' = [buffer EXCEPT ![s] = b]
    BY <1>1, TakeEffect
  <2>2. /\ op[s] = "none" /\ op' = [op EXCEPT ![s] = "send"] /\ UNCHANGED <<queue, next, saved>>
        /\ pc[s] = "idle" /\ pc' = [pc EXCEPT ![s] = "start"]
    BY <1>1 DEF TakeFromPool, Begin, Idle, Running
  <2>3. Queued' = Queued
    BY <2>1 DEF Queued
  <2>4. \A x : Entry(x) => Entry(x)'
    BY <2>1, <2>2, EntriesSame DEF Walking, queue
  <2> QED BY <2>2, <2>3, <2>4, NoneLostSame
<1>2. ASSUME NEW s \in Senders, SendRejected(s) \/ SendRefused(s) PROVE NoneLost'
  <2>1. buffer[s] \in Buffers /\ at[buffer[s]] = "sender"
    BY <1>2 DEF SendRejected, SendRefused, Running, Ownership
  <2>2. at' = [at EXCEPT ![buffer[s]] = "pool"] /\ next' = [next EXCEPT ![buffer[s]] = NoBuffer]
    BY <1>2, <2>1, PutEffect DEF SendRejected, SendRefused
  <2>3. Queued' = Queued /\ \A b \in Queued : next'[b] = next[b]
    BY <2>1, <2>2 DEF Queued
  <2>4. \A b : Entry(b) => Entry(b)'
    BY <1>2, EntriesSame DEF SendRejected, SendRefused, End, Begin, SetBuffer, Running, Walking,
       queue
  <2> QED BY <2>3, <2>4, NoneLostSame
<1>3. ASSUME NEW s \in Senders, SendStart(s) \/ SendAccepted(s) \/ SendEnd(s) PROVE NoneLost'
  <2>1. Queued' = Queued /\ next' = next
    BY <1>3 DEF SendStart, SendAccepted, SendEnd, Running, headers, Ownership, Queued
  <2>2. \A b : Entry(b) => Entry(b)'
    BY <1>3, EntriesSame DEF SendStart, SendAccepted, SendEnd, Goto, End, Begin, SetBuffer,
       Running,
       Walking, queue
  <2> QED BY <2>1, <2>2, NoneLostSame
<1>4. ASSUME NEW s \in Senders, SendQueued(s) PROVE NoneLost'
  <2>1. PICK x \in Buffers : x = buffer[s] /\ at[x] = "sender" /\ next[x] = NoBuffer
    BY <1>4 DEF SendQueued, Running, Ownership
  <2>2. QueueIntact
    BY <1>4, IntactWhileSending DEF SendQueued, Running
  <2>3. /\ Queued' = Queued \cup {x} /\ x \notin Queued
        /\ IF queue_last = NoBuffer
             THEN queue_first' = x /\ next' = next
             ELSE next' = [next EXCEPT ![queue_last] = x] /\ queue_first' = queue_first
    BY <1>0, <1>4, <2>1 DEF SendQueued, Queued, ListOf
  <2>4. /\ UNCHANGED <<op, buffer, saved>>
        /\ \A t \in Threads : /\ Walking(t)' <=> Walking(t)
                              /\ Walking(t) => Cursor(t)' = Cursor(t)
        /\ \A t \in Threads : op[t] # "resume"
    BY <1>4, <2>2 DEF SendQueued, Running, Goto, Walking, Cursor, QueueIntact
  <2>5. /\ queue_last # NoBuffer => queue_last \in Queued /\ queue_first # NoBuffer /\ next[queue_last] = NoBuffer
        /\ queue_last = NoBuffer => queue_first \notin Queued
    BY <1>0, <2>2, ConstantsAssumption DEF ListOf, HeadOf, Queued
  <2>6. QueueIntact'
    BY <2>2, <2>4 DEF QueueIntact
  <2>7. \A b \in Queued : Entry(b) => Entry(b)'
    BY <2>2, <2>3, <2>4, <2>5, <2>6 DEF Entry
  <2> SUFFICES ASSUME NEW S \in SUBSET Queued', Follows(S)'
               PROVE  S = Queued'
    BY DEF NoneLost
  <2>8. Follows(S \ {x})
    <3> SUFFICES ASSUME NEW b \in Queued, Entry(b) \/ \E a \in S \ {x} : next[a] = b
                 PROVE  b \in S \ {x}
      BY DEF Follows
    <3>1. \A a \in S \ {x} : next[a] = b => next'[a] = b
      BY <2>3, <2>5, ConstantsAssumption DEF Queued
    <3> QED BY <2>3, <2>7, <3>1 DEF Follows
  <2>9. S \ {x} = Queued
    BY <2>3, <2>8 DEF NoneLost
  <2>10. x \in S
    <3>1. CASE queue_last = NoBuffer
      <4>1. Entry(x)'
        BY <2>3, <2>6, <3>1 DEF Entry
      <4> QED BY <2>3, <4>1 DEF Follows
    <3>2. CASE queue_last # NoBuffer
      <4>1. queue_last \in S /\ next'[queue_last] = x
        BY <2>3, <2>5, <2>9, <3>2 DEF Queued
      <4> QED BY <2>3, <4>1 DEF Follows
    <3> QED BY <3>1, <3>2
  <2> QED BY <2>3, <2>9, <2>10
<1>5. ASSUME NEW b \in Buffers, ReturnBuffer(b) PROVE NoneLost'
  <2>1. Queued' = Queued /\ next' = next
    BY <1>5 DEF ReturnBuffer, Queued
  <2>2. \A x : Entry(x) => Entry(x)'
    BY <1>5, EntriesSame DEF ReturnBuffer, Begin, SetBuffer, Idle, Running, Walking, queue
  <2> QED BY <2>1, <2>2, NoneLostSame
<1>6. ASSUME ReturnDone PROVE NoneLost'
  <2>1. Queued' = Queued /\ next' = next
    BY <1>6 DEF ReturnDone, Queued, headers
  <2>2. \A x : Entry(x) => Entry(x)'
    BY <1>6, EntriesSame DEF ReturnDone, End, Begin, SetBuffer, Running, Walking, queue
  <2> QED BY <2>1, <2>2, NoneLostSame
<1>7. ASSUME NEW t \in Threads, Callback(t) PROVE NoneLost'
  <2>1. buffer[t] \in Buffers /\ at[buffer[t]] = "callback"
    BY <1>7 DEF Callback, Running, Ownership
  <2>2. at' = [at EXCEPT ![buffer[t]] = "pool"] /\ next' = [next EXCEPT ![buffer[t]] = NoBuffer]
    BY <1>7, <2>1, PutEffect DEF Callback
  <2>3. Queued' = Queued /\ \A b \in Queued : next'[b] = next[b]
    BY <2>1, <2>2 DEF Queued
  <2>4. \A b : Entry(b) => Entry(b)'
    BY <1>7, EntriesSame DEF Callback, Goto, Walking, Cursor, Roles, queue
  <2> QED BY <2>3, <2>4, NoneLostSame
<1>8. ASSUME NEW t \in Threads, WalkNext(t) PROVE NoneLost'
  <2>1. PICK b \in Queued : b = buffer[t]
    BY <1>0, <1>8 DEF WalkNext, ListOf, Walking, Cursor, Roles, Operations
  <2>2. /\ Walking(t)' /\ Cursor(t)' = next[b]
        /\ \A u \in Threads \ {t} : /\ Walking(u)' <=> Walking(u)
                                    /\ Cursor(u)' = Cursor(u)
        /\ Cursor(t) = b
        /\ UNCHANGED <<next, queue_first, op, buffer>>
        /\ op[t] # "resume"
    BY <1>8, <2>1 DEF WalkNext, Goto, Walking, Cursor, Roles, Operations, queue
  <2>3. Queued' = Queued \ {b}
    BY <1>8, <2>1 DEF WalkNext, Queued
  <2>4. Walking(t)
    BY <1>8 DEF WalkNext, Walking, Roles, Operations
  <2>5. \A x \in Queued \ {b} : Entry(x) \/ next[b] = x => Entry(x)'
    BY <2>2, <2>4 DEF Entry, QueueIntact
  <2> SUFFICES ASSUME NEW S \in SUBSET Queued', Follows(S)'
               PROVE  S = Queued'
    BY DEF NoneLost
  <2>6. Follows(S \cup {b})
    BY <2>2, <2>3, <2>5 DEF Follows
  <2> QED BY <2>1, <2>3, <2>6 DEF NoneLost
<1>9. ASSUME NEW t \in Threads, WalkDone(t) PROVE NoneLost'
  <2>1. Queued' = Queued /\ next' = next
    BY <1>9 DEF WalkDone, Queued, headers
  <2>2. \A x : Entry(x) => Entry(x)'
    BY <1>9, EntriesSame DEF WalkDone, Goto, SetBuffer, Walking, Cursor, queue
  <2> QED BY <2>1, <2>2, NoneLostSame
<1>10. ASSUME NEW c \in Controllers,
              \/ EnableStart(c) \/ EnableDone(c) \/ EnableFailed(c) \/ DisableStart(c) \/ DisableOff(c)
              \/ DisableStop(c) \/ DisableRestore(c) \/ DisableWait(c) \/ DisablePost(c) \/ DisableClear(c)
       PROVE NoneLost'
  <2>1. Queued' = Queued /\ next' = next /\ UNCHANGED <<queue_first, buffer, saved>>
    BY <1>10 DEF EnableStart, EnableDone, EnableFailed, DisableStart, DisableOff, DisableStop,
       DisableRestore,
       DisableWait, DisablePost, DisableClear, Queued, headers, queue
  <2>2. PICK o \in {"none", "enable", "disable"},
             l \in {"idle", "enable", "off", "stop", "take", "restore", "post", "clear"} :
          /\ op' = [op EXCEPT ![c] = o] /\ pc' = [pc EXCEPT ![c] = l]
          /\ op[c] # "resume"
          /\ pc[c] \notin {"walk", "callback", "decrement"}
    BY <1>10 DEF EnableStart, EnableDone, EnableFailed, DisableStart, DisableOff, DisableStop,
       DisableRestore,
       DisableWait, DisablePost, DisableClear, Begin, End, Goto, Idle, Running
  <2>3. \A x : Entry(x) => Entry(x)'
    BY <2>1, <2>2, EntriesSame DEF Walking
  <2> QED BY <2>1, <2>3, NoneLostSame
<1>11. ASSUME NEW t \in Threads, DisableTake(t) \/ FlushTake(t), t \in Controllers \cup Flushers PROVE NoneLost'
  <2>1. /\ op[t] \in {"disable", "flush"} /\ ~Walking(t)
        /\ UNCHANGED <<next, at, op, saved>>
        /\ buffer' = [buffer EXCEPT ![t] = queue_first]
        /\ pc' = [pc EXCEPT ![t] = "walk"]
    BY <1>11 DEF DisableTake, FlushTake, SetBuffer, Goto, headers, Running, Walking
  <2>2. QueueIntact
    BY <1>11, ConstantsAssumption DEF DisableTake, FlushTake, Running, QueueIntact, Walking,
       Roles,
       Locks, CleanClient, Operations
  <2>3. Walking(t)' /\ Cursor(t)' = queue_first /\ Queued' = Queued
    BY <2>1 DEF Walking, Cursor, Queued
  <2>4. \A u \in Threads \ {t} : Walking(u)' = Walking(u) /\ Cursor(u)' = Cursor(u)
    BY <2>1 DEF Walking, Cursor
  <2>5. \A b : Entry(b) => Entry(b)'
    BY <2>1, <2>2, <2>3, <2>4 DEF Entry, QueueIntact
  <2> QED BY <2>1, <2>3, <2>5, NoneLostSame
<1>12. ASSUME NEW c \in Controllers, DisableEmpty(c) PROVE NoneLost'
  <2>1. \A b \in Queued : Entry(b) => Entry(b)'
    BY <1>12, EntriesEnd DEF DisableEmpty, Goto, Running, Walking
  <2> QED BY <1>12, <2>1, NoneLostSame DEF DisableEmpty, Queued, headers
<1>13. ASSUME NEW f \in Flushers, FlushStart(f) \/ FlushFailed(f) PROVE NoneLost'
  <2>1. Queued' = Queued /\ next' = next
    BY <1>13 DEF FlushStart, FlushFailed, Queued, headers
  <2>2. \A x : Entry(x) => Entry(x)'
    BY <1>13, EntriesSame DEF FlushStart, FlushFailed, Begin, End, Idle, Running, Walking, queue
  <2> QED BY <2>1, <2>2, NoneLostSame
<1>14. ASSUME NEW f \in Flushers, FlushEnd(f) PROVE NoneLost'
  <2>1. /\ UNCHANGED <<next, at, queue_first, buffer, saved>> /\ buffer[f] = NoBuffer
        /\ op[f] = "flush" /\ pc[f] = "walk"
        /\ op' = [op EXCEPT ![f] = "none"] /\ pc' = [pc EXCEPT ![f] = "idle"]
    BY <1>14 DEF FlushEnd, End, Begin, Running, headers, queue
  <2>2. \A u \in Threads \ {f} : (Walking(u)' <=> Walking(u)) /\ Cursor(u)' = Cursor(u)
    BY <2>1 DEF Walking, Cursor
  <2>3. QueueIntact => QueueIntact'
    BY <2>1, <2>2 DEF QueueIntact, Walking
  <2>4. \A b \in Queued : b # Cursor(f)
    BY <2>1, ConstantsAssumption DEF Queued, Cursor
  <2>5. \A b \in Queued : Entry(b) => Entry(b)'
    BY <2>1, <2>2, <2>3, <2>4 DEF Entry
  <2> QED BY <2>1, <2>5, NoneLostSame DEF Queued
<1>15. ASSUME NEW p \in Pausers, Pause(p) \/ ResumeDisabled(p) PROVE NoneLost'
  <2>1. UNCHANGED <<next, at, queue_first, buffer, saved, op, pc>>
    BY <1>15 DEF Pause, ResumeDisabled, headers, queue, control
  <2>2. \A b \in Queued : Entry(b) => Entry(b)'
    BY <2>1 DEF Entry, QueueIntact, Walking, Cursor
  <2> QED BY <2>1, <2>2, NoneLostSame DEF Queued
<1>16. ASSUME NEW p \in Pausers, ResumeStart(p) PROVE NoneLost'
  <2>1. QueueIntact
    BY <1>16, ConstantsAssumption DEF ResumeStart, QueueIntact, Walking, Roles, Locks
  <2>2. /\ UNCHANGED <<next, at, saved, queue>>
        /\ buffer' = [buffer EXCEPT ![p] = queue_first]
        /\ pc' = [pc EXCEPT ![p] = "resend"] /\ op' = [op EXCEPT ![p] = "resume"]
        /\ ~Walking(p)
    BY <1>16 DEF ResumeStart, SetBuffer, Begin, Idle, Running, Walking, headers
  <2>3. \A u \in Threads \ {p} : Walking(u)' = Walking(u) /\ Cursor(u)' = Cursor(u)
    BY <2>2 DEF Walking, Cursor
  <2>4. \A b : Entry(b) => Entry(b)'
    BY <2>1, <2>2, <2>3 DEF Entry, QueueIntact
  <2> QED BY <2>2, <2>4, NoneLostSame DEF Queued
<1>17. ASSUME NEW p \in Pausers, ResumeSend(p) PROVE NoneLost'
  <2>1. PICK b \in Queued : b = buffer[p]
    BY <1>17, WalkedIsQueued DEF ResumeSend, Running
  <2>2. /\ UNCHANGED <<next, queue_first, op, pc, saved>>
        /\ buffer' = [buffer EXCEPT ![p] = next[b]]
        /\ Queued' = Queued \ {b}
        /\ op[p] = "resume" /\ ~Walking(p)
    BY <1>17, <2>1 DEF ResumeSend, SetBuffer, Running, Walking, Queued, queue
  <2>3. \A u \in Threads \ {p} : (Walking(u)' <=> Walking(u)) /\ Cursor(u)' = Cursor(u)
    BY <2>2 DEF Walking, Cursor
  <2>4. ~QueueIntact
    BY <2>2 DEF QueueIntact
  <2>5. \A x \in Queued \ {b} : Entry(x) \/ next[b] = x => Entry(x)'
    BY <2>1, <2>2, <2>3, <2>4 DEF Entry
  <2> SUFFICES ASSUME NEW S \in SUBSET Queued', Follows(S)'
               PROVE  S = Queued'
    BY DEF NoneLost
  <2>6. Follows(S \cup {b})
    BY <2>2, <2>5 DEF Follows
  <2> QED BY <2>1, <2>2, <2>6 DEF NoneLost
<1>18. ASSUME NEW p \in Pausers, ResumeFailed(p) PROVE NoneLost'
  <2>1. /\ UNCHANGED <<next, at, saved>> /\ op[p] = "resume" /\ ~Walking(p)
        /\ queue_first' = buffer[p]
        /\ op' = [op EXCEPT ![p] = "none"] /\ pc' = [pc EXCEPT ![p] = "idle"]
        /\ buffer' = [buffer EXCEPT ![p] = NoBuffer]
    BY <1>18 DEF ResumeFailed, End, Begin, SetBuffer, Running, Walking, headers
  <2>2. \A u \in Threads \ {p} : (Walking(u)' <=> Walking(u)) /\ Cursor(u)' = Cursor(u)
    BY <2>1 DEF Walking, Cursor
  <2>3. QueueIntact' /\ ~QueueIntact /\ \A u \in Threads \ {p} : op[u] # "resume"
    BY <1>18, <2>1, <2>2, ConstantsAssumption DEF QueueIntact, Walking, Roles, Locks,
       ResumeFailed, Running
  <2>4. \A b : Entry(b) => Entry(b)'
    BY <2>1, <2>2, <2>3 DEF Entry
  <2> QED BY <2>1, <2>4, NoneLostSame DEF Queued
<1>19. ASSUME NEW p \in Pausers, ResumeEnd(p) PROVE NoneLost'
  <2>1. \A b \in Queued : Entry(b) => Entry(b)'
    BY <1>19, EntriesEnd DEF ResumeEnd, End, Begin, Running
  <2> QED BY <1>19, <2>1, NoneLostSame DEF ResumeEnd, Queued, headers
<1>20. ASSUME UNCHANGED vars PROVE NoneLost'
  <2>1. UNCHANGED <<next, at, queue_first, buffer, saved, op, pc>>
    BY <1>20 DEF vars, headers, queue, control
  <2>2. \A b \in Queued : Entry(b) => Entry(b)'
    BY <2>1 DEF Entry, QueueIntact, Walking, Cursor
  <2> QED BY <2>1, <2>2, NoneLostSame DEF Queued
<1> QED
  BY <1>1, <1>2, <1>3, <1>4, <1>5, <1>6, <1>7, <1>8, <1>9, <1>10, <1>11, <1>12, <1>13, <1>14,
     <1>15, <1>16, <1>17, <1>18, <1>19, <1>20, NextCases

\* A buffer sent to a paused port is never lost: following the links from where anybody has
\* come to meets every queued buffer (mmal_port_send_buffer, mmal_port_flush,
\* mmal_port_disable_internal and mmal_port_pause, which share the list).
THEOREM NoneLostCorrect == ASSUME CleanClient PROVE Spec => []NoneLost
<1>1. Init => NoneLost
  <2>1. Init => Queued = {}
    BY DEF Init, Queued
  <2> QED BY <2>1 DEF NoneLost
<1>2. ContractInv /\ NoneLost /\ [Next]_vars => NoneLost'
  BY NoneLostKept DEF ContractInv, TokenInv
<1>3. Spec => []ContractInv
  BY ContractInvariant
<1> QED BY <1>1, <1>2, <1>3, PTL DEF Spec
=============================================================================
