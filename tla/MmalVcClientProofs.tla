------------------------ MODULE MmalVcClientProofs -------------------------
(***************************************************************************)
(* Theorems about MmalVcClient, for any number of threads, waiters and     *)
(* buffers: replies reach their callers, a thread finds a waiter, transfers *)
(* stay with their messages and buffers with data in their order, whatever *)
(* VCHIQ refuses; and the service is claimed while it is used.             *)
(***************************************************************************)
EXTENDS MmalVcClient, FiniteSetTheorems, FunctionTheorems, SequenceTheorems, TLAPS

-----------------------------------------------------------------------------
(* The inductive invariant.  A call is in one place at a time: on its way  *)
(* to VideoCore, served, on its way back, being copied, or there.          *)

\* A sequence of messages has a call, or its reply, of t; it has one of each thread.
Has(s, t) == \E i \in DOMAIN s : s[i].buffer = NoBuffer /\ s[i].from = t

Once(s) ==
  \A i, j \in DOMAIN s :
    s[i].buffer = NoBuffer /\ s[j].buffer = NoBuffer /\ s[i].from = s[j].from => i = j

\* The waiter a message names is that of the thread it comes from.
Named(m) ==
  m.buffer = NoBuffer => /\ m.from \in Callers /\ m.waiter \in Waiters
                         /\ waiter[m.from] = m.waiter

Sent(t)     == Has(to_vc, t)
Served(t)   == \E m \in serving : m.from = t
Answered(t) == Has(from_vc, t)
Copied(t)   == waiter[t] # NoWaiter /\ replying = waiter[t]
Woken(t)    == waiter[t] # NoWaiter /\ waiter_sem[waiter[t]] > 0

Types ==
  /\ inuse \subseteq Waiters /\ waiter_sem \in [Waiters -> 0 .. 1]
  /\ dest \in [Waiters -> Callers \cup {NoCaller}]
  /\ to_vc \in Seq(Message) /\ serving \subseteq Message /\ at_vc \subseteq Buffers
  /\ from_vc \in Seq(Returned \cup Reply)
  /\ pc \in [Callers -> {"out", "opened", "inited", "ready", "waiter", "search", "claim", "queue",
                         "bulk", "reply", "unclaim", "free", "post", "release", "deinit"}]
  /\ op \in [Callers -> Ops]
  /\ waiter \in [Callers -> Waiters \cup {NoWaiter}]
  /\ carried \in [Callers -> Buffers \cup {NoBuffer}]
  /\ reply \in [Callers -> Callers \cup {NoCaller}]
  /\ replying \in Waiters \cup {NoWaiter}

\* A thread has a waiter, in use by it alone, from its search to the end of its call; it
\* carries a buffer only while it sends one.
Waits ==
  \A t \in Callers :
    /\ waiter[t] # NoWaiter <=> \/ pc[t] \in {"claim", "reply", "unclaim", "free"}
                                \/ pc[t] \in {"queue", "bulk"} /\ op[t] \in WithReply
    /\ waiter[t] # NoWaiter => waiter[t] \in inuse /\ dest[waiter[t]] = t
    /\ carried[t] # NoBuffer <=> pc[t] \in {"queue", "bulk"} /\ op[t] \notin WithReply
    /\ pc[t] \in {"waiter", "search", "claim"} => op[t] \in WithReply

Wire ==
  /\ Once(to_vc) /\ Once(from_vc)
  /\ \A m, n \in serving : m.from = n.from => m = n
  /\ \A i \in DOMAIN to_vc : Named(to_vc[i])
  /\ \A i \in DOMAIN from_vc : Named(from_vc[i])
  /\ \A m \in serving : m.buffer = NoBuffer /\ Named(m)

Single ==
  \A t \in Callers :
    /\ Sent(t) => ~Served(t) /\ ~Answered(t) /\ ~Copied(t) /\ ~Woken(t)
    /\ Served(t) => ~Answered(t) /\ ~Copied(t) /\ ~Woken(t)
    /\ Answered(t) => ~Copied(t) /\ ~Woken(t)
    /\ Copied(t) => ~Woken(t)
    /\ Sent(t) \/ Served(t) \/ Answered(t) \/ Copied(t) \/ Woken(t) => pc[t] \in {"bulk", "reply"}
    /\ Copied(t) \/ Woken(t) => reply[t] = t

\* A waiter is posted for a thread only.
Posted ==
  \A w \in Waiters :
    waiter_sem[w] > 0 \/ replying = w => dest[w] \in Callers /\ waiter[dest[w]] = w

CallInv == Types /\ Waits /\ Wire /\ Single /\ Posted

\* The client is used by every thread that is not out.
Users == {t \in Callers : pc[t] # "out"}
UsersInv == refcount = Cardinality(Users)

-----------------------------------------------------------------------------
(* Messages that are appended and taken.                                   *)

\* A message that is appended adds its own call.
LEMMA AppendCalls ==
  ASSUME NEW M, NEW s \in Seq(M), NEW m \in M
  PROVE  /\ \A t : Has(Append(s, m), t) <=> Has(s, t) \/ (m.buffer = NoBuffer /\ m.from = t)
         /\ Once(s) /\ (m.buffer = NoBuffer => ~Has(s, m.from)) => Once(Append(s, m))
<1>1. /\ DOMAIN s = 1 .. Len(s) /\ DOMAIN Append(s, m) = 1 .. Len(s) + 1
      /\ Len(s) \in Nat
      /\ Append(s, m)[Len(s) + 1] = m
      /\ \A i \in DOMAIN s : Append(s, m)[i] = s[i]
  OBVIOUS
<1>2. DOMAIN Append(s, m) = DOMAIN s \cup {Len(s) + 1} /\ Len(s) + 1 \notin DOMAIN s
  BY <1>1
<1>3. \A t : Has(Append(s, m), t) <=> Has(s, t) \/ (m.buffer = NoBuffer /\ m.from = t)
  BY <1>1, <1>2 DEF Has
<1>4. ASSUME Once(s), m.buffer = NoBuffer => ~Has(s, m.from)
      PROVE  Once(Append(s, m))
  BY <1>1, <1>2, <1>4 DEF Has, Once
<1> QED BY <1>3, <1>4

\* The first message is the only one whose call is gone from the rest.
LEMMA TailCalls ==
  ASSUME NEW M, NEW s \in Seq(M), s # <<>>, Once(s)
  PROVE  /\ Head(s) \in M /\ Tail(s) \in Seq(M) /\ 1 \in DOMAIN s /\ Head(s) = s[1]
         /\ \A i \in DOMAIN Tail(s) : i + 1 \in DOMAIN s /\ Tail(s)[i] = s[i + 1]
         /\ \A t : Has(Tail(s), t) <=> Has(s, t) /\ ~(Head(s).buffer = NoBuffer /\ Head(s).from = t)
         /\ Once(Tail(s))
<1>1. /\ Head(s) \in M /\ Tail(s) \in Seq(M) /\ 1 \in DOMAIN s /\ Head(s) = s[1]
      /\ Len(s) \in Nat \ {0} /\ Len(Tail(s)) = Len(s) - 1
      /\ DOMAIN s = 1 .. Len(s) /\ DOMAIN Tail(s) = 1 .. Len(s) - 1
  OBVIOUS
<1>2. \A i \in DOMAIN Tail(s) : i + 1 \in DOMAIN s /\ Tail(s)[i] = s[i + 1]
  BY <1>1
<1>3. \A i \in DOMAIN s : i = 1 \/ (i - 1 \in DOMAIN Tail(s) /\ Tail(s)[i - 1] = s[i])
  BY <1>1
<1>4. ASSUME NEW t
      PROVE  Has(Tail(s), t) <=> Has(s, t) /\ ~(Head(s).buffer = NoBuffer /\ Head(s).from = t)
  <2>1. ASSUME Has(Tail(s), t)
        PROVE  Has(s, t) /\ ~(Head(s).buffer = NoBuffer /\ Head(s).from = t)
    <3>1. PICK i \in DOMAIN Tail(s) : Tail(s)[i].buffer = NoBuffer /\ Tail(s)[i].from = t
      BY <2>1 DEF Has
    <3>2. i + 1 \in DOMAIN s /\ s[i + 1].buffer = NoBuffer /\ s[i + 1].from = t /\ i + 1 # 1
      BY <3>1, <1>1, <1>2
    <3> QED BY <3>2, <1>1 DEF Has, Once
  <2>2. ASSUME Has(s, t), ~(Head(s).buffer = NoBuffer /\ Head(s).from = t)
        PROVE  Has(Tail(s), t)
    <3>1. PICK i \in DOMAIN s : s[i].buffer = NoBuffer /\ s[i].from = t
      BY <2>2 DEF Has
    <3>2. i # 1
      BY <3>1, <2>2, <1>1
    <3> QED BY <3>1, <3>2, <1>3 DEF Has
  <2> QED BY <2>1, <2>2
<1>5. Once(Tail(s))
  <2> SUFFICES ASSUME NEW i \in DOMAIN Tail(s), NEW j \in DOMAIN Tail(s),
                      Tail(s)[i].buffer = NoBuffer, Tail(s)[j].buffer = NoBuffer,
                      Tail(s)[i].from = Tail(s)[j].from
               PROVE  i = j
    BY DEF Once
  <2>1. i + 1 = j + 1
    BY <1>2 DEF Once
  <2> QED BY <2>1, <1>1
<1> QED BY <1>1, <1>2, <1>4, <1>5

-----------------------------------------------------------------------------
(* The threads that use the client. *)

\* At the start nobody uses the client.
LEMMA UsersInit == Init => UsersInv
<1> SUFFICES ASSUME Init PROVE UsersInv
  OBVIOUS
<1>1. Users = {}
  BY DEF Init, Users
<1> QED BY <1>1, FS_EmptySet DEF Init, UsersInv

\* A thread is counted while it is not out.
LEMMA UsersNext == Types /\ UsersInv /\ [Next]_vars => UsersInv'
<1> SUFFICES ASSUME Types, UsersInv, [Next]_vars PROVE UsersInv'
  OBVIOUS
<1>1. /\ IsFiniteSet(Users) /\ refcount = Cardinality(Users) /\ refcount \in Nat
      /\ DOMAIN pc = Callers
  <2>1. Users \subseteq Callers
    BY DEF Users
  <2>2. IsFiniteSet(Users)
    BY <2>1, FS_Subset, VcClientAssumption
  <2> QED BY <2>2, FS_CardinalityType DEF Types, UsersInv
<1>2. ASSUME NEW t \in Callers, pc[t] = "out", NEW l, l # "out", pc' = [pc EXCEPT ![t] = l],
             refcount' = refcount + 1
      PROVE  UsersInv'
  <2>1. Users' = Users \cup {t} /\ t \notin Users
    BY <1>1, <1>2 DEF Users
  <2>2. Cardinality(Users \cup {t}) = Cardinality(Users) + 1
    BY <1>1, <2>1, FS_AddElement
  <2> QED BY <1>1, <1>2, <2>1, <2>2 DEF UsersInv
<1>3. ASSUME NEW t \in Callers, pc[t] # "out", pc' = [pc EXCEPT ![t] = "out"],
             refcount' = refcount - 1
      PROVE  UsersInv'
  <2>1. Users' = Users \ {t} /\ t \in Users
    BY <1>1, <1>3 DEF Users
  <2>2. Cardinality(Users \ {t}) = Cardinality(Users) - 1
    BY <1>1, <2>1, FS_RemoveElement
  <2> QED BY <1>1, <1>3, <2>1, <2>2 DEF UsersInv
<1>4. ASSUME NEW t \in Callers, pc[t] # "out", NEW l, l # "out", pc' = [pc EXCEPT ![t] = l],
             refcount' = refcount
      PROVE  UsersInv'
  <2>1. Users' = Users
    BY <1>1, <1>4 DEF Users
  <2> QED BY <1>1, <1>4, <2>1 DEF UsersInv
<1>5. ASSUME UNCHANGED <<pc, refcount>>
      PROVE  UsersInv'
  BY <1>1, <1>5 DEF UsersInv, Users
<1>6. ASSUME NEW t \in Callers, Starts(t)
      PROVE  UsersInv'
  <2>1. CASE InitFirst(t)
    <3>1. refcount' = refcount + 1
      BY <2>1 DEF InitFirst
    <3> QED BY <1>2, <2>1, <3>1 DEF InitFirst, At, Goto
  <2>2. CASE InitFailed(t)
    BY <1>5, <2>2 DEF InitFailed, threads
  <2>3. CASE InitMore(t)
    BY <1>2, <2>3 DEF InitMore, At, Goto
  <2>4. ASSUME NEW o \in Ops, Call(t, o) PROVE UsersInv'
    BY <1>4, <2>4 DEF Call, At, Goto, client
  <2>5. ASSUME NEW o \in Ops, NEW b \in Buffers, Send(t, o, b) PROVE UsersInv'
    BY <1>4, <2>5 DEF Send, At, Goto, client
  <2> QED BY <1>6, <2>1, <2>2, <2>3, <2>4, <2>5 DEF Starts
<1>7. ASSUME NEW t \in Callers, GoesOn(t)
      PROVE  UsersInv'
  <2>1. CASE Opened(t)
    BY <1>4, <2>1 DEF Opened, At, Goto, Unuse
  <2>2. CASE Create(t)
    BY <1>4, <2>2 DEF Create, At, Goto, Use
  <2>3. CASE Release(t)
    BY <1>4, <2>3 DEF Release, At, Goto, Unuse
  <2>4. CASE DeinitMore(t)
    BY <1>3, <2>4 DEF DeinitMore, At, Goto
  <2>5. CASE DeinitLast(t)
    <3>1. refcount' = refcount - 1
      BY <2>5 DEF DeinitLast
    <3> QED BY <1>3, <2>5, <3>1 DEF DeinitLast, At, Goto
  <2>6. CASE WaitForWaiter(t)
    BY <1>4, <2>6 DEF WaitForWaiter, At, Goto, client
  <2>7. CASE Search(t)
    BY <1>4, <2>7 DEF Search, At, Goto, client
  <2>8. CASE Claim(t)
    BY <1>4, <2>8 DEF Claim, At, Goto, Use
  <2>9. CASE Queued(t)
    BY <1>4, <2>9 DEF Queued, At, Goto, client
  <2>10. CASE QueueFailed(t)
    BY <1>4, <2>10 DEF QueueFailed, At, Goto, client
  <2>11. CASE Bulk(t)
    BY <1>4, <2>11 DEF Bulk, At, Goto, client
  <2>12. CASE WaitForReply(t)
    BY <1>4, <2>12 DEF WaitForReply, At, Goto, client
  <2>13. CASE Unclaim(t)
    BY <1>4, <2>13 DEF Unclaim, At, Goto, Unuse
  <2>14. CASE FreeWaiter(t)
    BY <1>4, <2>14 DEF FreeWaiter, At, Goto, client
  <2>15. CASE PostWaiter(t)
    <3>1. PICK l \in AfterCall(t) : Goto(t, l)
      BY <2>15 DEF PostWaiter
    <3>2. AfterCall(t) \subseteq {"release", "ready"}
      BY DEF AfterCall
    <3>3. l # "out"
      BY <3>1, <3>2
    <3> QED BY <1>4, <2>15, <3>1, <3>3 DEF PostWaiter, At, Goto, client
  <2> QED BY <1>7, <2>1, <2>2, <2>3, <2>4, <2>5, <2>6, <2>7, <2>8, <2>9, <2>10, <2>11, <2>12,
             <2>13, <2>14, <2>15 DEF GoesOn
<1>8. ASSUME VideoCore \/ Vchiq PROVE UsersInv'
  BY <1>5, <1>8 DEF VideoCore, Vchiq, Receive, Answer, Return, CopyReply, WakeWaiter, Buffer,
                    BulkReceived, client, threads
<1>9. CASE UNCHANGED vars
  BY <1>5, <1>9 DEF vars, client, threads
<1> QED BY <1>6, <1>7, <1>8, <1>9 DEF Next

\* A client that nobody has a reference to is used by no thread.
LEMMA NoUsers ==
  ASSUME UsersInv, refcount = 0
  PROVE  \A t \in Callers : pc[t] = "out"
<1>1. IsFiniteSet(Users)
  BY FS_Subset, VcClientAssumption DEF Users
<1>2. Users = {}
  BY <1>1, FS_EmptySet DEF UsersInv
<1> QED BY <1>2 DEF Users

-----------------------------------------------------------------------------
(* The invariant of the calls: each step by the place it moves a call to.  *)

\* At the start nobody waits and nothing is on its way.
LEMMA CallInit == Init => CallInv
<1> SUFFICES ASSUME Init PROVE CallInv
  OBVIOUS
<1>1. Types
  BY VcClientAssumption DEF Init, Types, Ops
<1>2. Waits
  BY DEF Init, Waits
<1>3. Wire
  BY DEF Init, Wire, Once, Named
<1>4. \A t \in Callers : ~Sent(t) /\ ~Served(t) /\ ~Answered(t) /\ ~Copied(t) /\ ~Woken(t)
  BY DEF Init, Sent, Has, Served, Answered, Copied, Woken
<1>5. Posted
  BY VcClientAssumption DEF Init, Posted
<1> QED BY <1>1, <1>2, <1>3, <1>4, <1>5 DEF CallInv, Single

\* A thread whose call is anywhere has a waiter.
LEMMA Awaited ==
  ASSUME Types, Wire, NEW t \in Callers,
         Sent(t) \/ Served(t) \/ Answered(t) \/ Copied(t) \/ Woken(t)
  PROVE  waiter[t] \in Waiters /\ waiter[t] # NoWaiter
<1>1. CASE Sent(t)
  BY <1>1, VcClientAssumption DEF Sent, Has, Wire, Named
<1>2. CASE Served(t)
  BY <1>2, VcClientAssumption DEF Served, Wire, Named
<1>3. CASE Answered(t)
  BY <1>3, VcClientAssumption DEF Answered, Has, Wire, Named
<1>4. CASE Copied(t) \/ Woken(t)
  BY <1>4 DEF Copied, Woken, Types
<1> QED BY <1>1, <1>2, <1>3, <1>4

\* A step that leaves the waiters of the threads and the messages of the calls alone: no
\* thread with a waiter may leave the wait for its reply in it.
LEMMA Elsewhere ==
  ASSUME CallInv, Types', Waits',
         UNCHANGED <<inuse, waiter_sem, dest, replying, to_vc, serving, from_vc, waiter>>,
         \A t \in Callers : waiter[t] # NoWaiter =>
           /\ pc[t] \in {"bulk", "reply"} => pc'[t] \in {"bulk", "reply"}
           /\ reply'[t] = reply[t]
  PROVE  CallInv'
<1>1. Wire'
  BY DEF CallInv, Wire, Once, Named
<1>2. Posted'
  BY DEF CallInv, Posted
<1>3. \A t \in Callers : /\ Sent(t)' = Sent(t) /\ Served(t)' = Served(t) /\ Answered(t)' = Answered(t)
                          /\ Copied(t)' = Copied(t) /\ Woken(t)' = Woken(t)
  BY DEF Sent, Served, Answered, Copied, Woken, Has
<1>4. \A t \in Callers : Sent(t) \/ Served(t) \/ Answered(t) \/ Copied(t) \/ Woken(t)
                           => waiter[t] # NoWaiter
  BY Awaited DEF CallInv
<1>5. Single'
  BY <1>3, <1>4 DEF CallInv, Single
<1> QED BY <1>1, <1>2, <1>5 DEF CallInv

\* The users that come and go, and the client that is claimed for them.
LEMMA ClientSteps ==
  ASSUME CallInv, NEW t \in Callers,
         \/ InitFailed(t) \/ InitMore(t) \/ Opened(t) \/ Create(t) \/ Release(t)
         \/ DeinitMore(t) \/ DeinitLast(t) \/ Claim(t) \/ Unclaim(t)
  PROVE  CallInv'
<1> USE DEF CallInv, pool, wire, threads
<1>1. CASE InitFailed(t)
  <2>1. Types'
    BY <1>1 DEF InitFailed, At, Goto, Types, Ops
  <2>2. Waits'
    BY <1>1 DEF InitFailed, At, Goto, Types, Waits, WithReply
  <2> QED BY <1>1, <2>1, <2>2, Elsewhere DEF InitFailed, At, Goto, Types, CallInv
<1>2. CASE InitMore(t)
  <2>1. Types'
    BY <1>2 DEF InitMore, At, Goto, Types, Ops
  <2>2. Waits'
    BY <1>2 DEF InitMore, At, Goto, Types, Waits, WithReply
  <2> QED BY <1>2, <2>1, <2>2, Elsewhere DEF InitMore, At, Goto, Types, CallInv
<1>3. CASE Opened(t)
  <2>1. Types'
    BY <1>3 DEF Opened, At, Goto, Types, Ops
  <2>2. Waits'
    BY <1>3 DEF Opened, At, Goto, Types, Waits, WithReply
  <2> QED BY <1>3, <2>1, <2>2, Elsewhere DEF Opened, At, Goto, Types, CallInv
<1>4. CASE Create(t)
  <2>1. Types'
    BY <1>4 DEF Create, At, Goto, Types, Ops
  <2>2. Waits'
    BY <1>4 DEF Create, At, Goto, Types, Waits, WithReply
  <2> QED BY <1>4, <2>1, <2>2, Elsewhere DEF Create, At, Goto, Types, CallInv
<1>5. CASE Release(t)
  <2>1. Types'
    BY <1>5 DEF Release, At, Goto, Types, Ops
  <2>2. Waits'
    BY <1>5 DEF Release, At, Goto, Types, Waits, WithReply
  <2> QED BY <1>5, <2>1, <2>2, Elsewhere DEF Release, At, Goto, Types, CallInv
<1>6. CASE DeinitMore(t)
  <2>1. Types'
    BY <1>6 DEF DeinitMore, At, Goto, Types, Ops
  <2>2. Waits'
    BY <1>6 DEF DeinitMore, At, Goto, Types, Waits, WithReply
  <2> QED BY <1>6, <2>1, <2>2, Elsewhere DEF DeinitMore, At, Goto, Types, CallInv
<1>7. CASE DeinitLast(t)
  <2>1. Types'
    BY <1>7 DEF DeinitLast, At, Goto, Types, Ops
  <2>2. Waits'
    BY <1>7 DEF DeinitLast, At, Goto, Types, Waits, WithReply
  <2> QED BY <1>7, <2>1, <2>2, Elsewhere DEF DeinitLast, At, Goto, Types, CallInv
<1>8. CASE Claim(t)
  <2>1. Types'
    BY <1>8 DEF Claim, At, Goto, Types, Ops
  <2>2. Waits'
    BY <1>8 DEF Claim, At, Goto, Types, Waits, WithReply
  <2> QED BY <1>8, <2>1, <2>2, Elsewhere DEF Claim, At, Goto, Types, CallInv
<1>9. CASE Unclaim(t)
  <2>1. Types'
    BY <1>9 DEF Unclaim, At, Goto, Types, Ops
  <2>2. Waits'
    BY <1>9 DEF Unclaim, At, Goto, Types, Waits, WithReply
  <2> QED BY <1>9, <2>1, <2>2, Elsewhere DEF Unclaim, At, Goto, Types, CallInv
<1> QED BY <1>1, <1>2, <1>3, <1>4, <1>5, <1>6, <1>7, <1>8, <1>9

\* The steps of a call and of a buffer that is sent that neither give nor take a waiter,
\* nor move the message.
LEMMA ThreadSteps ==
  ASSUME CallInv, NEW t \in Callers,
         \/ \E o \in Ops : Call(t, o)
         \/ \E o \in Ops, b \in Buffers : Send(t, o, b)
         \/ WaitForWaiter(t) \/ QueueFailed(t) \/ Bulk(t) \/ PostWaiter(t)
  PROVE  CallInv'
<1> USE DEF CallInv, pool, wire, threads
<1>1. ASSUME NEW o \in Ops, Call(t, o)
      PROVE  CallInv'
  <2>1. Types'
    BY <1>1 DEF Call, At, Goto, WithBulk, Types, Ops
  <2>2. Waits'
    <3>1. /\ o \in WithReply /\ pc[t] = "ready" /\ pc' = [pc EXCEPT ![t] = "waiter"]
          /\ op' = [op EXCEPT ![t] = o] /\ UNCHANGED <<waiter, carried, inuse, dest>>
      BY <1>1 DEF Call, At, Goto, WithReply
    <3> QED BY <3>1 DEF Types, Waits, WithReply
  <2> QED BY <1>1, <2>1, <2>2, Elsewhere DEF Call, At, Goto, WithBulk, Types, CallInv
<1>2. ASSUME NEW o \in Ops, NEW b \in Buffers, Send(t, o, b)
      PROVE  CallInv'
  <2>1. Types'
    BY <1>2 DEF Send, At, Goto, WithBulk, Types, Ops
  <2>2. Waits'
    <3>1. /\ o \notin WithReply /\ b # NoBuffer /\ pc[t] = "ready"
          /\ pc' = [pc EXCEPT ![t] = "queue"] /\ op' = [op EXCEPT ![t] = o]
          /\ carried' = [carried EXCEPT ![t] = b] /\ UNCHANGED <<waiter, inuse, dest>>
      BY <1>2, VcClientAssumption DEF Send, At, Goto, WithReply
    <3> QED BY <3>1 DEF Types, Waits, WithReply
  <2> QED BY <1>2, <2>1, <2>2, Elsewhere DEF Send, At, Goto, WithBulk, Types, CallInv
<1>3. CASE WaitForWaiter(t)
  <2>1. Types'
    BY <1>3 DEF WaitForWaiter, At, Goto, Types, Ops
  <2>2. Waits'
    BY <1>3 DEF WaitForWaiter, At, Goto, Types, Waits, WithReply
  <2> QED BY <1>3, <2>1, <2>2, Elsewhere DEF WaitForWaiter, At, Goto, Types, CallInv
<1>4. CASE QueueFailed(t)
  <2>1. Types'
    BY <1>4 DEF QueueFailed, At, Goto, Types, Ops
  <2>2. Waits'
    BY <1>4 DEF QueueFailed, At, Goto, Types, Waits, WithReply
  <2> QED BY <1>4, <2>1, <2>2, Elsewhere DEF QueueFailed, At, Goto, Types, CallInv
<1>5. CASE Bulk(t)
  <2>1. Types'
    BY <1>5 DEF Bulk, At, Goto, Types, Ops
  <2>2. Waits'
    BY <1>5 DEF Bulk, At, Goto, Types, Waits, WithReply
  <2> QED BY <1>5, <2>1, <2>2, Elsewhere DEF Bulk, At, Goto, Types, Waits, WithReply
<1>6. CASE PostWaiter(t)
  <2>1. Types'
    BY <1>6 DEF PostWaiter, At, Goto, AfterCall, Types, Ops
  <2>2. Waits'
    BY <1>6 DEF PostWaiter, At, Goto, AfterCall, Types, Waits, WithReply
  <2> QED BY <1>6, <2>1, <2>2, Elsewhere DEF PostWaiter, At, Goto, AfterCall, Types, Waits
<1> QED BY <1>1, <1>2, <1>3, <1>4, <1>5, <1>6

\* The first user makes the waiters anew: nobody waits, so that no message names one.
LEMMA InitFirstStep ==
  ASSUME CallInv, UsersInv, NEW t \in Callers, InitFirst(t)
  PROVE  CallInv'
<1> USE DEF CallInv, pool, wire
<1>1. \A u \in Callers : waiter[u] = NoWaiter /\ carried[u] = NoBuffer
  BY NoUsers DEF InitFirst, Waits
<1>2. \A u \in Callers : ~Sent(u) /\ ~Served(u) /\ ~Answered(u)
  BY <1>1, Awaited
<1>3. replying = NoWaiter
  <2>1. \A w \in Waiters : replying # w
    BY <1>1, VcClientAssumption DEF Posted
  <2> QED BY <2>1 DEF Types
<1>4. /\ inuse' = {} /\ waiter_sem' = [w \in Waiters |-> 0] /\ pc' = [pc EXCEPT ![t] = "opened"]
      /\ UNCHANGED <<dest, reply, replying, to_vc, serving, at_vc, from_vc, op, waiter, carried>>
  BY DEF InitFirst, CreateWaitpool, Goto
<1>5. Types'
  BY <1>4 DEF Types
<1>6. Waits'
  BY <1>1, <1>4, NoUsers DEF InitFirst, Types, Waits
<1>7. Wire'
  BY <1>4 DEF Wire, Once, Named
<1>8. \A u \in Callers : /\ ~Sent(u)' /\ ~Served(u)' /\ ~Answered(u)'
                          /\ ~Copied(u)' /\ ~Woken(u)'
  BY <1>1, <1>2, <1>4 DEF Sent, Served, Answered, Copied, Woken, Has
<1>9. Posted'
  BY <1>3, <1>4, VcClientAssumption DEF Posted
<1> QED BY <1>5, <1>6, <1>7, <1>8, <1>9 DEF Single

\* The waiter a thread finds was in use by nobody, and nobody posts it.
LEMMA SearchStep ==
  ASSUME CallInv, NEW t \in Callers, Search(t)
  PROVE  CallInv'
<1> USE DEF CallInv, wire
<1>1. PICK w \in Waiters \ inuse :
        /\ inuse' = inuse \cup {w} /\ waiter' = [waiter EXCEPT ![t] = w]
        /\ dest' = [dest EXCEPT ![w] = t]
  BY DEF Search
<1>2. /\ pc[t] = "search" /\ reply' = [reply EXCEPT ![t] = NoCaller]
      /\ pc' = [pc EXCEPT ![t] = "claim"]
      /\ UNCHANGED <<waiter_sem, replying, to_vc, serving, at_vc, from_vc, op, carried>>
  BY DEF Search, At, Goto
<1>3. waiter[t] = NoWaiter /\ w # NoWaiter
  BY <1>2, VcClientAssumption DEF Waits
<1>4. \A u \in Callers : waiter[u] # w
  BY <1>3, VcClientAssumption DEF Waits
<1>5. waiter_sem[w] = 0 /\ replying # w
  BY <1>4 DEF Posted, Types
<1>6. Types'
  BY <1>1, <1>2 DEF Types
<1>7. Waits'
  BY <1>1, <1>2, <1>3, <1>4 DEF Types, Waits
<1>8. \A u \in Callers : Sent(u) \/ Served(u) \/ Answered(u) => u # t
  BY <1>3, Awaited
<1>9. Wire'
  <2>1. ASSUME NEW m, Named(m), m.buffer = NoBuffer => m.from # t
        PROVE  Named(m)'
    BY <2>1, <1>1 DEF Named, Types
  <2>2. /\ \A i \in DOMAIN to_vc : to_vc[i].buffer = NoBuffer => to_vc[i].from # t
        /\ \A i \in DOMAIN from_vc : from_vc[i].buffer = NoBuffer => from_vc[i].from # t
        /\ \A m \in serving : m.from # t
    BY <1>8 DEF Sent, Served, Answered, Has
  <2> QED BY <2>1, <2>2, <1>2 DEF Wire, Once
<1>10. Single'
  <2>1. \A u \in Callers : /\ Sent(u)' = Sent(u) /\ Served(u)' = Served(u)
                            /\ Answered(u)' = Answered(u)
    BY <1>2 DEF Sent, Served, Answered, Has
  <2>2. ~Copied(t)' /\ ~Woken(t)'
    BY <1>1, <1>2, <1>5 DEF Copied, Woken, Types
  <2>3. \A u \in Callers \ {t} : /\ Copied(u)' = Copied(u) /\ Woken(u)' = Woken(u)
                                 /\ pc'[u] = pc[u] /\ reply'[u] = reply[u]
    BY <1>1, <1>2 DEF Copied, Woken, Types
  <2> QED BY <1>8, <2>1, <2>2, <2>3 DEF Single
<1>11. Posted'
  <2> SUFFICES ASSUME NEW v \in Waiters, waiter_sem'[v] > 0 \/ replying' = v
               PROVE  dest'[v] \in Callers /\ waiter'[dest'[v]] = v
    BY DEF Posted
  <2>1. v # w
    BY <1>2, <1>5
  <2>2. dest[v] \in Callers /\ waiter[dest[v]] = v /\ dest[v] # t
    BY <1>2, <1>3, VcClientAssumption DEF Posted
  <2> QED BY <1>1, <2>1, <2>2 DEF Types
<1> QED BY <1>6, <1>7, <1>9, <1>10, <1>11

\* A waiter is given back when the call of its thread is nowhere any more.
LEMMA FreeWaiterStep ==
  ASSUME CallInv, NEW t \in Callers, FreeWaiter(t)
  PROVE  CallInv'
<1> USE DEF CallInv, wire
<1>1. /\ pc[t] = "free" /\ pc' = [pc EXCEPT ![t] = "post"]
      /\ inuse' = inuse \ {waiter[t]} /\ waiter' = [waiter EXCEPT ![t] = NoWaiter]
      /\ UNCHANGED <<waiter_sem, dest, reply, replying, to_vc, serving, at_vc, from_vc, op, carried>>
  BY DEF FreeWaiter, At, Goto
<1>2. waiter[t] # NoWaiter /\ waiter[t] \in Waiters
  BY <1>1 DEF Waits, Types
<1>3. ~Sent(t) /\ ~Served(t) /\ ~Answered(t) /\ ~Copied(t) /\ ~Woken(t)
  BY <1>1 DEF Single
<1>4. \A u \in Callers \ {t} : waiter[u] # NoWaiter => waiter[u] # waiter[t]
  BY DEF Waits
<1>5. Types'
  BY <1>1 DEF Types
<1>6. Waits'
  BY <1>1, <1>4 DEF Types, Waits
<1>7. Wire'
  <2>1. ASSUME NEW m, Named(m), m.buffer = NoBuffer => m.from # t
        PROVE  Named(m)'
    BY <2>1, <1>1 DEF Named, Types
  <2>2. /\ \A i \in DOMAIN to_vc : to_vc[i].buffer = NoBuffer => to_vc[i].from # t
        /\ \A i \in DOMAIN from_vc : from_vc[i].buffer = NoBuffer => from_vc[i].from # t
        /\ \A m \in serving : m.from # t
    BY <1>3 DEF Sent, Served, Answered, Has
  <2> QED BY <2>1, <2>2, <1>1 DEF Wire, Once
<1>8. Single'
  <2>1. \A u \in Callers : /\ Sent(u)' = Sent(u) /\ Served(u)' = Served(u)
                            /\ Answered(u)' = Answered(u)
    BY <1>1 DEF Sent, Served, Answered, Has
  <2>2. ~Copied(t)' /\ ~Woken(t)'
    BY <1>1 DEF Copied, Woken, Types
  <2>3. \A u \in Callers \ {t} : /\ Copied(u)' = Copied(u) /\ Woken(u)' = Woken(u)
                                 /\ pc'[u] = pc[u] /\ reply'[u] = reply[u]
    BY <1>1 DEF Copied, Woken, Types
  <2> QED BY <1>3, <2>1, <2>2, <2>3 DEF Single
<1>9. Posted'
  BY <1>1, <1>2, <1>3 DEF Posted, Types, Copied, Woken
<1> QED BY <1>5, <1>6, <1>7, <1>8, <1>9

\* A thread that is woken up has its reply, and no second one is on its way.
LEMMA WaitForReplyStep ==
  ASSUME CallInv, NEW t \in Callers, WaitForReply(t)
  PROVE  CallInv'
<1> USE DEF CallInv, wire
<1>1. /\ pc[t] = "reply" /\ pc' = [pc EXCEPT ![t] = "unclaim"] /\ waiter_sem[waiter[t]] > 0
      /\ waiter_sem' = [waiter_sem EXCEPT ![waiter[t]] = @ - 1]
      /\ UNCHANGED <<inuse, waiter, dest, reply, replying, to_vc, serving, at_vc, from_vc, op, carried>>
  BY DEF WaitForReply, At, Goto
<1>2. waiter[t] # NoWaiter /\ waiter[t] \in Waiters /\ waiter_sem[waiter[t]] = 1
  BY <1>1 DEF Waits, Types
<1>3. Woken(t) /\ ~Sent(t) /\ ~Served(t) /\ ~Answered(t) /\ ~Copied(t)
  BY <1>1, <1>2 DEF Woken, Single
<1>4. \A u \in Callers \ {t} : waiter[u] # NoWaiter => waiter[u] # waiter[t]
  BY DEF Waits
<1>5. waiter_sem'[waiter[t]] = 0 /\ \A w \in Waiters \ {waiter[t]} : waiter_sem'[w] = waiter_sem[w]
  BY <1>1, <1>2 DEF Types
<1>6. Types'
  BY <1>1, <1>2 DEF Types
<1>7. Waits'
  BY <1>1 DEF Types, Waits
<1>8. Wire'
  BY <1>1 DEF Wire, Once, Named
<1>9. Single'
  <2>1. \A u \in Callers : /\ Sent(u)' = Sent(u) /\ Served(u)' = Served(u)
                            /\ Answered(u)' = Answered(u) /\ Copied(u)' = Copied(u)
    BY <1>1 DEF Sent, Served, Answered, Copied, Has
  <2>2. ~Woken(t)'
    BY <1>1, <1>5 DEF Woken
  <2>3. \A u \in Callers \ {t} : /\ Woken(u)' = Woken(u) /\ pc'[u] = pc[u] /\ reply'[u] = reply[u]
    BY <1>1, <1>4, <1>5 DEF Woken, Types
  <2> QED BY <1>3, <2>1, <2>2, <2>3 DEF Single
<1>10. Posted'
  BY <1>1, <1>5 DEF Posted, Types
<1> QED BY <1>6, <1>7, <1>8, <1>9, <1>10

-----------------------------------------------------------------------------
(* The message of a call on its way. *)

\* A message of a call that is sent is the only one its thread waits for.
LEMMA QueuedStep ==
  ASSUME CallInv, NEW t \in Callers, Queued(t)
  PROVE  CallInv'
<1> USE DEF CallInv, pool
<1> DEFINE m == [from |-> t, waiter |-> waiter[t], buffer |-> carried[t],
                 bulk |-> op[t] \in WithBulk]
<1>1. /\ pc[t] = "queue" /\ to_vc' = Append(to_vc, m)
      /\ UNCHANGED <<inuse, waiter_sem, waiter, dest, reply, replying, serving, at_vc, from_vc>>
  BY DEF Queued, At
<1>2. \/ /\ op[t] \in WithBulk /\ pc' = [pc EXCEPT ![t] = "bulk"] /\ UNCHANGED <<op, carried>>
      \/ /\ op[t] \in WithReply /\ pc' = [pc EXCEPT ![t] = "reply"] /\ UNCHANGED <<op, carried>>
      \/ /\ op[t] \notin WithReply /\ pc' = [pc EXCEPT ![t] = "ready"]
         /\ op' = [op EXCEPT ![t] = "none"] /\ carried' = [carried EXCEPT ![t] = NoBuffer]
  BY DEF Queued, Goto
<1>3. m \in Message /\ m.from = t /\ m.waiter = waiter[t] /\ m.buffer = carried[t]
  BY DEF Message, Types
<1>4. m.buffer = NoBuffer => op[t] \in WithReply /\ waiter[t] \in Waiters
  BY <1>1, <1>3 DEF Waits, Types
<1>5. ~Sent(t) /\ ~Served(t) /\ ~Answered(t) /\ ~Copied(t) /\ ~Woken(t)
  BY <1>1 DEF Single
<1>6. /\ to_vc' \in Seq(Message) /\ DOMAIN to_vc' = DOMAIN to_vc \cup {Len(to_vc) + 1}
      /\ to_vc'[Len(to_vc) + 1] = m /\ \A i \in DOMAIN to_vc : to_vc'[i] = to_vc[i]
  BY <1>1, <1>3 DEF Types
<1>7. /\ \A u \in Callers : Sent(u)' <=> Sent(u) \/ (m.buffer = NoBuffer /\ u = t)
      /\ Once(to_vc)'
  BY <1>1, <1>3, <1>5, AppendCalls DEF Types, Wire, Sent
<1>8. Types'
  BY <1>1, <1>2, <1>6 DEF Types, Ops
<1>9. Waits'
  BY <1>1, <1>2 DEF Types, Waits, WithReply
<1>10. Wire'
  BY <1>1, <1>3, <1>4, <1>6, <1>7 DEF Wire, Once, Named
<1>11. Single'
  <2>1. \A u \in Callers : /\ Served(u)' = Served(u) /\ Answered(u)' = Answered(u)
                            /\ Copied(u)' = Copied(u) /\ Woken(u)' = Woken(u)
    BY <1>1 DEF Served, Answered, Copied, Woken, Has
  <2>2. m.buffer = NoBuffer => pc'[t] \in {"bulk", "reply"}
    BY <1>2, <1>4 DEF Types
  <2>3. \A u \in Callers \ {t} : pc'[u] = pc[u]
    BY <1>2 DEF Types
  <2> QED BY <1>1, <1>5, <1>7, <2>1, <2>2, <2>3 DEF Single
<1>12. Posted'
  BY <1>1 DEF Posted
<1> QED BY <1>8, <1>9, <1>10, <1>11, <1>12

\* What VideoCore and the VCHIQ thread move leaves the threads where they are.
LEMMA ReceiveStep ==
  ASSUME CallInv, Receive
  PROVE  CallInv'
<1> USE DEF CallInv, pool, threads
<1> DEFINE m == Head(to_vc)
<1>1. /\ to_vc # <<>> /\ to_vc' = Tail(to_vc)
      /\ UNCHANGED <<inuse, waiter_sem, waiter, dest, reply, replying, from_vc, pc, op, carried>>
      /\ \/ m.buffer = NoBuffer /\ serving' = serving \cup {m} /\ UNCHANGED at_vc
         \/ m.buffer # NoBuffer /\ at_vc' = at_vc \cup {m.buffer} /\ UNCHANGED serving
  BY DEF Receive
<1>2. /\ m \in Message /\ to_vc' \in Seq(Message) /\ 1 \in DOMAIN to_vc /\ m = to_vc[1]
      /\ \A i \in DOMAIN to_vc' : i + 1 \in DOMAIN to_vc /\ to_vc'[i] = to_vc[i + 1]
      /\ \A t : Has(to_vc', t) <=> Has(to_vc, t) /\ ~(m.buffer = NoBuffer /\ m.from = t)
      /\ Once(to_vc')
  BY <1>1, TailCalls DEF Types, Wire
<1>3. m.from \in Callers /\ m.waiter \in Waiters \cup {NoWaiter} /\ m.buffer \in Buffers \cup {NoBuffer}
  BY <1>2 DEF Message
<1>4. m.buffer = NoBuffer => Named(m) /\ Sent(m.from) /\ ~Served(m.from)
  BY <1>2, <1>3 DEF Wire, Sent, Has, Single
<1>5. Types'
  BY <1>1, <1>2, <1>3 DEF Types
<1>6. Waits' /\ Posted'
  BY <1>1 DEF Waits, Posted
<1>7. Wire'
  <2>1. \A n : Named(n)' = Named(n)
    BY <1>1 DEF Named
  <2>2. \A n \in serving' : n.buffer = NoBuffer /\ Named(n)
    BY <1>1, <1>4 DEF Wire
  <2>3. \A n, o \in serving' : n.from = o.from => n = o
    BY <1>1, <1>4 DEF Wire, Served
  <2>4. \A i \in DOMAIN to_vc' : Named(to_vc'[i])
    BY <1>2 DEF Wire
  <2> QED BY <1>1, <1>2, <2>1, <2>2, <2>3, <2>4 DEF Wire, Once
<1>8. Single'
  <2>1. \A u \in Callers : /\ Answered(u)' = Answered(u) /\ Copied(u)' = Copied(u)
                            /\ Woken(u)' = Woken(u)
    BY <1>1 DEF Answered, Copied, Woken, Has
  <2>2. \A u \in Callers : Sent(u)' <=> Sent(u) /\ ~(m.buffer = NoBuffer /\ m.from = u)
    BY <1>2 DEF Sent
  <2>3. \A u \in Callers : Served(u)' <=> Served(u) \/ (m.buffer = NoBuffer /\ m.from = u)
    BY <1>1 DEF Served
  <2> QED BY <1>1, <1>4, <2>1, <2>2, <2>3 DEF Single
<1> QED BY <1>5, <1>6, <1>7, <1>8

\* A reply takes the place of the call it answers.
LEMMA AnswerStep ==
  ASSUME CallInv, NEW m \in serving, Answer(m)
  PROVE  CallInv'
<1> USE DEF CallInv, pool, threads
<1> DEFINE r == [waiter |-> m.waiter, from |-> m.from, buffer |-> NoBuffer, kind |-> "direct"]
<1>1. /\ serving' = serving \ {m} /\ from_vc' = Append(from_vc, r)
      /\ UNCHANGED <<inuse, waiter_sem, waiter, dest, reply, replying, to_vc, at_vc, pc, op, carried>>
  BY DEF Answer
<1>2. m \in Message /\ m.from \in Callers /\ m.waiter \in Waiters /\ waiter[m.from] = m.waiter
  BY DEF Types, Message, Wire, Named
<1>3. /\ r \in Reply /\ r \in Returned \cup Reply
      /\ r.from = m.from /\ r.waiter = m.waiter /\ r.buffer = NoBuffer
  BY <1>2 DEF Reply
<1>4. Served(m.from) /\ ~Answered(m.from) /\ ~Sent(m.from)
  BY <1>2 DEF Served, Single
<1>5. /\ from_vc' \in Seq(Returned \cup Reply)
      /\ DOMAIN from_vc' = DOMAIN from_vc \cup {Len(from_vc) + 1}
      /\ from_vc'[Len(from_vc) + 1] = r /\ \A i \in DOMAIN from_vc : from_vc'[i] = from_vc[i]
  <2>1. from_vc \in Seq(Returned \cup Reply)
    BY DEF Types
  <2> HIDE DEF r
  <2> QED BY <1>1, <1>3, <2>1
<1>6. /\ \A u \in Callers : Answered(u)' <=> Answered(u) \/ u = m.from
      /\ Once(from_vc)'
  <2>1. from_vc \in Seq(Returned \cup Reply) /\ Once(from_vc)
    BY DEF Types, Wire
  <2>2. ~Has(from_vc, r.from)
    BY <1>3, <1>4 DEF Answered
  <2> HIDE DEF r
  <2>3. /\ \A u : Has(Append(from_vc, r), u) <=> Has(from_vc, u) \/ (r.buffer = NoBuffer /\ r.from = u)
        /\ Once(Append(from_vc, r))
    BY <1>3, <2>1, <2>2, AppendCalls
  <2> QED BY <1>1, <1>3, <2>3 DEF Answered
<1>7. Types'
  BY <1>1, <1>5 DEF Types
<1>8. Waits' /\ Posted'
  BY <1>1 DEF Waits, Posted
<1>9. Wire'
  <2>1. \A n : Named(n)' = Named(n)
    BY <1>1 DEF Named
  <2>2. Named(r)
    BY <1>2, <1>3 DEF Named
  <2> HIDE DEF r
  <2>3. \A i \in DOMAIN from_vc' : Named(from_vc'[i])
    BY <1>5, <2>2 DEF Wire
  <2> QED BY <1>1, <1>6, <2>1, <2>3 DEF Wire, Once
<1>10. Single'
  <2>1. \A u \in Callers : Sent(u)' = Sent(u) /\ Copied(u)' = Copied(u) /\ Woken(u)' = Woken(u)
    BY <1>1 DEF Sent, Copied, Woken, Has
  <2>2. \A u \in Callers : Served(u)' <=> Served(u) /\ u # m.from
    BY <1>1 DEF Served, Wire
  <2> QED BY <1>1, <1>4, <1>6, <2>1, <2>2 DEF Single
<1> QED BY <1>7, <1>8, <1>9, <1>10

\* A buffer that is sent back is nobody's reply.
LEMMA ReturnStep ==
  ASSUME CallInv, NEW b \in at_vc, NEW kind \in Kinds, Return(b, kind)
  PROVE  CallInv'
<1> USE DEF CallInv, pool, threads
<1> DEFINE r == [waiter |-> NoWaiter, from |-> NoCaller, buffer |-> b, kind |-> kind]
<1>1. /\ at_vc' = at_vc \ {b} /\ from_vc' = Append(from_vc, r)
      /\ UNCHANGED <<inuse, waiter_sem, waiter, dest, reply, replying, to_vc, serving, pc, op, carried>>
  BY DEF Return
<1>2. r \in Returned \cup Reply /\ r.buffer # NoBuffer
  BY VcClientAssumption DEF Types, Returned
<1>3. /\ from_vc' \in Seq(Returned \cup Reply)
      /\ DOMAIN from_vc' = DOMAIN from_vc \cup {Len(from_vc) + 1}
      /\ from_vc'[Len(from_vc) + 1] = r /\ \A i \in DOMAIN from_vc : from_vc'[i] = from_vc[i]
      /\ \A u \in Callers : Answered(u)' <=> Answered(u)
      /\ Once(from_vc)'
  <2>1. from_vc \in Seq(Returned \cup Reply) /\ Once(from_vc)
    BY DEF Types, Wire
  <2> HIDE DEF r
  <2>2. /\ \A u : Has(Append(from_vc, r), u) <=> Has(from_vc, u) \/ (r.buffer = NoBuffer /\ r.from = u)
        /\ Once(Append(from_vc, r))
    BY <1>2, <2>1, AppendCalls
  <2>3. /\ from_vc' \in Seq(Returned \cup Reply)
        /\ DOMAIN from_vc' = DOMAIN from_vc \cup {Len(from_vc) + 1}
        /\ from_vc'[Len(from_vc) + 1] = r /\ \A i \in DOMAIN from_vc : from_vc'[i] = from_vc[i]
    BY <1>1, <1>2, <2>1
  <2>4. (\A u \in Callers : Answered(u)' <=> Answered(u)) /\ Once(from_vc)'
    BY <1>1, <1>2, <2>2 DEF Answered
  <2> QED BY <2>3, <2>4
<1>4. Types'
  BY <1>1, <1>3 DEF Types
<1>5. Waits' /\ Posted'
  BY <1>1 DEF Waits, Posted
<1>6. Wire'
  <2>1. \A n : Named(n)' = Named(n)
    BY <1>1 DEF Named
  <2>2. Named(r)
    BY <1>2 DEF Named
  <2> HIDE DEF r
  <2>3. \A i \in DOMAIN from_vc' : Named(from_vc'[i])
    BY <1>3, <2>2 DEF Wire
  <2> QED BY <1>1, <1>3, <2>1, <2>3 DEF Wire, Once
<1>7. Single'
  <2>1. \A u \in Callers : /\ Sent(u)' = Sent(u) /\ Served(u)' = Served(u)
                            /\ Copied(u)' = Copied(u) /\ Woken(u)' = Woken(u)
    BY <1>1 DEF Sent, Served, Copied, Woken, Has
  <2> QED BY <1>1, <1>3, <2>1 DEF Single
<1> QED BY <1>4, <1>5, <1>6, <1>7

\* A reply is copied to the thread that waits with the waiter it names, which is the one it
\* answers.
LEMMA CopyReplyStep ==
  ASSUME CallInv, CopyReply
  PROVE  CallInv'
<1> USE DEF CallInv, threads
<1> DEFINE m == Head(from_vc)
<1>1. /\ replying = NoWaiter /\ from_vc # <<>> /\ m.buffer = NoBuffer /\ from_vc' = Tail(from_vc)
      /\ reply' = [reply EXCEPT ![dest[m.waiter]] = m.from] /\ replying' = m.waiter
      /\ UNCHANGED <<inuse, waiter_sem, waiter, dest, to_vc, serving, at_vc, pc, op, carried>>
  BY DEF CopyReply
<1>2. /\ from_vc' \in Seq(Returned \cup Reply) /\ 1 \in DOMAIN from_vc /\ m = from_vc[1]
      /\ \A i \in DOMAIN from_vc' : i + 1 \in DOMAIN from_vc /\ from_vc'[i] = from_vc[i + 1]
      /\ \A t : Has(from_vc', t) <=> Has(from_vc, t) /\ ~(m.buffer = NoBuffer /\ m.from = t)
      /\ Once(from_vc')
  BY <1>1, TailCalls DEF Types, Wire
<1>3. m.from \in Callers /\ m.waiter \in Waiters /\ waiter[m.from] = m.waiter
  BY <1>1, <1>2 DEF Wire, Named
<1>4. m.waiter # NoWaiter /\ dest[m.waiter] = m.from
  BY <1>3, VcClientAssumption DEF Waits
<1>5. Answered(m.from)
  BY <1>1, <1>2 DEF Answered, Has
<1>6. \A u \in Callers \ {m.from} : waiter[u] # m.waiter
  BY <1>4 DEF Waits
<1>7. Types'
  BY <1>1, <1>2, <1>3, <1>4 DEF Types
<1>8. Waits'
  BY <1>1 DEF Waits
<1>9. Wire'
  <2>1. \A n : Named(n)' = Named(n)
    BY <1>1 DEF Named
  <2>2. \A i \in DOMAIN from_vc' : Named(from_vc'[i])
    BY <1>2 DEF Wire
  <2> QED BY <1>1, <1>2, <2>1, <2>2 DEF Wire, Once
<1>10. Single'
  <2>1. \A u \in Callers : Sent(u)' = Sent(u) /\ Served(u)' = Served(u) /\ Woken(u)' = Woken(u)
    BY <1>1 DEF Sent, Served, Woken, Has
  <2>2. \A u \in Callers : Answered(u)' <=> Answered(u) /\ u # m.from
    BY <1>1, <1>2 DEF Answered
  <2>3. \A u \in Callers : /\ ~Copied(u) /\ (Copied(u)' <=> u = m.from)
                            /\ reply'[u] = IF u = m.from THEN u ELSE reply[u]
    BY <1>1, <1>3, <1>4, <1>6 DEF Copied, Types
  <2> QED BY <1>1, <1>5, <2>1, <2>2, <2>3 DEF Single
<1>11. Posted'
  BY <1>1, <1>3, <1>4 DEF Posted
<1> QED BY <1>7, <1>8, <1>9, <1>10, <1>11

\* The waiter that is woken up is that of a thread whose reply has been copied.
LEMMA WakeWaiterStep ==
  ASSUME CallInv, WakeWaiter
  PROVE  CallInv'
<1> USE DEF CallInv, wire, threads
<1>1. /\ replying # NoWaiter /\ replying' = NoWaiter
      /\ waiter_sem' = [waiter_sem EXCEPT ![replying] = @ + 1]
      /\ UNCHANGED <<inuse, waiter, dest, reply, to_vc, serving, at_vc, from_vc, pc, op, carried>>
  BY DEF WakeWaiter
<1> DEFINE t == dest[replying]
<1>2. replying \in Waiters /\ t \in Callers /\ waiter[t] = replying
  BY <1>1 DEF Types, Posted
<1>3. Copied(t) /\ ~Woken(t) /\ ~Sent(t) /\ ~Served(t) /\ ~Answered(t)
  BY <1>1, <1>2 DEF Copied, Single
<1>4. \A u \in Callers \ {t} : waiter[u] # replying
  BY <1>1 DEF Waits
<1>5. /\ waiter_sem[replying] = 0 /\ waiter_sem'[replying] = 1
      /\ \A w \in Waiters \ {replying} : waiter_sem'[w] = waiter_sem[w]
  <2>1. waiter_sem[replying] = 0
    BY <1>1, <1>2, <1>3 DEF Woken, Types
  <2> QED BY <1>1, <1>2, <2>1 DEF Types
<1>6. Types'
  BY <1>1, <1>2, <1>5 DEF Types
<1>7. Waits' /\ Wire'
  BY <1>1 DEF Waits, Wire, Once, Named
<1>8. Single'
  <2>1. \A u \in Callers : Sent(u)' = Sent(u) /\ Served(u)' = Served(u) /\ Answered(u)' = Answered(u)
    BY <1>1 DEF Sent, Served, Answered, Has
  <2>2. \A u \in Callers : ~Copied(u)'
    BY <1>1 DEF Copied
  <2>3. \A u \in Callers \ {t} : Woken(u)' = Woken(u)
    BY <1>1, <1>4, <1>5 DEF Woken, Types
  <2> QED BY <1>1, <1>3, <2>1, <2>2, <2>3 DEF Single
<1>9. Posted'
  BY <1>1, <1>2, <1>5, VcClientAssumption DEF Posted
<1> QED BY <1>6, <1>7, <1>8, <1>9

\* A buffer that came back goes to its port, and no call is touched.
LEMMA BufferSteps ==
  ASSUME CallInv, Buffer \/ BulkReceived
  PROVE  CallInv'
<1> USE DEF CallInv, pool, threads
<1>1. CASE Buffer
  <2> DEFINE m == Head(from_vc)
  <2>1. /\ from_vc # <<>> /\ m.buffer # NoBuffer /\ from_vc' = Tail(from_vc)
        /\ UNCHANGED <<inuse, waiter_sem, waiter, dest, reply, replying, to_vc, serving, at_vc, pc,
                       op, carried>>
    BY <1>1 DEF Buffer
  <2>2. /\ from_vc' \in Seq(Returned \cup Reply)
        /\ \A i \in DOMAIN from_vc' : i + 1 \in DOMAIN from_vc /\ from_vc'[i] = from_vc[i + 1]
        /\ \A t : Has(from_vc', t) <=> Has(from_vc, t)
        /\ Once(from_vc')
    BY <2>1, TailCalls DEF Types, Wire
  <2>3. Types'
    BY <2>1, <2>2 DEF Types
  <2>4. Waits' /\ Posted'
    BY <2>1 DEF Waits, Posted
  <2>5. Wire'
    <3>1. \A n : Named(n)' = Named(n)
      BY <2>1 DEF Named
    <3>2. \A i \in DOMAIN from_vc' : Named(from_vc'[i])
      BY <2>2 DEF Wire
    <3> QED BY <2>1, <2>2, <3>1, <3>2 DEF Wire, Once
  <2>6. Single'
    <3>1. \A u \in Callers : /\ Sent(u)' = Sent(u) /\ Served(u)' = Served(u)
                              /\ Copied(u)' = Copied(u) /\ Woken(u)' = Woken(u)
      BY <2>1 DEF Sent, Served, Copied, Woken, Has
    <3>2. \A u \in Callers : Answered(u)' <=> Answered(u)
      BY <2>2 DEF Answered
    <3> QED BY <2>1, <3>1, <3>2 DEF Single
  <2> QED BY <2>3, <2>4, <2>5, <2>6
<1>2. CASE BulkReceived
  <2>1. UNCHANGED <<inuse, waiter_sem, waiter, dest, reply, replying, to_vc, serving, at_vc,
                    from_vc, pc, op, carried>>
    BY <1>2 DEF BulkReceived
  <2>2. Types' /\ Waits'
    BY <2>1 DEF Types, Waits
  <2> QED BY <2>1, <2>2, Elsewhere
<1> QED BY <1>1, <1>2

-----------------------------------------------------------------------------
\* Every step keeps every call in one place.
LEMMA CallNext == CallInv /\ UsersInv /\ [Next]_vars => CallInv'
<1> SUFFICES ASSUME CallInv, UsersInv, [Next]_vars PROVE CallInv'
  OBVIOUS
<1>1. ASSUME NEW t \in Callers, Starts(t) PROVE CallInv'
  BY <1>1, InitFirstStep, ClientSteps, ThreadSteps DEF Starts
<1>2. ASSUME NEW t \in Callers, GoesOn(t) PROVE CallInv'
  BY <1>2, ClientSteps, ThreadSteps, SearchStep, QueuedStep, WaitForReplyStep, FreeWaiterStep
     DEF GoesOn
<1>3. CASE VideoCore
  BY <1>3, ReceiveStep, AnswerStep, ReturnStep DEF VideoCore
<1>4. CASE Vchiq
  BY <1>4, CopyReplyStep, WakeWaiterStep, BufferSteps DEF Vchiq
<1>5. CASE UNCHANGED vars
  <2>1. UNCHANGED <<inuse, waiter_sem, waiter, dest, reply, replying, to_vc, serving, at_vc,
                    from_vc, pc, op, carried>>
    BY <1>5 DEF vars, pool, wire, threads
  <2>2. Types' /\ Waits'
    BY <2>1 DEF CallInv, Types, Waits
  <2> QED BY <2>1, <2>2, Elsewhere
<1> QED BY <1>1, <1>2, <1>3, <1>4, <1>5 DEF Next

\* A call that is in one place only, with a waiter in use by its thread alone, is one whose
\* reply reaches its caller.
LEMMA RepliesReach == CallInv => RepliesReachCallers
<1> SUFFICES ASSUME CallInv PROVE RepliesReachCallers
  OBVIOUS
<1> USE DEF CallInv
<1>1. ASSUME NEW m \in Range(to_vc) \cup serving \cup Range(from_vc), m.buffer = NoBuffer
      PROVE  /\ m.waiter \in inuse /\ waiter[m.from] = m.waiter /\ dest[m.waiter] = m.from
             /\ pc[m.from] \in {"bulk", "reply"}
  <2>1. Named(m) /\ (Sent(m.from) \/ Served(m.from) \/ Answered(m.from))
    BY <1>1 DEF Range, Wire, Sent, Served, Answered, Has
  <2>2. m.from \in Callers /\ m.waiter \in Waiters /\ waiter[m.from] = m.waiter
    BY <1>1, <2>1 DEF Named
  <2>3. m.waiter # NoWaiter
    BY <2>2, VcClientAssumption
  <2> QED BY <2>1, <2>2, <2>3 DEF Waits, Single
<1>2. \A t \in Callers : waiter[t] # NoWaiter /\ waiter_sem[waiter[t]] > 0 => reply[t] = t
  BY DEF Single, Woken
<1> QED BY <1>1, <1>2 DEF RepliesReachCallers

\* In every execution the reply to a call reaches the thread that made it, and no thread goes
\* on with another's: mmal_vc_sendwait_message() and the reply case of mmal_vc_vchiq_callback(),
\* whatever the number of threads and of waiters and whatever VCHIQ refuses.
THEOREM RepliesCorrect == Spec => []RepliesReachCallers
<1>1. Init => CallInv /\ UsersInv
  BY CallInit, UsersInit
<1>2. (CallInv /\ UsersInv) /\ [Next]_vars => (CallInv /\ UsersInv)'
  BY CallNext, UsersNext DEF CallInv
<1>3. CallInv /\ UsersInv => RepliesReachCallers
  BY RepliesReach
<1> QED BY <1>1, <1>2, <1>3, PTL DEF Spec

-----------------------------------------------------------------------------
(* The waiters, counted: the semaphore has let through as many threads as  *)
(* will find one, and the threads that gave one back will post it.         *)

There(l) == {t \in Callers : pc[t] = l}

Counted ==
  /\ waitpool_sem \in Nat
  /\ refcount > 0 => waitpool_sem + Cardinality(There("search")) + Cardinality(There("post"))
                       = Cardinality(Waiters \ inuse)

\* A thread that goes from one place to another is counted in the second, not the first.
LEMMA Went ==
  ASSUME Types, NEW t \in Callers, NEW k, k # pc[t], pc' = [pc EXCEPT ![t] = k], NEW l
  PROVE  /\ Cardinality(There(l)) \in Nat
         /\ l = k => Cardinality(There(l)') = Cardinality(There(l)) + 1
         /\ l = pc[t] => Cardinality(There(l)') = Cardinality(There(l)) - 1
         /\ l # k /\ l # pc[t] => Cardinality(There(l)') = Cardinality(There(l))
<1>1. IsFiniteSet(There(l))
  BY FS_Subset, VcClientAssumption DEF There
<1>2. /\ Cardinality(There(l)) \in Nat
      /\ Cardinality(There(l) \cup {t}) = IF t \in There(l) THEN Cardinality(There(l))
                                          ELSE Cardinality(There(l)) + 1
      /\ Cardinality(There(l) \ {t}) = IF t \in There(l) THEN Cardinality(There(l)) - 1
                                        ELSE Cardinality(There(l))
  BY <1>1, FS_CardinalityType, FS_AddElement, FS_RemoveElement
<1>3. CASE l = k
  <2>1. There(l)' = There(l) \cup {t} /\ t \notin There(l)
    BY <1>3 DEF There, Types
  <2> QED BY <1>2, <1>3, <2>1
<1>4. CASE l # k /\ l = pc[t]
  <2>1. There(l)' = There(l) \ {t} /\ t \in There(l)
    BY <1>4 DEF There, Types
  <2> QED BY <1>2, <1>4, <2>1
<1>5. CASE l # k /\ l # pc[t]
  <2>1. There(l)' = There(l)
    BY <1>5 DEF There, Types
  <2> QED BY <1>2, <1>5, <2>1
<1> QED BY <1>3, <1>4, <1>5

\* At the start there are no waiters yet.
LEMMA CountedInit == Init => Counted
BY DEF Init, Counted

\* The first user makes as many waiters as the semaphore counts.
LEMMA CountedFirst ==
  ASSUME Types, UsersInv, NEW t \in Callers, InitFirst(t)
  PROVE  Counted'
<1>1. There("search")' = {} /\ There("post")' = {}
  BY NoUsers DEF InitFirst, Goto, There, Types
<1>2. Cardinality(Waiters) \in Nat /\ Waiters \ {} = Waiters /\ Cardinality({}) = 0
  BY FS_CardinalityType, FS_EmptySet, VcClientAssumption
<1> QED BY <1>1, <1>2 DEF InitFirst, CreateWaitpool, Counted

\* A thread that is let through, finds a waiter, gives it back or posts it keeps the count.
LEMMA CountedWaiters ==
  ASSUME Types, Waits, Counted, NEW t \in Callers,
         WaitForWaiter(t) \/ Search(t) \/ FreeWaiter(t) \/ PostWaiter(t)
  PROVE  Counted'
<1>1. IsFiniteSet(Waiters \ inuse)
  BY FS_Subset, VcClientAssumption
<1>2. Cardinality(There("search")) \in Nat /\ Cardinality(There("post")) \in Nat
  BY FS_Subset, FS_CardinalityType, VcClientAssumption DEF There
<1>3. CASE WaitForWaiter(t)
  <2>1. /\ pc[t] = "waiter" /\ pc' = [pc EXCEPT ![t] = "search"] /\ waitpool_sem > 0
        /\ waitpool_sem' = waitpool_sem - 1 /\ UNCHANGED <<refcount, inuse>>
    BY <1>3 DEF WaitForWaiter, At, Goto, client
  <2>2. /\ Cardinality(There("search")') = Cardinality(There("search")) + 1
        /\ Cardinality(There("post")') = Cardinality(There("post"))
    BY <2>1, Went
  <2> QED BY <1>2, <2>1, <2>2 DEF Counted
<1>4. CASE Search(t)
  <2>1. PICK w \in Waiters \ inuse : inuse' = inuse \cup {w}
    BY <1>4 DEF Search
  <2>2. /\ pc[t] = "search" /\ pc' = [pc EXCEPT ![t] = "claim"]
        /\ UNCHANGED <<refcount, waitpool_sem>>
    BY <1>4 DEF Search, At, Goto, client
  <2>3. /\ Cardinality(There("search")') = Cardinality(There("search")) - 1
        /\ Cardinality(There("post")') = Cardinality(There("post"))
    BY <2>2, Went
  <2>4. Waiters \ inuse' = (Waiters \ inuse) \ {w}
    BY <2>1
  <2>5. /\ Cardinality(Waiters \ inuse') = Cardinality(Waiters \ inuse) - 1
        /\ Cardinality(Waiters \ inuse) \in Nat
    BY <1>1, <2>1, <2>4, FS_RemoveElement, FS_CardinalityType
  <2> QED BY <1>2, <2>2, <2>3, <2>5 DEF Counted
<1>5. CASE FreeWaiter(t)
  <2>1. /\ pc[t] = "free" /\ pc' = [pc EXCEPT ![t] = "post"] /\ inuse' = inuse \ {waiter[t]}
        /\ UNCHANGED <<refcount, waitpool_sem>>
    BY <1>5 DEF FreeWaiter, At, Goto, client
  <2>2. waiter[t] \in inuse /\ waiter[t] \in Waiters
    BY <2>1 DEF Waits, Types
  <2>3. /\ Cardinality(There("search")') = Cardinality(There("search"))
        /\ Cardinality(There("post")') = Cardinality(There("post")) + 1
    BY <2>1, Went
  <2>4. Waiters \ inuse' = (Waiters \ inuse) \cup {waiter[t]} /\ waiter[t] \notin Waiters \ inuse
    BY <2>1, <2>2
  <2>5. /\ Cardinality(Waiters \ inuse') = Cardinality(Waiters \ inuse) + 1
        /\ Cardinality(Waiters \ inuse) \in Nat
    BY <1>1, <2>4, FS_AddElement, FS_CardinalityType
  <2> QED BY <1>2, <2>1, <2>3, <2>5 DEF Counted
<1>6. CASE PostWaiter(t)
  <2>1. PICK l \in AfterCall(t) : pc' = [pc EXCEPT ![t] = l]
    BY <1>6 DEF PostWaiter, Goto
  <2>2. l # "search" /\ l # "post"
    <3>1. AfterCall(t) \subseteq {"release", "ready"}
      BY DEF AfterCall
    <3> QED BY <2>1, <3>1
  <2>3. /\ pc[t] = "post" /\ waitpool_sem' = waitpool_sem + 1 /\ UNCHANGED <<refcount, inuse>>
    BY <1>6 DEF PostWaiter, At, client
  <2>4. /\ Cardinality(There("search")') = Cardinality(There("search"))
        /\ Cardinality(There("post")') = Cardinality(There("post")) - 1
    BY <2>1, <2>2, <2>3, Went
  <2> QED BY <1>2, <2>3, <2>4 DEF Counted
<1> QED BY <1>3, <1>4, <1>5, <1>6

\* A step that nobody who was let through or has to post takes keeps the count.
LEMMA CountedElsewhere ==
  ASSUME Counted, There("search")' = There("search"), There("post")' = There("post"),
         UNCHANGED <<waitpool_sem, inuse>>, refcount' = refcount \/ refcount > 0
  PROVE  Counted'
BY DEF Counted

\* Every step keeps the count.
LEMMA CountedNext == Types /\ Waits /\ UsersInv /\ Counted /\ [Next]_vars => Counted'
<1> SUFFICES ASSUME Types, Waits, UsersInv, Counted, [Next]_vars PROVE Counted'
  OBVIOUS
<1>1. ASSUME UNCHANGED <<pc, refcount, waitpool_sem, inuse>> PROVE Counted'
  BY <1>1, CountedElsewhere DEF There
<1>2. ASSUME NEW t \in Callers, Starts(t) PROVE Counted'
  <2>1. CASE InitFirst(t)
    BY <2>1, CountedFirst
  <2>2. CASE InitFailed(t)
    BY <1>1, <2>2 DEF InitFailed, pool, threads
  <2>3. CASE InitMore(t)
    BY <2>3, CountedElsewhere DEF InitMore, At, Goto, pool, There, Types
  <2>4. ASSUME NEW o \in Ops, Call(t, o) PROVE Counted'
    BY <2>4, CountedElsewhere DEF Call, At, Goto, pool, client, There, Types
  <2>5. ASSUME NEW o \in Ops, NEW b \in Buffers, Send(t, o, b) PROVE Counted'
    BY <2>5, CountedElsewhere DEF Send, At, Goto, pool, client, There, Types
  <2> QED BY <1>2, <2>1, <2>2, <2>3, <2>4, <2>5 DEF Starts
<1>3. ASSUME NEW t \in Callers, GoesOn(t) PROVE Counted'
  <2>1. CASE Opened(t)
    BY <2>1, CountedElsewhere DEF Opened, At, Goto, Unuse, pool, There, Types
  <2>2. CASE Create(t)
    BY <2>2, CountedElsewhere DEF Create, At, Goto, Use, pool, There, Types
  <2>3. CASE Release(t)
    BY <2>3, CountedElsewhere DEF Release, At, Goto, Unuse, pool, There, Types
  <2>4. CASE DeinitMore(t)
    <3>1. refcount > 0
      BY <2>4, FS_Subset, FS_CardinalityType, VcClientAssumption DEF DeinitMore, UsersInv, Users
    <3> QED BY <2>4, <3>1, CountedElsewhere DEF DeinitMore, At, Goto, pool, There, Types
  <2>5. CASE DeinitLast(t)
    BY <2>5 DEF DeinitLast, Counted
  <2>6. CASE Claim(t)
    BY <2>6, CountedElsewhere DEF Claim, At, Goto, Use, pool, There, Types
  <2>7. CASE Queued(t)
    BY <2>7, CountedElsewhere DEF Queued, At, Goto, pool, client, There, Types
  <2>8. CASE QueueFailed(t)
    BY <2>8, CountedElsewhere DEF QueueFailed, At, Goto, pool, client, There, Types
  <2>9. CASE Bulk(t)
    BY <2>9, CountedElsewhere DEF Bulk, At, Goto, pool, client, There, Types
  <2>10. CASE WaitForReply(t)
    BY <2>10, CountedElsewhere DEF WaitForReply, At, Goto, client, There, Types
  <2>11. CASE Unclaim(t)
    BY <2>11, CountedElsewhere DEF Unclaim, At, Goto, Unuse, pool, There, Types
  <2> QED BY <1>3, <2>1, <2>2, <2>3, <2>4, <2>5, <2>6, <2>7, <2>8, <2>9, <2>10, <2>11,
             CountedWaiters DEF GoesOn
<1>4. ASSUME VideoCore \/ Vchiq PROVE Counted'
  BY <1>1, <1>4 DEF VideoCore, Vchiq, Receive, Answer, Return, CopyReply, WakeWaiter, Buffer,
                    BulkReceived, client, pool, threads
<1>5. CASE UNCHANGED vars
  BY <1>1, <1>5 DEF vars, client, pool, threads
<1> QED BY <1>2, <1>3, <1>4, <1>5 DEF Next

\* Once the threads that were let through are counted, there is a waiter for each.
LEMMA CountedFound == Types /\ UsersInv /\ Counted => WaiterFound
<1> SUFFICES ASSUME Types, UsersInv, Counted PROVE WaiterFound
  OBVIOUS
<1>1. /\ Cardinality(There("search")) \in Nat /\ Cardinality(There("post")) \in Nat
      /\ Cardinality(Waiters \ inuse) \in Nat
  BY FS_Subset, FS_CardinalityType, VcClientAssumption DEF There
<1>2. Cardinality(There("search")) <= Cardinality(Waiters \ inuse)
  <2>1. CASE refcount > 0
    BY <1>1, <2>1 DEF Counted
  <2>2. CASE refcount = 0
    <3>1. There("search") = {}
      BY <2>2, NoUsers DEF There
    <3> QED BY <1>1, <3>1, FS_EmptySet
  <2>3. refcount \in Nat
    BY FS_Subset, FS_CardinalityType, VcClientAssumption DEF UsersInv, Users
  <2> QED BY <2>1, <2>2, <2>3
<1> QED BY <1>2 DEF WaiterFound, There, At

\* In every execution a thread that get_waiter()'s semaphore lets through finds a waiter that is
\* not in use, although release_waiter() gives waiters back without the lock.
THEOREM WaitersCorrect == Spec => []WaiterFound
<1>1. Init => CallInv /\ UsersInv /\ Counted
  BY CallInit, UsersInit, CountedInit
<1>2. (CallInv /\ UsersInv /\ Counted) /\ [Next]_vars => (CallInv /\ UsersInv /\ Counted)'
  BY CallNext, UsersNext, CountedNext DEF CallInv
<1>3. CallInv /\ UsersInv /\ Counted => WaiterFound
  BY CountedFound DEF CallInv
<1> QED BY <1>1, <1>2, <1>3, PTL DEF Spec

-----------------------------------------------------------------------------
(* The transfers: the bulk lock keeps them in the order of the messages.   *)

\* A thread sends a message that goes with a transfer.
Transferring(t) ==
  pc[t] \in {"waiter", "search", "claim", "queue", "bulk"} /\ op[t] \in WithBulk

\* A thread holds the bulk lock from its call or its buffer until it has queued the transfer.
Locks ==
  /\ bulk_lock \in Callers \cup {NoCaller}
  /\ bulk_tx \in Seq(Callers)
  /\ \A t \in Callers :
       /\ bulk_lock = t <=> Transferring(t)
       /\ pc[t] = "bulk" => op[t] \in WithBulk

\* How many of the first messages of a sequence go with a transfer, and that these are
\* the messages of the threads which the transfers come from.
Count(s, i) == Cardinality({j \in 1 .. i : s[j].bulk})

Follows(s, x) ==
  /\ Len(x) = Count(s, Len(s))
  /\ \A i \in DOMAIN s : s[i].bulk => s[i].from = x[Count(s, i)]

BulkInv == Locks /\ Follows(to_vc, Transfers)

\* The messages that go with a transfer are counted one by one.
LEMMA CountFacts ==
  ASSUME NEW s, NEW i \in Nat
  PROVE  /\ Count(s, i) \in Nat /\ Count(s, 0) = 0
         /\ s[i + 1].bulk => Count(s, i + 1) = Count(s, i) + 1
         /\ ~s[i + 1].bulk => Count(s, i + 1) = Count(s, i)
         /\ \A k \in 0 .. i : Count(s, k) \in Nat /\ Count(s, k) <= Count(s, i)
         /\ i \in Nat \ {0} /\ s[i].bulk => Count(s, i) > 0
<1> DEFINE C(k) == {j \in 1 .. k : s[j].bulk}
<1>1. \A k \in Nat : IsFiniteSet(C(k)) /\ Cardinality(C(k)) \in Nat
  <2> TAKE k \in Nat
  <2>1. C(k) \subseteq 1 .. k /\ IsFiniteSet(1 .. k)
    BY FS_Interval
  <2> QED BY <2>1, FS_Subset, FS_CardinalityType
<1>2. Cardinality(C(0)) = 0
  <2>1. C(0) = {}
    OBVIOUS
  <2> QED BY <2>1, FS_EmptySet
<1>3. s[i + 1].bulk => Cardinality(C(i + 1)) = Cardinality(C(i)) + 1
  <2> HAVE s[i + 1].bulk
  <2>1. C(i + 1) = C(i) \cup {i + 1} /\ i + 1 \notin C(i)
    OBVIOUS
  <2> HIDE DEF C
  <2> QED BY <1>1, <2>1, FS_AddElement
<1>4. ~s[i + 1].bulk => C(i + 1) = C(i)
  <2>1. 1 .. i + 1 = (1 .. i) \cup {i + 1}
    OBVIOUS
  <2> QED BY <2>1
<1>5. \A k \in 0 .. i : Cardinality(C(k)) <= Cardinality(C(i))
  <2> TAKE k \in 0 .. i
  <2>1. C(k) \subseteq C(i) /\ k \in Nat
    OBVIOUS
  <2> HIDE DEF C
  <2> QED BY <1>1, <2>1, FS_Subset
<1>6. i \in Nat \ {0} /\ s[i].bulk => Cardinality(C(i)) > 0
  <2> HAVE i \in Nat \ {0} /\ s[i].bulk
  <2>1. i \in C(i)
    OBVIOUS
  <2>2. Cardinality(C(i)) # 0
    <3> HIDE DEF C
    <3> QED BY <1>1, <2>1, FS_EmptySet
  <2>3. Cardinality(C(i)) \in Nat
    BY <1>1
  <2> HIDE DEF C
  <2> QED BY <2>2, <2>3
<1>7. \A k \in 0 .. i : Cardinality(C(k)) \in Nat
  <2> HIDE DEF C
  <2> QED BY <1>1
<1>8. Cardinality(C(i)) \in Nat
  BY <1>1
<1>9. \A k : Count(s, k) = Cardinality(C(k))
  BY DEF Count
<1> HIDE DEF C
<1> QED BY <1>2, <1>3, <1>4, <1>5, <1>6, <1>7, <1>8, <1>9

\* The count does not look at what is appended.
LEMMA CountAppend ==
  ASSUME NEW M, NEW s \in Seq(M), NEW m \in M, NEW i \in 0 .. Len(s)
  PROVE  Count(Append(s, m), i) = Count(s, i)
<1>1. {j \in 1 .. i : Append(s, m)[j].bulk} = {j \in 1 .. i : s[j].bulk}
  <2>1. \A j \in 1 .. i : j \in 1 .. Len(s)
    OBVIOUS
  <2>2. \A j \in 1 .. Len(s) : Append(s, m)[j] = s[j]
    OBVIOUS
  <2> QED BY <2>1, <2>2
<1> QED BY <1>1 DEF Count

\* Without the first message, its transfer is not counted.
LEMMA CountTail ==
  ASSUME NEW M, NEW s \in Seq(M), s # <<>>, NEW i \in 0 .. Len(s) - 1
  PROVE  /\ s[1].bulk => Count(s, i + 1) = Count(Tail(s), i) + 1
         /\ ~s[1].bulk => Count(s, i + 1) = Count(Tail(s), i)
<1> DEFINE C == {j \in 1 .. i : Tail(s)[j].bulk}
           D == {j \in 2 .. i + 1 : s[j].bulk}
           f == [j \in C |-> j + 1]
<1>1. Len(s) \in Nat \ {0} /\ \A j \in 1 .. Len(s) - 1 : Tail(s)[j] = s[j + 1]
  OBVIOUS
<1>2. /\ \A j \in C : j \in 1 .. i /\ s[j + 1].bulk
      /\ \A k \in D : k - 1 \in C
  <2>1. \A j \in C : j \in 1 .. i /\ s[j + 1].bulk
    BY <1>1
  <2>2. \A k \in D : k - 1 \in 1 .. Len(s) - 1 /\ (k - 1) + 1 = k
    BY <1>1
  <2>3. \A k \in D : Tail(s)[k - 1] = s[k]
    BY <1>1, <2>2
  <2>4. \A k \in D : k - 1 \in C
    BY <2>3
  <2> QED BY <2>1, <2>4
<1>3. IsFiniteSet(C)
  <2>1. C \subseteq 1 .. i /\ IsFiniteSet(1 .. i)
    BY FS_Interval
  <2> QED BY <2>1, FS_Subset
<1>4. f \in Bijection(C, D)
  <2>1. f \in [C -> D]
    BY <1>2
  <2>2. \A j, k \in C : f[j] = f[k] => j = k
    BY <1>2
  <2>3. \A k \in D : \E j \in C : f[j] = k
    <3> TAKE k \in D
    <3>1. k - 1 \in C /\ f[k - 1] = k
      BY <1>2
    <3> QED BY <3>1
  <2> QED BY <2>1, <2>2, <2>3, Fun_IsBij
<1>5. IsFiniteSet(D) /\ Cardinality(D) = Cardinality(C)
  <2> HIDE DEF C, D, f
  <2>1. ExistsBijection(C, D)
    BY <1>4 DEF ExistsBijection
  <2> QED BY <1>3, <2>1, FS_Bijection
<1>6. /\ s[1].bulk => {j \in 1 .. i + 1 : s[j].bulk} = D \cup {1}
      /\ ~s[1].bulk => {j \in 1 .. i + 1 : s[j].bulk} = D
      /\ 1 \notin D
  <2>1. 1 .. i + 1 = (2 .. i + 1) \cup {1}
    OBVIOUS
  <2> QED BY <2>1
<1>7. Cardinality(D \cup {1}) = Cardinality(C) + 1
  <2> HIDE DEF C, D
  <2> QED BY <1>5, <1>6, FS_AddElement
<1> HIDE DEF C, D
<1>8. Count(Tail(s), i) = Cardinality(C)
  BY DEF Count, C
<1> QED BY <1>5, <1>6, <1>7, <1>8 DEF Count

\* A message that is sent with its transfer, or without one, is followed by it.
LEMMA FollowsAppend ==
  ASSUME NEW s \in Seq(Message), NEW x \in Seq(Callers), NEW m \in Message, Follows(s, x)
  PROVE  Follows(Append(s, m), IF m.bulk THEN Append(x, m.from) ELSE x)
<1> DEFINE n == Len(s)
           r == Append(s, m)
           y == IF m.bulk THEN Append(x, m.from) ELSE x
<1>1. n \in Nat /\ Len(r) = n + 1 /\ r[n + 1] = m /\ DOMAIN r = (1 .. n) \cup {n + 1}
  OBVIOUS
<1>2. \A i \in 1 .. n : r[i] = s[i] /\ i \in DOMAIN s
  OBVIOUS
<1>3. Count(r, n) = Count(s, n) /\ Count(r, n) \in Nat
  BY <1>1, CountAppend, CountFacts
<1>4. Count(r, n + 1) = IF m.bulk THEN Count(s, n) + 1 ELSE Count(s, n)
  <2> HIDE DEF r, n, y
  <2>1. /\ r[n + 1].bulk => Count(r, n + 1) = Count(r, n) + 1
        /\ ~r[n + 1].bulk => Count(r, n + 1) = Count(r, n)
    BY <1>1, CountFacts
  <2>2. CASE m.bulk
    BY <1>1, <1>3, <2>1, <2>2
  <2>3. CASE ~m.bulk
    BY <1>1, <1>3, <2>1, <2>3
  <2> QED BY <2>2, <2>3
<1>5. \A i \in 1 .. n : Count(r, i) = Count(s, i)
  BY <1>1, CountAppend
<1>6. \A i \in 1 .. n : s[i].bulk => Count(s, i) \in 1 .. Count(s, n)
  <2> TAKE i \in 1 .. n
  <2> HAVE s[i].bulk
  <2>1. i \in 0 .. n /\ i \in Nat \ {0}
    BY <1>1
  <2> HIDE DEF n
  <2>2. Count(s, i) \in Nat /\ Count(s, i) <= Count(s, n) /\ Count(s, i) > 0 /\ Count(s, n) \in Nat
    BY <1>1, <2>1, CountFacts
  <2> QED BY <2>2
<1>7. Len(x) = Count(s, n)
  BY DEF Follows
<1>8. /\ Len(y) = IF m.bulk THEN Len(x) + 1 ELSE Len(x)
      /\ \A k \in 1 .. Len(x) : y[k] = x[k]
      /\ m.bulk => y[Len(x) + 1] = m.from
  <2>1. m.from \in Callers
    BY DEF Message
  <2> QED BY <2>1
<1>9. \A i \in 1 .. n : s[i].bulk => s[i].from = x[Count(s, i)]
  BY <1>2 DEF Follows
<1>10. \A i \in 1 .. n : r[i].bulk => r[i].from = y[Count(r, i)]
  <2> HIDE DEF y, r, n
  <2> QED BY <1>2, <1>5, <1>6, <1>7, <1>8, <1>9
<1>11. r[n + 1].bulk => r[n + 1].from = y[Count(r, n + 1)]
  <2> HIDE DEF y, r, n
  <2> QED BY <1>1, <1>4, <1>7, <1>8
<1>12. Len(y) = Count(r, Len(r))
  <2> HIDE DEF y, r, n
  <2> QED BY <1>1, <1>4, <1>7, <1>8
<1> HIDE DEF y, r, n
<1>13. Follows(r, y)
  BY <1>1, <1>10, <1>11, <1>12 DEF Follows
<1> QED BY <1>13 DEF r, y

\* Once a message is taken with the transfer that belongs to it, the others are still
\* followed by theirs; it was the transfer of the thread that sent the message.
LEMMA FollowsTail ==
  ASSUME NEW s \in Seq(Message), NEW x \in Seq(Callers), s # <<>>, Follows(s, x)
  PROVE  /\ Head(s).bulk => x # <<>> /\ Head(x) = Head(s).from
         /\ Follows(Tail(s), IF Head(s).bulk THEN Tail(x) ELSE x)
<1> DEFINE n == Len(s)
           r == Tail(s)
           y == IF Head(s).bulk THEN Tail(x) ELSE x
           d == IF Head(s).bulk THEN 1 ELSE 0
<1>1. /\ n \in Nat \ {0} /\ Len(r) = n - 1 /\ Head(s) = s[1] /\ DOMAIN r = 1 .. n - 1
      /\ 1 \in DOMAIN s /\ DOMAIN s = 1 .. n
      /\ \A i \in 1 .. n - 1 : r[i] = s[i + 1] /\ i + 1 \in DOMAIN s
  OBVIOUS
<1>2. \A i \in 0 .. n - 1 : Count(s, i + 1) = Count(r, i) + d /\ Count(r, i) \in Nat
  <2> TAKE i \in 0 .. n - 1
  <2>1. i \in Nat
    BY <1>1
  <2>2. /\ s[1].bulk => Count(s, i + 1) = Count(r, i) + 1
        /\ ~s[1].bulk => Count(s, i + 1) = Count(r, i)
    BY CountTail
  <2>3. Count(r, i) \in Nat
    BY <2>1, CountFacts
  <2> HIDE DEF r, n
  <2> QED BY <1>1, <2>2, <2>3
<1>3. Len(x) = Count(s, n)
  BY DEF Follows
<1>4. Count(s, n) = Count(r, n - 1) + d
  <2>1. n - 1 \in 0 .. n - 1 /\ (n - 1) + 1 = n
    BY <1>1
  <2> HIDE DEF r, n, d
  <2> QED BY <1>2, <2>1
<1>5. Head(s).bulk => Len(x) > 0 /\ Count(s, 1) = 1 /\ Head(s).from = x[1]
  <2> HAVE Head(s).bulk
  <2>1. Count(r, 0) = 0
    BY CountFacts
  <2>2. Count(s, 0 + 1) = Count(r, 0) + 1 /\ Count(r, n - 1) \in Nat
    <3>1. 0 \in 0 .. n - 1 /\ n - 1 \in 0 .. n - 1
      BY <1>1
    <3> HIDE DEF r, n
    <3> QED BY <1>2, <3>1
  <2> QED BY <1>1, <1>3, <1>4, <2>1, <2>2 DEF Follows
<1>6. /\ Len(y) = Len(x) - d
      /\ \A k \in 1 .. Len(x) - d : y[k] = x[k + d]
  <2>1. CASE Head(s).bulk
    <3>1. x # <<>>
      BY <1>5, <2>1
    <3> QED BY <2>1, <3>1
  <2>2. CASE ~Head(s).bulk
    BY <2>2
  <2> QED BY <2>1, <2>2
<1>7. d \in {0, 1} /\ Len(x) \in Nat
  OBVIOUS
<1>8. \A i \in 1 .. n - 1 : r[i].bulk => Count(r, i) \in 1 .. Len(x) - d
  <2> TAKE i \in 1 .. n - 1
  <2> HAVE r[i].bulk
  <2>1. i \in 0 .. n - 1 /\ i \in Nat \ {0} /\ n - 1 \in Nat
    BY <1>1
  <2> HIDE DEF r, n, d
  <2>2. Count(r, i) \in Nat /\ Count(r, i) <= Count(r, n - 1) /\ Count(r, i) > 0
        /\ Count(r, n - 1) \in Nat
    BY <2>1, CountFacts
  <2> QED BY <1>3, <1>4, <1>7, <2>2
<1>9. \A i \in 1 .. n - 1 : r[i].bulk => r[i].from = x[Count(s, i + 1)]
  <2> TAKE i \in 1 .. n - 1
  <2> HAVE r[i].bulk
  <2>1. r[i] = s[i + 1] /\ i + 1 \in DOMAIN s
    BY <1>1
  <2> HIDE DEF r, n
  <2> QED BY <2>1 DEF Follows
<1>10. \A i \in 1 .. n - 1 : r[i].bulk => r[i].from = y[Count(r, i)]
  <2> TAKE i \in 1 .. n - 1
  <2> HAVE r[i].bulk
  <2>1. i \in 0 .. n - 1
    BY <1>1
  <2> HIDE DEF r, n, d, y
  <2> QED BY <1>2, <1>6, <1>8, <1>9, <2>1
<1>11. Len(y) = Count(r, Len(r))
  <2>1. n - 1 \in 0 .. n - 1
    BY <1>1
  <2> HIDE DEF r, n, d, y
  <2> QED BY <1>1, <1>2, <1>3, <1>4, <1>6, <1>7, <2>1
<1>12. Follows(r, y)
  <2> HIDE DEF r, n, y
  <2> QED BY <1>1, <1>10, <1>11 DEF Follows
<1> QED BY <1>5, <1>12

\* The transfers on their way, when nobody or somebody has yet to queue one.
LEMMA TransfersFacts ==
  ASSUME Locks
  PROVE  /\ Transfers \in Seq(Callers)
         /\ (\A t \in Callers : bulk_lock = t => pc[t] # "bulk") => Transfers = bulk_tx
         /\ \A t \in Callers : bulk_lock = t /\ pc[t] = "bulk" => Transfers = Append(bulk_tx, t)
<1>1. bulk_tx \in Seq(Callers) /\ bulk_lock \in Callers \cup {NoCaller} /\ NoCaller \notin Callers
  BY VcClientAssumption DEF Locks
<1>2. CASE bulk_lock \in Callers /\ pc[bulk_lock] = "bulk"
  <2>1. Transfers = bulk_tx \o <<bulk_lock>>
    BY <1>1, <1>2 DEF Transfers, At
  <2> QED BY <1>1, <1>2, <2>1
<1>3. CASE ~(bulk_lock \in Callers /\ pc[bulk_lock] = "bulk")
  <2>1. Transfers = bulk_tx \o <<>>
    BY <1>1, <1>3 DEF Transfers, At
  <2> QED BY <1>1, <1>3, <2>1
<1> QED BY <1>2, <1>3

\* At the start there are no messages.
LEMMA BulkInit == Init => BulkInv
<1> SUFFICES ASSUME Init PROVE BulkInv
  OBVIOUS
<1>1. Locks
  BY VcClientAssumption DEF Init, Locks, Transferring, WithBulk
<1>2. Transfers = <<>> /\ to_vc = <<>> /\ Len(<<>>) = 0
  BY <1>1, TransfersFacts DEF Init
<1>3. Count(to_vc, 0) = 0
  BY CountFacts
<1> QED BY <1>1, <1>2, <1>3 DEF BulkInv, Follows

\* A step of threads that neither take nor give the lock, nor queue anything.
LEMMA BulkElsewhere ==
  ASSUME BulkInv, UNCHANGED <<bulk_lock, bulk_tx, to_vc>>,
         \A u \in Callers : /\ Transferring(u)' <=> Transferring(u)
                            /\ pc'[u] = "bulk" <=> pc[u] = "bulk"
                            /\ pc[u] = "bulk" => op'[u] = op[u]
  PROVE  BulkInv'
<1>1. Locks'
  BY DEF BulkInv, Locks, Transferring, WithBulk
<1>2. Transfers' = Transfers
  BY VcClientAssumption DEF BulkInv, Locks, Transfers, At
<1> QED BY <1>1, <1>2 DEF BulkInv, Follows

\* The steps of the threads that come and go, of calls and of buffers: the lock is taken
\* when nobody has it, and given back once the message and its transfer are queued.
LEMMA BulkThreads ==
  ASSUME Types, Waits, BulkInv, NEW t \in Callers, Starts(t) \/ GoesOn(t)
  PROVE  BulkInv'
<1> USE DEF At, Goto, WithBulk, wire
<1>1. DOMAIN pc = Callers /\ DOMAIN op = Callers /\ Locks /\ Follows(to_vc, Transfers)
  BY DEF Types, BulkInv
<1>2. ASSUME NEW k, NEW o, pc' = [pc EXCEPT ![t] = k], op' = [op EXCEPT ![t] = o],
             k # "bulk", pc[t] # "bulk",
             k \in {"waiter", "search", "claim", "queue"} /\ o \in WithBulk <=> Transferring(t),
             UNCHANGED <<bulk_lock, bulk_tx, to_vc>>
      PROVE  BulkInv'
  <2>1. \A u \in Callers \ {t} : pc'[u] = pc[u] /\ op'[u] = op[u]
    BY <1>1, <1>2
  <2>2. pc'[t] = k /\ op'[t] = o
    BY <1>1, <1>2
  <2> QED BY <1>2, <2>1, <2>2, BulkElsewhere DEF Transferring
<1>3. ASSUME pc[t] \notin {"waiter", "search", "claim", "queue", "bulk"},
             NEW k \in {"waiter", "queue"}, NEW o, pc' = [pc EXCEPT ![t] = k],
             op' = [op EXCEPT ![t] = o], o \in WithBulk => bulk_lock = NoCaller,
             bulk_lock' = IF o \in WithBulk THEN t ELSE bulk_lock,
             UNCHANGED <<bulk_tx, to_vc>>
      PROVE  BulkInv'
  <2>1. CASE o \in WithBulk
    <3>1. bulk_lock = NoCaller /\ bulk_lock' = t /\ NoCaller \notin Callers
      BY <1>3, <2>1, VcClientAssumption
    <3>2. \A u \in Callers : ~Transferring(u)
      BY <1>1, <3>1 DEF Locks
    <3>3. \A u \in Callers : Transferring(u)' <=> u = t
      BY <1>1, <1>3, <2>1, <3>2 DEF Transferring
    <3>4. \A u \in Callers : pc[u] # "bulk" /\ pc'[u] # "bulk"
      BY <1>1, <1>3, <3>2 DEF Locks, Transferring
    <3>5. Locks'
      BY <1>1, <1>3, <3>1, <3>3, <3>4 DEF Locks
    <3>6. Transfers = bulk_tx
      BY <1>1, <3>4, TransfersFacts
    <3>7. Transfers' = bulk_tx'
      BY <1>3, <3>1, <3>4 DEF Transfers, Locks, BulkInv
    <3> QED BY <1>1, <1>3, <3>5, <3>6, <3>7 DEF BulkInv
  <2>2. CASE o \notin WithBulk
    <3>1. ~Transferring(t) /\ ~Transferring(t)'
      BY <1>1, <1>3, <2>2 DEF Transferring
    <3>2. \A u \in Callers \ {t} : pc'[u] = pc[u] /\ op'[u] = op[u]
      BY <1>1, <1>3
    <3>3. pc'[t] # "bulk" /\ pc[t] # "bulk"
      BY <1>1, <1>3
    <3>4. \A u \in Callers : Transferring(u)' <=> Transferring(u)
      BY <3>1, <3>2 DEF Transferring
    <3> QED BY <1>3, <2>2, <3>2, <3>3, <3>4, BulkElsewhere
  <2> QED BY <2>1, <2>2
<1>4. CASE Starts(t)
  <2>1. CASE InitFirst(t) \/ InitFailed(t) \/ InitMore(t)
    <3>1. /\ UNCHANGED <<bulk_lock, bulk_tx, to_vc, op>>
          /\ \/ pc' = pc
             \/ /\ pc[t] = "out"
                /\ \E k \in {"opened", "inited"} : pc' = [pc EXCEPT ![t] = k]
      <4>1. CASE InitFirst(t)
        BY <4>1 DEF InitFirst
      <4>2. CASE InitFailed(t)
        BY <4>2 DEF InitFailed, threads
      <4>3. CASE InitMore(t)
        BY <4>3 DEF InitMore
      <4> QED BY <2>1, <4>1, <4>2, <4>3
    <3>2. \A u \in Callers : /\ Transferring(u)' <=> Transferring(u)
                             /\ pc'[u] = "bulk" <=> pc[u] = "bulk"
      BY <1>1, <3>1 DEF Transferring
    <3> QED BY <3>1, <3>2, BulkElsewhere
  <2>2. ASSUME NEW o \in Ops, Call(t, o) PROVE BulkInv'
    BY <1>3, <2>2 DEF Call
  <2>3. ASSUME NEW o \in Ops, NEW b \in Buffers, Send(t, o, b) PROVE BulkInv'
    BY <1>3, <2>3 DEF Send
  <2> QED BY <1>4, <2>1, <2>2, <2>3 DEF Starts
<1>5. CASE \/ Opened(t) \/ Create(t) \/ Release(t) \/ DeinitMore(t) \/ DeinitLast(t) \/ PostWaiter(t)
  <2>1. /\ UNCHANGED <<bulk_lock, bulk_tx, to_vc>>
        /\ pc[t] \in {"opened", "inited", "release", "deinit", "post"}
        /\ \/ \E k \in {"inited", "deinit", "out"} : pc' = [pc EXCEPT ![t] = k] /\ op' = op
           \/ pc' = [pc EXCEPT ![t] = "waiter"] /\ op' = [op EXCEPT ![t] = "create"]
           \/ \E k \in {"ready", "release"} : pc' = [pc EXCEPT ![t] = k] /\ op' = [op EXCEPT ![t] = "none"]
    <3>1. AfterCall(t) \subseteq {"ready", "release"}
      BY DEF AfterCall
    <3>2. CASE PostWaiter(t)
      BY <3>1, <3>2 DEF PostWaiter
    <3>3. CASE Create(t)
      BY <3>3 DEF Create
    <3>4. CASE Opened(t) \/ Release(t) \/ DeinitMore(t) \/ DeinitLast(t)
      BY <3>4 DEF Opened, Release, DeinitMore, DeinitLast
    <3> QED BY <1>5, <3>2, <3>3, <3>4
  <2>2. \A u \in Callers : /\ Transferring(u)' <=> Transferring(u)
                           /\ pc'[u] = "bulk" <=> pc[u] = "bulk"
                           /\ pc[u] = "bulk" => op'[u] = op[u]
    BY <1>1, <2>1 DEF Transferring, WithBulk
  <2> QED BY <2>1, <2>2, BulkElsewhere
<1>6. CASE \/ WaitForWaiter(t) \/ Search(t) \/ Claim(t) \/ WaitForReply(t) \/ Unclaim(t) \/ FreeWaiter(t)
  <2>1. /\ UNCHANGED <<bulk_lock, bulk_tx, to_vc, op>>
        /\ \/ /\ pc[t] \in {"waiter", "search", "claim"}
              /\ \E k \in {"search", "claim", "queue"} : pc' = [pc EXCEPT ![t] = k]
           \/ /\ pc[t] \in {"reply", "unclaim", "free"}
              /\ \E k \in {"unclaim", "free", "post"} : pc' = [pc EXCEPT ![t] = k]
    BY <1>6 DEF WaitForWaiter, Search, Claim, WaitForReply, Unclaim, FreeWaiter
  <2>2. \A u \in Callers : /\ Transferring(u)' <=> Transferring(u)
                           /\ pc'[u] = "bulk" <=> pc[u] = "bulk"
    BY <1>1, <2>1 DEF Transferring
  <2> QED BY <2>1, <2>2, BulkElsewhere
<1>7. CASE Queued(t)
  <2> DEFINE m == [from |-> t, waiter |-> waiter[t], buffer |-> carried[t],
                   bulk |-> op[t] \in WithBulk]
  <2>1. m \in Message /\ m.from = t /\ (m.bulk <=> op[t] \in WithBulk) /\ to_vc \in Seq(Message)
    <3>1. m \in Message
      BY DEF Message, Types
    <3>2. to_vc \in Seq(Message)
      BY DEF Types
    <3> QED BY <3>1, <3>2
  <2>2. /\ pc[t] = "queue" /\ to_vc' = Append(to_vc, m) /\ UNCHANGED <<bulk_lock, bulk_tx>>
        /\ \A u \in Callers \ {t} : pc'[u] = pc[u] /\ op'[u] = op[u]
    BY <1>1, <1>7 DEF Queued
  <2>3. op[t] \in WithBulk => pc'[t] = "bulk" /\ op'[t] = op[t]
    BY <1>1, <1>7 DEF Queued
  <2>4. op[t] \notin WithBulk => pc'[t] \in {"reply", "ready"}
    BY <1>1, <1>7 DEF Queued
  <2> HIDE DEF m
  <2>5. Locks'
    <3>1. \A u \in Callers : /\ Transferring(u)' <=> Transferring(u)
                             /\ pc'[u] = "bulk" => op'[u] \in WithBulk
      BY <1>1, <2>2, <2>3, <2>4 DEF Transferring, Locks
    <3> QED BY <1>1, <2>2, <3>1 DEF Locks
  <2>6. Transfers' = IF m.bulk THEN Append(Transfers, m.from) ELSE Transfers
    <3>1. CASE op[t] \in WithBulk
      <4>1. bulk_lock = t /\ bulk_lock' = t /\ pc'[t] = "bulk"
        BY <1>1, <2>2, <2>3, <3>1 DEF Locks, Transferring
      <4>2. Transfers = bulk_tx
        BY <1>1, <2>2, <4>1, TransfersFacts
      <4>3. Transfers' = Append(bulk_tx, t)
        <5>1. bulk_tx' = bulk_tx /\ bulk_tx \in Seq(Callers) /\ t # NoCaller
          BY <1>1, <2>2, VcClientAssumption DEF Locks
        <5> QED BY <4>1, <5>1 DEF Transfers
      <4> QED BY <2>1, <3>1, <4>2, <4>3
    <3>2. CASE op[t] \notin WithBulk
      <4>1. bulk_lock # t
        BY <1>1, <3>2 DEF Locks, Transferring
      <4>2. Transfers' = Transfers
        BY <1>1, <2>2, <4>1 DEF Locks, Transfers
      <4> QED BY <2>1, <3>2, <4>2
    <3> QED BY <3>1, <3>2
  <2>7. Follows(to_vc', IF m.bulk THEN Append(Transfers, m.from) ELSE Transfers)
    BY <1>1, <2>1, <2>2, TransfersFacts, FollowsAppend
  <2>8. Follows(to_vc', Transfers')
    BY <2>6, <2>7
  <2> QED BY <2>5, <2>8 DEF BulkInv, Follows
<1>8. CASE QueueFailed(t)
  <2>1. /\ pc[t] = "queue" /\ UNCHANGED <<bulk_tx, to_vc>>
        /\ bulk_lock' = IF op[t] \in WithBulk THEN NoCaller ELSE bulk_lock
        /\ \A u \in Callers \ {t} : pc'[u] = pc[u] /\ op'[u] = op[u]
        /\ pc'[t] \in {"unclaim", "ready"}
    BY <1>1, <1>8 DEF QueueFailed
  <2>2. /\ \A u \in Callers \ {t} : Transferring(u)' <=> Transferring(u)
        /\ ~Transferring(t)'
    BY <2>1 DEF Transferring
  <2>3. NoCaller \notin Callers
    BY VcClientAssumption
  <2>4. Transferring(t) <=> op[t] \in WithBulk
    BY <2>1 DEF Transferring
  <2>5. bulk_lock = t <=> op[t] \in WithBulk
    BY <1>1, <2>4 DEF Locks
  <2>6. Locks'
    BY <1>1, <2>1, <2>2, <2>3, <2>5 DEF Locks
  <2>7. Transfers' = Transfers
    <3>1. CASE op[t] \in WithBulk
      BY <2>1, <2>5, <3>1 DEF Transfers
    <3>2. CASE op[t] \notin WithBulk
      BY <1>1, <2>1, <2>5, <3>2 DEF Transfers, Locks
    <3> QED BY <3>1, <3>2
  <2> QED BY <1>1, <2>1, <2>6, <2>7 DEF BulkInv, Follows
<1>9. CASE Bulk(t)
  <2>1. /\ pc[t] = "bulk" /\ to_vc' = to_vc /\ bulk_tx' = Append(bulk_tx, t) /\ bulk_lock' = NoCaller
        /\ \A u \in Callers \ {t} : pc'[u] = pc[u] /\ op'[u] = op[u]
        /\ pc'[t] \in {"reply", "ready"}
    BY <1>1, <1>9 DEF Bulk
  <2>2. bulk_lock = t /\ NoCaller \notin Callers
    BY <1>1, <2>1, VcClientAssumption DEF Locks, Transferring
  <2>3. \A u \in Callers : ~Transferring(u)' /\ pc'[u] # "bulk"
    BY <1>1, <2>1, <2>2 DEF Transferring, Locks
  <2>4. Locks'
    BY <1>1, <2>1, <2>2, <2>3 DEF Locks
  <2>5. Transfers = Append(bulk_tx, t)
    BY <1>1, <2>1, <2>2, TransfersFacts
  <2>6. Transfers' = bulk_tx'
    BY <2>1, <2>4 DEF Transfers, Locks
  <2> QED BY <1>1, <2>1, <2>4, <2>5, <2>6 DEF BulkInv, Follows
<1> QED BY <1>4, <1>5, <1>6, <1>7, <1>8, <1>9 DEF GoesOn

\* Every step keeps the transfers in the order of the messages: VideoCore takes both first.
LEMMA BulkNext == Types /\ Waits /\ BulkInv /\ [Next]_vars => BulkInv'
<1> SUFFICES ASSUME Types, Waits, BulkInv, [Next]_vars PROVE BulkInv'
  OBVIOUS
<1>1. ASSUME UNCHANGED <<pc, op, bulk_lock, bulk_tx, to_vc>> PROVE BulkInv'
  BY <1>1, BulkElsewhere DEF Transferring
<1>2. CASE Receive
  <2> DEFINE m == Head(to_vc)
  <2>1. /\ to_vc # <<>> /\ to_vc' = Tail(to_vc) /\ UNCHANGED <<pc, op, bulk_lock>>
        /\ m.bulk => bulk_tx # <<>>
        /\ bulk_tx' = IF m.bulk THEN Tail(bulk_tx) ELSE bulk_tx
    BY <1>2 DEF Receive, threads
  <2>2. Locks /\ Follows(to_vc, Transfers) /\ to_vc \in Seq(Message) /\ bulk_tx \in Seq(Callers)
    BY DEF BulkInv, Types, Locks
  <2>3. Locks'
    <3>1. bulk_tx' \in Seq(Callers)
      BY <2>1, <2>2
    <3> QED BY <2>1, <2>2, <3>1 DEF Locks, Transferring
  <2>4. Transfers' = IF m.bulk THEN Tail(Transfers) ELSE Transfers
    <3>1. CASE m.bulk
      <4>1. bulk_tx # <<>> /\ bulk_tx' = Tail(bulk_tx)
        BY <2>1, <3>1
      <4>2. CASE bulk_lock # NoCaller /\ At(bulk_lock, "bulk")
        <5>1. bulk_lock \in Callers
          BY <2>2, <4>2 DEF Locks
        <5>2. Transfers = bulk_tx \o <<bulk_lock>> /\ Transfers' = bulk_tx' \o <<bulk_lock>>
          BY <2>1, <4>2 DEF Transfers, At
        <5> QED BY <2>2, <3>1, <4>1, <5>1, <5>2
      <4>3. CASE ~(bulk_lock # NoCaller /\ At(bulk_lock, "bulk"))
        <5>1. Transfers = bulk_tx \o <<>> /\ Transfers' = bulk_tx' \o <<>>
          BY <2>1, <4>3 DEF Transfers, At
        <5> QED BY <2>2, <3>1, <4>1, <5>1
      <4> QED BY <4>2, <4>3
    <3>2. CASE ~m.bulk
      BY <2>1, <3>2 DEF Transfers, At
    <3> QED BY <3>1, <3>2
  <2>5. Follows(to_vc', IF m.bulk THEN Tail(Transfers) ELSE Transfers)
    BY <2>1, <2>2, TransfersFacts, FollowsTail
  <2>6. Follows(to_vc', Transfers')
    BY <2>4, <2>5
  <2> QED BY <2>3, <2>6 DEF BulkInv, Follows
<1>3. CASE VideoCore /\ ~Receive
  BY <1>1, <1>3 DEF VideoCore, Answer, Return, threads
<1>4. CASE Vchiq
  BY <1>1, <1>4 DEF Vchiq, CopyReply, WakeWaiter, Buffer, BulkReceived, wire, threads
<1>5. CASE UNCHANGED vars
  BY <1>1, <1>5 DEF vars, wire, threads
<1> QED BY <1>2, <1>3, <1>4, <1>5, BulkThreads DEF Next

\* In every execution a transfer belongs to the message that VideoCore takes it for: the bulk
\* lock of mmal_vc_send_message() and of mmal_vc_sendwait_message() keeps the threads from
\* coming between the two calls of VCHIQ.
THEOREM TransfersCorrect == Spec => []BulkFollowsMessage
<1>1. Init => CallInv /\ UsersInv /\ BulkInv
  BY CallInit, UsersInit, BulkInit
<1>2. (CallInv /\ UsersInv /\ BulkInv) /\ [Next]_vars => (CallInv /\ UsersInv /\ BulkInv)'
  BY CallNext, UsersNext, BulkNext DEF CallInv
<1>3. BulkInv => BulkFollowsMessage
  BY DEF BulkInv, Follows, Count, BulkFollowsMessage, Before
<1> QED BY <1>1, <1>2, <1>3, PTL DEF Spec

-----------------------------------------------------------------------------
(* The claims: one for each component, and one for each call.              *)

\* A thread has claimed the service for its component, and for the call it makes.
Calling(t) == pc[t] \in {"reply", "unclaim"} \/ (pc[t] \in {"queue", "bulk"} /\ op[t] \in WithReply)

Claims     == {t \in Callers : Using(t)}
CallClaims == {t \in Callers : Calling(t)}

ClaimInv ==
  /\ usecount = Cardinality(Claims) + Cardinality(CallClaims)
  /\ claimed <=> usecount > 0

\* The sets of claims are finite.
LEMMA ClaimSets ==
  /\ IsFiniteSet(Claims) /\ Cardinality(Claims) \in Nat
  /\ IsFiniteSet(CallClaims) /\ Cardinality(CallClaims) \in Nat
<1>1. Claims \subseteq Callers /\ CallClaims \subseteq Callers /\ IsFiniteSet(Callers)
  BY VcClientAssumption DEF Claims, CallClaims
<1> QED BY <1>1, FS_Subset, FS_CardinalityType

\* A member more or less is one more or less.
LEMMA ClaimsMade ==
  ASSUME NEW t, NEW S, IsFiniteSet(S)
  PROVE  /\ Cardinality(S) \in Nat
         /\ t \notin S => Cardinality(S \cup {t}) = Cardinality(S) + 1
         /\ t \in S => Cardinality(S \ {t}) = Cardinality(S) - 1 /\ Cardinality(S) > 0
<1>1. Cardinality(S) \in Nat /\ (Cardinality(S) = 0 => S = {})
  BY FS_CardinalityType, FS_EmptySet
<1>2. t \notin S => Cardinality(S \cup {t}) = Cardinality(S) + 1
  BY FS_AddElement
<1>3. t \in S => Cardinality(S \ {t}) = Cardinality(S) - 1
  BY FS_RemoveElement
<1> QED BY <1>1, <1>2, <1>3

\* At the start nothing is claimed.
LEMMA ClaimInit == Init => ClaimInv
<1> SUFFICES ASSUME Init PROVE ClaimInv
  OBVIOUS
<1>1. Claims = {} /\ CallClaims = {}
  BY DEF Init, Claims, CallClaims, Using, Calling
<1> QED BY <1>1, FS_EmptySet DEF Init, ClaimInv

\* A step in which nobody claims the service or gives it back.
LEMMA ClaimElsewhere ==
  ASSUME ClaimInv, UNCHANGED <<usecount, claimed>>,
         \A u \in Callers : (Using(u)' <=> Using(u)) /\ (Calling(u)' <=> Calling(u))
  PROVE  ClaimInv'
<1>1. Claims' = Claims /\ CallClaims' = CallClaims
  BY DEF Claims, CallClaims
<1> QED BY <1>1 DEF ClaimInv

\* A claim more is counted, and VCHIQ's is made with the first one.
LEMMA ClaimMade ==
  ASSUME ClaimInv, NEW t \in Callers, Use(TRUE),
         \A u \in Callers \ {t} : (Using(u)' <=> Using(u)) /\ (Calling(u)' <=> Calling(u)),
         \/ ~Using(t) /\ Using(t)' /\ (Calling(t)' <=> Calling(t))
         \/ ~Calling(t) /\ Calling(t)' /\ (Using(t)' <=> Using(t))
  PROVE  ClaimInv'
<1>1. usecount' = usecount + 1 /\ (claimed' <=> claimed \/ usecount = 0)
  BY DEF Use
<1>2. CASE ~Using(t) /\ Using(t)' /\ (Calling(t)' <=> Calling(t))
  <2>1. Claims' = Claims \cup {t} /\ t \notin Claims /\ CallClaims' = CallClaims
    BY <1>2 DEF Claims, CallClaims
  <2> QED BY <1>1, <2>1, ClaimSets, ClaimsMade DEF ClaimInv
<1>3. CASE ~Calling(t) /\ Calling(t)' /\ (Using(t)' <=> Using(t))
  <2>1. CallClaims' = CallClaims \cup {t} /\ t \notin CallClaims /\ Claims' = Claims
    BY <1>3 DEF Claims, CallClaims
  <2> QED BY <1>1, <2>1, ClaimSets, ClaimsMade DEF ClaimInv
<1> QED BY <1>2, <1>3

\* A claim less is counted, and VCHIQ's is given back with the last one.
LEMMA ClaimGiven ==
  ASSUME ClaimInv, NEW t \in Callers, Unuse(TRUE),
         \A u \in Callers \ {t} : (Using(u)' <=> Using(u)) /\ (Calling(u)' <=> Calling(u)),
         \/ Using(t) /\ ~Using(t)' /\ (Calling(t)' <=> Calling(t))
         \/ Calling(t) /\ ~Calling(t)' /\ (Using(t)' <=> Using(t))
  PROVE  ClaimInv'
<1>1. usecount' = usecount - 1 /\ (claimed' <=> claimed /\ usecount # 1)
  BY DEF Unuse
<1>2. CASE Using(t) /\ ~Using(t)' /\ (Calling(t)' <=> Calling(t))
  <2>1. Claims' = Claims \ {t} /\ t \in Claims /\ CallClaims' = CallClaims
    BY <1>2 DEF Claims, CallClaims
  <2> QED BY <1>1, <2>1, ClaimSets, ClaimsMade DEF ClaimInv
<1>3. CASE Calling(t) /\ ~Calling(t)' /\ (Using(t)' <=> Using(t))
  <2>1. CallClaims' = CallClaims \ {t} /\ t \in CallClaims /\ Claims' = Claims
    BY <1>3 DEF Claims, CallClaims
  <2> QED BY <1>1, <2>1, ClaimSets, ClaimsMade DEF ClaimInv
<1> QED BY <1>2, <1>3

\* The first user claims the service until it is set up; one that fails leaves it unclaimed.
LEMMA ClaimFirst ==
  ASSUME Types, UsersInv, ClaimInv, NEW t \in Callers, InitFirst(t) \/ InitFailed(t)
  PROVE  ClaimInv'
<1>1. refcount = 0
  BY DEF InitFirst, InitFailed
<1>2. \A u \in Callers : pc[u] = "out"
  BY <1>1, NoUsers
<1>3. Claims = {} /\ CallClaims = {}
  BY <1>2 DEF Claims, CallClaims, Using, Calling
<1>4. usecount = 0
  BY <1>3, FS_EmptySet DEF ClaimInv
<1>5. CASE InitFirst(t)
  <2>1. pc' = [pc EXCEPT ![t] = "opened"] /\ usecount' = 1 /\ claimed'
    BY <1>5 DEF InitFirst, Goto
  <2>2. Claims' = Claims \cup {t} /\ t \notin Claims /\ CallClaims' = {}
    BY <1>2, <1>3, <2>1 DEF Claims, CallClaims, Using, Calling, Types
  <2> QED BY <1>3, <2>1, <2>2, ClaimSets, ClaimsMade, FS_EmptySet DEF ClaimInv
<1>6. CASE InitFailed(t)
  BY <1>4, <1>6, ClaimElsewhere DEF InitFailed, threads, Using, Calling
<1> QED BY <1>5, <1>6

\* The last user leaves a service that nobody claims any more.
LEMMA ClaimLast ==
  ASSUME Types, UsersInv, ClaimInv, NEW t \in Callers, DeinitLast(t)
  PROVE  ClaimInv'
<1>1. /\ pc[t] = "deinit" /\ pc' = [pc EXCEPT ![t] = "out"] /\ refcount = 1
      /\ UNCHANGED <<usecount, op>> /\ ~claimed'
  BY DEF DeinitLast, At, Goto
<1>2. IsFiniteSet(Users) /\ t \in Users /\ Cardinality(Users) = 1
  BY <1>1, FS_Subset, VcClientAssumption DEF Users, UsersInv
<1>3. Users \ {t} = {}
  <2>1. IsFiniteSet(Users \ {t}) /\ Cardinality(Users \ {t}) = 0
    BY <1>2, FS_RemoveElement
  <2> QED BY <2>1, FS_EmptySet
<1>4. \A u \in Callers \ {t} : pc[u] = "out"
  BY <1>3 DEF Users
<1>5. /\ Claims = {} /\ CallClaims = {} /\ Claims' = {} /\ CallClaims' = {}
  BY <1>1, <1>4 DEF Claims, CallClaims, Using, Calling, Types
<1> QED BY <1>1, <1>5, FS_EmptySet DEF ClaimInv

\* Every step keeps the count of the claims, if VCHIQ grants them.
LEMMA ClaimNext ==
  ASSUME "use" \notin MayFail, Types, Waits, UsersInv, ClaimInv, [Next]_vars
  PROVE  ClaimInv'
<1> USE DEF At, Goto
<1>1. ASSUME UNCHANGED <<usecount, claimed, pc, op>> PROVE ClaimInv'
  BY <1>1, ClaimElsewhere DEF Using, Calling
<1>2. ASSUME NEW t \in Callers, Starts(t) PROVE ClaimInv'
  <2>1. CASE InitFirst(t) \/ InitFailed(t)
    BY <2>1, ClaimFirst
  <2>2. CASE InitMore(t)
    BY <2>2, ClaimElsewhere DEF InitMore, Using, Calling, Types
  <2>3. ASSUME NEW o \in Ops, Call(t, o) PROVE ClaimInv'
    BY <2>3, ClaimElsewhere DEF Call, client, Using, Calling, Types
  <2>4. ASSUME NEW o \in Ops, NEW b \in Buffers, Send(t, o, b) PROVE ClaimInv'
    <3>1. o \notin WithReply
      BY <2>4 DEF Send, WithReply
    <3> QED BY <2>4, <3>1, ClaimElsewhere DEF Send, client, Using, Calling, Types
  <2> QED BY <1>2, <2>1, <2>2, <2>3, <2>4 DEF Starts
<1>3. ASSUME NEW t \in Callers, GoesOn(t) PROVE ClaimInv'
  <2>0. /\ \A ok \in BOOLEAN : Use(ok) => Use(TRUE)
        /\ \A ok \in BOOLEAN : Unuse(ok) => Unuse(TRUE)
    <3>1. \A ok \in BOOLEAN : Use(ok) => ok
      BY DEF Use
    <3>2. \A ok \in BOOLEAN : Unuse(ok) => ok
      BY DEF Unuse
    <3> QED BY <3>1, <3>2
  <2>1. CASE Opened(t)
    <3>1. Unuse(TRUE) /\ pc[t] = "opened" /\ pc' = [pc EXCEPT ![t] = "inited"] /\ op' = op
      BY <2>0, <2>1 DEF Opened
    <3> QED BY <3>1, ClaimGiven DEF Using, Calling, Types
  <2>2. CASE Create(t)
    <3>1. /\ Use(TRUE) /\ pc[t] = "inited" /\ pc' = [pc EXCEPT ![t] = "waiter"]
          /\ op' = [op EXCEPT ![t] = "create"]
      BY <2>0, <2>2 DEF Create
    <3> QED BY <3>1, ClaimMade DEF Using, Calling, Types
  <2>3. CASE Release(t)
    <3>1. Unuse(TRUE) /\ pc[t] = "release" /\ pc' = [pc EXCEPT ![t] = "deinit"] /\ op' = op
      BY <2>0, <2>3 DEF Release
    <3> QED BY <3>1, ClaimGiven DEF Using, Calling, Types
  <2>4. CASE DeinitMore(t)
    BY <2>4, ClaimElsewhere DEF DeinitMore, Using, Calling, Types
  <2>5. CASE DeinitLast(t)
    BY <2>5, ClaimLast
  <2>6. CASE WaitForWaiter(t)
    BY <2>6, ClaimElsewhere DEF WaitForWaiter, client, Using, Calling, Types
  <2>7. CASE Search(t)
    BY <2>7, ClaimElsewhere DEF Search, client, Using, Calling, Types
  <2>8. CASE Claim(t)
    <3>1. Use(TRUE) /\ pc[t] = "claim" /\ pc' = [pc EXCEPT ![t] = "queue"] /\ op' = op
      BY <2>0, <2>8 DEF Claim
    <3>2. op[t] \in WithReply
      BY <3>1 DEF Waits
    <3> QED BY <3>1, <3>2, ClaimMade DEF Using, Calling, Types
  <2>9. CASE Queued(t)
    BY <2>9, ClaimElsewhere DEF Queued, client, Using, Calling, Types
  <2>10. CASE QueueFailed(t)
    BY <2>10, ClaimElsewhere DEF QueueFailed, client, Using, Calling, Types
  <2>11. CASE Bulk(t)
    BY <2>11, ClaimElsewhere DEF Bulk, client, Using, Calling, Types
  <2>12. CASE WaitForReply(t)
    BY <2>12, ClaimElsewhere DEF WaitForReply, client, Using, Calling, Types
  <2>13. CASE Unclaim(t)
    <3>1. Unuse(TRUE) /\ pc[t] = "unclaim" /\ pc' = [pc EXCEPT ![t] = "free"] /\ op' = op
      BY <2>0, <2>13 DEF Unclaim
    <3> QED BY <3>1, ClaimGiven DEF Using, Calling, Types
  <2>14. CASE FreeWaiter(t)
    BY <2>14, ClaimElsewhere DEF FreeWaiter, client, Using, Calling, Types
  <2>15. CASE PostWaiter(t)
    <3>1. PICK l \in AfterCall(t) : pc' = [pc EXCEPT ![t] = l]
      BY <2>15 DEF PostWaiter
    <3>2. l \in {"ready", "release"}
      BY <3>1 DEF AfterCall
    <3>3. pc[t] = "post" /\ op' = [op EXCEPT ![t] = "none"] /\ UNCHANGED <<usecount, claimed>>
      BY <2>15 DEF PostWaiter, client
    <3> QED BY <3>1, <3>2, <3>3, ClaimElsewhere DEF Using, Calling, Types
  <2> QED BY <1>3, <2>1, <2>2, <2>3, <2>4, <2>5, <2>6, <2>7, <2>8, <2>9, <2>10, <2>11, <2>12,
             <2>13, <2>14, <2>15 DEF GoesOn
<1>4. ASSUME VideoCore \/ Vchiq PROVE ClaimInv'
  BY <1>1, <1>4 DEF VideoCore, Vchiq, Receive, Answer, Return, CopyReply, WakeWaiter, Buffer,
                    BulkReceived, client, threads
<1>5. CASE UNCHANGED vars
  BY <1>1, <1>5 DEF vars, client, threads
<1> QED BY <1>2, <1>3, <1>4, <1>5 DEF Next

\* The service is claimed exactly while somebody uses it.
LEMMA ClaimUsed == ClaimInv => ClaimedWhileUsed
<1> SUFFICES ASSUME ClaimInv PROVE ClaimedWhileUsed
  OBVIOUS
<1>1. \A t \in Callers : Calling(t) => Using(t)
  BY DEF Calling, Using
<1>2. CASE Claims = {}
  <2>1. CallClaims = {}
    BY <1>1, <1>2 DEF Claims, CallClaims
  <2> QED BY <1>2, <2>1, FS_EmptySet DEF ClaimInv, ClaimedWhileUsed, Claims
<1>3. CASE Claims # {}
  <2>1. PICK t : t \in Claims
    BY <1>3
  <2>2. Cardinality(Claims) > 0
    BY <2>1, ClaimSets, ClaimsMade
  <2> QED BY <2>1, <2>2, ClaimSets DEF ClaimInv, ClaimedWhileUsed, Claims
<1> QED BY <1>2, <1>3

\* A sequence without one of its elements.
LEMMA RemoveAtFacts ==
  ASSUME NEW S, NEW s \in Seq(S), NEW k \in DOMAIN s
  PROVE  /\ RemoveAt(s, k) \in Seq(S)
         /\ Len(RemoveAt(s, k)) = Len(s) - 1
         /\ \A i \in 1 .. k - 1 : RemoveAt(s, k)[i] = s[i]
         /\ \A i \in k .. Len(s) - 1 : RemoveAt(s, k)[i] = s[i + 1]
<1> DEFINE a == SubSeq(s, 1, k - 1)
           b == SubSeq(s, k + 1, Len(s))
<1>1. k \in 1 .. Len(s) /\ Len(s) \in Nat
  OBVIOUS
<1>2. a \in Seq(S) /\ Len(a) = k - 1 /\ \A i \in 1 .. k - 1 : a[i] = s[i]
  BY <1>1
<1>3. b \in Seq(S) /\ Len(b) = Len(s) - k /\ \A i \in 1 .. Len(s) - k : b[i] = s[k + i]
  BY <1>1
<1>4. RemoveAt(s, k) = a \o b
  BY DEF RemoveAt
<1> HIDE DEF a, b
<1>5. /\ a \o b \in Seq(S) /\ Len(a \o b) = Len(a) + Len(b)
      /\ \A i \in 1 .. Len(a) + Len(b) :
           (a \o b)[i] = IF i <= Len(a) THEN a[i] ELSE b[i - Len(a)]
  BY <1>2, <1>3, ConcatProperties
<1>6. \A i \in k .. Len(s) - 1 : (a \o b)[i] = s[i + 1]
  <2> TAKE i \in k .. Len(s) - 1
  <2> DEFINE j == i - (k - 1)
  <2>1. j \in 1 .. Len(s) - k /\ k + j = i + 1 /\ j = i - Len(a)
    BY <1>1, <1>2
  <2>2. ~(i <= Len(a)) /\ i \in 1 .. Len(a) + Len(b)
    BY <1>1, <1>2, <1>3
  <2> HIDE DEF j
  <2>3. b[j] = s[k + j] /\ (a \o b)[i] = b[j]
    BY <1>3, <1>5, <2>1, <2>2
  <2> QED BY <2>1, <2>3
<1>7. Len(a \o b) = Len(s) - 1
  BY <1>1, <1>2, <1>3, <1>5
<1>8. \A i \in 1 .. k - 1 : (a \o b)[i] = s[i]
  <2> TAKE i \in 1 .. k - 1
  <2>1. i <= Len(a) /\ i \in 1 .. Len(a) + Len(b)
    BY <1>1, <1>2, <1>3
  <2> QED BY <1>2, <1>5, <2>1
<1> QED BY <1>4, <1>5, <1>6, <1>7, <1>8

-----------------------------------------------------------------------------
(* The buffers that come back, in the order in which VideoCore sent them.  *)

\* The buffers on their way back, in the order in which the VCHIQ thread comes to them: those
\* whose data is received, and then those whose message has not been taken.
LineOf(rx, msgs) ==
  [k \in 1 .. Len(rx) + Len(msgs) |->
     IF k <= Len(rx) THEN [buffer |-> rx[k], sync |-> TRUE]
     ELSE [buffer |-> msgs[k - Len(rx)].buffer, sync |-> Synchronised(msgs[k - Len(rx)].kind)]]

Line == LineOf(bulk_rx, from_vc)

\* A line and the list of what was returned: a buffer is once in each, and those with data or
\* the end of the stream are in the same order in both.
Paired(line, ret) ==
  /\ \A i, j \in DOMAIN line :
       line[i].buffer = line[j].buffer /\ line[i].buffer # NoBuffer => i = j
  /\ \A i, j \in DOMAIN ret : ret[i].buffer = ret[j].buffer => i = j
  /\ \A i \in DOMAIN ret :
       /\ ret[i].buffer # NoBuffer
       /\ \E k \in DOMAIN line : /\ line[k].buffer = ret[i].buffer
                                 /\ line[k].sync <=> Synchronised(ret[i].kind)
  /\ \A i, j \in DOMAIN ret : \A k, l \in DOMAIN line :
       /\ i < j /\ line[k].sync /\ line[l].sync
       /\ line[k].buffer = ret[i].buffer /\ line[l].buffer = ret[j].buffer
       => k < l

\* A sequence of n elements with one more, and without its k-th one.
Extended(s, r, n, e) ==
  /\ n \in Nat /\ DOMAIN s = 1 .. n /\ DOMAIN r = 1 .. n + 1
  /\ r[n + 1] = e /\ \A i \in 1 .. n : r[i] = s[i]

Shortened(s, r, n, k) ==
  /\ n \in Nat /\ k \in 1 .. n /\ DOMAIN s = 1 .. n /\ DOMAIN r = 1 .. n - 1
  /\ \A i \in 1 .. n - 1 : r[i] = s[IF i < k THEN i ELSE i + 1]

\* A sequence is part of another one, in the same order: f says where its elements are.
Within(r, s, f) ==
  /\ \A i \in DOMAIN r : f[i] \in DOMAIN s /\ r[i] = s[f[i]]
  /\ \A i, j \in DOMAIN r : (f[i] = f[j] => i = j) /\ (i < j => f[i] < f[j])

\* A reply at the end of the line is in nobody's way.
LEMMA PairedReply ==
  ASSUME NEW line, NEW ret, NEW n, NEW after, NEW e,
         Paired(line, ret), Extended(line, after, n, e), e.buffer = NoBuffer
  PROVE  Paired(after, ret)
<1>0. /\ n \in Nat /\ DOMAIN line = 1 .. n /\ DOMAIN after = 1 .. n + 1
      /\ after[n + 1].buffer = NoBuffer /\ \A i \in 1 .. n : after[i] = line[i]
  BY DEF Extended
<1>1. \A i \in DOMAIN after : after[i].buffer # NoBuffer => i \in 1 .. n /\ after[i] = line[i]
  BY <1>0
<1>2. \A i, j \in DOMAIN after :
        after[i].buffer = after[j].buffer /\ after[i].buffer # NoBuffer => i = j
  BY <1>0, <1>1 DEF Paired
<1>3. \A i \in DOMAIN ret :
        /\ ret[i].buffer # NoBuffer
        /\ \E k \in DOMAIN after : /\ after[k].buffer = ret[i].buffer
                                   /\ after[k].sync <=> Synchronised(ret[i].kind)
  <2> TAKE i \in DOMAIN ret
  <2>1. PICK k \in DOMAIN line : /\ line[k].buffer = ret[i].buffer
                                 /\ line[k].sync <=> Synchronised(ret[i].kind)
    BY DEF Paired
  <2>2. k \in DOMAIN after /\ after[k] = line[k]
    BY <1>0
  <2> QED BY <2>1, <2>2 DEF Paired
<1>4. \A i, j \in DOMAIN ret : \A k, l \in DOMAIN after :
        /\ i < j /\ after[k].sync /\ after[l].sync
        /\ after[k].buffer = ret[i].buffer /\ after[l].buffer = ret[j].buffer
        => k < l
  <2> TAKE i, j \in DOMAIN ret
  <2> TAKE k, l \in DOMAIN after
  <2> HAVE /\ i < j /\ after[k].sync /\ after[l].sync
           /\ after[k].buffer = ret[i].buffer /\ after[l].buffer = ret[j].buffer
  <2>1. ret[i].buffer # NoBuffer /\ ret[j].buffer # NoBuffer
    BY DEF Paired
  <2>2. k \in DOMAIN line /\ l \in DOMAIN line /\ after[k] = line[k] /\ after[l] = line[l]
    BY <1>0, <1>1, <2>1
  <2> QED BY <2>2 DEF Paired
<1>5. \A i, j \in DOMAIN ret : ret[i].buffer = ret[j].buffer => i = j
  BY DEF Paired
<1> QED BY <1>2, <1>3, <1>4, <1>5 DEF Paired

\* Nor is there anything behind a buffer that joins the line when it is returned.
LEMMA PairedReturn ==
  ASSUME NEW line, NEW ret, NEW n, NEW m, NEW after, NEW ret2, NEW e, NEW q,
         Paired(line, ret), Extended(line, after, n, e), Extended(ret, ret2, m, q),
         e.buffer = q.buffer, e.buffer # NoBuffer, e.sync <=> Synchronised(q.kind),
         \A i \in 1 .. n : line[i].buffer # e.buffer
  PROVE  Paired(after, ret2)
<1> DEFINE b == e.buffer
<1>0. /\ n \in Nat /\ DOMAIN line = 1 .. n /\ DOMAIN after = 1 .. n + 1
      /\ \A i \in 1 .. n : after[i] = line[i] /\ line[i].buffer # b
      /\ m \in Nat /\ DOMAIN ret = 1 .. m /\ DOMAIN ret2 = 1 .. m + 1
      /\ \A i \in 1 .. m : ret2[i] = ret[i]
      /\ after[n + 1].buffer = b /\ ret2[m + 1].buffer = b /\ b # NoBuffer
      /\ after[n + 1].sync <=> Synchronised(ret2[m + 1].kind)
  BY DEF Extended
<1> HIDE DEF b
<1>1. \A i \in DOMAIN after : \/ i = n + 1 /\ after[i].buffer = b
                              \/ i \in 1 .. n /\ after[i] = line[i] /\ after[i].buffer # b
  BY <1>0
<1>2. \A i \in 1 .. m : ret[i].buffer # b
  BY <1>0 DEF Paired
<1>3. \A i \in DOMAIN ret2 : \/ i = m + 1 /\ ret2[i].buffer = b
                             \/ i \in 1 .. m /\ ret2[i] = ret[i] /\ ret2[i].buffer # b
  BY <1>0, <1>2
<1>4. \A i, j \in DOMAIN after :
        after[i].buffer = after[j].buffer /\ after[i].buffer # NoBuffer => i = j
  BY <1>0, <1>1 DEF Paired
<1>5. \A i, j \in DOMAIN ret2 : ret2[i].buffer = ret2[j].buffer => i = j
  BY <1>0, <1>3 DEF Paired
<1>6. \A i \in DOMAIN ret2 :
        /\ ret2[i].buffer # NoBuffer
        /\ \E k \in DOMAIN after : /\ after[k].buffer = ret2[i].buffer
                                   /\ after[k].sync <=> Synchronised(ret2[i].kind)
  <2> TAKE i \in DOMAIN ret2
  <2>1. CASE i = m + 1
    <3>1. n + 1 \in DOMAIN after
      BY <1>0
    <3> QED BY <1>0, <2>1, <3>1
  <2>2. CASE i \in 1 .. m
    <3>1. PICK k \in DOMAIN line : /\ line[k].buffer = ret[i].buffer
                                   /\ line[k].sync <=> Synchronised(ret[i].kind)
      BY <1>0, <2>2 DEF Paired
    <3>2. k \in DOMAIN after /\ after[k] = line[k] /\ ret2[i] = ret[i]
      BY <1>0, <2>2
    <3> QED BY <1>0, <2>2, <3>1, <3>2 DEF Paired
  <2> QED BY <1>0, <1>3, <2>1, <2>2
<1>7. \A i, j \in DOMAIN ret2 : \A k, l \in DOMAIN after :
        /\ i < j /\ after[k].sync /\ after[l].sync
        /\ after[k].buffer = ret2[i].buffer /\ after[l].buffer = ret2[j].buffer
        => k < l
  <2> TAKE i, j \in DOMAIN ret2
  <2> TAKE k, l \in DOMAIN after
  <2> HAVE /\ i < j /\ after[k].sync /\ after[l].sync
           /\ after[k].buffer = ret2[i].buffer /\ after[l].buffer = ret2[j].buffer
  <2>1. i \in 1 .. m /\ ret2[i] = ret[i] /\ k \in 1 .. n /\ after[k] = line[k]
    BY <1>0, <1>1, <1>3
  <2>2. CASE j = m + 1
    BY <1>0, <1>1, <1>3, <2>1, <2>2
  <2>3. CASE j \in 1 .. m
    <3>1. ret2[j] = ret[j] /\ l \in 1 .. n /\ after[l] = line[l]
      BY <1>0, <1>1, <1>3, <2>3
    <3> QED BY <1>0, <2>1, <2>3, <3>1 DEF Paired
  <2> QED BY <1>0, <1>3, <2>2, <2>3
<1> QED BY <1>0, <1>4, <1>5, <1>6, <1>7 DEF Paired

\* Without one of its elements, and without the entry for it if it is a buffer, the line is
\* still in order.
LEMMA PairedWithin ==
  ASSUME NEW line, NEW ret, NEW n, NEW k, NEW after, NEW ret2, NEW f,
         Paired(line, ret), Shortened(line, after, n, k), Within(ret2, ret, f),
         \A i \in DOMAIN ret2 : ret2[i].buffer # line[k].buffer
  PROVE  Paired(after, ret2)
<1> DEFINE up(i) == IF i < k THEN i ELSE i + 1
<1>0. n \in Nat /\ k \in 1 .. n /\ DOMAIN line = 1 .. n /\ DOMAIN after = 1 .. n - 1
  BY DEF Shortened
<1>1. /\ \A i \in DOMAIN after : up(i) \in DOMAIN line /\ up(i) # k /\ after[i] = line[up(i)]
      /\ \A i, j \in DOMAIN after : (up(i) = up(j) => i = j) /\ (up(i) < up(j) => i < j)
  BY <1>0 DEF Shortened
<1>2. /\ \A i \in DOMAIN ret2 : f[i] \in DOMAIN ret /\ ret2[i] = ret[f[i]]
      /\ \A i, j \in DOMAIN ret2 : (f[i] = f[j] => i = j) /\ (i < j => f[i] < f[j])
  BY DEF Within
<1>3. \A j \in DOMAIN line : j # k => \E i \in DOMAIN after : up(i) = j
  <2> TAKE j \in DOMAIN line
  <2> HAVE j # k
  <2>1. CASE j < k
    <3>1. j \in DOMAIN after /\ up(j) = j
      BY <1>0, <2>1
    <3> QED BY <3>1
  <2>2. CASE j > k
    <3>1. j - 1 \in DOMAIN after /\ up(j - 1) = j
      BY <1>0, <2>2
    <3> QED BY <3>1
  <2> QED BY <1>0, <2>1, <2>2
<1> HIDE DEF up
<1>4. \A i \in DOMAIN ret2 : ret[f[i]].buffer # line[k].buffer
  BY <1>2
<1>5. \A i, j \in DOMAIN after :
        after[i].buffer = after[j].buffer /\ after[i].buffer # NoBuffer => i = j
  BY <1>1 DEF Paired
<1>6. \A i, j \in DOMAIN ret2 : ret2[i].buffer = ret2[j].buffer => i = j
  BY <1>2 DEF Paired
<1>7. \A i \in DOMAIN ret2 :
        /\ ret2[i].buffer # NoBuffer
        /\ \E l \in DOMAIN after : /\ after[l].buffer = ret2[i].buffer
                                   /\ after[l].sync <=> Synchronised(ret2[i].kind)
  <2> TAKE i \in DOMAIN ret2
  <2>1. f[i] \in DOMAIN ret /\ ret2[i] = ret[f[i]]
    BY <1>2
  <2>2. PICK j \in DOMAIN line : /\ line[j].buffer = ret[f[i]].buffer
                                 /\ line[j].sync <=> Synchronised(ret[f[i]].kind)
    BY <2>1 DEF Paired
  <2>3. j # k
    BY <1>4, <2>2
  <2>4. PICK l \in DOMAIN after : up(l) = j
    BY <1>3, <2>3
  <2>5. after[l] = line[j]
    BY <1>1, <2>4
  <2> QED BY <2>1, <2>2, <2>5 DEF Paired
<1>8. \A i, j \in DOMAIN ret2 : \A a, l \in DOMAIN after :
        /\ i < j /\ after[a].sync /\ after[l].sync
        /\ after[a].buffer = ret2[i].buffer /\ after[l].buffer = ret2[j].buffer
        => a < l
  <2> TAKE i, j \in DOMAIN ret2
  <2> TAKE a, l \in DOMAIN after
  <2> HAVE /\ i < j /\ after[a].sync /\ after[l].sync
           /\ after[a].buffer = ret2[i].buffer /\ after[l].buffer = ret2[j].buffer
  <2>1. f[i] < f[j] /\ f[i] \in DOMAIN ret /\ f[j] \in DOMAIN ret
        /\ ret2[i] = ret[f[i]] /\ ret2[j] = ret[f[j]]
    BY <1>2
  <2>2. up(a) \in DOMAIN line /\ up(l) \in DOMAIN line
        /\ after[a] = line[up(a)] /\ after[l] = line[up(l)]
    BY <1>1
  <2>3. up(a) < up(l)
    BY <2>1, <2>2 DEF Paired
  <2> QED BY <1>1, <2>3
<1> QED BY <1>5, <1>6, <1>7, <1>8 DEF Paired

\* A reply that leaves the line leaves the buffers as they were.
LEMMA PairedTaken ==
  ASSUME NEW line, NEW ret, NEW n, NEW k, NEW after,
         Paired(line, ret), Shortened(line, after, n, k), line[k].buffer = NoBuffer
  PROVE  Paired(after, ret)
<1> DEFINE f == [i \in DOMAIN ret |-> i]
<1>1. Within(ret, ret, f)
  BY DEF Within
<1>2. \A i \in DOMAIN ret : ret[i].buffer # line[k].buffer
  BY DEF Paired
<1> HIDE DEF f
<1> QED BY <1>1, <1>2, PairedWithin

\* So does a buffer that leaves both the line and the list of what was returned.
LEMMA PairedBack ==
  ASSUME NEW line, NEW ret, NEW n, NEW k, NEW after, NEW m, NEW h, NEW ret2,
         Paired(line, ret), Shortened(line, after, n, k), Shortened(ret, ret2, m, h),
         ret[h].buffer = line[k].buffer
  PROVE  Paired(after, ret2)
<1> DEFINE f == [i \in DOMAIN ret2 |-> IF i < h THEN i ELSE i + 1]
<1>1. /\ m \in Nat /\ h \in 1 .. m /\ DOMAIN ret = 1 .. m /\ DOMAIN ret2 = 1 .. m - 1
      /\ \A i \in 1 .. m - 1 : ret2[i] = ret[IF i < h THEN i ELSE i + 1]
  BY DEF Shortened
<1>2. /\ \A i \in DOMAIN ret2 : f[i] \in DOMAIN ret /\ f[i] # h /\ ret2[i] = ret[f[i]]
      /\ \A i, j \in DOMAIN ret2 : (f[i] = f[j] => i = j) /\ (i < j => f[i] < f[j])
  BY <1>1
<1> HIDE DEF f
<1>3. Within(ret2, ret, f)
  BY <1>2 DEF Within
<1>4. \A i \in DOMAIN ret2 : ret2[i].buffer # line[k].buffer
  BY <1>1, <1>2 DEF Paired
<1> QED BY <1>3, <1>4, PairedWithin

\* Where a buffer is: with a thread that sends it, on its way, at VideoCore, or coming back.
Carrying(t, b) == pc[t] = "queue" /\ carried[t] = b
Going(b)       == \E i \in DOMAIN to_vc : to_vc[i].buffer = b
Coming(b)      == \E k \in DOMAIN Line : Line[k].buffer = b

\* A buffer is in one place, and its port has it; where it is nowhere, its port has not.
Apart ==
  \A b \in Buffers :
    /\ \A t, u \in Callers : Carrying(t, b) /\ Carrying(u, b) => t = u
    /\ \A t \in Callers : Carrying(t, b) => /\ ~Going(b) /\ b \notin at_vc /\ ~Coming(b)
                                            /\ owner[b] # NoCaller
    /\ Going(b) => b \notin at_vc /\ ~Coming(b) /\ owner[b] # NoCaller
    /\ b \in at_vc => ~Coming(b) /\ owner[b] # NoCaller
    /\ Coming(b) => owner[b] # NoCaller

SentOnce ==
  \A i, j \in DOMAIN to_vc :
    to_vc[i].buffer = to_vc[j].buffer /\ to_vc[i].buffer # NoBuffer => i = j

DataTypes ==
  /\ usecount \in Int /\ inited \in BOOLEAN /\ claimed \in BOOLEAN
  /\ bulk_rx \in Seq(Buffers) /\ returning \in Seq([buffer : Buffers, kind : Kinds])
  /\ owner \in [Buffers -> Callers \cup {NoCaller}]

BufferInv == DataTypes /\ Apart /\ SentOnce /\ Paired(Line, returning)

\* What the line is made of.
LEMMA LineFacts ==
  ASSUME NEW rx \in Seq(Buffers), NEW msgs \in Seq(Returned \cup Reply)
  PROVE  /\ Len(rx) \in Nat /\ Len(msgs) \in Nat
         /\ DOMAIN LineOf(rx, msgs) = 1 .. Len(rx) + Len(msgs)
         /\ \A k \in 1 .. Len(rx) : LineOf(rx, msgs)[k] = [buffer |-> rx[k], sync |-> TRUE]
         /\ \A k \in 1 .. Len(msgs) :
              LineOf(rx, msgs)[Len(rx) + k] = [buffer |-> msgs[k].buffer,
                                               sync |-> Synchronised(msgs[k].kind)]
<1> DEFINE line == LineOf(rx, msgs)
<1>1. /\ Len(rx) \in Nat /\ Len(msgs) \in Nat
  OBVIOUS
<1>2. DOMAIN line = 1 .. Len(rx) + Len(msgs)
  BY DEF LineOf
<1>3. \A k \in 1 .. Len(rx) : line[k] = [buffer |-> rx[k], sync |-> TRUE]
  BY <1>1 DEF LineOf
<1>4. \A k \in 1 .. Len(msgs) :
        line[Len(rx) + k] = [buffer |-> msgs[k].buffer, sync |-> Synchronised(msgs[k].kind)]
  <2> TAKE k \in 1 .. Len(msgs)
  <2> DEFINE j == Len(rx) + k
  <2>1. j \in 1 .. Len(rx) + Len(msgs) /\ ~(j <= Len(rx)) /\ j - Len(rx) = k
    BY <1>1
  <2> HIDE DEF j
  <2>2. line[j] = [buffer |-> msgs[j - Len(rx)].buffer, sync |-> Synchronised(msgs[j - Len(rx)].kind)]
    BY <2>1 DEF LineOf
  <2>3. line[j] = [buffer |-> msgs[k].buffer, sync |-> Synchronised(msgs[k].kind)]
    BY <2>1, <2>2
  <2> QED BY <2>3 DEF j
<1> QED BY <1>1, <1>2, <1>3, <1>4

\* A message that VideoCore sends is at the end of the line.
LEMMA LineLonger ==
  ASSUME NEW rx \in Seq(Buffers), NEW msgs \in Seq(Returned \cup Reply),
         NEW m \in Returned \cup Reply
  PROVE  Extended(LineOf(rx, msgs), LineOf(rx, Append(msgs, m)), Len(rx) + Len(msgs),
                  [buffer |-> m.buffer, sync |-> Synchronised(m.kind)])
<1> DEFINE n == Len(rx) + Len(msgs)
           more == Append(msgs, m)
           old == LineOf(rx, msgs)
           new == LineOf(rx, more)
<1>1. /\ more \in Seq(Returned \cup Reply) /\ Len(more) = Len(msgs) + 1
      /\ more[Len(msgs) + 1] = m /\ \A k \in 1 .. Len(msgs) : more[k] = msgs[k]
      /\ Len(msgs) \in Nat /\ Len(rx) \in Nat
  OBVIOUS
<1> HIDE DEF more
<1>2. /\ DOMAIN old = 1 .. Len(rx) + Len(msgs)
      /\ \A k \in 1 .. Len(rx) : old[k] = [buffer |-> rx[k], sync |-> TRUE]
      /\ \A k \in 1 .. Len(msgs) : old[Len(rx) + k] = [buffer |-> msgs[k].buffer,
                                                       sync |-> Synchronised(msgs[k].kind)]
  BY LineFacts
<1>3. /\ DOMAIN new = 1 .. Len(rx) + Len(more)
      /\ \A k \in 1 .. Len(rx) : new[k] = [buffer |-> rx[k], sync |-> TRUE]
      /\ \A k \in 1 .. Len(more) : new[Len(rx) + k] = [buffer |-> more[k].buffer,
                                                       sync |-> Synchronised(more[k].kind)]
  BY <1>1, LineFacts
<1> HIDE DEF old, new
<1>4. \A k \in 1 .. n : new[k] = old[k]
  <2> TAKE k \in 1 .. n
  <2>1. CASE k \in 1 .. Len(rx)
    BY <1>2, <1>3, <2>1
  <2>2. CASE k > Len(rx)
    <3> DEFINE j == k - Len(rx)
    <3>1. j \in 1 .. Len(msgs) /\ j \in 1 .. Len(more) /\ Len(rx) + j = k
      BY <1>1, <2>2
    <3> HIDE DEF j
    <3>2. new[Len(rx) + j] = old[Len(rx) + j]
      BY <1>1, <1>2, <1>3, <3>1
    <3> QED BY <3>1, <3>2
  <2> QED BY <1>1, <2>1, <2>2
<1>5. new[n + 1] = [buffer |-> m.buffer, sync |-> Synchronised(m.kind)]
  <2>1. Len(msgs) + 1 \in 1 .. Len(more) /\ Len(rx) + (Len(msgs) + 1) = n + 1
    BY <1>1
  <2>2. new[Len(rx) + (Len(msgs) + 1)] = [buffer |-> more[Len(msgs) + 1].buffer,
                                          sync |-> Synchronised(more[Len(msgs) + 1].kind)]
    BY <1>3, <2>1
  <2> QED BY <1>1, <2>1, <2>2
<1>6. n \in Nat /\ DOMAIN old = 1 .. n /\ DOMAIN new = 1 .. n + 1
  BY <1>1, <1>2, <1>3
<1>7. Extended(old, new, n, [buffer |-> m.buffer, sync |-> Synchronised(m.kind)])
  <2> HIDE DEF n
  <2> QED BY <1>4, <1>5, <1>6 DEF Extended
<1> QED BY <1>7 DEF old, new, more

\* The message that the VCHIQ thread takes is the first one behind those being received.
LEMMA LineTaken ==
  ASSUME NEW rx \in Seq(Buffers), NEW msgs \in Seq(Returned \cup Reply), msgs # <<>>
  PROVE  /\ Shortened(LineOf(rx, msgs), LineOf(rx, Tail(msgs)), Len(rx) + Len(msgs), Len(rx) + 1)
         /\ LineOf(rx, msgs)[Len(rx) + 1] = [buffer |-> Head(msgs).buffer,
                                             sync |-> Synchronised(Head(msgs).kind)]
<1> DEFINE n == Len(rx) + Len(msgs)
           k == Len(rx) + 1
           less == Tail(msgs)
           old == LineOf(rx, msgs)
           new == LineOf(rx, less)
<1>1. /\ less \in Seq(Returned \cup Reply) /\ Len(less) = Len(msgs) - 1
      /\ Head(msgs) = msgs[1] /\ \A i \in 1 .. Len(msgs) - 1 : less[i] = msgs[i + 1]
      /\ Len(msgs) \in Nat \ {0} /\ Len(rx) \in Nat
  OBVIOUS
<1> HIDE DEF less
<1>2. /\ DOMAIN old = 1 .. Len(rx) + Len(msgs)
      /\ \A i \in 1 .. Len(rx) : old[i] = [buffer |-> rx[i], sync |-> TRUE]
      /\ \A i \in 1 .. Len(msgs) : old[Len(rx) + i] = [buffer |-> msgs[i].buffer,
                                                       sync |-> Synchronised(msgs[i].kind)]
  BY LineFacts
<1>3. /\ DOMAIN new = 1 .. Len(rx) + Len(less)
      /\ \A i \in 1 .. Len(rx) : new[i] = [buffer |-> rx[i], sync |-> TRUE]
      /\ \A i \in 1 .. Len(less) : new[Len(rx) + i] = [buffer |-> less[i].buffer,
                                                       sync |-> Synchronised(less[i].kind)]
  BY <1>1, LineFacts
<1> HIDE DEF old, new
<1>4. \A i \in 1 .. n - 1 : new[i] = old[IF i < k THEN i ELSE i + 1]
  <2> TAKE i \in 1 .. n - 1
  <2>1. CASE i < k
    <3>1. i \in 1 .. Len(rx)
      BY <1>1, <2>1
    <3> QED BY <1>2, <1>3, <2>1, <3>1
  <2>2. CASE ~(i < k)
    <3> DEFINE j == i - Len(rx)
    <3>1. j + 1 \in 1 .. Len(msgs) /\ j \in 1 .. Len(less) /\ Len(rx) + j = i
          /\ Len(rx) + (j + 1) = i + 1 /\ j \in 1 .. Len(msgs) - 1
      BY <1>1, <2>2
    <3> HIDE DEF j
    <3>2. new[Len(rx) + j] = old[Len(rx) + (j + 1)]
      <4>1. new[Len(rx) + j] = [buffer |-> less[j].buffer, sync |-> Synchronised(less[j].kind)]
        BY <1>3, <3>1
      <4>2. old[Len(rx) + (j + 1)] = [buffer |-> msgs[j + 1].buffer,
                                      sync |-> Synchronised(msgs[j + 1].kind)]
        BY <1>2, <3>1
      <4>3. less[j] = msgs[j + 1]
        BY <1>1, <3>1
      <4> QED BY <4>1, <4>2, <4>3
    <3> QED BY <2>2, <3>1, <3>2
  <2> QED BY <2>1, <2>2
<1>5. old[k] = [buffer |-> Head(msgs).buffer, sync |-> Synchronised(Head(msgs).kind)]
  BY <1>1, <1>2
<1>6. n \in Nat /\ k \in 1 .. n /\ DOMAIN old = 1 .. n /\ DOMAIN new = 1 .. n - 1
  BY <1>1, <1>2, <1>3
<1>7. Shortened(old, new, n, k)
  <2> HIDE DEF n, k
  <2> QED BY <1>4, <1>6 DEF Shortened
<1> QED BY <1>5, <1>7 DEF old, new, less

\* A buffer whose data is to be received keeps its place.
LEMMA LineMoved ==
  ASSUME NEW rx \in Seq(Buffers), NEW msgs \in Seq(Returned \cup Reply), msgs # <<>>,
         Head(msgs).buffer \in Buffers, Synchronised(Head(msgs).kind)
  PROVE  LineOf(Append(rx, Head(msgs).buffer), Tail(msgs)) = LineOf(rx, msgs)
<1> DEFINE less == Tail(msgs)
           more == Append(rx, Head(msgs).buffer)
           old == LineOf(rx, msgs)
           new == LineOf(more, less)
<1>1. /\ less \in Seq(Returned \cup Reply) /\ Len(less) = Len(msgs) - 1
      /\ Head(msgs) = msgs[1] /\ \A i \in 1 .. Len(msgs) - 1 : less[i] = msgs[i + 1]
      /\ Len(msgs) \in Nat \ {0} /\ Len(rx) \in Nat
  OBVIOUS
<1>2. /\ more \in Seq(Buffers) /\ Len(more) = Len(rx) + 1 /\ more[Len(rx) + 1] = msgs[1].buffer
      /\ \A i \in 1 .. Len(rx) : more[i] = rx[i]
  BY <1>1
<1> HIDE DEF less, more
<1>3. /\ DOMAIN old = 1 .. Len(rx) + Len(msgs)
      /\ \A i \in 1 .. Len(rx) : old[i] = [buffer |-> rx[i], sync |-> TRUE]
      /\ \A i \in 1 .. Len(msgs) : old[Len(rx) + i] = [buffer |-> msgs[i].buffer,
                                                       sync |-> Synchronised(msgs[i].kind)]
  BY LineFacts
<1>4. /\ DOMAIN new = 1 .. Len(more) + Len(less)
      /\ \A i \in 1 .. Len(more) : new[i] = [buffer |-> more[i], sync |-> TRUE]
      /\ \A i \in 1 .. Len(less) : new[Len(more) + i] = [buffer |-> less[i].buffer,
                                                         sync |-> Synchronised(less[i].kind)]
  BY <1>1, <1>2, LineFacts
<1>5. Synchronised(msgs[1].kind) = TRUE
  BY <1>1 DEF Synchronised
<1>6. DOMAIN new = DOMAIN old
  BY <1>1, <1>2, <1>3, <1>4
<1>7. \A i \in DOMAIN old : new[i] = old[i]
  <2> HIDE DEF old, new
  <2> TAKE i \in DOMAIN old
  <2>1. CASE i \in 1 .. Len(rx)
    <3>1. i \in 1 .. Len(more) /\ more[i] = rx[i]
      BY <1>1, <1>2, <2>1
    <3>2. new[i] = [buffer |-> more[i], sync |-> TRUE]
      BY <1>4, <3>1
    <3>3. old[i] = [buffer |-> rx[i], sync |-> TRUE]
      BY <1>3, <2>1
    <3> QED BY <3>1, <3>2, <3>3
  <2>2. CASE i = Len(rx) + 1
    <3>1. i \in 1 .. Len(more) /\ 1 \in 1 .. Len(msgs)
      BY <1>1, <1>2, <2>2
    <3> QED BY <1>2, <1>3, <1>4, <1>5, <2>2, <3>1
  <2>3. CASE i > Len(rx) + 1
    <3> DEFINE j == i - (Len(rx) + 1)
    <3>0. /\ i \in 1 .. Len(rx) + Len(msgs) /\ Len(less) = Len(msgs) - 1
          /\ Len(more) = Len(rx) + 1 /\ Len(msgs) \in Nat /\ Len(rx) \in Nat
      BY <1>1, <1>2, <1>3
    <3>1. j \in Int /\ j >= 1 /\ j <= Len(msgs) - 1 /\ Len(rx) + (j + 1) = i /\ Len(msgs) \in Nat
      <4> DEFINE r == Len(rx)
                 l == Len(msgs)
      <4>1. r \in Int /\ l \in Int /\ i \in Int /\ i <= r + l /\ i > r + 1 /\ j = i - (r + 1)
        BY <2>3, <3>0
      <4> HIDE DEF r, l, j
      <4>2. j \in Int /\ j >= 1 /\ j <= l - 1 /\ r + (j + 1) = i
        BY <4>1
      <4> QED BY <4>1, <4>2 DEF r, l
    <3> HIDE DEF j
    <3>3. /\ j + 1 \in 1 .. Len(msgs) /\ j \in 1 .. Len(less) /\ j \in 1 .. Len(msgs) - 1
          /\ Len(more) + j = i
      BY <1>1, <3>0, <3>1
    <3>2. new[Len(more) + j] = old[Len(rx) + (j + 1)]
      <4>1. new[Len(more) + j] = [buffer |-> less[j].buffer, sync |-> Synchronised(less[j].kind)]
        BY <1>4, <3>3
      <4>2. old[Len(rx) + (j + 1)] = [buffer |-> msgs[j + 1].buffer,
                                      sync |-> Synchronised(msgs[j + 1].kind)]
        BY <1>3, <3>3
      <4>3. less[j] = msgs[j + 1]
        BY <1>1, <3>3
      <4> QED BY <4>1, <4>2, <4>3
    <3> QED BY <3>1, <3>2, <3>3
  <2> QED BY <1>1, <1>3, <2>1, <2>2, <2>3
<1>8. new = old
  <2>1. /\ old = [i \in DOMAIN old |-> old[i]] /\ new = [i \in DOMAIN new |-> new[i]]
    BY DEF LineOf
  <2> HIDE DEF old, new
  <2> QED BY <1>6, <1>7, <2>1
<1> QED BY <1>8 DEF less, more

\* A buffer whose data is there is the first one of the line.
LEMMA LineReceived ==
  ASSUME NEW rx \in Seq(Buffers), NEW msgs \in Seq(Returned \cup Reply), rx # <<>>
  PROVE  /\ Shortened(LineOf(rx, msgs), LineOf(Tail(rx), msgs), Len(rx) + Len(msgs), 1)
         /\ LineOf(rx, msgs)[1] = [buffer |-> Head(rx), sync |-> TRUE]
<1> DEFINE n == Len(rx) + Len(msgs)
           less == Tail(rx)
           old == LineOf(rx, msgs)
           new == LineOf(less, msgs)
<1>1. /\ less \in Seq(Buffers) /\ Len(less) = Len(rx) - 1
      /\ Head(rx) = rx[1] /\ \A i \in 1 .. Len(rx) - 1 : less[i] = rx[i + 1]
      /\ Len(rx) \in Nat \ {0} /\ Len(msgs) \in Nat
  OBVIOUS
<1> HIDE DEF less
<1>2. /\ DOMAIN old = 1 .. Len(rx) + Len(msgs)
      /\ \A i \in 1 .. Len(rx) : old[i] = [buffer |-> rx[i], sync |-> TRUE]
      /\ \A i \in 1 .. Len(msgs) : old[Len(rx) + i] = [buffer |-> msgs[i].buffer,
                                                       sync |-> Synchronised(msgs[i].kind)]
  BY LineFacts
<1>3. /\ DOMAIN new = 1 .. Len(less) + Len(msgs)
      /\ \A i \in 1 .. Len(less) : new[i] = [buffer |-> less[i], sync |-> TRUE]
      /\ \A i \in 1 .. Len(msgs) : new[Len(less) + i] = [buffer |-> msgs[i].buffer,
                                                         sync |-> Synchronised(msgs[i].kind)]
  BY <1>1, LineFacts
<1> HIDE DEF old, new
<1>4. \A i \in 1 .. n - 1 : new[i] = old[IF i < 1 THEN i ELSE i + 1]
  <2> TAKE i \in 1 .. n - 1
  <2>0. (IF i < 1 THEN i ELSE i + 1) = i + 1
    OBVIOUS
  <2>1. CASE i \in 1 .. Len(less)
    <3>1. i + 1 \in 1 .. Len(rx) /\ less[i] = rx[i + 1]
      BY <1>1, <2>1
    <3>2. new[i] = [buffer |-> less[i], sync |-> TRUE]
      BY <1>3, <2>1
    <3>3. old[i + 1] = [buffer |-> rx[i + 1], sync |-> TRUE]
      BY <1>2, <3>1
    <3> QED BY <2>0, <3>1, <3>2, <3>3
  <2>2. CASE i > Len(less)
    <3> DEFINE j == i - Len(less)
    <3>1. j \in 1 .. Len(msgs) /\ Len(less) + j = i /\ Len(rx) + j = i + 1
      BY <1>1, <2>2
    <3> HIDE DEF j
    <3>2. new[Len(less) + j] = old[Len(rx) + j]
      BY <1>2, <1>3, <3>1
    <3> QED BY <2>0, <3>1, <3>2
  <2> QED BY <1>1, <2>1, <2>2
<1>5. old[1] = [buffer |-> Head(rx), sync |-> TRUE]
  BY <1>1, <1>2
<1>6. n \in Nat /\ 1 \in 1 .. n /\ DOMAIN old = 1 .. n /\ DOMAIN new = 1 .. n - 1
  BY <1>1, <1>2, <1>3
<1>7. Shortened(old, new, n, 1)
  <2> HIDE DEF n
  <2> QED BY <1>4, <1>6 DEF Shortened
<1> QED BY <1>5, <1>7 DEF old, new, less

\* At the start no buffer is anywhere.
LEMMA BufferInit == Init => BufferInv
<1> SUFFICES ASSUME Init PROVE BufferInv
  OBVIOUS
<1>1. DataTypes /\ Types
  <2>1. Types
    BY CallInit DEF CallInv
  <2>2. DataTypes
    <3>1. usecount \in Int /\ inited \in BOOLEAN /\ claimed \in BOOLEAN
      <4>1. usecount = 0 /\ inited = FALSE /\ claimed = FALSE
        BY DEF Init
      <4>2. usecount \in Int
        BY <4>1
      <4>3. inited \in BOOLEAN /\ claimed \in BOOLEAN
        BY <4>1
      <4> QED BY <4>2, <4>3
    <3>2. bulk_rx \in Seq(Buffers) /\ returning \in Seq([buffer : Buffers, kind : Kinds])
      BY EmptySeq DEF Init
    <3>3. owner \in [Buffers -> Callers \cup {NoCaller}]
      BY DEF Init
    <3> QED BY <3>1, <3>2, <3>3 DEF DataTypes
  <2> QED BY <2>1, <2>2
<1>2. DOMAIN Line = {} /\ DOMAIN to_vc = {} /\ DOMAIN returning = {}
  BY DEF Init, Line, LineOf
<1>3. Paired(Line, returning) /\ SentOnce
  BY <1>2 DEF Paired, SentOnce
<1>4. Apart
  BY <1>2 DEF Init, Apart, Carrying, Going, Coming
<1> QED BY <1>1, <1>3, <1>4 DEF BufferInv

\* A step of the threads that sends no buffer.
LEMMA BufferElsewhere ==
  ASSUME BufferInv, UNCHANGED <<to_vc, at_vc, from_vc, bulk_rx, returning, owner>>,
         usecount' \in Int, inited' \in BOOLEAN, claimed' \in BOOLEAN,
         \A t \in Callers, b \in Buffers : Carrying(t, b)' => Carrying(t, b)
  PROVE  BufferInv'
<1>1. Line' = Line
  BY DEF Line
<1>2. Apart'
  <2>1. \A b \in Buffers : (Going(b)' <=> Going(b)) /\ (Coming(b)' <=> Coming(b))
    BY <1>1 DEF Going, Coming
  <2> QED BY <2>1 DEF BufferInv, Apart
<1>3. DataTypes' /\ SentOnce'
  BY DEF BufferInv, DataTypes, SentOnce
<1> QED BY <1>1, <1>2, <1>3 DEF BufferInv

\* The steps of the threads.
LEMMA BufferThreads ==
  ASSUME Types, Waits, BufferInv, NEW t \in Callers, Starts(t) \/ GoesOn(t)
  PROVE  BufferInv'
<1> USE DEF At, Goto, wire
<1>1. DOMAIN pc = Callers /\ DOMAIN carried = Callers /\ DataTypes /\ Apart /\ SentOnce
      /\ NoBuffer \notin Buffers
  BY VcClientAssumption DEF Types, BufferInv
<1>2. ASSUME NEW k, k # "queue", pc' = [pc EXCEPT ![t] = k], carried' = carried,
             UNCHANGED <<to_vc, at_vc, from_vc, bulk_rx, returning, owner>>,
             usecount' \in Int, inited' \in BOOLEAN, claimed' \in BOOLEAN
      PROVE  BufferInv'
  BY <1>1, <1>2, BufferElsewhere DEF Carrying
<1>3. /\ \A ok \in BOOLEAN : Use(ok) => usecount' \in Int /\ inited' \in BOOLEAN /\ claimed' \in BOOLEAN
      /\ \A ok \in BOOLEAN : Unuse(ok) => usecount' \in Int /\ inited' \in BOOLEAN /\ claimed' \in BOOLEAN
  <2>1. ASSUME NEW ok \in BOOLEAN, Use(ok)
        PROVE  usecount' \in Int /\ inited' \in BOOLEAN /\ claimed' \in BOOLEAN
    <3>1. usecount' \in Int /\ inited' = inited
      BY <1>1, <2>1 DEF Use, DataTypes
    <3>2. claimed' \in BOOLEAN
      BY <2>1, Zenon DEF Use
    <3> QED BY <1>1, <3>1, <3>2 DEF DataTypes
  <2>2. ASSUME NEW ok \in BOOLEAN, Unuse(ok)
        PROVE  usecount' \in Int /\ inited' \in BOOLEAN /\ claimed' \in BOOLEAN
    <3>1. usecount' \in Int /\ inited' = inited
      BY <1>1, <2>2 DEF Unuse, DataTypes
    <3>2. claimed' \in BOOLEAN
      BY <2>2, Zenon DEF Unuse
    <3> QED BY <1>1, <3>1, <3>2 DEF DataTypes
  <2> QED BY <2>1, <2>2
<1>4. ASSUME client' = client
      PROVE  usecount' \in Int /\ inited' \in BOOLEAN /\ claimed' \in BOOLEAN
  BY <1>1, <1>4 DEF client, DataTypes
<1>5. CASE InitFirst(t) \/ InitMore(t) \/ DeinitMore(t) \/ DeinitLast(t)
  <2>1. CASE InitFirst(t)
    <3>1. usecount' \in Int /\ inited' \in BOOLEAN /\ claimed' \in BOOLEAN
      BY <2>1 DEF InitFirst
    <3>2. /\ pc' = [pc EXCEPT ![t] = "opened"] /\ carried' = carried
          /\ UNCHANGED <<to_vc, at_vc, from_vc, bulk_rx, returning, owner>>
      BY <2>1 DEF InitFirst
    <3> QED BY <1>2, <3>1, <3>2
  <2>2. CASE InitMore(t)
    BY <1>1, <1>2, <2>2 DEF InitMore, DataTypes
  <2>3. CASE DeinitMore(t)
    BY <1>1, <1>2, <2>3 DEF DeinitMore, DataTypes
  <2>4. CASE DeinitLast(t)
    BY <1>1, <1>2, <2>4 DEF DeinitLast, DataTypes
  <2> QED BY <1>5, <2>1, <2>2, <2>3, <2>4
<1>6. CASE InitFailed(t)
  BY <1>1, <1>6, BufferElsewhere DEF InitFailed, threads, DataTypes, Carrying
<1>7. CASE Opened(t) \/ Release(t) \/ Unclaim(t)
  BY <1>2, <1>3, <1>7 DEF Opened, Release, Unclaim
<1>8. CASE Create(t)
  BY <1>2, <1>3, <1>8 DEF Create
<1>9. CASE Claim(t)
  <2>1. /\ pc[t] = "claim" /\ pc' = [pc EXCEPT ![t] = "queue"] /\ carried' = carried
        /\ UNCHANGED <<to_vc, at_vc, from_vc, bulk_rx, returning, owner>>
    BY <1>9 DEF Claim
  <2>2. carried[t] = NoBuffer
    BY <2>1 DEF Waits
  <2> QED BY <1>1, <1>3, <1>9, <2>1, <2>2, BufferElsewhere DEF Claim, Carrying
<1>10. CASE \/ \E o \in Ops : Call(t, o)
            \/ WaitForWaiter(t) \/ Search(t) \/ WaitForReply(t) \/ FreeWaiter(t)
  <2>1. ASSUME NEW o \in Ops, Call(t, o) PROVE BufferInv'
    BY <1>2, <1>4, <2>1 DEF Call
  <2>2. CASE WaitForWaiter(t) \/ Search(t) \/ WaitForReply(t) \/ FreeWaiter(t)
    BY <1>2, <1>4, <2>2 DEF WaitForWaiter, Search, WaitForReply, FreeWaiter
  <2> QED BY <1>10, <2>1, <2>2
<1>11. CASE PostWaiter(t)
  <2>1. PICK l \in AfterCall(t) : pc' = [pc EXCEPT ![t] = l]
    BY <1>11 DEF PostWaiter
  <2>2. l # "queue"
    BY <2>1 DEF AfterCall
  <2> QED BY <1>2, <1>4, <1>11, <2>1, <2>2 DEF PostWaiter
<1>12. CASE Bulk(t)
  <2>1. \A b \in Buffers : ~Carrying(t, b)'
    BY <1>1, <1>12 DEF Bulk, Carrying
  <2>2. \A u \in Callers \ {t}, b \in Buffers : Carrying(u, b)' => Carrying(u, b)
    BY <1>1, <1>12 DEF Bulk, Carrying
  <2> QED BY <1>4, <1>12, <2>1, <2>2, BufferElsewhere DEF Bulk
<1>13. ASSUME NEW o \in Ops, NEW b \in Buffers, Send(t, o, b)
       PROVE  BufferInv'
  <2>1. /\ owner[b] = NoCaller /\ owner' = [owner EXCEPT ![b] = t] /\ t # NoCaller
        /\ UNCHANGED <<to_vc, at_vc, from_vc, bulk_rx, returning, usecount, inited, claimed>>
        /\ \A u \in Callers, c \in Buffers :
             Carrying(u, c)' => Carrying(u, c) \/ (u = t /\ c = b)
    BY <1>1, <1>13, VcClientAssumption DEF Send, client, Carrying
  <2>2. Line' = Line
    BY <2>1 DEF Line
  <2>3. DataTypes' /\ SentOnce'
    BY <1>1, <2>1 DEF DataTypes, SentOnce
  <2>4. \A c \in Buffers : (Going(c)' <=> Going(c)) /\ (Coming(c)' <=> Coming(c))
    BY <2>1, <2>2 DEF Going, Coming
  <2>5. /\ ~Going(b) /\ b \notin at_vc /\ ~Coming(b)
        /\ \A u \in Callers : ~Carrying(u, b)
    BY <1>1, <2>1 DEF Apart
  <2>6. \A c \in Buffers : owner[c] # NoCaller => owner'[c] # NoCaller
    BY <1>1, <2>1 DEF DataTypes
  <2>7. owner'[b] # NoCaller
    BY <1>1, <2>1 DEF DataTypes
  <2>8. Apart'
    BY <1>1, <2>1, <2>4, <2>5, <2>6, <2>7 DEF Apart
  <2> QED BY <2>1, <2>2, <2>3, <2>8 DEF BufferInv
<1>14. CASE QueueFailed(t)
  <2>1. /\ UNCHANGED <<to_vc, at_vc, from_vc, bulk_rx, returning, usecount, inited, claimed>>
        /\ pc[t] = "queue" /\ \A u \in Callers, c \in Buffers : Carrying(u, c)' => u # t /\ Carrying(u, c)
    BY <1>1, <1>14 DEF QueueFailed, client, Carrying
  <2>2. owner' = owner \/ owner' = [owner EXCEPT ![carried[t]] = NoCaller]
    BY <1>14 DEF QueueFailed
  <2>3. Line' = Line
    BY <2>1 DEF Line
  <2>4. DataTypes' /\ SentOnce'
    BY <1>1, <2>1, <2>2 DEF DataTypes, SentOnce
  <2>5. \A c \in Buffers : (Going(c)' <=> Going(c)) /\ (Coming(c)' <=> Coming(c))
    BY <2>1, <2>3 DEF Going, Coming
  <2>6. \A c \in Buffers : c # carried[t] => owner'[c] = owner[c]
    BY <1>1, <2>2 DEF DataTypes
  <2>7. ASSUME NEW c \in Buffers, c = carried[t]
        PROVE  /\ ~Going(c) /\ c \notin at_vc /\ ~Coming(c)
               /\ \A u \in Callers : ~Carrying(u, c)'
    <3>1. Carrying(t, c)
      BY <2>1, <2>7 DEF Carrying
    <3> QED BY <1>1, <2>1, <3>1 DEF Apart
  <2>8. Apart'
    BY <1>1, <2>1, <2>5, <2>6, <2>7 DEF Apart
  <2> QED BY <2>1, <2>3, <2>4, <2>8 DEF BufferInv
<1>15. CASE Queued(t)
  <2> DEFINE m == [from |-> t, waiter |-> waiter[t], buffer |-> carried[t],
                   bulk |-> op[t] \in WithBulk]
  <2>1. /\ UNCHANGED <<at_vc, from_vc, bulk_rx, returning, usecount, inited, claimed, owner>>
        /\ pc[t] = "queue" /\ to_vc' = Append(to_vc, m)
        /\ \A u \in Callers, c \in Buffers : Carrying(u, c)' => u # t /\ Carrying(u, c)
    BY <1>1, <1>15 DEF Queued, client, Carrying
  <2>2. m \in Message /\ m.buffer = carried[t]
    BY DEF Message, Types
  <2> HIDE DEF m
  <2>3. /\ DOMAIN to_vc' = DOMAIN to_vc \cup {Len(to_vc) + 1} /\ Len(to_vc) + 1 \notin DOMAIN to_vc
        /\ to_vc'[Len(to_vc) + 1] = m /\ \A i \in DOMAIN to_vc : to_vc'[i] = to_vc[i]
    BY <2>1, <2>2 DEF Types
  <2>4. Line' = Line
    BY <2>1 DEF Line
  <2>5. \A c \in Buffers : Going(c)' <=> Going(c) \/ c = carried[t]
    BY <2>2, <2>3 DEF Going
  <2>6. \A c \in Buffers : Coming(c)' <=> Coming(c)
    BY <2>4 DEF Coming
  <2>7. ASSUME NEW c \in Buffers, c = carried[t]
        PROVE  /\ ~Going(c) /\ c \notin at_vc /\ ~Coming(c) /\ owner[c] # NoCaller
               /\ \A u \in Callers : ~Carrying(u, c)'
    <3>1. Carrying(t, c)
      BY <2>1, <2>7 DEF Carrying
    <3> QED BY <1>1, <2>1, <3>1 DEF Apart
  <2>8. Apart'
    BY <1>1, <2>1, <2>5, <2>6, <2>7 DEF Apart
  <2>9. SentOnce'
    <3>1. carried[t] # NoBuffer => \A i \in DOMAIN to_vc : to_vc[i].buffer # carried[t]
      BY <2>7 DEF Going, Types
    <3> QED BY <1>1, <2>2, <2>3, <3>1 DEF SentOnce
  <2>10. DataTypes'
    BY <1>1, <2>1 DEF DataTypes
  <2> QED BY <2>1, <2>4, <2>8, <2>9, <2>10 DEF BufferInv
<1> QED BY <1>5, <1>6, <1>7, <1>8, <1>9, <1>10, <1>11, <1>12, <1>13, <1>14, <1>15
        DEF Starts, GoesOn

\* VideoCore takes a message: its buffer, if it has one, is at VideoCore.
LEMMA BufferReceive ==
  ASSUME Types, BufferInv, Receive
  PROVE  BufferInv'
<1> DEFINE m == Head(to_vc)
<1>1. /\ to_vc # <<>> /\ to_vc' = Tail(to_vc)
      /\ UNCHANGED <<pc, carried, from_vc, bulk_rx, returning, usecount, inited, claimed, owner>>
      /\ at_vc' = IF m.buffer = NoBuffer THEN at_vc ELSE at_vc \cup {m.buffer}
  BY DEF Receive, threads, client
<1>2. /\ 1 \in DOMAIN to_vc /\ m = to_vc[1]
      /\ \A i \in DOMAIN to_vc' : i + 1 \in DOMAIN to_vc /\ to_vc'[i] = to_vc[i + 1] /\ i + 1 # 1
      /\ \A i, j \in DOMAIN to_vc' : i + 1 = j + 1 => i = j
  <2>1. to_vc \in Seq(Message)
    BY DEF Types
  <2> QED BY <1>1, <2>1
<1>3. Line' = Line
  BY <1>1 DEF Line
<1>4. SentOnce' /\ DataTypes' /\ Paired(Line, returning)'
  <2>1. SentOnce'
    BY <1>2 DEF BufferInv, SentOnce
  <2>2. DataTypes'
    BY <1>1 DEF BufferInv, DataTypes
  <2> QED BY <1>1, <1>3, <2>1, <2>2 DEF BufferInv
<1>5. \A c \in Buffers : /\ Going(c)' => Going(c) /\ c # m.buffer
                         /\ c = m.buffer => Going(c)
                         /\ Coming(c)' <=> Coming(c)
                         /\ \A u \in Callers : Carrying(u, c)' <=> Carrying(u, c)
  <2> TAKE c \in Buffers
  <2>1. c # NoBuffer
    BY VcClientAssumption
  <2>2. Going(c)' => Going(c) /\ c # m.buffer
    BY <1>2, <2>1 DEF Going, BufferInv, SentOnce
  <2>3. c = m.buffer => Going(c)
    BY <1>2 DEF Going
  <2> QED BY <1>1, <1>3, <2>2, <2>3 DEF Coming, Carrying
<1> HIDE DEF m
<1>6. \A c \in Buffers : c \in at_vc' <=> c \in at_vc \/ c = m.buffer
  BY <1>1, VcClientAssumption
<1>7. Apart'
  BY <1>1, <1>5, <1>6 DEF BufferInv, Apart
<1> QED BY <1>4, <1>7 DEF BufferInv

\* VideoCore answers a call at the end of the line.
LEMMA BufferAnswer ==
  ASSUME Types, BufferInv, NEW m \in serving, Answer(m), Wire
  PROVE  BufferInv'
<1> DEFINE r == [waiter |-> m.waiter, from |-> m.from, buffer |-> NoBuffer, kind |-> "direct"]
           n == Len(bulk_rx) + Len(from_vc)
<1>1. /\ from_vc' = Append(from_vc, r) /\ r.buffer = NoBuffer
      /\ UNCHANGED <<pc, carried, to_vc, at_vc, bulk_rx, returning, usecount, inited, claimed, owner>>
  BY DEF Answer, threads, client
<1>2. r \in Returned \cup Reply
  BY DEF Wire, Named, Reply
<1> HIDE DEF r
<1> DEFINE e == [buffer |-> r.buffer, sync |-> Synchronised(r.kind)]
<1>3. Extended(Line, Line', n, e) /\ e.buffer = NoBuffer
  <2>1. bulk_rx \in Seq(Buffers) /\ from_vc \in Seq(Returned \cup Reply)
    BY DEF BufferInv, DataTypes, Types
  <2>2. Line = LineOf(bulk_rx, from_vc) /\ Line' = LineOf(bulk_rx, Append(from_vc, r))
    BY <1>1 DEF Line
  <2> QED BY <1>1, <1>2, <2>1, <2>2, LineLonger
<1> HIDE DEF n, e
<1>4. DataTypes' /\ SentOnce'
  BY <1>1 DEF BufferInv, DataTypes, SentOnce
<1>5. Paired(Line', returning')
  <2>1. Paired(Line, returning)
    BY DEF BufferInv
  <2> QED BY <1>1, <1>3, <2>1, PairedReply
<1>6. \A c \in Buffers : (Going(c)' <=> Going(c)) /\ (Coming(c)' <=> Coming(c))
  <2> TAKE c \in Buffers
  <2>1. c # NoBuffer
    BY VcClientAssumption
  <2>2. \A k \in DOMAIN Line' : Line'[k].buffer = c => k \in 1 .. n
    BY <1>3, <2>1 DEF Extended
  <2>3. \A k \in DOMAIN Line : k \in DOMAIN Line' /\ Line'[k] = Line[k]
    BY <1>3 DEF Extended
  <2> QED BY <1>1, <1>3, <2>2, <2>3 DEF Going, Coming, Extended
<1>7. Apart'
  BY <1>1, <1>6 DEF BufferInv, Apart, Carrying
<1> QED BY <1>4, <1>5, <1>7 DEF BufferInv, Paired

\* VideoCore returns a buffer at the end of the line.
LEMMA BufferReturn ==
  ASSUME Types, BufferInv, NEW b \in at_vc, NEW kind \in Kinds, Return(b, kind)
  PROVE  BufferInv'
<1> DEFINE r == [waiter |-> NoWaiter, from |-> NoCaller, buffer |-> b, kind |-> kind]
           q == [buffer |-> b, kind |-> kind]
           n == Len(bulk_rx) + Len(from_vc)
           k == Len(returning)
<1>1. /\ from_vc' = Append(from_vc, r) /\ r.buffer = b /\ r.kind = kind
      /\ returning' = Append(returning, q) /\ q.buffer = b /\ q.kind = kind
      /\ at_vc' = at_vc \ {b}
      /\ UNCHANGED <<pc, carried, to_vc, bulk_rx, usecount, inited, claimed, owner>>
  BY DEF Return, threads, client
<1>2. r \in Returned \cup Reply /\ b \in Buffers /\ b # NoBuffer /\ q \in [buffer : Buffers, kind : Kinds]
  BY VcClientAssumption DEF Types, Returned
<1> HIDE DEF r, q
<1> DEFINE e == [buffer |-> r.buffer, sync |-> Synchronised(r.kind)]
<1>3. Extended(Line, Line', n, e) /\ e.buffer = b /\ e.sync = Synchronised(kind)
  <2>1. bulk_rx \in Seq(Buffers) /\ from_vc \in Seq(Returned \cup Reply)
    BY DEF BufferInv, DataTypes, Types
  <2>2. Line = LineOf(bulk_rx, from_vc) /\ Line' = LineOf(bulk_rx, Append(from_vc, r))
    BY <1>1 DEF Line
  <2>3. Extended(Line, Line', n, e)
    BY <1>2, <2>1, <2>2, LineLonger
  <2> QED BY <1>1, <2>3
<1>4. /\ Extended(returning, returning', k, q)
      /\ returning' \in Seq([buffer : Buffers, kind : Kinds])
  BY <1>1, <1>2 DEF BufferInv, DataTypes, Extended
<1> HIDE DEF n, k, e
<1>5. DataTypes' /\ SentOnce'
  BY <1>1, <1>4 DEF BufferInv, DataTypes, SentOnce
<1>6. ~Coming(b) /\ ~Going(b) /\ owner[b] # NoCaller /\ \A t \in Callers : ~Carrying(t, b)
  BY <1>2 DEF BufferInv, Apart
<1>7. Paired(Line', returning')
  <2>1. \A i \in 1 .. n : Line[i].buffer # e.buffer
    BY <1>3, <1>6 DEF Coming, Extended
  <2>2. Paired(Line, returning)
    BY DEF BufferInv
  <2>3. e.buffer = q.buffer /\ e.buffer # NoBuffer /\ (e.sync <=> Synchronised(q.kind))
    BY <1>1, <1>2, <1>3
  <2> QED BY <1>3, <1>4, <2>1, <2>2, <2>3, PairedReturn
<1>8. \A c \in Buffers : (Going(c)' <=> Going(c)) /\ (Coming(c)' => Coming(c) \/ c = b)
  <2> TAKE c \in Buffers
  <2>1. \A i \in DOMAIN Line' : Line'[i].buffer = c => i \in 1 .. n \/ c = b
    BY <1>1, <1>3 DEF Extended
  <2> QED BY <1>1, <1>3, <2>1 DEF Going, Coming, Extended
<1>9. Apart'
  BY <1>1, <1>6, <1>8 DEF BufferInv, Apart, Carrying
<1> QED BY <1>5, <1>7, <1>9 DEF BufferInv, Paired

\* What leaves the line, and what it leaves behind.
LEMMA Left ==
  ASSUME NEW line, NEW ret, Paired(line, ret), NEW n, NEW k, NEW after,
         Shortened(line, after, n, k), NEW c, c # NoBuffer
  PROVE  (\E i \in DOMAIN after : after[i].buffer = c) =>
           c # line[k].buffer /\ \E i \in DOMAIN line : line[i].buffer = c
<1> HAVE \E i \in DOMAIN after : after[i].buffer = c
<1>1. PICK i \in DOMAIN after : after[i].buffer = c
  OBVIOUS
<1> DEFINE j == IF i < k THEN i ELSE i + 1
<1>2. k \in DOMAIN line /\ j \in DOMAIN line /\ j # k /\ after[i] = line[j]
  BY DEF Shortened
<1> HIDE DEF j
<1> QED BY <1>1, <1>2 DEF Paired

\* The VCHIQ thread takes a reply: no buffer moves.
LEMMA BufferCopyReply ==
  ASSUME Types, BufferInv, CopyReply
  PROVE  BufferInv'
<1> DEFINE n == Len(bulk_rx) + Len(from_vc)
           k == Len(bulk_rx) + 1
<1>1. /\ from_vc # <<>> /\ Head(from_vc).buffer = NoBuffer /\ from_vc' = Tail(from_vc)
      /\ UNCHANGED <<pc, carried, to_vc, at_vc, bulk_rx, returning, usecount, inited, claimed, owner>>
  BY DEF CopyReply, threads, client
<1>2. Shortened(Line, Line', n, k) /\ Line[k].buffer = NoBuffer
  <2>1. bulk_rx \in Seq(Buffers) /\ from_vc \in Seq(Returned \cup Reply)
    BY DEF BufferInv, DataTypes, Types
  <2>2. Line = LineOf(bulk_rx, from_vc) /\ Line' = LineOf(bulk_rx, Tail(from_vc))
    BY <1>1 DEF Line
  <2>3. /\ Shortened(Line, Line', n, k)
        /\ Line[k] = [buffer |-> Head(from_vc).buffer, sync |-> Synchronised(Head(from_vc).kind)]
    BY <1>1, <2>1, <2>2, LineTaken
  <2> QED BY <1>1, <2>3
<1> HIDE DEF n, k
<1>3. Paired(Line, returning)
  BY DEF BufferInv
<1>4. DataTypes' /\ SentOnce'
  BY <1>1 DEF BufferInv, DataTypes, SentOnce
<1>5. Paired(Line', returning')
  BY <1>1, <1>2, <1>3, PairedTaken
<1>6. \A c \in Buffers : (Going(c)' <=> Going(c)) /\ (Coming(c)' => Coming(c))
  <2> TAKE c \in Buffers
  <2>1. c # NoBuffer
    BY VcClientAssumption
  <2>2. Coming(c)' => Coming(c)
    BY <1>2, <1>3, <2>1, Left DEF Coming
  <2> QED BY <1>1, <2>2 DEF Going
<1>7. Apart'
  BY <1>1, <1>6 DEF BufferInv, Apart, Carrying
<1> QED BY <1>4, <1>5, <1>7 DEF BufferInv, Paired

\* In a step the buffers that are called back are the first ones of their kind.
InOrder ==
  \A i \in DOMAIN returning :
    /\ Synchronised(returning[i].kind)
    /\ returning[i].buffer \notin {r.buffer : r \in Range(returning')}
    => \A j \in 1 .. i - 1 : ~Synchronised(returning[j].kind)

\* A buffer is called back from its place in the line: it is nowhere any more, and none
\* with data or the end of the stream was returned before it.
LEMMA CalledBack ==
  ASSUME Types, BufferInv, NEW k \in DOMAIN Line, NEW b \in Buffers, Line[k].buffer = b,
         CallBack(b), UNCHANGED <<pc, carried, to_vc, at_vc, usecount, inited, claimed>>,
         bulk_rx' \in Seq(Buffers),
         NEW n, Shortened(Line, Line', n, k),
         Line[k].sync => \A i \in 1 .. k - 1 : ~Line[i].sync
  PROVE  BufferInv' /\ InOrder
<1> DEFINE m == Len(returning)
<1>1. PICK h \in DOMAIN returning :
        returning[h].buffer = b /\ returning' = RemoveAt(returning, h)
  BY DEF CallBack
<1>2. owner' = [owner EXCEPT ![b] = NoCaller] /\ b # NoBuffer
  BY VcClientAssumption DEF CallBack
<1>3. /\ m \in Nat /\ DOMAIN returning = 1 .. m /\ h \in 1 .. m
      /\ returning' \in Seq([buffer : Buffers, kind : Kinds]) /\ DOMAIN returning' = 1 .. m - 1
      /\ \A i \in 1 .. h - 1 : returning'[i] = returning[i]
      /\ \A i \in h .. m - 1 : returning'[i] = returning[i + 1]
  <2>1. returning \in Seq([buffer : Buffers, kind : Kinds])
    BY DEF BufferInv, DataTypes
  <2>2. /\ returning' \in Seq([buffer : Buffers, kind : Kinds]) /\ Len(returning') = m - 1
        /\ \A i \in 1 .. h - 1 : returning'[i] = returning[i]
        /\ \A i \in h .. m - 1 : returning'[i] = returning[i + 1]
    BY <1>1, <2>1, RemoveAtFacts
  <2> QED BY <2>1, <2>2
<1> HIDE DEF m
<1>4. Paired(Line, returning)
  BY DEF BufferInv
<1>5. Paired(Line', returning')
  <2>1. Shortened(returning, returning', m, h)
    <3> SUFFICES ASSUME NEW i \in 1 .. m - 1
                 PROVE  returning'[i] = returning[IF i < h THEN i ELSE i + 1]
      BY <1>3 DEF Shortened
    <3>1. CASE i < h
      <4>1. i \in 1 .. h - 1
        BY <1>3, <3>1
      <4> QED BY <1>3, <3>1, <4>1
    <3>2. CASE ~(i < h)
      <4>1. i \in h .. m - 1
        BY <1>3, <3>2
      <4> QED BY <1>3, <3>2, <4>1
    <3> QED BY <3>1, <3>2
  <2>2. returning[h].buffer = Line[k].buffer
    BY <1>1
  <2> QED BY <1>4, <2>1, <2>2, PairedBack
<1>6. DataTypes' /\ SentOnce'
  BY <1>2, <1>3 DEF BufferInv, DataTypes, SentOnce
<1>7. \A c \in Buffers : /\ Going(c)' <=> Going(c)
                         /\ Coming(c)' => Coming(c) /\ c # b
                         /\ c # b => owner'[c] = owner[c]
  <2> TAKE c \in Buffers
  <2>1. c # NoBuffer
    BY VcClientAssumption
  <2>2. Coming(c)' => Coming(c) /\ c # b
    BY <1>4, <2>1, Left DEF Coming
  <2> QED BY <1>2, <2>2 DEF Going, BufferInv, DataTypes
<1>8. Coming(b)
  BY DEF Coming
<1>9. Apart'
  BY <1>7, <1>8 DEF BufferInv, Apart, Carrying
<1>10. \A i \in DOMAIN returning : i # h =>
         returning[i].buffer \in {r.buffer : r \in Range(returning')}
  <2> TAKE i \in DOMAIN returning
  <2> HAVE i # h
  <2> SUFFICES \E j \in DOMAIN returning' : returning'[j] = returning[i]
    BY DEF Range
  <2>1. CASE i < h
    <3>1. i \in DOMAIN returning' /\ returning'[i] = returning[i]
      BY <1>3, <2>1
    <3> QED BY <3>1
  <2>2. CASE i > h
    <3>1. i - 1 \in h .. m - 1 /\ i - 1 \in DOMAIN returning' /\ (i - 1) + 1 = i
      BY <1>3, <2>2
    <3>2. returning'[i - 1] = returning[i]
      BY <1>3, <3>1
    <3> QED BY <3>1, <3>2
  <2> QED BY <1>3, <2>1, <2>2
<1>11. ASSUME Synchronised(returning[h].kind), NEW j \in 1 .. h - 1,
              Synchronised(returning[j].kind)
       PROVE  FALSE
  <2>1. PICK l \in DOMAIN Line : /\ Line[l].buffer = returning[h].buffer
                                 /\ Line[l].sync <=> Synchronised(returning[h].kind)
    BY <1>4 DEF Paired
  <2>2. l = k
    BY <1>1, <1>2, <1>4, <2>1 DEF Paired
  <2>3. j \in DOMAIN returning /\ j < h
    BY <1>3
  <2>4. PICK i \in DOMAIN Line : /\ Line[i].buffer = returning[j].buffer
                                 /\ Line[i].sync <=> Synchronised(returning[j].kind)
    BY <1>4, <2>3 DEF Paired
  <2>5. i < k
    BY <1>1, <1>4, <1>11, <2>1, <2>2, <2>3, <2>4 DEF Paired
  <2>6. i \in 1 .. k - 1
    BY <2>5 DEF Shortened
  <2> QED BY <1>11, <2>1, <2>2, <2>4, <2>6
<1>12. InOrder
  BY <1>10, <1>11 DEF InOrder
<1> QED BY <1>5, <1>6, <1>9, <1>12 DEF BufferInv, Paired

\* A step that calls back no buffer.
LEMMA NoneBack ==
  ASSUME \A i \in DOMAIN returning : \E j \in DOMAIN returning' : returning'[j] = returning[i]
  PROVE  InOrder
BY DEF InOrder, Range

\* The VCHIQ thread takes a buffer: one without data and not the end of the stream is called
\* back at once, and any other keeps its place in the line.
LEMMA BufferTaken ==
  ASSUME Types, BufferInv, Buffer
  PROVE  BufferInv' /\ InOrder
<1> DEFINE m == Head(from_vc)
           n == Len(bulk_rx) + Len(from_vc)
           k == Len(bulk_rx) + 1
<1>1. /\ from_vc # <<>> /\ m.buffer # NoBuffer /\ from_vc' = Tail(from_vc)
      /\ IF m.kind = "direct" THEN CallBack(m.buffer) /\ UNCHANGED bulk_rx
         ELSE bulk_rx' = Append(bulk_rx, m.buffer) /\ UNCHANGED <<returning, owner>>
      /\ UNCHANGED <<pc, carried, to_vc, at_vc, usecount, inited, claimed>>
  BY DEF Buffer, client, threads
<1>2. bulk_rx \in Seq(Buffers) /\ from_vc \in Seq(Returned \cup Reply)
  BY DEF BufferInv, DataTypes, Types
<1>3. m.buffer \in Buffers /\ m.kind \in Kinds
  <2>1. m \in Returned \cup Reply
    BY <1>1, <1>2
  <2> QED BY <1>1, <2>1 DEF Returned, Reply
<1>4. CASE m.kind = "direct"
  <2>1. /\ Line = LineOf(bulk_rx, from_vc) /\ Line' = LineOf(bulk_rx, Tail(from_vc))
        /\ CallBack(m.buffer) /\ bulk_rx' = bulk_rx
    BY <1>1, <1>4 DEF Line
  <2>2. /\ Shortened(Line, Line', n, k)
        /\ Line[k] = [buffer |-> m.buffer, sync |-> Synchronised(m.kind)]
    BY <1>1, <1>2, <2>1, LineTaken
  <2>3. ~Synchronised(m.kind)
    BY <1>4 DEF Synchronised
  <2> HIDE DEF m, n, k
  <2>4. Line[k].buffer = m.buffer /\ ~Line[k].sync /\ k \in DOMAIN Line
    BY <2>2, <2>3 DEF Shortened
  <2> QED BY <1>1, <1>2, <1>3, <2>1, <2>2, <2>4, CalledBack
<1>5. CASE m.kind # "direct"
  <2>1. bulk_rx' = Append(bulk_rx, m.buffer) /\ UNCHANGED <<returning, owner>>
    BY <1>1, <1>5
  <2>2. Synchronised(m.kind)
    BY <1>3, <1>5 DEF Kinds, Synchronised
  <2>3. Line' = Line
    BY <1>1, <1>2, <1>3, <2>1, <2>2, LineMoved DEF Line
  <2>4. DataTypes' /\ SentOnce'
    <3>1. bulk_rx' \in Seq(Buffers)
      BY <1>2, <1>3, <2>1
    <3> QED BY <1>1, <2>1, <3>1 DEF BufferInv, DataTypes, SentOnce
  <2>5. Apart'
    <3>1. \A b \in Buffers : (Going(b)' <=> Going(b)) /\ (Coming(b)' <=> Coming(b))
      BY <1>1, <2>3 DEF Going, Coming
    <3>2. \A t \in Callers, b \in Buffers : Carrying(t, b)' <=> Carrying(t, b)
      BY <1>1 DEF Carrying
    <3> QED BY <1>1, <2>1, <3>1, <3>2 DEF BufferInv, Apart
  <2>6. InOrder
    BY <2>1, NoneBack
  <2> QED BY <2>1, <2>3, <2>4, <2>5, <2>6 DEF BufferInv
<1> QED BY <1>4, <1>5

\* The data of the first buffer of the line is there.
LEMMA BufferReceived ==
  ASSUME Types, BufferInv, BulkReceived
  PROVE  BufferInv' /\ InOrder
<1> DEFINE b == Head(bulk_rx)
           n == Len(bulk_rx) + Len(from_vc)
<1>1. /\ bulk_rx # <<>> /\ CallBack(b) /\ bulk_rx' = Tail(bulk_rx) /\ from_vc' = from_vc
      /\ UNCHANGED <<pc, carried, to_vc, at_vc, usecount, inited, claimed>>
  BY DEF BulkReceived, client, threads
<1>2. bulk_rx \in Seq(Buffers) /\ from_vc \in Seq(Returned \cup Reply)
  BY DEF BufferInv, DataTypes, Types
<1>3. b \in Buffers /\ bulk_rx' \in Seq(Buffers)
  BY <1>1, <1>2
<1>4. Line = LineOf(bulk_rx, from_vc) /\ Line' = LineOf(Tail(bulk_rx), from_vc)
  BY <1>1 DEF Line
<1>5. Shortened(Line, Line', n, 1) /\ Line[1] = [buffer |-> b, sync |-> TRUE]
  BY <1>1, <1>2, <1>4, LineReceived
<1>6. 1 \in DOMAIN Line /\ Line[1].buffer = b /\ \A i \in 1 .. 1 - 1 : ~Line[i].sync
  BY <1>5 DEF Shortened
<1> HIDE DEF b, n
<1> QED BY <1>1, <1>3, <1>5, <1>6, CalledBack

\* The threads call back no buffer.
LEMMA ThreadsKeep ==
  ASSUME NEW t \in Callers, Starts(t) \/ GoesOn(t)
  PROVE  UNCHANGED returning
<1>1. CASE Starts(t)
  BY <1>1 DEF Starts, InitFirst, InitFailed, InitMore, Call, Send, wire
<1>2. CASE \/ Opened(t) \/ Create(t) \/ Release(t) \/ DeinitMore(t) \/ DeinitLast(t)
           \/ WaitForWaiter(t) \/ Search(t) \/ Claim(t)
  BY <1>2 DEF Opened, Create, Release, DeinitMore, DeinitLast, WaitForWaiter, Search, Claim, wire
<1>3. CASE \/ Queued(t) \/ QueueFailed(t) \/ Bulk(t) \/ WaitForReply(t) \/ Unclaim(t)
           \/ FreeWaiter(t) \/ PostWaiter(t)
  BY <1>3 DEF Queued, QueueFailed, Bulk, WaitForReply, Unclaim, FreeWaiter, PostWaiter, wire
<1> QED BY <1>1, <1>2, <1>3 DEF GoesOn

\* Every step keeps the buffers in order, and calls them back in that order.
LEMMA BufferNext == Types /\ Waits /\ Wire /\ BufferInv /\ [Next]_vars => BufferInv' /\ InOrder
<1> SUFFICES ASSUME Types, Waits, Wire, BufferInv, [Next]_vars PROVE BufferInv' /\ InOrder
  OBVIOUS
<1>1. ASSUME UNCHANGED <<to_vc, at_vc, from_vc, bulk_rx, returning, owner, pc, carried, usecount,
                         inited, claimed>>
      PROVE  BufferInv' /\ InOrder
  <2>1. usecount' \in Int /\ inited' \in BOOLEAN /\ claimed' \in BOOLEAN
    BY <1>1 DEF BufferInv, DataTypes
  <2>2. \A t \in Callers, b \in Buffers : Carrying(t, b)' => Carrying(t, b)
    BY <1>1 DEF Carrying
  <2> QED BY <1>1, <2>1, <2>2, BufferElsewhere, NoneBack
<1>2. ASSUME NEW t \in Callers, Starts(t) \/ GoesOn(t) PROVE BufferInv' /\ InOrder
  BY <1>2, BufferThreads, ThreadsKeep, NoneBack
<1>3. CASE Receive
  <2>1. UNCHANGED returning
    BY <1>3 DEF Receive
  <2> QED BY <1>3, <2>1, BufferReceive, NoneBack
<1>4. ASSUME NEW m \in serving, Answer(m) PROVE BufferInv' /\ InOrder
  <2>1. UNCHANGED returning
    BY <1>4 DEF Answer
  <2> QED BY <1>4, <2>1, BufferAnswer, NoneBack
<1>5. ASSUME NEW b \in at_vc, NEW kind \in Kinds, Return(b, kind) PROVE BufferInv' /\ InOrder
  <2>1. b \in Buffers /\ returning \in Seq([buffer : Buffers, kind : Kinds])
    BY DEF Types, BufferInv, DataTypes
  <2>2. returning' = Append(returning, [buffer |-> b, kind |-> kind])
    BY <1>5 DEF Return
  <2>3. \A i \in DOMAIN returning : i \in DOMAIN returning' /\ returning'[i] = returning[i]
    BY <2>1, <2>2
  <2>4. InOrder
    BY <2>3, NoneBack
  <2> QED BY <1>5, <2>4, BufferReturn
<1>6. CASE CopyReply
  <2>1. UNCHANGED returning
    BY <1>6 DEF CopyReply
  <2> QED BY <1>6, <2>1, BufferCopyReply, NoneBack
<1>7. CASE WakeWaiter
  BY <1>1, <1>7 DEF WakeWaiter, wire, threads, client
<1>8. CASE Buffer \/ BulkReceived
  BY <1>8, BufferTaken, BufferReceived
<1>9. CASE UNCHANGED vars
  BY <1>1, <1>9 DEF vars, wire, threads, client
<1> QED BY <1>2, <1>3, <1>4, <1>5, <1>6, <1>7, <1>8, <1>9 DEF Next, VideoCore, Vchiq

\* In every execution a buffer with data, or with the end of the stream, is called back after
\* those that VideoCore sent before it, although other buffers overtake it: the end of the
\* stream waits in the queue of the bulk transfers, and VCHIQ receives those in order.
THEOREM OrderCorrect == Spec => InSync
<1>1. Init => CallInv /\ UsersInv /\ BufferInv
  BY CallInit, UsersInit, BufferInit
<1>2. CallInv /\ UsersInv /\ BufferInv /\ [Next]_vars => (CallInv /\ UsersInv /\ BufferInv)'
  BY CallNext, UsersNext, BufferNext DEF CallInv
<1>3. CallInv /\ BufferInv /\ [Next]_vars =>
        [\A i \in DOMAIN returning :
           Synchronised(returning[i].kind) /\ returning[i].buffer \notin {r.buffer : r \in Range(returning')}
             => \A j \in 1 .. i - 1 : ~Synchronised(returning[j].kind)]_vars
  BY BufferNext DEF CallInv, InOrder
<1> QED BY <1>1, <1>2, <1>3, PTL DEF Spec, InSync

-----------------------------------------------------------------------------
(* The client as a whole.                                                  *)

\* A client that nobody uses has no waiter to give.
PoolQuiet == refcount = 0 => waitpool_sem = 0

\* Every step keeps the pool of an unused client empty.
LEMMA QuietNext == Types /\ UsersInv /\ PoolQuiet /\ [Next]_vars => PoolQuiet'
<1> SUFFICES ASSUME Types, UsersInv, PoolQuiet, [Next]_vars PROVE PoolQuiet'
  OBVIOUS
<1>1. ASSUME UNCHANGED <<refcount, waitpool_sem>> PROVE PoolQuiet'
  BY <1>1 DEF PoolQuiet
<1>2. refcount \in Nat
  BY FS_Subset, FS_CardinalityType, VcClientAssumption DEF UsersInv, Users
<1>3. ASSUME NEW t \in Callers, Starts(t) PROVE PoolQuiet'
  <2>1. CASE InitFirst(t) \/ InitMore(t)
    BY <1>2, <2>1 DEF InitFirst, InitMore, PoolQuiet
  <2>2. CASE InitFailed(t)
    BY <1>1, <2>2 DEF InitFailed, pool
  <2>3. ASSUME NEW o \in Ops, Call(t, o) PROVE PoolQuiet'
    BY <1>1, <2>3 DEF Call, pool, client
  <2>4. ASSUME NEW o \in Ops, NEW b \in Buffers, Send(t, o, b) PROVE PoolQuiet'
    BY <1>1, <2>4 DEF Send, pool, client
  <2> QED BY <1>3, <2>1, <2>2, <2>3, <2>4 DEF Starts
<1>4. ASSUME NEW t \in Callers, GoesOn(t) PROVE PoolQuiet'
  <2>1. CASE DeinitMore(t) \/ DeinitLast(t)
    BY <1>2, <2>1 DEF DeinitMore, DeinitLast, PoolQuiet
  <2>2. CASE WaitForWaiter(t) \/ PostWaiter(t)
    <3>1. refcount' = refcount /\ pc[t] # "out"
      BY <2>2 DEF WaitForWaiter, PostWaiter, At, client
    <3> QED BY <3>1, NoUsers DEF PoolQuiet
  <2>3. CASE Opened(t) \/ Create(t) \/ Release(t) \/ Claim(t) \/ Unclaim(t)
    BY <1>1, <2>3 DEF Opened, Create, Release, Claim, Unclaim, Use, Unuse, pool
  <2>4. CASE \/ Search(t) \/ Queued(t) \/ QueueFailed(t) \/ Bulk(t) \/ WaitForReply(t)
             \/ FreeWaiter(t)
    BY <1>1, <2>4 DEF Search, Queued, QueueFailed, Bulk, WaitForReply, FreeWaiter, pool, client
  <2> QED BY <1>4, <2>1, <2>2, <2>3, <2>4 DEF GoesOn
<1>5. ASSUME VideoCore \/ Vchiq PROVE PoolQuiet'
  BY <1>1, <1>5 DEF VideoCore, Vchiq, Receive, Answer, Return, CopyReply, WakeWaiter, Buffer,
                    BulkReceived, client, pool
<1>6. CASE UNCHANGED vars
  BY <1>1, <1>6 DEF vars, client, pool
<1> QED BY <1>3, <1>4, <1>5, <1>6 DEF Next

\* The types of the counts follow from what they count.
LEMMA ClientTypes ==
  Types /\ DataTypes /\ Locks /\ UsersInv /\ Counted /\ PoolQuiet => TypeOK
<1> SUFFICES ASSUME Types, DataTypes, Locks, UsersInv, Counted, PoolQuiet PROVE TypeOK
  OBVIOUS
<1>1. refcount \in 0 .. Cardinality(Callers)
  BY FS_Subset, FS_CardinalityType, VcClientAssumption DEF UsersInv, Users
<1>2. waitpool_sem \in 0 .. Cardinality(Waiters)
  <2>1. Cardinality(Waiters) \in Nat /\ waitpool_sem \in Nat
    BY FS_CardinalityType, VcClientAssumption DEF Counted
  <2>2. CASE refcount = 0
    BY <2>1, <2>2 DEF PoolQuiet
  <2>3. CASE refcount > 0
    <3>1. /\ Cardinality(There("search")) \in Nat /\ Cardinality(There("post")) \in Nat
          /\ Cardinality(Waiters \ inuse) \in Nat
          /\ Cardinality(Waiters \ inuse) <= Cardinality(Waiters)
      BY FS_Subset, FS_CardinalityType, VcClientAssumption DEF There
    <3> QED BY <2>1, <2>3, <3>1 DEF Counted
  <2> QED BY <1>1, <2>2, <2>3
<1>3. bulk_lock \in Callers \cup {NoCaller} /\ bulk_tx \in Seq(Callers)
  BY DEF Locks
<1>4. usecount \in Int /\ inited \in BOOLEAN /\ claimed \in BOOLEAN
  BY DEF DataTypes
<1>5. /\ bulk_rx \in Seq(Buffers) /\ returning \in Seq([buffer : Buffers, kind : Kinds])
      /\ owner \in [Buffers -> Callers \cup {NoCaller}]
  BY DEF DataTypes
<1> QED BY <1>1, <1>2, <1>3, <1>4, <1>5 DEF TypeOK, Types

\* In every execution in which VCHIQ grants the claims, waiters are found, and VideoCore is
\* claimed exactly while a component exists or a call is made: a claim is made once for each
\* component and once for each call, and given back once.
THEOREM ClientIsSafe == ASSUME "use" \notin MayFail PROVE Spec => []ClientInv
<1> DEFINE I == CallInv /\ UsersInv /\ Counted /\ BulkInv /\ ClaimInv /\ BufferInv /\ PoolQuiet
<1>1. Init => I
  BY CallInit, UsersInit, CountedInit, BulkInit, ClaimInit, BufferInit DEF Init, PoolQuiet
<1>2. I /\ [Next]_vars => I'
  <2> SUFFICES ASSUME I, [Next]_vars PROVE I'
    OBVIOUS
  <2>1. CallInv' /\ UsersInv'
    BY CallNext, UsersNext DEF CallInv
  <2>2. Counted' /\ BulkInv'
    BY CountedNext, BulkNext DEF CallInv
  <2>3. ClaimInv'
    BY ClaimNext DEF CallInv
  <2>4. BufferInv'
    BY BufferNext DEF CallInv
  <2>5. PoolQuiet'
    BY QuietNext DEF CallInv
  <2> QED BY <2>1, <2>2, <2>3, <2>4, <2>5
<1>3. I => ClientInv
  <2> SUFFICES ASSUME I PROVE ClientInv
    OBVIOUS
  <2>1. TypeOK
    BY ClientTypes DEF CallInv, BulkInv, BufferInv
  <2>2. WaiterFound
    BY CountedFound DEF CallInv
  <2>3. ClaimedWhileUsed
    BY ClaimUsed
  <2> QED BY <2>1, <2>2, <2>3 DEF ClientInv
<1> HIDE DEF I
<1> QED BY <1>1, <1>2, <1>3, PTL DEF Spec
=============================================================================
