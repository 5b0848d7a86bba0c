---------------------------- MODULE MmalVcClient ----------------------------
(***************************************************************************)
(* The transport to VideoCore (vc/mmal_vc_client.c): one client for all    *)
(* threads of the process, over a VCHIQ service.  A call sends a message   *)
(* and waits, with one of a few waiters, for the reply; a buffer goes out  *)
(* in a message and comes back in another one, its data in bulk transfers  *)
(* which VCHIQ pairs with the messages by their order only.                *)
(*                                                                         *)
(* VCHIQ and VideoCore are external: a message queued is delivered, in     *)
(* order, and every call is answered in the end, in any order.             *)
(***************************************************************************)
EXTENDS Integers, Sequences, FiniteSets, SequencesExt

CONSTANTS
  Callers,   \* the threads of the process, each with a component of its own
  Waiters,   \* client.waitpool.waiters
  Buffers,   \* buffer headers, each with a context to send it with
  MayFail,   \* what VCHIQ may refuse: "open", "use", "message"
  NoCaller,  \* nobody
  NoWaiter,  \* no waiter: the message wants no reply
  NoBuffer   \* no buffer: the message is a call or its reply

ASSUME VcClientAssumption ==
  /\ IsFiniteSet(Callers) /\ IsFiniteSet(Waiters) /\ Waiters # {}
  /\ NoCaller \notin Callers /\ NoWaiter \notin Waiters /\ NoBuffer \notin Buffers
  /\ MayFail \subseteq {"open", "use", "message"}

VARIABLES
  \* MMAL_CLIENT_T and its waiters
  refcount, usecount, inited,
  claimed,         \* VCHIQ's own record of whether the service is in use
  waitpool_sem, inuse, waiter_sem,
  dest,            \* the caller whose memory the reply to a waiter goes to
  bulk_lock,       \* the thread that holds it
  \* VCHIQ and VideoCore
  to_vc, bulk_tx,  \* messages to VideoCore, and the bulk transfers that go with them
  serving,         \* calls that VideoCore has yet to answer
  at_vc,           \* buffers that VideoCore has
  from_vc,         \* messages from VideoCore
  bulk_rx,         \* buffers whose data is being received
  returning,       \* buffers sent back by VideoCore but not yet called back, in its order
  \* the threads
  owner,           \* the caller whose port has a buffer, if any
  pc, op, waiter, carried,
  reply,           \* the caller whose call the reply that a caller got answers
  replying         \* the waiter that the VCHIQ thread is about to wake

client  == <<refcount, usecount, inited, claimed>>
pool    == <<waitpool_sem, inuse, waiter_sem, dest, reply, replying>>
wire    == <<to_vc, bulk_tx, serving, at_vc, from_vc, bulk_rx, returning>>
threads == <<pc, op, waiter, carried>>
vars    == <<client, pool, bulk_lock, wire, owner, threads>>

Ops == {"create", "call", "flush", "data", "short", "destroy", "none"}

Kinds == {"filled", "eos", "direct"}

\* A flush sends a dummy transfer, to stay behind the data of the buffers before it.
WithBulk == {"data", "flush"}

WithReply == {"create", "call", "flush", "destroy"}

Message == [from : Callers, waiter : Waiters \cup {NoWaiter}, buffer : Buffers \cup {NoBuffer},
            bulk : BOOLEAN]

Returned == [waiter : {NoWaiter}, from : {NoCaller}, buffer : Buffers, kind : Kinds]

Reply == [waiter : Waiters, from : Callers, buffer : {NoBuffer}, kind : {"direct"}]

TypeOK ==
  /\ refcount \in 0 .. Cardinality(Callers) /\ usecount \in Int
  /\ inited \in BOOLEAN /\ claimed \in BOOLEAN
  /\ waitpool_sem \in 0 .. Cardinality(Waiters)
  /\ inuse \subseteq Waiters /\ waiter_sem \in [Waiters -> 0 .. 1]
  /\ dest \in [Waiters -> Callers \cup {NoCaller}]
  /\ bulk_lock \in Callers \cup {NoCaller}
  /\ to_vc \in Seq(Message) /\ bulk_tx \in Seq(Callers)
  /\ serving \subseteq Message /\ at_vc \subseteq Buffers
  /\ from_vc \in Seq(Returned \cup Reply)
  /\ bulk_rx \in Seq(Buffers) /\ returning \in Seq([buffer : Buffers, kind : Kinds])
  /\ owner \in [Buffers -> Callers \cup {NoCaller}]
  /\ pc \in [Callers -> {"out", "opened", "inited", "ready", "waiter", "search", "claim", "queue",
                         "bulk", "reply", "unclaim", "free", "post", "release", "deinit"}]
  /\ op \in [Callers -> Ops]
  /\ waiter \in [Callers -> Waiters \cup {NoWaiter}]
  /\ carried \in [Callers -> Buffers \cup {NoBuffer}]
  /\ reply \in [Callers -> Callers \cup {NoCaller}]
  /\ replying \in Waiters \cup {NoWaiter}

Init ==
  /\ refcount = 0 /\ usecount = 0 /\ inited = FALSE /\ claimed = FALSE
  /\ waitpool_sem = 0 /\ inuse = {} /\ waiter_sem = [w \in Waiters |-> 0]
  /\ dest = [w \in Waiters |-> NoCaller]
  /\ bulk_lock = NoCaller
  /\ to_vc = <<>> /\ bulk_tx = <<>> /\ serving = {} /\ at_vc = {}
  /\ from_vc = <<>> /\ bulk_rx = <<>> /\ returning = <<>>
  /\ owner = [b \in Buffers |-> NoCaller]
  /\ pc = [t \in Callers |-> "out"]
  /\ op = [t \in Callers |-> "none"]
  /\ waiter = [t \in Callers |-> NoWaiter]
  /\ carried = [t \in Callers |-> NoBuffer]
  /\ reply = [t \in Callers |-> NoCaller]
  /\ replying = NoWaiter

At(t, l) == pc[t] = l

Goto(t, l) == pc' = [pc EXCEPT ![t] = l]

-----------------------------------------------------------------------------
(* The client: created with the first component, deleted with the last one.*)

\* create_waitpool().
CreateWaitpool ==
  /\ waitpool_sem' = Cardinality(Waiters)
  /\ inuse' = {}
  /\ waiter_sem' = [w \in Waiters |-> 0]

\* mmal_vc_init() of the first user, under the client's lock.
InitFirst(t) ==
  /\ At(t, "out")
  /\ refcount = 0
  /\ refcount' = 1
  /\ usecount' = 1 /\ claimed' = TRUE /\ inited' = TRUE
  /\ CreateWaitpool
  /\ Goto(t, "opened")
  /\ UNCHANGED <<dest, reply, replying, bulk_lock, wire, owner, op, waiter, carried>>

\* VCHIQ or the memory for the waiters is not to be had: everything is undone.
InitFailed(t) ==
  /\ At(t, "out")
  /\ refcount = 0
  /\ "open" \in MayFail
  /\ usecount' = 0
  /\ UNCHANGED <<refcount, inited, claimed, pool, bulk_lock, wire, owner, threads>>

InitMore(t) ==
  /\ At(t, "out")
  /\ refcount > 0
  /\ refcount' = refcount + 1
  /\ Goto(t, "inited")
  /\ UNCHANGED <<usecount, inited, claimed, pool, bulk_lock, wire, owner, op, waiter, carried>>

\* mmal_vc_use_internal() and mmal_vc_release_internal(); of the latter nobody looks at
\* the status.
Use(ok) ==
  /\ ~ok => "use" \in MayFail /\ usecount = 0
  /\ usecount' = IF ok THEN usecount + 1 ELSE usecount
  /\ claimed' = (claimed \/ (usecount = 0 /\ ok))
  /\ UNCHANGED <<refcount, inited>>

Unuse(ok) ==
  /\ ~ok => "use" \in MayFail /\ usecount = 1
  /\ usecount' = IF ok THEN usecount - 1 ELSE usecount
  /\ claimed' = (claimed /\ ~(usecount = 1 /\ ok))
  /\ UNCHANGED <<refcount, inited>>

\* "assume we're not using VC immediately.  Do this outside the lock"
Opened(t) ==
  /\ At(t, "opened")
  /\ \E ok \in BOOLEAN : Unuse(ok)
  /\ Goto(t, "inited")
  /\ UNCHANGED <<pool, bulk_lock, wire, owner, op, waiter, carried>>

\* Mutant: only the calls claim VideoCore.
CreateUnclaimed(t) ==
  /\ At(t, "inited")
  /\ op' = [op EXCEPT ![t] = "create"]
  /\ Goto(t, "waiter")
  /\ UNCHANGED <<client, pool, bulk_lock, wire, owner, waiter, carried>>

\* "claim VC for entire duration of component": the status is not looked at.
Create(t) ==
  /\ At(t, "inited")
  /\ \E ok \in BOOLEAN : Use(ok)
  /\ op' = [op EXCEPT ![t] = "create"]
  /\ Goto(t, "waiter")
  /\ UNCHANGED <<pool, bulk_lock, wire, owner, waiter, carried>>

\* "no longer require videocore"
Release(t) ==
  /\ At(t, "release")
  /\ \E ok \in BOOLEAN : Unuse(ok)
  /\ Goto(t, "deinit")
  /\ UNCHANGED <<pool, bulk_lock, wire, owner, op, waiter, carried>>

DeinitMore(t) ==
  /\ At(t, "deinit")
  /\ refcount > 1
  /\ refcount' = refcount - 1
  /\ Goto(t, "out")
  /\ UNCHANGED <<usecount, inited, claimed, pool, bulk_lock, wire, owner, op, waiter, carried>>

DeinitLast(t) ==
  /\ At(t, "deinit")
  /\ refcount = 1
  /\ refcount' = 0
  /\ inited' = FALSE /\ claimed' = FALSE
  /\ waitpool_sem' = 0
  /\ Goto(t, "out")
  /\ UNCHANGED <<usecount, inuse, waiter_sem, dest, reply, replying, bulk_lock, wire, owner,
                 op, waiter, carried>>

-----------------------------------------------------------------------------
(* mmal_vc_sendwait_message() and mmal_vc_send_message().                  *)

\* A thread whose component exists calls it, flushes a port with a dummy transfer, or
\* destroys the component, its ports disabled and its buffers back.
Call(t, o) ==
  /\ At(t, "ready")
  /\ o \in {"call", "flush", "destroy"}
  /\ o = "destroy" => \A b \in Buffers : owner[b] # t
  /\ o \in WithBulk => bulk_lock = NoCaller
  /\ bulk_lock' = IF o \in WithBulk THEN t ELSE bulk_lock
  /\ op' = [op EXCEPT ![t] = o]
  /\ Goto(t, "waiter")
  /\ UNCHANGED <<client, pool, wire, owner, waiter, carried>>

\* Mutant: the messages are ordered, but the transfers are not.
SendUnlocked(t, o, b) ==
  /\ At(t, "ready")
  /\ o \in {"data", "short"}
  /\ owner[b] = NoCaller
  /\ owner' = [owner EXCEPT ![b] = t]
  /\ op' = [op EXCEPT ![t] = o]
  /\ carried' = [carried EXCEPT ![t] = b]
  /\ Goto(t, "queue")
  /\ UNCHANGED <<client, pool, bulk_lock, wire, waiter>>

\* A buffer is sent, with a transfer of its data or without data of its own.
Send(t, o, b) ==
  /\ At(t, "ready")
  /\ o \in {"data", "short"}
  /\ owner[b] = NoCaller
  /\ o \in WithBulk => bulk_lock = NoCaller
  /\ bulk_lock' = IF o \in WithBulk THEN t ELSE bulk_lock
  /\ owner' = [owner EXCEPT ![b] = t]
  /\ op' = [op EXCEPT ![t] = o]
  /\ carried' = [carried EXCEPT ![t] = b]
  /\ Goto(t, "queue")
  /\ UNCHANGED <<client, pool, wire, waiter>>

\* get_waiter(): the semaphore counts the free waiters, the search is locked.
WaitForWaiter(t) ==
  /\ At(t, "waiter")
  /\ waitpool_sem > 0
  /\ waitpool_sem' = waitpool_sem - 1
  /\ Goto(t, "search")
  /\ UNCHANGED <<client, inuse, waiter_sem, dest, reply, replying, bulk_lock, wire, owner,
                 op, waiter, carried>>

Search(t) ==
  /\ At(t, "search")
  /\ \E w \in Waiters \ inuse :
       /\ inuse' = inuse \cup {w}
       /\ waiter' = [waiter EXCEPT ![t] = w]
       /\ dest' = [dest EXCEPT ![w] = t]
  /\ reply' = [reply EXCEPT ![t] = NoCaller]
  /\ Goto(t, "claim")
  /\ UNCHANGED <<client, waitpool_sem, waiter_sem, replying, bulk_lock, wire, owner, op, carried>>

\* The status of mmal_vc_use_internal() is not looked at.
Claim(t) ==
  /\ At(t, "claim")
  /\ \E ok \in BOOLEAN : Use(ok)
  /\ Goto(t, "queue")
  /\ UNCHANGED <<pool, bulk_lock, wire, owner, op, waiter, carried>>

Queued(t) ==
  /\ At(t, "queue")
  /\ to_vc' = Append(to_vc, [from |-> t, waiter |-> waiter[t], buffer |-> carried[t],
                             bulk |-> op[t] \in WithBulk])
  /\ IF op[t] \in WithBulk THEN Goto(t, "bulk") /\ UNCHANGED <<op, carried>>
     ELSE IF op[t] \in WithReply THEN Goto(t, "reply") /\ UNCHANGED <<op, carried>>
     ELSE /\ Goto(t, "ready")
          /\ op' = [op EXCEPT ![t] = "none"]
          /\ carried' = [carried EXCEPT ![t] = NoBuffer]
  /\ UNCHANGED <<client, pool, bulk_lock, bulk_tx, serving, at_vc, from_vc, bulk_rx, returning,
                 owner, waiter>>

\* Mutant: a flush whose message is refused keeps the lock.
QueueFailedKeepsLock(t) ==
  /\ At(t, "queue")
  /\ "message" \in MayFail
  /\ op[t] = "flush"
  /\ Goto(t, "unclaim")
  /\ UNCHANGED <<client, pool, bulk_lock, wire, owner, waiter, op, carried>>

QueueFailed(t) ==
  /\ At(t, "queue")
  /\ "message" \in MayFail
  /\ bulk_lock' = IF op[t] \in WithBulk THEN NoCaller ELSE bulk_lock
  /\ IF op[t] \in WithReply
     THEN Goto(t, "unclaim") /\ UNCHANGED <<owner, op, carried>>
     ELSE /\ Goto(t, "ready")
          /\ op' = [op EXCEPT ![t] = "none"]
          /\ owner' = [owner EXCEPT ![carried[t]] = NoCaller]
          /\ carried' = [carried EXCEPT ![t] = NoBuffer]
  /\ UNCHANGED <<client, pool, wire, waiter>>

\* A transfer that VCHIQ refuses after it took the message "really should not happen".
Bulk(t) ==
  /\ At(t, "bulk")
  /\ bulk_tx' = Append(bulk_tx, t)
  /\ bulk_lock' = NoCaller
  /\ IF op[t] \in WithReply THEN Goto(t, "reply") /\ UNCHANGED <<op, carried>>
     ELSE /\ Goto(t, "ready")
          /\ op' = [op EXCEPT ![t] = "none"]
          /\ carried' = [carried EXCEPT ![t] = NoBuffer]
  /\ UNCHANGED <<client, pool, to_vc, serving, at_vc, from_vc, bulk_rx, returning, owner, waiter>>

WaitForReply(t) ==
  /\ At(t, "reply")
  /\ waiter_sem[waiter[t]] > 0
  /\ waiter_sem' = [waiter_sem EXCEPT ![waiter[t]] = @ - 1]
  /\ Goto(t, "unclaim")
  /\ UNCHANGED <<client, waitpool_sem, inuse, dest, reply, replying, bulk_lock, wire, owner,
                 op, waiter, carried>>

Unclaim(t) ==
  /\ At(t, "unclaim")
  /\ \E ok \in BOOLEAN : Unuse(ok)
  /\ Goto(t, "free")
  /\ UNCHANGED <<pool, bulk_lock, wire, owner, op, waiter, carried>>

\* release_waiter(), without the lock.
FreeWaiter(t) ==
  /\ At(t, "free")
  /\ inuse' = inuse \ {waiter[t]}
  /\ waiter' = [waiter EXCEPT ![t] = NoWaiter]
  /\ Goto(t, "post")
  /\ UNCHANGED <<client, waitpool_sem, waiter_sem, dest, reply, replying, bulk_lock, wire,
                 owner, op, carried>>

\* What a thread goes on with: a component that is not created, or that VideoCore will
\* not create, is not used any more.
AfterCall(t) ==
  CASE op[t] = "destroy" -> {"release"}
    [] op[t] = "create"  -> IF reply[t] = NoCaller THEN {"release"} ELSE {"ready", "release"}
    [] OTHER             -> {"ready"}

PostWaiter(t) ==
  /\ At(t, "post")
  /\ waitpool_sem' = waitpool_sem + 1
  /\ \E l \in AfterCall(t) : Goto(t, l)
  /\ op' = [op EXCEPT ![t] = "none"]
  /\ reply' = [reply EXCEPT ![t] = NoCaller]
  /\ UNCHANGED <<client, inuse, waiter_sem, dest, replying, bulk_lock, wire, owner, waiter,
                 carried>>

-----------------------------------------------------------------------------
(* VideoCore: it takes a message with the transfer that belongs to it, and *)
(* sends back answers and buffers.                                         *)

Receive ==
  /\ to_vc # <<>>
  /\ LET m == Head(to_vc) IN
       /\ m.bulk => bulk_tx # <<>>
       /\ bulk_tx' = IF m.bulk THEN Tail(bulk_tx) ELSE bulk_tx
       /\ IF m.buffer = NoBuffer
          THEN serving' = serving \cup {m} /\ UNCHANGED at_vc
          ELSE at_vc' = at_vc \cup {m.buffer} /\ UNCHANGED serving
  /\ to_vc' = Tail(to_vc)
  /\ UNCHANGED <<client, pool, bulk_lock, from_vc, bulk_rx, returning, owner, threads>>

Answer(m) ==
  /\ serving' = serving \ {m}
  /\ from_vc' = Append(from_vc, [waiter |-> m.waiter, from |-> m.from, buffer |-> NoBuffer,
                                 kind |-> "direct"])
  /\ UNCHANGED <<client, pool, bulk_lock, to_vc, bulk_tx, at_vc, bulk_rx, returning, owner, threads>>

\* A buffer comes back with data to be transferred, as the empty end of the stream, or
\* with no data to transfer (zero copy, data in the message, or none at all).
Return(b, kind) ==
  /\ at_vc' = at_vc \ {b}
  /\ from_vc' = Append(from_vc, [waiter |-> NoWaiter, from |-> NoCaller, buffer |-> b,
                                 kind |-> kind])
  /\ returning' = Append(returning, [buffer |-> b, kind |-> kind])
  /\ UNCHANGED <<client, pool, bulk_lock, to_vc, bulk_tx, serving, bulk_rx, owner, threads>>

-----------------------------------------------------------------------------
(* The VCHIQ thread: mmal_vc_vchiq_callback().                             *)

\* Mutant: the caller is woken up, and the reply copied to it afterwards.
CopyReplyLate ==
  /\ replying = NoWaiter
  /\ from_vc # <<>> /\ Head(from_vc).buffer = NoBuffer
  /\ LET m == Head(from_vc) IN
       /\ waiter_sem' = [waiter_sem EXCEPT ![m.waiter] = 1]
       /\ replying' = NoWaiter
  /\ from_vc' = Tail(from_vc)
  /\ UNCHANGED <<client, waitpool_sem, inuse, dest, reply, bulk_lock, to_vc, bulk_tx, serving,
                 at_vc, bulk_rx, returning, owner, threads>>

CopyReply ==
  /\ replying = NoWaiter
  /\ from_vc # <<>> /\ Head(from_vc).buffer = NoBuffer
  /\ LET m == Head(from_vc) IN
       /\ reply' = [reply EXCEPT ![dest[m.waiter]] = m.from]
       /\ replying' = m.waiter
  /\ from_vc' = Tail(from_vc)
  /\ UNCHANGED <<client, waitpool_sem, inuse, waiter_sem, dest, bulk_lock, to_vc, bulk_tx,
                 serving, at_vc, bulk_rx, returning, owner, threads>>

WakeWaiter ==
  /\ replying # NoWaiter
  /\ waiter_sem' = [waiter_sem EXCEPT ![replying] = @ + 1]
  /\ replying' = NoWaiter
  /\ UNCHANGED <<client, waitpool_sem, inuse, dest, reply, bulk_lock, wire, owner, threads>>

\* client_context->callback: the buffer goes to the port's completion queue.
CallBack(b) ==
  /\ \E i \in DOMAIN returning :
       returning[i].buffer = b /\ returning' = RemoveAt(returning, i)
  /\ owner' = [owner EXCEPT ![b] = NoCaller]

\* Mutant: an empty end of stream is called back at once.
BufferEosAtOnce ==
  /\ replying = NoWaiter
  /\ from_vc # <<>> /\ Head(from_vc).buffer # NoBuffer
  /\ LET m == Head(from_vc) IN
       IF m.kind # "filled" THEN CallBack(m.buffer) /\ UNCHANGED bulk_rx
       ELSE bulk_rx' = Append(bulk_rx, m.buffer) /\ UNCHANGED <<returning, owner>>
  /\ from_vc' = Tail(from_vc)
  /\ UNCHANGED <<client, pool, bulk_lock, to_vc, bulk_tx, serving, at_vc, threads>>

Buffer ==
  /\ replying = NoWaiter
  /\ from_vc # <<>> /\ Head(from_vc).buffer # NoBuffer
  /\ LET m == Head(from_vc) IN
       IF m.kind = "direct" THEN CallBack(m.buffer) /\ UNCHANGED bulk_rx
       ELSE bulk_rx' = Append(bulk_rx, m.buffer) /\ UNCHANGED <<returning, owner>>
  /\ from_vc' = Tail(from_vc)
  /\ UNCHANGED <<client, pool, bulk_lock, to_vc, bulk_tx, serving, at_vc, threads>>

\* VCHIQ_BULK_RECEIVE_DONE or _ABORTED, in the order the transfers were queued.
BulkReceived ==
  /\ replying = NoWaiter
  /\ bulk_rx # <<>>
  /\ CallBack(Head(bulk_rx))
  /\ bulk_rx' = Tail(bulk_rx)
  /\ UNCHANGED <<client, pool, bulk_lock, to_vc, bulk_tx, serving, at_vc, from_vc, threads>>

-----------------------------------------------------------------------------
Starts(t) == \/ InitFirst(t) \/ InitFailed(t) \/ InitMore(t)
             \/ \E o \in Ops : Call(t, o)
             \/ \E o \in Ops, b \in Buffers : Send(t, o, b)

\* A thread goes on with its call.
GoesOn(t) == \/ Opened(t) \/ Create(t) \/ Release(t) \/ DeinitMore(t) \/ DeinitLast(t)
             \/ WaitForWaiter(t) \/ Search(t) \/ Claim(t) \/ Queued(t) \/ QueueFailed(t)
             \/ Bulk(t) \/ WaitForReply(t) \/ Unclaim(t) \/ FreeWaiter(t) \/ PostWaiter(t)

VideoCore == \/ Receive
             \/ \E m \in serving : Answer(m)
             \/ \E b \in at_vc, kind \in Kinds : Return(b, kind)

Vchiq == CopyReply \/ WakeWaiter \/ Buffer \/ BulkReceived

Next == \/ \E t \in Callers : Starts(t) \/ GoesOn(t)
        \/ VideoCore \/ Vchiq

Spec == Init /\ [][Next]_vars

\* Threads go on; the bulk lock and waiters go in the end to whoever keeps asking for them;
\* VideoCore takes its messages and answers every call.
Fairness ==
  /\ \A t \in Callers : SF_vars(GoesOn(t))
  /\ WF_vars(Receive) /\ WF_vars(Vchiq)
  /\ \A t \in Callers : WF_vars(\E m \in serving : m.from = t /\ Answer(m))

FairSpec == Spec /\ Fairness

-----------------------------------------------------------------------------
(* Properties.                                                             *)

\* "If this fails, the semaphore is not working": a thread that got past the semaphore
\* finds a waiter that is not in use, although waiters are given back without the lock.
WaiterFound ==
  Cardinality({t \in Callers : At(t, "search")}) <= Cardinality(Waiters \ inuse)

\* A reply reaches the call it answers: the waiter that a message, a call VideoCore serves
\* or a reply names is in use by the thread that sent the message, which waits with it, and
\* no two of them name the same waiter; the thread that goes on has its own reply.
RepliesReachCallers ==
  LET awaited == {m \in Range(to_vc) \cup serving \cup Range(from_vc) : m.buffer = NoBuffer} IN
    /\ \A m \in awaited :
         /\ m.waiter \in inuse /\ waiter[m.from] = m.waiter /\ dest[m.waiter] = m.from
         /\ pc[m.from] \in {"bulk", "reply"}
    /\ \A t \in Callers : waiter[t] # NoWaiter /\ waiter_sem[waiter[t]] > 0 => reply[t] = t

\* The transfers on their way, with the one that a thread has sent the message of.
Transfers ==
  bulk_tx \o (IF bulk_lock # NoCaller /\ At(bulk_lock, "bulk") THEN <<bulk_lock>> ELSE <<>>)

\* How many of the first messages on their way go with a transfer.
Before(i) == Cardinality({j \in 1 .. i : to_vc[j].bulk})

\* Each transfer that VideoCore receives belongs to the message it takes it for: VCHIQ
\* pairs them by their order, so that a thread must not come between the two calls.
BulkFollowsMessage ==
  /\ Len(Transfers) = Before(Len(to_vc))
  /\ \A i \in DOMAIN to_vc : to_vc[i].bulk => to_vc[i].from = Transfers[Before(i)]

\* The service is in use while a component exists or a call is made, and at no other time:
\* "claim VC for entire duration of component" and "no longer require videocore".
Using(t) == pc[t] \notin {"out", "inited", "deinit"}

ClaimedWhileUsed == claimed <=> \E t \in Callers : Using(t)

\* "To handle VC to HOST filled buffer callback of EOS buffer to receive in sync with data
\* buffers": a buffer with data or the end of the stream is called back after those which
\* VideoCore sent before it, although other buffers overtake them.
Synchronised(kind) == kind \in {"filled", "eos"}

InSync ==
  [][\A i \in DOMAIN returning :
       Synchronised(returning[i].kind) /\ returning[i].buffer \notin {r.buffer : r \in Range(returning')}
         => \A j \in 1 .. i - 1 : ~Synchronised(returning[j].kind)]_vars

\* A call returns, however many threads share the waiters, and nobody keeps the bulk lock.
CallsReturn ==
  \A t \in Callers : At(t, "waiter") \/ bulk_lock = t
                       ~> pc[t] \in {"ready", "release"} /\ bulk_lock # t

\* The client is sound: waiters are found, and the service is claimed while it is used.
ClientInv == TypeOK /\ WaiterFound /\ ClaimedWhileUsed
=============================================================================
