-------------------------- MODULE MmalTunnelProofs --------------------------
(***************************************************************************)
(* Theorems about MmalTunnel, for any pools, headers, events and           *)
(* controllers, whatever each of them calls and on whichever port: a port  *)
(* that is disabled is empty, and the pool of a connection is destroyed    *)
(* with its headers home -- unless, as the run MmalTunnelTwoFaults shows,  *)
(* a second failure undoes the undoing of a first.                         *)
(***************************************************************************)
EXTENDS MmalTunnel, FiniteSetTheorems, TLAPS

\* The obligation: the error path of mmal_port_enable() does not look at what
\* mmal_port_disable_internal() returns, so that must not fail there.
UndoAccepted == \A c \in Controllers : ~(op[c] = "enable" /\ DisableRefused(c))

-----------------------------------------------------------------------------
(* The inductive invariant, in parts.                                      *)

Inside(p) == {b \in Buffers : at[b] = p}

\* The component of p is in the callback of a buffer that p counts.
Busy(p) == cpc[p] # "idle" /\ ~Uncounted(p)

\* The count of a port is of the buffers its component has, or is giving back.
Accounting ==
  \A p \in Ports :
    /\ IsFiniteSet(Inside(p))
    /\ transit[p] = Cardinality(Inside(p)) + (IF Busy(p) THEN 1 ELSE 0)

\* A buffer in a callback is in the hands of one component's thread.
Carried ==
  /\ \A p \in Ports : cpc[p] \in {"idle", "decrement"} <=> cbuffer[p] = NoBuffer
  /\ \A p \in Ports : cbuffer[p] # NoBuffer => at[cbuffer[p]] = "callback"
  /\ cbuffer["out"] # NoBuffer => cbuffer["out"] # cbuffer["in"]
  /\ \A b \in Buffers : at[b] = "callback" => \E p \in Ports : cbuffer[p] = b

\* Events come out of the output port, and are never sent to it.
Kinds ==
  /\ \A b \in Events : at[b] # "out"
  /\ \A p \in Ports : cpc[p] = "resend" => cbuffer[p] \notin Events

\* A call that has got beyond its checks has the connection locks of both ports.
Locking(c) ==
  /\ pc[c] \notin {"idle", "lock"} => connection_lock[end[c]] = c
  /\ pc[c] \notin {"idle", "lock", "other"} => connection_lock[Other(end[c])] = c

\* A port that is being disabled is the next one of those to be disabled.
Underway(c) == pc[c] \in {"disable", "wait"} => todo[c] # <<>> /\ ~is_enabled[Head(todo[c])]

\* A connection the core owns has its pool when its ports are enabled, and the pool
\* feeds an output port that is enabled.
Alive(c) ==
  /\ pc[c] \in {"first", "second"} /\ core_owns_connection => pool_for_connection \in live
  /\ pc[c] = "start" => pool_for_connection \in live /\ is_enabled["out"]

\* Ports are enabled by a call to enable, and an enable is undone because something failed.
Undo(c) ==
  /\ pc[c] \in {"first", "second", "start"} => op[c] = "enable"
  /\ op[c] = "enable" /\ pc[c] \in {"stop", "disable", "wait"} => faults > 0

CallInv(c) == Locking(c) /\ Underway(c) /\ Alive(c) /\ Undo(c)

DataInv == TypeOK /\ Accounting /\ Carried /\ Kinds

ControlInv == \A c \in Controllers : CallInv(c)

PortsInv == DataInv /\ ControlInv /\ DisabledIsEmpty

Pending(p, s) == \E i \in 1 .. Len(s) : s[i] = p

\* A call that disables ports leaves out only what is disabled.
EmptiedBy(c) ==
  pc[c] \in {"stop", "disable", "wait"} =>
    \A p \in Ports : is_enabled[p] => Pending(p, todo[c])

Emptied == \A c \in Controllers : EmptiedBy(c)

PoolsInv == PortsInv /\ Emptied /\ HeadersHome

-----------------------------------------------------------------------------
(* Lemmas.                                                                 *)

\* The ends of a connection.
LEMMA OtherPort == Other("out") = "in" /\ Other("in") = "out"
<1>1. \A q \in Ports : q # "out" <=> q = "in"
  BY DEF Ports
<1>2. \A q \in Ports : q # "in" <=> q = "out"
  BY DEF Ports
<1> QED BY <1>1, <1>2 DEF Other, Ports

\* A buffer that moves leaves one place for another, and the ports count accordingly.
LEMMA Moved ==
  ASSUME TypeOK, Accounting, NEW b \in Buffers, NEW l \in {"pool", "out", "in", "callback"},
         at' = [at EXCEPT ![b] = l], NEW q \in Ports
  PROVE  /\ IsFiniteSet(Inside(q)')
         /\ q = l /\ at[b] # l => Cardinality(Inside(q)') = Cardinality(Inside(q)) + 1
         /\ q # l /\ at[b] = q => Cardinality(Inside(q)') = Cardinality(Inside(q)) - 1
         /\ (q = l <=> at[b] = q) => Cardinality(Inside(q)') = Cardinality(Inside(q))
<1>1. IsFiniteSet(Inside(q))
  BY DEF Accounting
<1>2. Inside(q)' = IF q = l THEN Inside(q) \cup {b} ELSE Inside(q) \ {b}
  BY DEF Inside, TypeOK
<1>3. b \in Inside(q) <=> at[b] = q
  BY DEF Inside
<1>4. CASE q = l
  BY <1>1, <1>2, <1>3, <1>4, FS_AddElement
<1>5. CASE q # l
  BY <1>1, <1>2, <1>3, <1>5, FS_RemoveElement
<1> QED BY <1>4, <1>5

\* How many buffers a port has is a number, and it is none only if there are none.
LEMMA Counted ==
  ASSUME Accounting, TypeOK, NEW p \in Ports
  PROVE  /\ Cardinality(Inside(p)) \in Nat
         /\ Cardinality(Inside(p)) = 0 => \A b \in Buffers : at[b] # p
         /\ \A b \in Buffers : at[b] = p => Cardinality(Inside(p)) # 0
         /\ transit[p] = 0 => ~Busy(p) /\ \A b \in Buffers : at[b] # p
<1>1. IsFiniteSet(Inside(p)) /\ transit[p] = Cardinality(Inside(p)) + (IF Busy(p) THEN 1 ELSE 0)
  BY DEF Accounting
<1>2. Cardinality(Inside(p)) \in Nat
  BY <1>1, FS_CardinalityType
<1>3. Cardinality(Inside(p)) = 0 <=> Inside(p) = {}
  BY <1>1, FS_EmptySet
<1>4. \A b \in Buffers : b \in Inside(p) <=> at[b] = p
  BY DEF Inside
<1>5. Inside(p) = {} <=> \A b \in Buffers : at[b] # p
  BY <1>4 DEF Inside
<1>6. transit[p] = 0 => ~Busy(p) /\ Cardinality(Inside(p)) = 0
  BY <1>1, <1>2
<1> QED BY <1>2, <1>3, <1>5, <1>6

\* The thread of a component and the buffers stay as they are.
LEMMA DataSame ==
  ASSUME Accounting, Carried, Kinds, UNCHANGED <<transit, at, carrier>>
  PROVE  Accounting' /\ Carried' /\ Kinds'
<1>1. \A p \in Ports : Inside(p)' = Inside(p) /\ (Busy(p)' <=> Busy(p))
  BY DEF Inside, Busy, Uncounted, carrier
<1>2. Accounting'
  BY <1>1 DEF Accounting
<1> QED BY <1>2 DEF Carried, Kinds, carrier

\* The core of a connection is with one call at a time.
LEMMA OneInside ==
  ASSUME TypeOK, NEW c \in Controllers, NEW d \in Controllers, Locking(c), Locking(d),
         pc[c] \notin {"idle", "lock", "other"}, pc[d] \notin {"idle", "lock"}
  PROVE  c = d
<1>1. connection_lock[end[c]] = c /\ connection_lock[Other(end[c])] = c
  BY DEF Locking
<1>2. connection_lock["out"] = c /\ connection_lock["in"] = c
  BY <1>1, OtherPort DEF TypeOK, Ports
<1>3. connection_lock[end[d]] = d /\ end[d] \in Ports
  BY DEF Locking, TypeOK
<1> QED BY <1>2, <1>3 DEF Ports

\* The first of the ports to be disabled, and the rest.
LEMMA NextPort ==
  ASSUME NEW s \in Seq(Ports), s # <<>>
  PROVE  /\ Head(s) \in Ports /\ Tail(s) \in Seq(Ports)
         /\ \A p : Pending(p, s) => p = Head(s) \/ Pending(p, Tail(s))
<1>1. Head(s) \in Ports /\ Tail(s) \in Seq(Ports) /\ Len(s) \in Nat \ {0}
  OBVIOUS
<1>2. ASSUME NEW p, NEW i \in 1 .. Len(s), s[i] = p, p # Head(s) PROVE Pending(p, Tail(s))
  <2>1. i # 1 /\ i - 1 \in 1 .. Len(Tail(s)) /\ Tail(s)[i - 1] = s[i]
    BY <1>1, <1>2
  <2> QED BY <2>1, <1>2 DEF Pending
<1> QED BY <1>1, <1>2 DEF Pending

-----------------------------------------------------------------------------
(* What the threads of the components do.                                  *)

\* The accounting of a port that takes no part in a step.
LEMMA Bystander ==
  ASSUME NEW q, cpc'[q] = cpc[q], cbuffer'[q] = cbuffer[q]
  PROVE  Busy(q)' <=> Busy(q)
BY DEF Busy, Uncounted

\* A buffer that is returned is counted until its callback is over.
LEMMA ReturnData == ASSUME DataInv, NEW p \in Ports, Return(p) PROVE DataInv'
<1> USE DEF DataInv
<1>1. PICK b \in Buffers :
        /\ at[b] = p
        /\ at' = [at EXCEPT ![b] = "callback"]
        /\ cbuffer' = [cbuffer EXCEPT ![p] = b]
  BY DEF Return
<1>2. /\ cpc[p] = "idle"
      /\ cpc' = [cpc EXCEPT ![p] = IF p = "out" THEN "callback" ELSE "release"]
      /\ UNCHANGED <<link, port, connection_lock, pool, control, faults>>
  BY DEF Return
<1>3. b # NoBuffer /\ p # "callback"
  BY TunnelAssumption DEF Ports
<1>4. TypeOK'
  BY <1>1, <1>2 DEF TypeOK, link, port, pool, control, Ports
<1>5. Accounting'
  <2> SUFFICES ASSUME NEW q \in Ports
               PROVE  /\ IsFiniteSet(Inside(q)')
                      /\ transit'[q] = Cardinality(Inside(q)') + (IF Busy(q)' THEN 1 ELSE 0)
    BY DEF Accounting
  <2>1. IsFiniteSet(Inside(q)') /\ transit'[q] = transit[q]
    BY <1>1, <1>2, Moved DEF port
  <2>2. /\ Cardinality(Inside(q)) \in Nat
        /\ transit[q] = Cardinality(Inside(q)) + (IF Busy(q) THEN 1 ELSE 0)
    BY Counted DEF Accounting
  <2>3. CASE q = p
    <3>1. Cardinality(Inside(q)') = Cardinality(Inside(q)) - 1
      BY <1>1, <1>3, <2>3, Moved
    <3>2. ~Busy(q)
      BY <1>2, <2>3 DEF Busy
    <3>3. cpc'[p] # "idle" /\ cbuffer'[p] = b
      BY <1>1, <1>2 DEF TypeOK
    <3>4. b \in Events => p # "out"
      BY <1>1 DEF Kinds
    <3>5. Busy(q)'
      BY <2>3, <3>3, <3>4 DEF Busy, Uncounted
    <3> QED BY <2>1, <2>2, <3>1, <3>2, <3>5
  <2>4. CASE q # p
    <3>1. Cardinality(Inside(q)') = Cardinality(Inside(q))
      BY <1>1, <1>3, <2>4, Moved DEF Ports
    <3>2. Busy(q)' <=> Busy(q)
      BY <1>1, <1>2, <2>4, Bystander DEF TypeOK
    <3> QED BY <2>1, <2>2, <3>1, <3>2
  <2> QED BY <2>3, <2>4
<1>6. Carried'
  <2>1. /\ \A q \in Ports : cbuffer'[q] = IF q = p THEN b ELSE cbuffer[q]
        /\ \A q \in Ports : q # p => cpc'[q] = cpc[q]
        /\ cpc'[p] \notin {"idle", "decrement"}
        /\ \A x \in Buffers : at'[x] = IF x = b THEN "callback" ELSE at[x]
    BY <1>1, <1>2 DEF TypeOK, Ports
  <2>2. at[b] # "callback" /\ p \in Ports /\ b \in Buffers
    BY <1>1, <1>3 DEF Ports
  <2>3. \A q \in Ports : cbuffer[q] # b
    BY <2>2, <1>3 DEF Carried
  <2>4. \A q \in Ports : cpc'[q] \in {"idle", "decrement"} <=> cbuffer'[q] = NoBuffer
    BY <2>1, <1>3 DEF Carried
  <2>5. \A q \in Ports : cbuffer'[q] # NoBuffer => at'[cbuffer'[q]] = "callback"
    <3>1. \A q \in Ports :
            cbuffer[q] # NoBuffer => cbuffer[q] \in Buffers /\ at[cbuffer[q]] = "callback"
      BY DEF Carried, TypeOK
    <3> QED BY <2>1, <2>2, <3>1
  <2>6. cbuffer'["out"] # NoBuffer => cbuffer'["out"] # cbuffer'["in"]
    <3>1. \A q, r \in Ports : q # r /\ cbuffer[q] # NoBuffer => cbuffer[q] # cbuffer[r]
      BY DEF Carried, Ports
    <3>2. \A q, r \in Ports : q # r /\ cbuffer'[q] # NoBuffer => cbuffer'[q] # cbuffer'[r]
      BY <2>1, <2>3, <3>1, <1>3
    <3> QED BY <3>2 DEF Ports
  <2>7. \A x \in Buffers : at'[x] = "callback" => \E q \in Ports : cbuffer'[q] = x
    <3> SUFFICES ASSUME NEW x \in Buffers, at'[x] = "callback"
                 PROVE  \E q \in Ports : cbuffer'[q] = x
      OBVIOUS
    <3>1. CASE x = b
      BY <2>1, <2>2, <3>1
    <3>2. CASE x # b
      <4>1. PICK q \in Ports : cbuffer[q] = x
        BY <2>1, <3>2 DEF Carried
      <4>2. q # p
        <5>1. cbuffer[p] = NoBuffer
          BY <1>2, <2>2 DEF Carried
        <5> QED BY <4>1, <5>1, TunnelAssumption
      <4> QED BY <2>1, <4>1, <4>2
    <3> QED BY <3>1, <3>2
  <2> QED BY <2>4, <2>5, <2>6, <2>7 DEF Carried
<1>7. Kinds'
  BY <1>1, <1>2 DEF TypeOK, Kinds, Ports
<1> QED BY <1>4, <1>5, <1>6, <1>7

\* An event comes and goes without being counted.
LEMMA EventData == ASSUME DataInv, RaiseEvent PROVE DataInv'
<1> USE DEF DataInv
<1>1. PICK e \in Events :
        /\ at[e] = "pool"
        /\ at' = [at EXCEPT ![e] = "callback"]
        /\ cbuffer' = [cbuffer EXCEPT !["out"] = e]
  BY DEF RaiseEvent
<1>2. /\ cpc["out"] = "idle"
      /\ cpc' = [cpc EXCEPT !["out"] = "event"]
      /\ UNCHANGED <<link, port, connection_lock, pool, control, faults>>
  BY DEF RaiseEvent
<1>3. e \in Buffers /\ e # NoBuffer
  BY TunnelAssumption DEF Buffers
<1>4. TypeOK'
  BY <1>1, <1>2, <1>3 DEF TypeOK, link, port, pool, control, Ports
<1>5. Accounting'
  <2> SUFFICES ASSUME NEW q \in Ports
               PROVE  /\ IsFiniteSet(Inside(q)')
                      /\ transit'[q] = Cardinality(Inside(q)') + (IF Busy(q)' THEN 1 ELSE 0)
    BY DEF Accounting
  <2>1. IsFiniteSet(Inside(q)') /\ transit'[q] = transit[q]
    BY <1>1, <1>2, <1>3, Moved DEF port
  <2>2. transit[q] = Cardinality(Inside(q)) + (IF Busy(q) THEN 1 ELSE 0)
    BY DEF Accounting
  <2>3. Cardinality(Inside(q)') = Cardinality(Inside(q))
    BY <1>1, <1>3, Moved DEF Ports
  <2>4. CASE q = "out"
    <3>1. ~Busy(q)
      BY <1>2, <2>4 DEF Busy
    <3>2. ~Busy(q)'
      BY <1>1, <2>4 DEF Busy, Uncounted, TypeOK
    <3> QED BY <2>1, <2>2, <2>3, <3>1, <3>2
  <2>5. CASE q # "out"
    <3>1. Busy(q)' <=> Busy(q)
      BY <1>1, <1>2, <2>5, Bystander DEF TypeOK
    <3> QED BY <2>1, <2>2, <2>3, <3>1
  <2> QED BY <2>4, <2>5
<1>6. Carried'
  <2>1. /\ \A q \in Ports : cbuffer'[q] = IF q = "out" THEN e ELSE cbuffer[q]
        /\ \A q \in Ports : q # "out" => cpc'[q] = cpc[q]
        /\ cpc'["out"] \notin {"idle", "decrement"}
        /\ \A x \in Buffers : at'[x] = IF x = e THEN "callback" ELSE at[x]
    BY <1>1, <1>2 DEF TypeOK, Ports
  <2>2. at[e] # "callback" /\ "out" \in Ports /\ e \in Buffers
    BY <1>1, <1>3 DEF Ports
  <2>3. \A q \in Ports : cbuffer[q] # e
    BY <2>2, <1>3 DEF Carried
  <2>4. \A q \in Ports : cpc'[q] \in {"idle", "decrement"} <=> cbuffer'[q] = NoBuffer
    BY <2>1, <1>3 DEF Carried
  <2>5. \A q \in Ports : cbuffer'[q] # NoBuffer => at'[cbuffer'[q]] = "callback"
    <3>1. \A q \in Ports :
            cbuffer[q] # NoBuffer => cbuffer[q] \in Buffers /\ at[cbuffer[q]] = "callback"
      BY DEF Carried, TypeOK
    <3> QED BY <2>1, <2>2, <3>1
  <2>6. cbuffer'["out"] # NoBuffer => cbuffer'["out"] # cbuffer'["in"]
    <3>1. \A q, r \in Ports : q # r /\ cbuffer[q] # NoBuffer => cbuffer[q] # cbuffer[r]
      BY DEF Carried, Ports
    <3>2. \A q, r \in Ports : q # r /\ cbuffer'[q] # NoBuffer => cbuffer'[q] # cbuffer'[r]
      BY <2>1, <2>3, <3>1, <1>3
    <3> QED BY <3>2 DEF Ports
  <2>7. \A x \in Buffers : at'[x] = "callback" => \E q \in Ports : cbuffer'[q] = x
    <3> SUFFICES ASSUME NEW x \in Buffers, at'[x] = "callback"
                 PROVE  \E q \in Ports : cbuffer'[q] = x
      OBVIOUS
    <3>1. CASE x = e
      BY <2>1, <2>2, <3>1
    <3>2. CASE x # e
      <4>1. PICK q \in Ports : cbuffer[q] = x
        BY <2>1, <3>2 DEF Carried
      <4>2. q # "out"
        <5>1. cbuffer["out"] = NoBuffer
          BY <1>2, <2>2 DEF Carried
        <5> QED BY <4>1, <5>1, TunnelAssumption
      <4> QED BY <2>1, <4>1, <4>2
    <3> QED BY <3>1, <3>2
  <2> QED BY <2>4, <2>5, <2>6, <2>7 DEF Carried
<1>7. Kinds'
  BY <1>1, <1>2, <1>3 DEF TypeOK, Kinds, Ports
<1> QED BY <1>4, <1>5, <1>6, <1>7

\* The callback decides what becomes of the buffer, and keeps it for the while.
LEMMA CallbackData == ASSUME DataInv, ConnectedOutputCallback PROVE DataInv'
<1> USE DEF DataInv
<1>1. /\ cpc["out"] \in {"callback", "event"}
      /\ \E l \in {"send", "release"} : cpc' = [cpc EXCEPT !["out"] = l]
      /\ UNCHANGED <<link, port, connection_lock, pool, at, cbuffer, control>>
      /\ faults' \in 0 .. MaxFaults
  <2>1. UNCHANGED <<link, port, connection_lock, pool, at, cbuffer, control>>
    BY DEF ConnectedOutputCallback
  <2>2. CASE cpc["out"] = "callback" /\ Forward
    BY <2>1, <2>2 DEF Forward, TypeOK
  <2>3. CASE cpc["out"] = "event" /\ ForwardEvent
    BY <2>1, <2>3, TunnelAssumption DEF ForwardEvent, Fault, TypeOK
  <2> QED BY <2>2, <2>3 DEF ConnectedOutputCallback
<1>2. PICK l \in {"send", "release"} : cpc' = [cpc EXCEPT !["out"] = l]
  BY <1>1
<1>3. TypeOK'
  BY <1>1, <1>2 DEF TypeOK, link, port, pool, control, Ports
<1>4. Accounting'
  <2>1. \A q \in Ports : Inside(q)' = Inside(q) /\ transit'[q] = transit[q]
    BY <1>1 DEF Inside, port
  <2>2. \A q \in Ports : Busy(q)' <=> Busy(q)
    BY <1>1, <1>2 DEF Busy, Uncounted, TypeOK, Ports
  <2> QED BY <2>1, <2>2 DEF Accounting
<1>5. Carried'
  BY <1>1, <1>2 DEF TypeOK, Carried, Ports
<1>6. Kinds'
  BY <1>1, <1>2 DEF TypeOK, Kinds, Ports
<1> QED BY <1>3, <1>4, <1>5, <1>6

\* Who has no buffer any more is idle, or about to take it off the count.
LEMMA LeaveBusy ==
  ASSUME TypeOK, NEW p \in Ports, cpc[p] # "idle", Leave(p)
  PROVE  Busy(p)' <=> Busy(p)
<1>1. cbuffer'[p] = NoBuffer /\ NoBuffer \notin Events
  BY TunnelAssumption DEF Leave, TypeOK, Buffers
<1>2. cpc'[p] = IF Uncounted(p) THEN "idle" ELSE "decrement"
  BY DEF Leave, TypeOK
<1>3. ~Uncounted(p)'
  BY <1>1 DEF Uncounted
<1> QED BY <1>2, <1>3 DEF Busy

\* A buffer goes from a callback to a port, which counts it, or to its pool.
LEMMA HandedOn ==
  ASSUME DataInv, NEW p \in Ports, cbuffer[p] # NoBuffer, Leave(p),
         NEW l \in {"pool", "out", "in"}, at' = [at EXCEPT ![cbuffer[p]] = l],
         transit' = IF l = "pool" THEN transit ELSE [transit EXCEPT ![l] = @ + 1],
         l = "out" => cbuffer[p] \notin Events
  PROVE  /\ Accounting' /\ Carried' /\ Kinds'
         /\ transit' \in [Ports -> Nat]
         /\ at' \in [Buffers -> {"pool", "out", "in", "callback"}]
         /\ cpc' \in [Ports -> {"idle", "callback", "event", "send", "release", "resend",
                                "decrement"}]
         /\ cbuffer' \in [Ports -> Buffers \cup {NoBuffer}]
<1> USE DEF DataInv
<1>1. PICK b \in Buffers : b = cbuffer[p] /\ at[b] = "callback"
  BY DEF Carried, TypeOK
<1>2. at' = [at EXCEPT ![b] = l]
  BY <1>1
<1>3. cpc[p] \notin {"idle", "decrement"}
  BY DEF Carried
<1>4. /\ cpc' = [cpc EXCEPT ![p] = IF Uncounted(p) THEN "idle" ELSE "decrement"]
      /\ cbuffer' = [cbuffer EXCEPT ![p] = NoBuffer]
  BY DEF Leave
<1>5. /\ transit' \in [Ports -> Nat]
      /\ \A q \in Ports : transit'[q] = IF q = l THEN transit[q] + 1 ELSE transit[q]
  BY DEF TypeOK, Ports
<1>6. /\ at' \in [Buffers -> {"pool", "out", "in", "callback"}]
      /\ cbuffer' \in [Ports -> Buffers \cup {NoBuffer}]
  BY <1>2, <1>4 DEF TypeOK
<1>7. cpc' \in [Ports -> {"idle", "callback", "event", "send", "release", "resend", "decrement"}]
  BY <1>4 DEF TypeOK
<1>8. Accounting'
  <2> SUFFICES ASSUME NEW q \in Ports
               PROVE  /\ IsFiniteSet(Inside(q)')
                      /\ transit'[q] = Cardinality(Inside(q)') + (IF Busy(q)' THEN 1 ELSE 0)
    BY DEF Accounting
  <2>1. /\ IsFiniteSet(Inside(q)')
        /\ Cardinality(Inside(q)') = IF q = l THEN Cardinality(Inside(q)) + 1
                                     ELSE Cardinality(Inside(q))
    BY <1>1, <1>2, Moved DEF Ports
  <2>2. /\ Cardinality(Inside(q)) \in Nat
        /\ transit[q] = Cardinality(Inside(q)) + (IF Busy(q) THEN 1 ELSE 0)
    BY Counted DEF Accounting
  <2>3. Busy(q)' <=> Busy(q)
    <3>1. CASE q = p
      BY <1>3, <3>1, LeaveBusy
    <3>2. CASE q # p
      BY <1>4, <3>2, Bystander DEF TypeOK
    <3> QED BY <3>1, <3>2
  <2> QED BY <1>5, <2>1, <2>2, <2>3
<1>9. Carried'
  BY <1>1, <1>2, <1>4 DEF TypeOK, Carried, Ports
<1>10. Kinds'
  BY <1>1, <1>2, <1>4, TunnelAssumption DEF TypeOK, Kinds, Ports
<1> QED BY <1>5, <1>6, <1>7, <1>8, <1>9, <1>10

\* The component keeps the buffer: no count changes, and it is released next.
LEMMA Kept ==
  ASSUME DataInv, NEW p \in Ports, cpc[p] \notin {"idle", "decrement"},
         NEW l \in {"release", "resend"}, cpc' = [cpc EXCEPT ![p] = l],
         l = "resend" => cbuffer[p] \notin Events,
         UNCHANGED <<at, transit, cbuffer>>
  PROVE  /\ Accounting' /\ Carried' /\ Kinds'
         /\ cpc' \in [Ports -> {"idle", "callback", "event", "send", "release", "resend",
                                "decrement"}]
<1> USE DEF DataInv
<1>1. \A q \in Ports : Inside(q)' = Inside(q) /\ transit'[q] = transit[q]
  BY DEF Inside
<1>2. \A q \in Ports : Busy(q)' <=> Busy(q)
  BY DEF Busy, Uncounted, TypeOK
<1>3. Accounting'
  BY <1>1, <1>2 DEF Accounting
<1>4. Carried'
  BY DEF TypeOK, Carried, Ports
<1>5. Kinds'
  BY DEF TypeOK, Kinds, Ports
<1> QED BY <1>3, <1>4, <1>5 DEF TypeOK

\* The input port takes the buffer, or it is released.
LEMMA SendOnData == ASSUME DataInv, SendOn PROVE DataInv'
<1> USE DEF DataInv
<1>1. cpc["out"] = "send" /\ "out" \in Ports /\ UNCHANGED <<link, connection_lock, pool, control>>
  BY DEF SendOn, Ports
<1>2. cbuffer["out"] # NoBuffer
  BY <1>1 DEF Carried
<1>3. CASE Accepted("in", cbuffer["out"]) /\ Leave("out")
  <2>1. /\ at' = [at EXCEPT ![cbuffer["out"]] = "in"]
        /\ transit' = [transit EXCEPT !["in"] = @ + 1]
        /\ UNCHANGED <<is_enabled, callback, faults>>
    BY <1>3 DEF Accepted
  <2>2. /\ Accounting' /\ Carried' /\ Kinds'
        /\ transit' \in [Ports -> Nat]
        /\ at' \in [Buffers -> {"pool", "out", "in", "callback"}]
        /\ cpc' \in [Ports -> {"idle", "callback", "event", "send", "release", "resend",
                               "decrement"}]
        /\ cbuffer' \in [Ports -> Buffers \cup {NoBuffer}]
    BY <1>1, <1>2, <1>3, <2>1, HandedOn
  <2>3. TypeOK'
    BY <1>1, <2>1, <2>2 DEF TypeOK, link, pool, control
  <2> QED BY <2>2, <2>3
<1>4. CASE /\ Refused("in")
           /\ cpc' = [cpc EXCEPT !["out"] = "release"]
           /\ UNCHANGED <<port, at, cbuffer>>
  <2>1. faults' \in 0 .. MaxFaults
    BY <1>4, TunnelAssumption DEF Refused, Fault, TypeOK
  <2>2. /\ Accounting' /\ Carried' /\ Kinds'
        /\ cpc' \in [Ports -> {"idle", "callback", "event", "send", "release", "resend",
                               "decrement"}]
    BY <1>1, <1>4, Kept DEF port
  <2>3. TypeOK'
    BY <1>1, <1>4, <2>1, <2>2 DEF TypeOK, link, port, pool, control
  <2> QED BY <2>2, <2>3
<1> QED BY <1>3, <1>4 DEF SendOn

\* A buffer that is released goes home, or to the callback of its pool.
LEMMA ReleaseData == ASSUME DataInv, NEW p \in Ports, Release(p) PROVE DataInv'
<1> USE DEF DataInv
<1>1. cpc[p] = "release" /\ UNCHANGED <<link, port, connection_lock, pool, control, faults>>
  BY DEF Release
<1>2. cbuffer[p] # NoBuffer
  BY <1>1 DEF Carried
<1>3. CASE /\ cbuffer[p] \notin Events
           /\ cpc' = [cpc EXCEPT ![p] = "resend"] /\ UNCHANGED <<at, cbuffer>>
  <2>1. /\ Accounting' /\ Carried' /\ Kinds'
        /\ cpc' \in [Ports -> {"idle", "callback", "event", "send", "release", "resend",
                               "decrement"}]
    BY <1>1, <1>3, Kept DEF port
  <2>2. TypeOK'
    BY <1>1, <1>3, <2>1 DEF TypeOK, link, port, pool, control
  <2> QED BY <2>1, <2>2
<1>4. CASE at' = [at EXCEPT ![cbuffer[p]] = "pool"] /\ Leave(p)
  <2>1. transit' = transit
    BY <1>1 DEF port
  <2>2. /\ Accounting' /\ Carried' /\ Kinds'
        /\ at' \in [Buffers -> {"pool", "out", "in", "callback"}]
        /\ cpc' \in [Ports -> {"idle", "callback", "event", "send", "release", "resend",
                               "decrement"}]
        /\ cbuffer' \in [Ports -> Buffers \cup {NoBuffer}]
    BY <1>2, <1>4, <2>1, HandedOn
  <2>3. TypeOK'
    BY <1>1, <2>2 DEF TypeOK, link, port, pool, control
  <2> QED BY <2>2, <2>3
<1> QED BY <1>3, <1>4 DEF Release

\* The callback of the pool sends it to the output port again, or lets it go home.
LEMMA PoolCallbackData == ASSUME DataInv, NEW p \in Ports, ConnectedPoolCallback(p) PROVE DataInv'
<1> USE DEF DataInv
<1>1. cpc[p] = "resend" /\ Leave(p) /\ UNCHANGED <<link, connection_lock, pool, control>>
  BY DEF ConnectedPoolCallback
<1>2. cbuffer[p] # NoBuffer /\ cbuffer[p] \notin Events
  BY <1>1 DEF Carried, Kinds
<1>3. CASE Accepted("out", cbuffer[p])
  <2>1. /\ at' = [at EXCEPT ![cbuffer[p]] = "out"]
        /\ transit' = [transit EXCEPT !["out"] = @ + 1]
        /\ UNCHANGED <<is_enabled, callback, faults>>
    BY <1>3 DEF Accepted
  <2>2. /\ Accounting' /\ Carried' /\ Kinds'
        /\ transit' \in [Ports -> Nat]
        /\ at' \in [Buffers -> {"pool", "out", "in", "callback"}]
        /\ cpc' \in [Ports -> {"idle", "callback", "event", "send", "release", "resend",
                               "decrement"}]
        /\ cbuffer' \in [Ports -> Buffers \cup {NoBuffer}]
    BY <1>1, <1>2, <2>1, HandedOn
  <2>3. TypeOK'
    BY <1>1, <2>1, <2>2 DEF TypeOK, link, pool, control
  <2> QED BY <2>2, <2>3
<1>4. CASE Refused("out") /\ at' = [at EXCEPT ![cbuffer[p]] = "pool"] /\ UNCHANGED port
  <2>1. faults' \in 0 .. MaxFaults
    BY <1>4, TunnelAssumption DEF Refused, Fault, TypeOK
  <2>2. transit' = transit
    BY <1>4 DEF port
  <2>3. /\ Accounting' /\ Carried' /\ Kinds'
        /\ at' \in [Buffers -> {"pool", "out", "in", "callback"}]
        /\ cpc' \in [Ports -> {"idle", "callback", "event", "send", "release", "resend",
                               "decrement"}]
        /\ cbuffer' \in [Ports -> Buffers \cup {NoBuffer}]
    BY <1>1, <1>2, <1>4, <2>2, HandedOn
  <2>4. TypeOK'
    BY <1>1, <1>4, <2>1, <2>3 DEF TypeOK, link, port, pool, control
  <2> QED BY <2>3, <2>4
<1> QED BY <1>3, <1>4 DEF ConnectedPoolCallback

\* The count is taken off after the callback.
LEMMA ReturnDoneData == ASSUME DataInv, NEW p \in Ports, ReturnDone(p) PROVE DataInv'
<1> USE DEF DataInv
<1>1. /\ cpc[p] = "decrement"
      /\ transit' = [transit EXCEPT ![p] = @ - 1]
      /\ cpc' = [cpc EXCEPT ![p] = "idle"]
      /\ UNCHANGED <<link, is_enabled, callback, connection_lock, pool, at, cbuffer, control,
                     faults>>
  BY DEF ReturnDone
<1>2. cbuffer[p] = NoBuffer /\ NoBuffer \notin Events
  BY <1>1, TunnelAssumption DEF Carried, Buffers
<1>3. Busy(p) /\ ~Busy(p)'
  BY <1>1, <1>2 DEF Busy, Uncounted, TypeOK
<1>4. transit[p] \in Nat /\ transit[p] - 1 \in Nat
  <2>1. transit[p] = Cardinality(Inside(p)) + 1 /\ Cardinality(Inside(p)) \in Nat
    BY <1>3, Counted DEF Accounting
  <2> QED BY <2>1
<1>5. TypeOK'
  BY <1>1, <1>4 DEF TypeOK, link, pool, control
<1>6. Accounting'
  <2> SUFFICES ASSUME NEW q \in Ports
               PROVE  /\ IsFiniteSet(Inside(q)')
                      /\ transit'[q] = Cardinality(Inside(q)') + (IF Busy(q)' THEN 1 ELSE 0)
    BY DEF Accounting
  <2>1. Inside(q)' = Inside(q) /\ IsFiniteSet(Inside(q))
    BY <1>1 DEF Inside, Accounting
  <2>2. /\ Cardinality(Inside(q)) \in Nat
        /\ transit[q] = Cardinality(Inside(q)) + (IF Busy(q) THEN 1 ELSE 0)
    BY Counted DEF Accounting
  <2>3. CASE q = p
    <3>1. transit'[q] = transit[q] - 1
      BY <1>1, <2>3 DEF TypeOK
    <3> QED BY <1>3, <2>1, <2>2, <2>3, <3>1
  <2>4. CASE q # p
    <3>1. transit'[q] = transit[q]
      BY <1>1, <2>4 DEF TypeOK
    <3>2. Busy(q)' <=> Busy(q)
      BY <1>1, <2>4, Bystander DEF TypeOK
    <3> QED BY <2>1, <2>2, <3>1, <3>2
  <2> QED BY <2>3, <2>4
<1>7. Carried'
  BY <1>1, <1>2 DEF TypeOK, Carried, Ports
<1>8. Kinds'
  BY <1>1 DEF TypeOK, Kinds, Ports
<1> QED BY <1>5, <1>6, <1>7, <1>8

\* Whatever the threads of the components do, and what they leave alone.
LEMMA CarryData ==
  ASSUME DataInv, Carry
  PROVE  /\ DataInv'
         /\ UNCHANGED <<link, is_enabled, connection_lock, pool, control>> /\ faults' >= faults
<1> USE DEF DataInv
<1>0. faults \in Int /\ faults >= faults
  BY TunnelAssumption DEF TypeOK
<1>1. CASE \E p \in Ports : Return(p)
  BY <1>0, <1>1, ReturnData DEF Return, port
<1>2. CASE RaiseEvent
  BY <1>0, <1>2, EventData DEF RaiseEvent, port
<1>3. CASE ConnectedOutputCallback
  BY <1>0, <1>3, CallbackData DEF ConnectedOutputCallback, Forward, ForwardEvent, Fault, port
<1>4. CASE SendOn
  BY <1>0, <1>4, SendOnData DEF TypeOK, SendOn, Accepted, Refused, Fault, port
<1>5. CASE \E p \in Ports : Release(p)
  BY <1>0, <1>5, ReleaseData DEF Release, port
<1>6. CASE \E p \in Ports : ConnectedPoolCallback(p)
  BY <1>0, <1>6, PoolCallbackData DEF ConnectedPoolCallback, Accepted, Refused, Fault, port
<1>7. CASE \E p \in Ports : ReturnDone(p)
  BY <1>0, <1>7, ReturnDoneData DEF ReturnDone
<1> QED BY <1>1, <1>2, <1>3, <1>4, <1>5, <1>6, <1>7 DEF Carry

\* Whatever they do, they fill only ports that are enabled.
LEMMA CarryFills ==
  ASSUME DataInv, Carry, NEW p \in Ports, ~is_enabled[p], \A b \in Buffers : at[b] # p, ~Busy(p)
  PROVE  (\A b \in Buffers : at'[b] # p) /\ ~Busy(p)'
<1> USE DEF DataInv
<1>1. DataInv' /\ transit \in [Ports -> Nat]
  BY CarryData DEF TypeOK
<1>2. transit[p] = 0
  <2>1. Inside(p) = {}
    BY DEF Inside
  <2>2. transit[p] = Cardinality(Inside(p)) + (IF Busy(p) THEN 1 ELSE 0)
    BY DEF Accounting
  <2>3. Cardinality(Inside(p)) = 0
    BY <2>1, FS_EmptySet
  <2> QED BY <2>2, <2>3
<1>3. transit'[p] <= transit[p]
  <2>1. CASE UNCHANGED transit
    BY <1>2, <2>1
  <2>2. ASSUME NEW q \in Ports, NEW b, Accepted(q, b) PROVE transit'[p] <= transit[p]
    <3>1. q # p /\ transit' = [transit EXCEPT ![q] = @ + 1]
      BY <2>2 DEF Accepted
    <3> QED BY <1>1, <1>2, <3>1
  <2>3. ASSUME NEW q \in Ports, ReturnDone(q) PROVE transit'[p] <= transit[p]
    <3>1. transit' = [transit EXCEPT ![q] = @ - 1]
      BY <2>3 DEF ReturnDone
    <3> QED BY <1>1, <1>2, <3>1
  <2>4. CASE SendOn
    BY <2>1, <2>2, <2>4 DEF SendOn, port, Ports
  <2>5. CASE \E q \in Ports : ConnectedPoolCallback(q)
    BY <2>1, <2>2, <2>5 DEF ConnectedPoolCallback, port, Ports
  <2>6. CASE RaiseEvent \/ ConnectedOutputCallback \/ \E q \in Ports : Return(q) \/ Release(q)
    BY <2>1, <2>6 DEF RaiseEvent, ConnectedOutputCallback, Return, Release, port
  <2> QED BY <2>3, <2>4, <2>5, <2>6 DEF Carry
<1>4. transit'[p] = 0
  BY <1>1, <1>2, <1>3 DEF TypeOK
<1>5. Accounting' /\ TypeOK'
  BY <1>1
<1>6. IsFiniteSet(Inside(p)') /\ transit'[p] = Cardinality(Inside(p)') + (IF Busy(p)' THEN 1 ELSE 0)
  BY <1>5 DEF Accounting
<1>7. Cardinality(Inside(p)') \in Nat
  BY <1>6, FS_CardinalityType
<1>8. Cardinality(Inside(p)') = 0 /\ ~Busy(p)'
  BY <1>4, <1>6, <1>7
<1>9. Inside(p)' = {}
  BY <1>6, <1>8, FS_EmptySet
<1> QED BY <1>8, <1>9 DEF Inside

\* They leave the calls alone.
LEMMA CarryPorts == ASSUME PortsInv, Carry PROVE PortsInv'
<1>1. /\ DataInv /\ DataInv'
      /\ UNCHANGED <<link, is_enabled, connection_lock, pool, control>> /\ faults' >= faults
  BY CarryData DEF PortsInv
<1>2. faults \in Nat /\ faults' \in Nat
  BY <1>1, TunnelAssumption DEF DataInv, TypeOK
<1>3. \A c \in Controllers : CallInv(c) => CallInv(c)'
  BY <1>1, <1>2 DEF CallInv, Locking, Underway, Alive, Undo, link, pool, control
<1>4. ControlInv'
  BY <1>3 DEF PortsInv, ControlInv
<1>5. DisabledIsEmpty'
  <2> SUFFICES ASSUME NEW p \in Ports, ~is_enabled'[p], ~Stopping(p)'
               PROVE  (\A b \in Buffers : at'[b] # p) /\ ~Busy(p)'
    BY DEF DisabledIsEmpty, Busy
  <2>1. ~is_enabled[p] /\ ~Stopping(p)
    BY <1>1 DEF Stopping, control
  <2>2. (\A b \in Buffers : at[b] # p) /\ ~Busy(p)
    BY <2>1 DEF PortsInv, DisabledIsEmpty, Busy
  <2> QED BY <1>1, <2>1, <2>2, CarryFills
<1> QED BY <1>1, <1>4, <1>5 DEF PortsInv

-----------------------------------------------------------------------------
(* What the calls do.                                                      *)

\* What a call does to itself, it does to no other.
LEMMA OthersSame ==
  ASSUME TypeOK, NEW c \in Controllers, NEW d \in Controllers, d # c, Call(c) \/ Proceed(c)
  PROVE  pc'[d] = pc[d] /\ op'[d] = op[d] /\ end'[d] = end[d] /\ todo'[d] = todo[d]
<1> USE DEF Goto
<1>1. CASE Call(c)
  BY <1>1 DEF Call, TypeOK
<1>2. CASE LockOwn(c) \/ Connect(c) \/ EnableConnection(c) \/ DisableAccepted(c) \/ Disconnect(c)
  BY <1>2 DEF LockOwn, Connect, EnableConnection, DisableAccepted, Disconnect, TypeOK
<1>3. CASE EnableFirst(c) \/ EnableSecond(c)
  BY <1>3 DEF EnableFirst, EnableSecond, EnablePort, EnableError, TypeOK
<1>4. CASE Populate(c)
  BY <1>4 DEF Populate, EnableError, TypeOK
<1>5. CASE Disable(c) \/ StopPort(c) \/ DisableRefused(c)
  BY <1>5 DEF Disable, StopPort, DisableRefused, TypeOK
<1>6. CASE WaitForBuffers(c) \/ DisableConnection(c) \/ Unlock(c)
  BY <1>6 DEF WaitForBuffers, DisableConnection, Unlock, TypeOK
<1> QED BY <1>1, <1>2, <1>3, <1>4, <1>5, <1>6 DEF Proceed

\* Locks are taken when they are free, and given up by their holder.
LEMMA LocksKept ==
  ASSUME TypeOK, NEW c \in Controllers, CallInv(c), Call(c) \/ Proceed(c), NEW p \in Ports,
         connection_lock[p] \notin {NoThread, c}
  PROVE  connection_lock'[p] = connection_lock[p]
<1>1. CASE Unlock(c)
  <2>1. pc[c] = "unlock" /\ end[c] \in Ports
    BY <1>1 DEF Unlock, TypeOK
  <2>2. connection_lock[end[c]] = c /\ connection_lock[Other(end[c])] = c
    BY <2>1 DEF CallInv, Locking
  <2> QED BY <2>1, <2>2, OtherPort DEF Ports
<1>2. CASE LockOwn(c)
  BY <1>2 DEF LockOwn, TypeOK
<1>3. CASE Connect(c) \/ EnableConnection(c) \/ Disable(c)
  <2>1. connection_lock[Other(end[c])] = NoThread /\ LockOther(c)
    BY <1>3 DEF Connect, EnableConnection, Disable, HasOther
  <2> QED BY <2>1 DEF LockOther, TypeOK
<1>4. CASE \/ Call(c) \/ EnableFirst(c) \/ EnableSecond(c) \/ Populate(c) \/ StopPort(c)
           \/ DisableRefused(c) \/ DisableAccepted(c) \/ WaitForBuffers(c) \/ DisableConnection(c)
           \/ Disconnect(c)
  BY <1>4 DEF Call, EnableFirst, EnableSecond, Populate, StopPort, DisableRefused,
       DisableAccepted, WaitForBuffers, DisableConnection, Disconnect
<1> QED BY <1>1, <1>2, <1>3, <1>4 DEF Proceed

\* A call that is at its beginning touches no port and no pool.
LEMMA BeginsQuietly ==
  ASSUME TypeOK, NEW c \in Controllers, Call(c) \/ LockOwn(c)
  PROVE  /\ UNCHANGED <<link, port, pool, at, carrier, todo, faults>>
         /\ pc'[c] \in {"idle", "lock", "other"} /\ pc[c] \in {"idle", "lock"}
         /\ pc' \in [Controllers -> {"idle", "lock", "other", "first", "second", "start",
                                     "stop", "disable", "wait", "clear", "unlock"}]
         /\ op' \in [Controllers -> Operations \cup {"none"}]
         /\ end' \in [Controllers -> Ports]
         /\ connection_lock' \in [Ports -> Controllers \cup {NoThread}]
         /\ pc'[c] = "other" => connection_lock'[end'[c]] = c
<1>1. CASE Call(c)
  <2>1. PICK o \in Calls[c], p \in Ends[c] :
          op' = [op EXCEPT ![c] = o] /\ end' = [end EXCEPT ![c] = p]
    BY <1>1 DEF Call
  <2>2. o \in Operations /\ p \in Ports
    BY TunnelAssumption
  <2>3. /\ pc[c] = "idle" /\ pc' = [pc EXCEPT ![c] = "lock"]
        /\ UNCHANGED <<link, port, connection_lock, pool, at, carrier, todo, faults>>
    BY <1>1 DEF Call, Goto
  <2>4. op' \in [Controllers -> Operations \cup {"none"}] /\ end' \in [Controllers -> Ports]
    BY <2>1, <2>2 DEF TypeOK
  <2> QED BY <2>3, <2>4 DEF TypeOK
<1>2. CASE LockOwn(c)
  <2>1. pc[c] = "lock" /\ UNCHANGED <<link, port, pool, at, carrier, op, end, todo, faults>>
    BY <1>2 DEF LockOwn
  <2>2. end[c] \in Ports
    BY DEF TypeOK
  <2>3. CASE Goto(c, "idle") /\ UNCHANGED connection_lock
    BY <2>1, <2>3 DEF Goto, TypeOK
  <2>4. CASE Goto(c, "other") /\ connection_lock' = [connection_lock EXCEPT ![end[c]] = c]
    BY <2>1, <2>2, <2>4 DEF Goto, TypeOK
  <2> QED BY <1>2, <2>3, <2>4 DEF LockOwn
<1> QED BY <1>1, <1>2

\* The calls of the others stay sound: only one has both locks, and until it has them it
\* leaves everything else alone.
LEMMA OthersSound ==
  ASSUME PortsInv, NEW c \in Controllers, NEW d \in Controllers, d # c, Call(c) \/ Proceed(c)
  PROVE  CallInv(d)'
<1>1. TypeOK /\ CallInv(c) /\ CallInv(d) /\ Locking(c) /\ Locking(d)
  BY DEF PortsInv, DataInv, ControlInv, CallInv
<1>2. pc'[d] = pc[d] /\ op'[d] = op[d] /\ end'[d] = end[d] /\ todo'[d] = todo[d]
  BY <1>1, OthersSame
<1>3. end[d] \in Ports /\ Other(end[d]) \in Ports /\ d \notin {NoThread, c}
  BY <1>1, OtherPort, TunnelAssumption DEF TypeOK, Ports
<1>4. \A p \in Ports : connection_lock[p] = d => connection_lock'[p] = d
  BY <1>1, <1>3, LocksKept
<1>5. Locking(d)'
  BY <1>1, <1>2, <1>3, <1>4 DEF Locking
<1>6. CASE Call(c) \/ LockOwn(c)
  <2>1. UNCHANGED <<link, port, pool, todo, faults>>
    BY <1>1, <1>6, BeginsQuietly
  <2>2. Underway(d)' /\ Alive(d)' /\ Undo(d)'
    BY <1>1, <1>2, <2>1 DEF CallInv, Underway, Alive, Undo, link, port, pool
  <2> QED BY <1>5, <2>2 DEF CallInv
<1>7. CASE ~(Call(c) \/ LockOwn(c))
  <2>1. pc[c] \notin {"idle", "lock"}
    BY <1>7 DEF Proceed, Connect, EnableConnection, EnableFirst, EnableSecond, Populate, Disable,
         StopPort, DisableRefused, DisableAccepted, WaitForBuffers, DisableConnection,
         Disconnect, Unlock, HasOther
  <2>2. pc[d] \in {"idle", "lock", "other"}
    BY <1>1, <2>1, OneInside
  <2> QED BY <1>2, <1>5, <2>2 DEF CallInv, Underway, Alive, Undo
<1> QED BY <1>6, <1>7

\* What a step of call c has to establish itself.
CallSound(c) == DataInv /\ CallInv(c) /\ DisabledIsEmpty

\* A call that is not in the middle of disabling a port, and disables none.
LEMMA StillEmpty ==
  ASSUME PortsInv, NEW c \in Controllers, Call(c) \/ Proceed(c), pc[c] \notin {"disable", "wait"},
         UNCHANGED <<at, carrier>>, NEW p \in Ports, ~is_enabled[p], ~Stopping(p)'
  PROVE  /\ \A b \in Buffers : at'[b] # p
         /\ cpc'[p] # "idle" => Uncounted(p)'
<1>1. TypeOK
  BY DEF PortsInv, DataInv
<1>2. ~Stopping(p)
  <2> SUFFICES ASSUME Stopping(p) PROVE FALSE
    OBVIOUS
  <2>1. PICK d \in Controllers :
          todo[d] # <<>> /\ Head(todo[d]) = p /\ pc[d] \in {"disable", "wait"}
    BY DEF Stopping
  <2>2. todo'[d] = todo[d] /\ pc'[d] = pc[d]
    BY <1>1, <2>1, OthersSame
  <2> QED BY <2>1, <2>2 DEF Stopping
<1> QED BY <1>2 DEF PortsInv, DisabledIsEmpty, Uncounted, carrier

\* A call begins, or is refused.
LEMMA BeginSound ==
  ASSUME PortsInv, NEW c \in Controllers, Call(c) \/ LockOwn(c)
  PROVE  CallSound(c)'
<1> USE DEF PortsInv, DataInv
<1>1. /\ UNCHANGED <<link, port, pool, at, carrier, todo, faults>>
      /\ pc'[c] \in {"idle", "lock", "other"} /\ pc[c] \in {"idle", "lock"}
      /\ pc' \in [Controllers -> {"idle", "lock", "other", "first", "second", "start",
                                  "stop", "disable", "wait", "clear", "unlock"}]
      /\ op' \in [Controllers -> Operations \cup {"none"}]
      /\ end' \in [Controllers -> Ports]
      /\ connection_lock' \in [Ports -> Controllers \cup {NoThread}]
      /\ pc'[c] = "other" => connection_lock'[end'[c]] = c
  BY BeginsQuietly
<1>2. TypeOK'
  BY <1>1 DEF TypeOK, link, port, pool, carrier
<1>3. Accounting' /\ Carried' /\ Kinds'
  BY <1>1, DataSame DEF port
<1>4. CallInv(c)'
  BY <1>1 DEF CallInv, Locking, Underway, Alive, Undo
<1>5. DisabledIsEmpty'
  BY <1>1, StillEmpty DEF DisabledIsEmpty, port, Proceed
<1> QED BY <1>2, <1>3, <1>4, <1>5 DEF CallSound

\* A call gets its second lock.
LEMMA SecondLock ==
  ASSUME PortsInv, NEW c \in Controllers, HasOther(c), LockOther(c),
         NEW l \in {"first", "stop", "clear", "unlock"}, Goto(c, l), UNCHANGED <<op, end>>
  PROVE  /\ connection_lock' \in [Ports -> Controllers \cup {NoThread}]
         /\ pc' \in [Controllers -> {"idle", "lock", "other", "first", "second", "start",
                                     "stop", "disable", "wait", "clear", "unlock"}]
         /\ pc[c] = "other" /\ pc'[c] = l /\ Locking(c)'
<1> USE DEF PortsInv, DataInv
<1>1. pc[c] = "other" /\ connection_lock' = [connection_lock EXCEPT ![Other(end[c])] = c]
  BY DEF HasOther, LockOther
<1>2. end[c] \in Ports /\ Other(end[c]) \in Ports
  BY OtherPort DEF TypeOK, Ports
<1>3. connection_lock[end[c]] = c
  BY <1>1 DEF ControlInv, CallInv, Locking
<1>4. connection_lock'[end[c]] = c /\ connection_lock'[Other(end[c])] = c
  BY <1>1, <1>2, <1>3 DEF TypeOK
<1>5. pc' \in [Controllers -> {"idle", "lock", "other", "first", "second", "start",
                               "stop", "disable", "wait", "clear", "unlock"}] /\ pc'[c] = l
  BY DEF Goto, TypeOK
<1> QED BY <1>1, <1>2, <1>4, <1>5 DEF Locking, TypeOK

\* A connection is made, or not.
LEMMA ConnectSound ==
  ASSUME PortsInv, NEW c \in Controllers, Connect(c)
  PROVE  CallSound(c)'
<1> USE DEF PortsInv, DataInv
<1>1. /\ HasOther(c) /\ LockOther(c) /\ Goto(c, "unlock")
      /\ UNCHANGED <<port, pool, at, carrier, op, end, todo, faults>>
      /\ connected' \in BOOLEAN /\ core_owns_connection' \in BOOLEAN
  BY DEF Connect, TypeOK, link
<1>2. /\ connection_lock' \in [Ports -> Controllers \cup {NoThread}]
      /\ pc' \in [Controllers -> {"idle", "lock", "other", "first", "second", "start",
                                  "stop", "disable", "wait", "clear", "unlock"}]
      /\ pc[c] = "other" /\ pc'[c] = "unlock" /\ Locking(c)'
  BY <1>1, SecondLock
<1>3. TypeOK'
  BY <1>1, <1>2 DEF TypeOK, port, pool, carrier
<1>4. Accounting' /\ Carried' /\ Kinds'
  BY <1>1, DataSame DEF port
<1>5. CallInv(c)'
  BY <1>2 DEF CallInv, Underway, Alive, Undo
<1>6. DisabledIsEmpty'
  BY <1>1, <1>2, StillEmpty DEF DisabledIsEmpty, port, Proceed
<1> QED BY <1>3, <1>4, <1>5, <1>6 DEF CallSound

\* A connection the core owns gets a pool before its ports are enabled.
LEMMA EnableConnectionSound ==
  ASSUME PortsInv, NEW c \in Controllers, EnableConnection(c)
  PROVE  CallSound(c)'
<1> USE DEF PortsInv, DataInv
<1>1. PICK l \in {"first", "unlock"} :
        /\ Goto(c, l)
        /\ l = "first" /\ core_owns_connection => pool_for_connection' \in live'
  BY DEF EnableConnection
<1>2. /\ HasOther(c) /\ op[c] = "enable" /\ LockOther(c)
      /\ UNCHANGED <<link, port, at, carrier, op, end, todo>>
  BY DEF EnableConnection
<1>3. /\ pool_for_connection' \in Pools \cup {NoPool}
      /\ pool_cb' \subseteq Pools /\ live' \subseteq Pools
      /\ faults' \in 0 .. MaxFaults
  BY TunnelAssumption DEF EnableConnection, Fault, TypeOK, pool
<1>4. /\ connection_lock' \in [Ports -> Controllers \cup {NoThread}]
      /\ pc' \in [Controllers -> {"idle", "lock", "other", "first", "second", "start",
                                  "stop", "disable", "wait", "clear", "unlock"}]
      /\ pc[c] = "other" /\ pc'[c] = l /\ Locking(c)'
  BY <1>1, <1>2, SecondLock
<1>5. TypeOK'
  BY <1>2, <1>3, <1>4 DEF TypeOK, link, port, carrier
<1>6. Accounting' /\ Carried' /\ Kinds'
  BY <1>2, DataSame DEF port
<1>7. CallInv(c)'
  BY <1>1, <1>2, <1>4 DEF CallInv, Underway, Alive, Undo, link
<1>8. DisabledIsEmpty'
  BY <1>2, <1>4, StillEmpty DEF DisabledIsEmpty, port, Proceed
<1> QED BY <1>5, <1>6, <1>7, <1>8 DEF CallSound

\* The locks stay with a call that goes on.
LEMMA LocksStay ==
  ASSUME TypeOK, NEW c \in Controllers, CallInv(c), pc[c] \notin {"idle", "lock", "other"},
         UNCHANGED <<connection_lock, end>>
  PROVE  Locking(c)'
BY DEF CallInv, Locking

\* A port is enabled, or the enabling is undone.
LEMMA EnablePortSound ==
  ASSUME PortsInv, NEW c \in Controllers, NEW p \in Ports, NEW l \in {"second", "start", "unlock"},
         pc[c] \in {"first", "second"}, EnablePort(c, p, l), Proceed(c),
         l = "second" => pc[c] = "first", l = "start" => core_owns_connection /\ p = "out",
         UNCHANGED <<link, connection_lock, pool, at, carrier, op, end>>
  PROVE  CallSound(c)'
<1> USE DEF PortsInv, DataInv
<1>1. TypeOK /\ CallInv(c) /\ op[c] = "enable"
  BY DEF ControlInv, CallInv, Undo
<1>2. transit' = transit /\ is_enabled' \in [Ports -> BOOLEAN]
      /\ \A q \in Ports : ~is_enabled'[q] => ~is_enabled[q]
  BY DEF EnablePort, TypeOK, port
<1>3. Locking(c)'
  BY <1>1, LocksStay
<1>4. Accounting' /\ Carried' /\ Kinds'
  BY <1>2, DataSame
<1>5. DisabledIsEmpty'
  BY <1>2, StillEmpty DEF DisabledIsEmpty
<1>6. CASE /\ Goto(c, l) /\ UNCHANGED <<todo, faults>> /\ callback' \in [Ports -> BOOLEAN]
           /\ is_enabled'[p]
  <2>1. pc' \in [Controllers -> {"idle", "lock", "other", "first", "second", "start",
                                 "stop", "disable", "wait", "clear", "unlock"}] /\ pc'[c] = l
    BY <1>6 DEF Goto, TypeOK
  <2>2. TypeOK'
    BY <1>2, <1>6, <2>1 DEF TypeOK, link, pool, carrier
  <2>3. core_owns_connection => pool_for_connection \in live
    BY <1>1 DEF CallInv, Alive
  <2>4. CallInv(c)'
    BY <1>1, <1>3, <1>6, <2>1, <2>3 DEF CallInv, Underway, Alive, Undo, link, pool
  <2> QED BY <1>4, <1>5, <2>2, <2>4 DEF CallSound
<1>7. CASE EnableError(c) /\ Fault /\ callback' \in [Ports -> BOOLEAN]
  <2>1. pc' \in [Controllers -> {"idle", "lock", "other", "first", "second", "start",
                                 "stop", "disable", "wait", "clear", "unlock"}] /\ pc'[c] = "stop"
    BY <1>7 DEF EnableError, Goto, TypeOK
  <2>2. todo' \in [Controllers -> Seq(Ports)]
    <3>1. <<Other(end[c]), end[c]>> \in Seq(Ports)
      BY OtherPort DEF TypeOK, Ports
    <3> QED BY <1>7, <3>1 DEF EnableError, TypeOK
  <2>3. faults' \in 0 .. MaxFaults /\ faults' > 0
    BY <1>7, TunnelAssumption DEF Fault, TypeOK
  <2>4. TypeOK'
    BY <1>2, <1>7, <2>1, <2>2, <2>3 DEF TypeOK, link, pool, carrier
  <2>5. CallInv(c)'
    BY <1>3, <2>1, <2>3 DEF CallInv, Underway, Alive, Undo
  <2> QED BY <1>4, <1>5, <2>4, <2>5 DEF CallSound
<1>8. \/ /\ Goto(c, l) /\ UNCHANGED <<todo, faults>> /\ callback' \in [Ports -> BOOLEAN]
         /\ is_enabled'[p]
      \/ EnableError(c) /\ Fault /\ callback' \in [Ports -> BOOLEAN]
  BY DEF EnablePort, TypeOK, port
<1> QED BY <1>6, <1>7, <1>8

\* The ports are enabled one after the other.
LEMMA EnableSound ==
  ASSUME PortsInv, NEW c \in Controllers, EnableFirst(c) \/ EnableSecond(c)
  PROVE  CallSound(c)'
<1>1. Proceed(c) /\ "in" \in Ports /\ "out" \in Ports
  BY DEF Proceed, Ports
<1>2. CASE EnableFirst(c)
  BY <1>1, <1>2, EnablePortSound DEF EnableFirst
<1>3. CASE EnableSecond(c)
  <2>1. PICK l \in {"start", "unlock"} : l = IF core_owns_connection THEN "start" ELSE "unlock"
    OBVIOUS
  <2>2. /\ pc[c] = "second" /\ EnablePort(c, "out", l)
        /\ UNCHANGED <<link, connection_lock, pool, at, carrier, op, end>>
    BY <1>3, <2>1 DEF EnableSecond
  <2>3. l = "start" => core_owns_connection
    BY <2>1
  <2> QED BY <1>1, <2>2, <2>3, EnablePortSound
<1> QED BY <1>2, <1>3

\* A header of the pool goes to the output port, which counts it.
LEMMA Populated ==
  ASSUME DataInv, NEW b \in Buffers, b \notin Events, at[b] = "pool", Accepted("out", b),
         UNCHANGED carrier
  PROVE  /\ Accounting' /\ Carried' /\ Kinds'
         /\ transit' \in [Ports -> Nat]
         /\ at' \in [Buffers -> {"pool", "out", "in", "callback"}]
<1> USE DEF DataInv
<1>1. /\ at' = [at EXCEPT ![b] = "out"]
      /\ transit' = [transit EXCEPT !["out"] = @ + 1]
      /\ UNCHANGED <<cpc, cbuffer>>
  BY DEF Accepted, carrier
<1>2. /\ transit' \in [Ports -> Nat]
      /\ \A q \in Ports : transit'[q] = IF q = "out" THEN transit[q] + 1 ELSE transit[q]
  BY <1>1 DEF TypeOK, Ports
<1>3. Accounting'
  <2> SUFFICES ASSUME NEW q \in Ports
               PROVE  /\ IsFiniteSet(Inside(q)')
                      /\ transit'[q] = Cardinality(Inside(q)') + (IF Busy(q)' THEN 1 ELSE 0)
    BY DEF Accounting
  <2>1. /\ IsFiniteSet(Inside(q)')
        /\ Cardinality(Inside(q)') = IF q = "out" THEN Cardinality(Inside(q)) + 1
                                     ELSE Cardinality(Inside(q))
    BY <1>1, Moved DEF Ports
  <2>2. /\ Cardinality(Inside(q)) \in Nat
        /\ transit[q] = Cardinality(Inside(q)) + (IF Busy(q) THEN 1 ELSE 0)
    BY Counted DEF Accounting
  <2>3. Busy(q)' <=> Busy(q)
    BY <1>1, Bystander
  <2> QED BY <1>2, <2>1, <2>2, <2>3
<1>4. at' \in [Buffers -> {"pool", "out", "in", "callback"}]
  BY <1>1 DEF TypeOK
<1>5. \A q \in Ports : cbuffer[q] # b
  <2>1. b # NoBuffer
    BY TunnelAssumption
  <2> QED BY <2>1 DEF Carried
<1>6. Carried'
  <2>1. \A x \in Buffers : at'[x] = "callback" => at[x] = "callback"
    BY <1>1 DEF TypeOK
  <2>2. \A q \in Ports : cbuffer[q] # NoBuffer => at'[cbuffer[q]] = "callback"
    BY <1>1, <1>5 DEF Carried, TypeOK
  <2> QED BY <1>1, <2>1, <2>2 DEF Carried
<1>7. Kinds'
  BY <1>1 DEF Kinds, TypeOK
<1> QED BY <1>2, <1>3, <1>4, <1>6, <1>7

\* The headers of the pool are sent to the output port, as long as it takes them.
LEMMA PopulateSound ==
  ASSUME PortsInv, NEW c \in Controllers, Populate(c)
  PROVE  CallSound(c)'
<1> USE DEF PortsInv, DataInv
<1>1. /\ pc[c] = "start" /\ Proceed(c)
      /\ UNCHANGED <<link, connection_lock, pool, carrier, op, end>>
  BY DEF Populate, Proceed
<1>2. /\ TypeOK /\ CallInv(c) /\ op[c] = "enable"
      /\ pool_for_connection \in live /\ is_enabled["out"]
  BY <1>1 DEF ControlInv, CallInv, Undo, Alive
<1>3. Locking(c)'
  BY <1>1, <1>2, LocksStay
<1>4. CASE Goto(c, "unlock") /\ UNCHANGED <<port, at, todo, faults>>
  <2>1. pc' \in [Controllers -> {"idle", "lock", "other", "first", "second", "start",
                                 "stop", "disable", "wait", "clear", "unlock"}] /\ pc'[c] = "unlock"
    BY <1>4 DEF Goto, TypeOK
  <2>2. TypeOK'
    BY <1>1, <1>4, <2>1 DEF TypeOK, link, port, pool, carrier
  <2>3. Accounting' /\ Carried' /\ Kinds'
    BY <1>1, <1>4, DataSame DEF port
  <2>4. CallInv(c)'
    BY <1>3, <2>1 DEF CallInv, Underway, Alive, Undo
  <2>5. DisabledIsEmpty'
    BY <1>1, <1>4, StillEmpty DEF DisabledIsEmpty, port
  <2> QED BY <2>2, <2>3, <2>4, <2>5 DEF CallSound
<1>5. ASSUME NEW b \in Headers[pool_for_connection], at[b] = "pool", Accepted("out", b),
             UNCHANGED <<pc, todo>>
      PROVE  CallSound(c)'
  <2>1. b \in Buffers /\ b \notin Events
    BY <1>2, TunnelAssumption DEF TypeOK, Buffers
  <2>2. UNCHANGED <<is_enabled, callback, faults>>
    BY <1>5 DEF Accepted
  <2>3. /\ Accounting' /\ Carried' /\ Kinds'
        /\ transit' \in [Ports -> Nat]
        /\ at' \in [Buffers -> {"pool", "out", "in", "callback"}]
    BY <1>1, <1>5, <2>1, Populated
  <2>4. TypeOK'
    BY <1>1, <1>5, <2>2, <2>3 DEF TypeOK, link, pool, carrier
  <2>5. CallInv(c)'
    BY <1>1, <1>2, <1>3, <1>5, <2>2 DEF CallInv, Underway, Alive, Undo, pool
  <2>6. DisabledIsEmpty'
    <3> SUFFICES ASSUME NEW p \in Ports, ~is_enabled'[p], ~Stopping(p)'
                 PROVE  /\ \A x \in Buffers : at'[x] # p
                        /\ cpc'[p] # "idle" => Uncounted(p)'
      BY DEF DisabledIsEmpty
    <3>1. p # "out" /\ ~is_enabled[p] /\ ~Stopping(p)
      BY <1>2, <1>5, <2>2 DEF Stopping
    <3>2. \A x \in Buffers : at'[x] = p => at[x] = p
      BY <1>5, <3>1 DEF Accepted, TypeOK
    <3> QED BY <1>1, <3>1, <3>2 DEF DisabledIsEmpty, Uncounted, carrier
  <2> QED BY <2>3, <2>4, <2>5, <2>6 DEF CallSound
<1>6. CASE Refused("out") /\ EnableError(c) /\ UNCHANGED <<port, at>>
  <2>1. pc' \in [Controllers -> {"idle", "lock", "other", "first", "second", "start",
                                 "stop", "disable", "wait", "clear", "unlock"}] /\ pc'[c] = "stop"
    BY <1>6 DEF EnableError, Goto, TypeOK
  <2>2. todo' \in [Controllers -> Seq(Ports)]
    <3>1. <<Other(end[c]), end[c]>> \in Seq(Ports)
      BY OtherPort DEF TypeOK, Ports
    <3> QED BY <1>6, <3>1 DEF EnableError, TypeOK
  <2>3. faults' \in 0 .. MaxFaults /\ faults' > 0
    BY <1>2, <1>6, TunnelAssumption DEF Refused, Fault, TypeOK
  <2>4. TypeOK'
    BY <1>1, <1>6, <2>1, <2>2, <2>3 DEF TypeOK, link, port, pool, carrier
  <2>5. Accounting' /\ Carried' /\ Kinds'
    BY <1>1, <1>6, DataSame DEF port
  <2>6. CallInv(c)'
    BY <1>3, <2>1, <2>3 DEF CallInv, Underway, Alive, Undo
  <2>7. DisabledIsEmpty'
    BY <1>1, <1>6, StillEmpty DEF DisabledIsEmpty, port
  <2> QED BY <2>4, <2>5, <2>6, <2>7 DEF CallSound
<1> QED BY <1>4, <1>5, <1>6 DEF Populate

\* A call that disables the ports has both of them before it.
LEMMA DisableSound ==
  ASSUME PortsInv, NEW c \in Controllers, Disable(c)
  PROVE  CallSound(c)'
<1> USE DEF PortsInv, DataInv
<1>1. PICK l \in {"stop", "clear"} : Goto(c, l)
  BY DEF Disable
<1>2. /\ HasOther(c) /\ op[c] \in {"disable", "disconnect"} /\ LockOther(c)
      /\ UNCHANGED <<link, port, pool, at, carrier, op, end, faults>>
  BY DEF Disable
<1>3. todo' \in [Controllers -> Seq(Ports)]
  <2>1. DisableOrder \in Seq(Ports)
    BY DEF DisableOrder, Ports
  <2> QED BY <2>1 DEF Disable, TypeOK
<1>4. /\ connection_lock' \in [Ports -> Controllers \cup {NoThread}]
      /\ pc' \in [Controllers -> {"idle", "lock", "other", "first", "second", "start",
                                  "stop", "disable", "wait", "clear", "unlock"}]
      /\ pc[c] = "other" /\ pc'[c] = l /\ Locking(c)'
  BY <1>1, <1>2, SecondLock
<1>5. TypeOK'
  BY <1>2, <1>3, <1>4 DEF TypeOK, link, port, pool, carrier
<1>6. Accounting' /\ Carried' /\ Kinds'
  BY <1>2, DataSame DEF port
<1>7. CallInv(c)'
  BY <1>2, <1>4 DEF CallInv, Underway, Alive, Undo
<1>8. DisabledIsEmpty'
  BY <1>2, <1>4, StillEmpty DEF DisabledIsEmpty, port, Proceed
<1> QED BY <1>5, <1>6, <1>7, <1>8 DEF CallSound

\* A call goes on from one label to the next.
LEMMA GoesOn ==
  ASSUME TypeOK, NEW c \in Controllers,
         NEW l \in {"idle", "stop", "disable", "wait", "clear", "unlock"}, Goto(c, l)
  PROVE  /\ pc' \in [Controllers -> {"idle", "lock", "other", "first", "second", "start",
                                     "stop", "disable", "wait", "clear", "unlock"}]
         /\ pc'[c] = l
BY DEF Goto, TypeOK

\* A port that was enabled is stopped before it is drained.
LEMMA StopSound ==
  ASSUME PortsInv, NEW c \in Controllers, StopPort(c)
  PROVE  CallSound(c)'
<1> USE DEF PortsInv, DataInv
<1>1. /\ pc[c] = "stop" /\ todo[c] # <<>> /\ Proceed(c)
      /\ UNCHANGED <<link, callback, transit, connection_lock, pool_for_connection, live, at,
                     carrier, op, end, faults>>
  BY DEF StopPort, Proceed
<1>2. TypeOK /\ CallInv(c)
  BY DEF ControlInv
<1>3. todo[c] \in Seq(Ports) /\ Head(todo[c]) \in Ports /\ Tail(todo[c]) \in Seq(Ports)
  BY <1>1, NextPort DEF TypeOK
<1>4. Locking(c)'
  BY <1>1, <1>2, LocksStay
<1>5. Accounting' /\ Carried' /\ Kinds'
  BY <1>1, DataSame
<1>6. pool_cb' \subseteq Pools /\ is_enabled' \in [Ports -> BOOLEAN]
  BY DEF StopPort, TypeOK
<1>7. CASE is_enabled[Head(todo[c])]
  <2>1. /\ is_enabled' = [is_enabled EXCEPT ![Head(todo[c])] = FALSE]
        /\ Goto(c, "disable") /\ UNCHANGED todo
    BY <1>7 DEF StopPort
  <2>2. /\ pc' \in [Controllers -> {"idle", "lock", "other", "first", "second", "start",
                                    "stop", "disable", "wait", "clear", "unlock"}]
        /\ pc'[c] = "disable"
    BY <2>1, GoesOn
  <2>3. TypeOK'
    BY <1>1, <1>6, <2>1, <2>2 DEF TypeOK, link, carrier
  <2>4. ~is_enabled'[Head(todo[c])]
    BY <1>3, <2>1 DEF TypeOK
  <2>5. CallInv(c)'
    BY <1>1, <1>2, <1>4, <2>1, <2>2, <2>4 DEF CallInv, Underway, Alive, Undo
  <2>6. DisabledIsEmpty'
    <3> SUFFICES ASSUME NEW p \in Ports, ~is_enabled'[p], ~Stopping(p)'
                 PROVE  /\ \A b \in Buffers : at'[b] # p
                        /\ cpc'[p] # "idle" => Uncounted(p)'
      BY DEF DisabledIsEmpty
    <3>1. p # Head(todo[c])
      BY <1>1, <2>1, <2>2 DEF Stopping
    <3>2. ~is_enabled[p]
      BY <2>1, <3>1 DEF TypeOK
    <3> QED BY <1>1, <3>2, StillEmpty
  <2> QED BY <1>5, <2>3, <2>5, <2>6 DEF CallSound
<1>8. CASE ~is_enabled[Head(todo[c])]
  <2>1. todo' = [todo EXCEPT ![c] = Tail(@)] /\ UNCHANGED <<is_enabled, pool_cb, pc>>
    BY <1>8 DEF StopPort
  <2>2. TypeOK'
    BY <1>1, <1>3, <2>1 DEF TypeOK, link, carrier
  <2>3. CallInv(c)'
    BY <1>1, <1>2, <1>4, <2>1 DEF CallInv, Underway, Alive, Undo
  <2>4. DisabledIsEmpty'
    BY <1>1, <2>1, StillEmpty DEF DisabledIsEmpty
  <2> QED BY <1>5, <2>2, <2>3, <2>4 DEF CallSound
<1> QED BY <1>7, <1>8

\* A port that refuses to be disabled is enabled again.
LEMMA RefusedSound ==
  ASSUME PortsInv, NEW c \in Controllers, DisableRefused(c)
  PROVE  CallSound(c)'
<1> USE DEF PortsInv, DataInv
<1>1. /\ pc[c] = "disable" /\ Proceed(c)
      /\ is_enabled' = [is_enabled EXCEPT ![Head(todo[c])] = TRUE]
      /\ UNCHANGED <<link, callback, transit, connection_lock, pool, at, carrier, op, end>>
  BY DEF DisableRefused, Proceed
<1>2. TypeOK /\ CallInv(c) /\ todo[c] # <<>>
  BY <1>1 DEF ControlInv, CallInv, Underway
<1>3. Head(todo[c]) \in Ports /\ Tail(todo[c]) \in Seq(Ports) /\ <<>> \in Seq(Ports)
  BY <1>2, NextPort DEF TypeOK
<1>4. PICK l \in {"stop", "unlock"} : Goto(c, l)
  BY DEF DisableRefused
<1>5. /\ pc' \in [Controllers -> {"idle", "lock", "other", "first", "second", "start",
                                  "stop", "disable", "wait", "clear", "unlock"}]
      /\ pc'[c] = l
  BY <1>2, <1>4, GoesOn
<1>6. faults' \in 0 .. MaxFaults /\ faults' > 0
  BY TunnelAssumption DEF DisableRefused, Fault, TypeOK
<1>7. todo' \in [Controllers -> Seq(Ports)]
  BY <1>3 DEF DisableRefused, TypeOK
<1>8. is_enabled' \in [Ports -> BOOLEAN] /\ \A p \in Ports : is_enabled[p] => is_enabled'[p]
  BY <1>1, <1>3 DEF TypeOK
<1>9. TypeOK'
  BY <1>1, <1>5, <1>6, <1>7, <1>8 DEF TypeOK, link, pool, carrier
<1>10. Accounting' /\ Carried' /\ Kinds'
  BY <1>1, DataSame
<1>11. Locking(c)'
  BY <1>1, <1>2, LocksStay
<1>12. CallInv(c)'
  BY <1>5, <1>6, <1>11 DEF CallInv, Underway, Alive, Undo
<1>13. DisabledIsEmpty'
  <2> SUFFICES ASSUME NEW p \in Ports, ~is_enabled'[p], ~Stopping(p)'
               PROVE  /\ \A b \in Buffers : at'[b] # p
                      /\ cpc'[p] # "idle" => Uncounted(p)'
    BY DEF DisabledIsEmpty
  <2>1. p # Head(todo[c]) /\ ~is_enabled[p]
    BY <1>1, <1>3, <1>8 DEF TypeOK
  <2>2. ~Stopping(p)
    <3> SUFFICES ASSUME NEW d \in Controllers, todo[d] # <<>>, Head(todo[d]) = p,
                        pc[d] \in {"disable", "wait"}
                 PROVE  Stopping(p)'
      BY DEF Stopping
    <3>1. d # c
      BY <2>1
    <3>2. todo'[d] = todo[d] /\ pc'[d] = pc[d]
      BY <1>1, <1>2, <3>1, OthersSame
    <3> QED BY <3>2 DEF Stopping
  <2> QED BY <1>1, <2>1, <2>2 DEF DisabledIsEmpty, Uncounted, carrier
<1> QED BY <1>9, <1>10, <1>12, <1>13 DEF CallSound

\* One that does not is waited for.
LEMMA AcceptedSound ==
  ASSUME PortsInv, NEW c \in Controllers, DisableAccepted(c)
  PROVE  CallSound(c)'
<1> USE DEF PortsInv, DataInv
<1>1. /\ pc[c] = "disable" /\ Proceed(c) /\ Goto(c, "wait")
      /\ UNCHANGED <<link, port, connection_lock, pool, at, carrier, op, end, todo, faults>>
  BY DEF DisableAccepted, Proceed
<1>2. TypeOK /\ CallInv(c)
  BY DEF ControlInv
<1>3. /\ pc' \in [Controllers -> {"idle", "lock", "other", "first", "second", "start",
                                  "stop", "disable", "wait", "clear", "unlock"}]
      /\ pc'[c] = "wait"
  BY <1>1, <1>2, GoesOn
<1>4. TypeOK'
  BY <1>1, <1>3 DEF TypeOK, link, port, pool, carrier
<1>5. Accounting' /\ Carried' /\ Kinds'
  BY <1>1, DataSame DEF port
<1>6. Locking(c)'
  BY <1>1, <1>2, LocksStay
<1>7. CallInv(c)'
  BY <1>1, <1>2, <1>3, <1>6 DEF CallInv, Underway, Alive, Undo, port
<1>8. DisabledIsEmpty'
  <2>1. \A p : Stopping(p) => Stopping(p)'
    BY <1>1, <1>3 DEF Stopping, Goto, TypeOK
  <2> QED BY <1>1, <2>1 DEF DisabledIsEmpty, Uncounted, port, carrier
<1> QED BY <1>4, <1>5, <1>7, <1>8 DEF CallSound

\* What has been waited for is gone: a count of none is no buffer.
LEMMA WaitSound ==
  ASSUME PortsInv, NEW c \in Controllers, WaitForBuffers(c)
  PROVE  CallSound(c)'
<1> USE DEF PortsInv, DataInv
<1>1. /\ pc[c] = "wait" /\ Proceed(c) /\ Goto(c, "stop")
      /\ callback' = [callback EXCEPT ![Head(todo[c])] = FALSE]
      /\ todo' = [todo EXCEPT ![c] = Tail(@)]
      /\ UNCHANGED <<link, is_enabled, transit, connection_lock, pool, at, carrier, op, end, faults>>
  BY DEF WaitForBuffers, Proceed
<1>2. TypeOK /\ CallInv(c) /\ todo[c] # <<>>
  BY <1>1 DEF ControlInv, CallInv, Underway
<1>3. Head(todo[c]) \in Ports /\ Tail(todo[c]) \in Seq(Ports)
  BY <1>2, NextPort DEF TypeOK
<1>4. /\ pc' \in [Controllers -> {"idle", "lock", "other", "first", "second", "start",
                                  "stop", "disable", "wait", "clear", "unlock"}]
      /\ pc'[c] = "stop"
  BY <1>1, <1>2, GoesOn
<1>5. TypeOK'
  BY <1>1, <1>3, <1>4 DEF TypeOK, link, pool, carrier
<1>6. Accounting' /\ Carried' /\ Kinds'
  BY <1>1, DataSame
<1>7. Locking(c)'
  BY <1>1, <1>2, LocksStay
<1>8. CallInv(c)'
  BY <1>1, <1>2, <1>4, <1>7 DEF CallInv, Underway, Alive, Undo
<1>9. transit[Head(todo[c])] = 0
  BY DEF WaitForBuffers, Drained
<1>10. DisabledIsEmpty'
  <2> SUFFICES ASSUME NEW p \in Ports, ~is_enabled'[p], ~Stopping(p)'
               PROVE  /\ \A b \in Buffers : at'[b] # p
                      /\ cpc'[p] # "idle" => Uncounted(p)'
    BY DEF DisabledIsEmpty
  <2>1. CASE p = Head(todo[c])
    <3>1. ~Busy(p) /\ \A b \in Buffers : at[b] # p
      BY <1>9, <2>1, Counted
    <3> QED BY <1>1, <3>1 DEF Busy, Uncounted, carrier
  <2>2. CASE p # Head(todo[c])
    <3>1. ~Stopping(p)
      <4> SUFFICES ASSUME NEW d \in Controllers, todo[d] # <<>>, Head(todo[d]) = p,
                          pc[d] \in {"disable", "wait"}
                   PROVE  Stopping(p)'
        BY DEF Stopping
      <4>1. d # c
        BY <2>2
      <4>2. todo'[d] = todo[d] /\ pc'[d] = pc[d]
        BY <1>1, <1>2, <4>1, OthersSame
      <4> QED BY <4>2 DEF Stopping
    <3> QED BY <1>1, <3>1 DEF DisabledIsEmpty, Uncounted, carrier
  <2> QED BY <2>1, <2>2
<1> QED BY <1>5, <1>6, <1>8, <1>10 DEF CallSound

\* The pool is destroyed, the connection is broken, the locks are given up.
LEMMA EndSound ==
  ASSUME PortsInv, NEW c \in Controllers, DisableConnection(c) \/ Disconnect(c) \/ Unlock(c)
  PROVE  CallSound(c)'
<1> USE DEF PortsInv, DataInv
<1>1. TypeOK /\ CallInv(c) /\ Proceed(c)
  BY DEF ControlInv, Proceed
<1>2. CASE DisableConnection(c) \/ Disconnect(c)
  <2>1. /\ pc[c] \in {"stop", "clear"}
        /\ UNCHANGED <<port, connection_lock, at, carrier, op, end, todo>>
    BY <1>2 DEF DisableConnection, Disconnect
  <2>2. PICK l \in {"clear", "unlock"} : Goto(c, l)
    BY <1>2 DEF DisableConnection, Disconnect
  <2>3. /\ pc' \in [Controllers -> {"idle", "lock", "other", "first", "second", "start",
                                    "stop", "disable", "wait", "clear", "unlock"}]
        /\ pc'[c] = l
    BY <1>1, <2>2, GoesOn
  <2>4. /\ connected' \in BOOLEAN /\ core_owns_connection' \in BOOLEAN
        /\ pool_for_connection' \in Pools \cup {NoPool}
        /\ pool_cb' \subseteq Pools /\ live' \subseteq Pools
        /\ faults' \in 0 .. MaxFaults
    <3>1. CASE DisableConnection(c)
      BY <3>1 DEF DisableConnection, TypeOK, link
    <3>2. CASE Disconnect(c)
      <4>1. UNCHANGED <<core_owns_connection, pool>>
        BY <3>2 DEF Disconnect
      <4>2. connected' \in BOOLEAN
        BY <3>2 DEF Disconnect, TypeOK
      <4>3. faults' \in 0 .. MaxFaults
        BY <3>2, TunnelAssumption DEF Disconnect, Fault, TypeOK
      <4> QED BY <4>1, <4>2, <4>3 DEF TypeOK, pool
    <3> QED BY <1>2, <3>1, <3>2
  <2>5. TypeOK'
    BY <2>1, <2>3, <2>4 DEF TypeOK, port, carrier
  <2>6. Accounting' /\ Carried' /\ Kinds'
    BY <2>1, DataSame DEF port
  <2>7. Locking(c)'
    BY <1>1, <2>1, LocksStay
  <2>8. CallInv(c)'
    BY <2>3, <2>7 DEF CallInv, Underway, Alive, Undo
  <2>9. DisabledIsEmpty'
    BY <1>1, <2>1, StillEmpty DEF DisabledIsEmpty, port
  <2> QED BY <2>5, <2>6, <2>8, <2>9 DEF CallSound
<1>3. CASE Unlock(c)
  <2>1. /\ pc[c] = "unlock" /\ Goto(c, "idle")
        /\ connection_lock' = [p \in Ports |-> NoThread]
        /\ op' = [op EXCEPT ![c] = "none"]
        /\ UNCHANGED <<link, port, pool, at, carrier, end, todo, faults>>
    BY <1>3 DEF Unlock, Unlocked
  <2>2. /\ pc' \in [Controllers -> {"idle", "lock", "other", "first", "second", "start",
                                    "stop", "disable", "wait", "clear", "unlock"}]
        /\ pc'[c] = "idle"
    BY <1>1, <2>1, GoesOn
  <2>3. TypeOK'
    BY <2>1, <2>2 DEF TypeOK, link, port, pool, carrier
  <2>4. Accounting' /\ Carried' /\ Kinds'
    BY <2>1, DataSame DEF port
  <2>5. CallInv(c)'
    BY <2>2 DEF CallInv, Locking, Underway, Alive, Undo
  <2>6. DisabledIsEmpty'
    BY <1>1, <2>1, StillEmpty DEF DisabledIsEmpty, port
  <2> QED BY <2>3, <2>4, <2>5, <2>6 DEF CallSound
<1> QED BY <1>2, <1>3

\* Every step of a call, with what the others are left with.
LEMMA CallPorts ==
  ASSUME PortsInv, NEW c \in Controllers, Call(c) \/ Proceed(c)
  PROVE  PortsInv'
<1>1. CallSound(c)'
  BY BeginSound, ConnectSound, EnableConnectionSound, EnableSound, PopulateSound, DisableSound,
     StopSound, RefusedSound, AcceptedSound, WaitSound, EndSound DEF Proceed
<1>2. \A d \in Controllers : d # c => CallInv(d)'
  BY OthersSound
<1> QED BY <1>1, <1>2 DEF CallSound, PortsInv, ControlInv

\* Nothing is connected, sent or held at the start.
LEMMA InitPorts == Init => PortsInv
<1> SUFFICES ASSUME Init PROVE PortsInv
  OBVIOUS
<1>1. TypeOK
  <2>1. /\ connected \in BOOLEAN /\ core_owns_connection \in BOOLEAN
        /\ is_enabled \in [Ports -> BOOLEAN] /\ callback \in [Ports -> BOOLEAN]
        /\ transit \in [Ports -> Nat]
        /\ connection_lock \in [Ports -> Controllers \cup {NoThread}]
    BY DEF Init
  <2>2. /\ pool_for_connection \in Pools \cup {NoPool}
        /\ pool_cb \subseteq Pools /\ live \subseteq Pools
        /\ at \in [Buffers -> {"pool", "out", "in", "callback"}]
    BY DEF Init
  <2>3. /\ cpc \in [Ports -> {"idle", "callback", "event", "send", "release", "resend",
                              "decrement"}]
        /\ cbuffer \in [Ports -> Buffers \cup {NoBuffer}]
    BY DEF Init
  <2>4. /\ op \in [Controllers -> Operations \cup {"none"}]
        /\ pc \in [Controllers -> {"idle", "lock", "other", "first", "second", "start",
                                   "stop", "disable", "wait", "clear", "unlock"}]
        /\ end \in [Controllers -> Ports]
        /\ todo \in [Controllers -> Seq(Ports)]
    BY DEF Init, Ports
  <2>5. faults \in 0 .. MaxFaults
    BY TunnelAssumption DEF Init
  <2> QED BY <2>1, <2>2, <2>3, <2>4, <2>5 DEF TypeOK
<1>2. \A p \in Ports : Inside(p) = {} /\ ~Busy(p) /\ transit[p] = 0
  BY DEF Init, Inside, Busy, Ports
<1>3. Accounting
  BY <1>2, FS_EmptySet DEF Accounting
<1>4. Carried /\ Kinds
  BY DEF Init, Carried, Kinds, Buffers, Ports
<1>5. ControlInv
  BY DEF Init, ControlInv, CallInv, Locking, Underway, Alive, Undo
<1>6. DisabledIsEmpty
  BY DEF Init, DisabledIsEmpty, Ports
<1> QED BY <1>1, <1>3, <1>4, <1>5, <1>6 DEF PortsInv, DataInv

\* The invariant is kept by every step.
LEMMA NextPorts == PortsInv /\ [Next]_vars => PortsInv'
<1> SUFFICES ASSUME PortsInv, [Next]_vars PROVE PortsInv'
  OBVIOUS
<1>1. CASE UNCHANGED vars
  <2>1. UNCHANGED <<link, port, connection_lock, pool, at, carrier, control, faults>>
    BY <1>1 DEF vars
  <2>2. TypeOK'
    BY <2>1 DEF link, port, pool, carrier, control, PortsInv, DataInv, TypeOK
  <2>3. Accounting' /\ Carried' /\ Kinds'
    BY <2>1, DataSame DEF port, PortsInv, DataInv
  <2>4. \A c \in Controllers : CallInv(c) => CallInv(c)'
    BY <2>1 DEF link, port, pool, control, CallInv, Locking, Underway, Alive, Undo
  <2>5. DisabledIsEmpty'
    BY <2>1 DEF port, carrier, control, PortsInv, DisabledIsEmpty, Stopping, Uncounted
  <2> QED BY <2>2, <2>3, <2>4, <2>5 DEF PortsInv, DataInv, ControlInv
<1>2. CASE Carry
  BY <1>2, CarryPorts
<1>3. CASE \E c \in Controllers : Call(c) \/ Proceed(c)
  BY <1>3, CallPorts
<1> QED BY <1>1, <1>2, <1>3 DEF Next

\* A port that is disabled, and not being disabled, has no buffer with its component or in
\* a callback, however many calls fail and whatever they are undone by.
THEOREM DisabledEmpty == Spec => [](TypeOK /\ DisabledIsEmpty)
<1>1. PortsInv => TypeOK /\ DisabledIsEmpty
  BY DEF PortsInv, DataInv
<1> QED BY <1>1, InitPorts, NextPorts, PTL DEF Spec

-----------------------------------------------------------------------------
(* The headers of a pool that is destroyed.                                *)

\* Both ends of a connection are to be disabled.
LEMMA BothPending ==
  ASSUME NEW p \in Ports
  PROVE  /\ Pending(p, DisableOrder)
         /\ \A q \in Ports : Pending(p, <<Other(q), q>>)
<1>1. Pending(p, <<"out", "in">>) /\ Pending(p, <<"in", "out">>)
  <2>1. Len(<<"out", "in">>) = 2 /\ Len(<<"in", "out">>) = 2
    OBVIOUS
  <2>2. 1 \in 1 .. 2 /\ 2 \in 1 .. 2
    OBVIOUS
  <2> QED BY <2>1, <2>2 DEF Pending, Ports
<1> QED BY <1>1, OtherPort DEF DisableOrder, Ports

\* A call leaves out of its list only what it has disabled, if no undoing is undone.
LEMMA CallEmpties ==
  ASSUME PortsInv, Emptied, NEW c \in Controllers, Call(c) \/ Proceed(c), UndoAccepted
  PROVE  EmptiedBy(c)'
<1> USE DEF PortsInv, DataInv
<1>1. TypeOK /\ CallInv(c) /\ EmptiedBy(c)
  BY DEF ControlInv, Emptied
<1>2. CASE \/ Call(c) \/ LockOwn(c)
  <2>1. pc'[c] \in {"idle", "lock", "other"}
    BY <1>2, BeginsQuietly
  <2> QED BY <2>1 DEF EmptiedBy
<1>3. CASE \/ Connect(c) \/ EnableConnection(c) \/ DisableConnection(c) \/ Disconnect(c)
           \/ Unlock(c)
  <2>1. pc'[c] \in {"first", "clear", "unlock", "idle"}
    BY <1>1, <1>3 DEF Connect, EnableConnection, DisableConnection, Disconnect, Unlock, Goto, TypeOK
  <2> QED BY <2>1 DEF EmptiedBy
<1>4. CASE EnableFirst(c) \/ EnableSecond(c) \/ Populate(c)
  <2>1. CASE EnableError(c)
    <3>1. todo'[c] = <<Other(end[c]), end[c]>> /\ end[c] \in Ports
      BY <2>1 DEF EnableError, TypeOK
    <3> QED BY <3>1, BothPending DEF EmptiedBy
  <2>2. CASE ~EnableError(c)
    <3>1. pc'[c] \in {"second", "start", "unlock"}
      BY <1>4, <2>2 DEF EnableFirst, EnableSecond, EnablePort, Populate, Goto, TypeOK
    <3> QED BY <3>1 DEF EmptiedBy
  <2> QED BY <2>1, <2>2
<1>5. CASE Disable(c)
  <2>1. CASE is_enabled[end[c]]
    <3>1. todo'[c] = DisableOrder
      BY <1>5, <2>1 DEF Disable, TypeOK
    <3> QED BY <3>1, BothPending DEF EmptiedBy
  <2>2. CASE ~is_enabled[end[c]]
    <3>1. pc'[c] = "clear"
      BY <1>5, <2>2 DEF Disable, Goto, TypeOK
    <3> QED BY <3>1 DEF EmptiedBy
  <2> QED BY <2>1, <2>2
<1>6. CASE StopPort(c)
  <2>1. pc[c] = "stop" /\ todo[c] # <<>> /\ todo[c] \in Seq(Ports)
    BY <1>6 DEF StopPort, TypeOK
  <2>2. CASE is_enabled[Head(todo[c])]
    <3>1. UNCHANGED todo /\ \A p \in Ports : is_enabled'[p] => is_enabled[p]
      BY <1>6, <2>2 DEF StopPort, TypeOK
    <3> QED BY <1>1, <2>1, <3>1 DEF EmptiedBy
  <2>3. CASE ~is_enabled[Head(todo[c])]
    <3>1. is_enabled' = is_enabled /\ todo'[c] = Tail(todo[c])
      BY <1>6, <2>3 DEF StopPort, TypeOK
    <3>2. \A p : Pending(p, todo[c]) => p = Head(todo[c]) \/ Pending(p, Tail(todo[c]))
      BY <2>1, NextPort
    <3> QED BY <1>1, <2>1, <2>3, <3>1, <3>2 DEF EmptiedBy
  <2> QED BY <2>2, <2>3
<1>7. CASE DisableRefused(c)
  <2>1. op[c] # "enable"
    BY <1>7 DEF UndoAccepted
  <2>2. pc'[c] = "unlock"
    BY <1>7, <2>1 DEF DisableRefused, Goto, TypeOK
  <2> QED BY <2>2 DEF EmptiedBy
<1>8. CASE DisableAccepted(c)
  <2>1. pc[c] = "disable" /\ UNCHANGED <<is_enabled, todo>>
    BY <1>8 DEF DisableAccepted, port
  <2> QED BY <1>1, <2>1 DEF EmptiedBy
<1>9. CASE WaitForBuffers(c)
  <2>1. pc[c] = "wait" /\ UNCHANGED is_enabled /\ todo'[c] = Tail(todo[c])
    BY <1>9 DEF WaitForBuffers, TypeOK
  <2>2. todo[c] # <<>> /\ ~is_enabled[Head(todo[c])] /\ todo[c] \in Seq(Ports)
    BY <1>1, <2>1 DEF CallInv, Underway, TypeOK
  <2>3. \A p : Pending(p, todo[c]) => p = Head(todo[c]) \/ Pending(p, Tail(todo[c]))
    BY <2>2, NextPort
  <2> QED BY <1>1, <2>1, <2>2, <2>3 DEF EmptiedBy
<1> QED BY <1>2, <1>3, <1>4, <1>5, <1>6, <1>7, <1>8, <1>9 DEF Proceed

\* The other calls are not disabling ports at the time, or nothing changes for them.
LEMMA OthersEmptied ==
  ASSUME PortsInv, Emptied, NEW c \in Controllers, NEW d \in Controllers, d # c,
         Call(c) \/ Proceed(c)
  PROVE  EmptiedBy(d)'
<1>1. TypeOK /\ Locking(c) /\ Locking(d) /\ EmptiedBy(d)
  BY DEF PortsInv, DataInv, ControlInv, CallInv, Emptied
<1>2. pc'[d] = pc[d] /\ todo'[d] = todo[d]
  BY <1>1, OthersSame
<1>3. CASE Call(c) \/ LockOwn(c)
  <2>1. UNCHANGED port
    BY <1>1, <1>3, BeginsQuietly
  <2> QED BY <1>1, <1>2, <2>1 DEF EmptiedBy, port
<1>4. CASE ~(Call(c) \/ LockOwn(c))
  <2>1. pc[c] \notin {"idle", "lock"}
    BY <1>4 DEF Proceed, Connect, EnableConnection, EnableFirst, EnableSecond, Populate, Disable,
         StopPort, DisableRefused, DisableAccepted, WaitForBuffers, DisableConnection,
         Disconnect, Unlock, HasOther
  <2>2. pc[d] \in {"idle", "lock", "other"}
    BY <1>1, <2>1, OneInside
  <2> QED BY <1>2, <2>2 DEF EmptiedBy
<1> QED BY <1>3, <1>4

\* A header in its pool is not touched by the components.
LEMMA CarryHome ==
  ASSUME DataInv, Carry, NEW b \in Buffers, b \notin Events, at[b] = "pool"
  PROVE  at'[b] = "pool"
<1> USE DEF DataInv
<1>1. \A p \in Ports : cbuffer[p] # b
  <2>1. b # NoBuffer
    BY TunnelAssumption
  <2> QED BY <2>1 DEF Carried
<1>2. ASSUME NEW x, x # b, NEW l, at' = [at EXCEPT ![x] = l] PROVE at'[b] = "pool"
  BY <1>2 DEF TypeOK
<1>3. CASE UNCHANGED at
  BY <1>3
<1>4. CASE \E p \in Ports : Return(p)
  <2>1. PICK p \in Ports, x \in Buffers : at[x] = p /\ at' = [at EXCEPT ![x] = "callback"]
    BY <1>4 DEF Return
  <2> QED BY <1>2, <2>1 DEF Ports
<1>5. CASE RaiseEvent
  <2>1. PICK e \in Events : at' = [at EXCEPT ![e] = "callback"]
    BY <1>5 DEF RaiseEvent
  <2> QED BY <1>2, <2>1
<1>6. CASE SendOn
  BY <1>1, <1>2, <1>3, <1>6 DEF SendOn, Accepted, Ports
<1>7. CASE \E p \in Ports : Release(p)
  BY <1>1, <1>2, <1>3, <1>7 DEF Release
<1>8. CASE \E p \in Ports : ConnectedPoolCallback(p)
  BY <1>1, <1>2, <1>8 DEF ConnectedPoolCallback, Accepted
<1>9. CASE ConnectedOutputCallback \/ \E p \in Ports : ReturnDone(p)
  BY <1>3, <1>9 DEF ConnectedOutputCallback, ReturnDone
<1> QED BY <1>4, <1>5, <1>6, <1>7, <1>8, <1>9 DEF Carry

\* When both ports have been disabled, every header has come home.
LEMMA AllHome ==
  ASSUME PortsInv, Emptied, NEW c \in Controllers, DisableConnection(c),
         NEW p \in Pools, NEW b \in Headers[p]
  PROVE  at[b] = "pool"
<1> USE DEF PortsInv, DataInv
<1>1. pc[c] = "stop" /\ todo[c] = <<>>
  BY DEF DisableConnection
<1>2. \A q \in Ports : ~is_enabled[q]
  <2>1. \A q : ~Pending(q, <<>>)
    BY DEF Pending
  <2> QED BY <1>1, <2>1 DEF Emptied, EmptiedBy
<1>3. \A q \in Ports : ~Stopping(q)
  <2> SUFFICES ASSUME NEW d \in Controllers, pc[d] \in {"disable", "wait"} PROVE FALSE
    BY DEF Stopping
  <2>1. d = c
    BY <1>1, OneInside DEF ControlInv, CallInv
  <2> QED BY <1>1, <2>1
<1>4. b \in Buffers /\ b \notin Events /\ b # NoBuffer
  <2>1. b \in Buffers
    BY DEF Buffers
  <2> QED BY <2>1, TunnelAssumption
<1>5. \A q \in Ports : at[b] # q
  BY <1>2, <1>3, <1>4 DEF DisabledIsEmpty
<1>6. at[b] # "callback"
  <2> SUFFICES ASSUME at[b] = "callback" PROVE FALSE
    OBVIOUS
  <2>1. PICK q \in Ports : cbuffer[q] = b
    BY <1>4 DEF Carried
  <2>2. cpc[q] # "idle"
    BY <1>4, <2>1 DEF Carried
  <2>3. Uncounted(q)
    BY <1>2, <1>3, <2>2 DEF DisabledIsEmpty
  <2> QED BY <1>4, <2>1, <2>3 DEF Uncounted
<1> QED BY <1>4, <1>5, <1>6 DEF TypeOK, Ports

\* A call takes a header out of a pool that is alive, and destroys one that is complete.
LEMMA CallHome ==
  ASSUME PortsInv, Emptied, HeadersHome, NEW c \in Controllers, Call(c) \/ Proceed(c)
  PROVE  HeadersHome'
<1>1. TypeOK /\ CallInv(c)
  BY DEF PortsInv, DataInv, ControlInv
<1> SUFFICES ASSUME NEW p \in Pools, p \notin live', NEW b \in Headers[p]
             PROVE  at'[b] = "pool"
  BY DEF HeadersHome
<1>2. b \in Buffers
  BY DEF Buffers
<1>3. CASE DisableConnection(c)
  <2>1. at' = at
    BY <1>3 DEF DisableConnection
  <2> QED BY <1>3, <2>1, AllHome
<1>4. CASE UNCHANGED at /\ live \subseteq live'
  BY <1>4 DEF HeadersHome
<1>5. CASE Populate(c)
  <2>1. pool_for_connection \in live /\ live' = live
    BY <1>1, <1>5 DEF Populate, CallInv, Alive, pool
  <2>2. CASE UNCHANGED at
    BY <2>1, <2>2, <1>4
  <2>3. ASSUME NEW x \in Headers[pool_for_connection], Accepted("out", x) PROVE at'[b] = "pool"
    <3>1. pool_for_connection \in Pools /\ pool_for_connection # p
      BY <1>1, <2>1 DEF TypeOK
    <3>2. x # b
      BY <3>1, TunnelAssumption
    <3>3. at' = [at EXCEPT ![x] = "out"]
      BY <2>3 DEF Accepted
    <3>4. at[b] = "pool"
      BY <2>1 DEF HeadersHome
    <3> QED BY <1>1, <1>2, <3>2, <3>3, <3>4 DEF TypeOK
  <2> QED BY <1>5, <2>2, <2>3 DEF Populate
<1>6. CASE EnableConnection(c)
  <2>1. UNCHANGED at /\ live \subseteq live'
    BY <1>6 DEF EnableConnection, pool
  <2> QED BY <1>4, <2>1
<1>7. CASE \/ Call(c) \/ LockOwn(c) \/ Connect(c) \/ EnableFirst(c) \/ EnableSecond(c)
           \/ Disable(c) \/ StopPort(c) \/ DisableRefused(c) \/ DisableAccepted(c)
           \/ WaitForBuffers(c) \/ Disconnect(c) \/ Unlock(c)
  <2>1. UNCHANGED <<at, live>>
    BY <1>7 DEF Call, LockOwn, Connect, EnableFirst, EnableSecond, Disable, StopPort,
         DisableRefused, DisableAccepted, WaitForBuffers, Disconnect, Unlock, pool
  <2> QED BY <1>4, <2>1
<1> QED BY <1>3, <1>5, <1>6, <1>7 DEF Proceed

\* The invariant of the pools is kept by every step that undoes no undoing.
LEMMA NextPools == PoolsInv /\ [Next]_vars /\ [UndoAccepted]_vars => PoolsInv'
<1> SUFFICES ASSUME PoolsInv, [Next]_vars, [UndoAccepted]_vars PROVE Emptied' /\ HeadersHome'
  BY NextPorts DEF PoolsInv
<1> USE DEF PoolsInv
<1>1. CASE UNCHANGED vars
  BY <1>1 DEF vars, port, pool, control, Emptied, EmptiedBy, HeadersHome
<1>2. CASE Carry
  <2>1. DataInv /\ UNCHANGED <<link, is_enabled, connection_lock, pool, control>>
    BY <1>2, CarryData DEF PortsInv
  <2>2. Emptied'
    BY <2>1 DEF Emptied, EmptiedBy, control
  <2>3. HeadersHome'
    <3> SUFFICES ASSUME NEW p \in Pools \ live, NEW b \in Headers[p] PROVE at'[b] = "pool"
      BY <2>1 DEF HeadersHome, pool
    <3>1. b \in Buffers /\ b \notin Events /\ at[b] = "pool"
      BY TunnelAssumption DEF Buffers, HeadersHome
    <3> QED BY <1>2, <2>1, <3>1, CarryHome
  <2> QED BY <2>2, <2>3
<1>3. ASSUME NEW c \in Controllers, Call(c) \/ Proceed(c), UndoAccepted
      PROVE  Emptied' /\ HeadersHome'
  <2>1. EmptiedBy(c)' /\ \A d \in Controllers : d # c => EmptiedBy(d)'
    BY <1>3, CallEmpties, OthersEmptied
  <2> QED BY <1>3, <2>1, CallHome DEF Emptied
<1> QED BY <1>1, <1>2, <1>3 DEF Next

LEMMA InitPools == Init => PoolsInv
<1>1. Init => Emptied
  BY DEF Init, Emptied, EmptiedBy
<1>2. Init => HeadersHome
  BY DEF Init, HeadersHome, Buffers
<1> QED BY <1>1, <1>2, InitPorts DEF PoolsInv

\* A pool is destroyed with its headers home, however many calls fail, if none fails that
\* undoes another.
THEOREM TunnelIsSound == Spec /\ [][UndoAccepted]_vars => []TunnelInv
<1>1. PoolsInv => TunnelInv
  BY DEF PoolsInv, PortsInv, DataInv, TunnelInv
<1> QED BY <1>1, InitPools, NextPools, PTL DEF Spec

\* One failure undoes no undoing, and so does no harm.
THEOREM OneFailure == MaxFaults <= 1 /\ Spec => []TunnelInv
<1> SUFFICES ASSUME MaxFaults <= 1 PROVE Spec => []TunnelInv
  OBVIOUS
<1>1. PortsInv => UndoAccepted
  <2> SUFFICES ASSUME PortsInv, NEW c \in Controllers,
                      op[c] = "enable", DisableRefused(c)
               PROVE  FALSE
    BY DEF UndoAccepted
  <2>1. pc[c] = "disable" /\ faults < MaxFaults
    BY DEF DisableRefused, Fault
  <2>2. faults > 0 /\ faults \in Nat /\ MaxFaults \in Nat
    BY <2>1, TunnelAssumption DEF PortsInv, DataInv, TypeOK, ControlInv, CallInv, Undo
  <2> QED BY <2>1, <2>2
<1>2. PoolsInv /\ [Next]_vars => PoolsInv'
  BY <1>1, NextPools DEF PoolsInv
<1>3. PoolsInv => TunnelInv
  BY DEF PoolsInv, PortsInv, DataInv, TunnelInv
<1> QED BY <1>2, <1>3, InitPools, PTL DEF Spec
=============================================================================
