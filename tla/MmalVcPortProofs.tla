------------------------- MODULE MmalVcPortProofs --------------------------
(***************************************************************************)
(* Theorems about MmalVcPort, for any number of threads, buffers, events   *)
(* and contexts: the contexts of a port are back when its pool is deleted, *)
(* a disable gives every buffer back, and no flush overtakes data.  They   *)
(* are about clients in which the thread that commits formats is the one   *)
(* that enables and disables ports.                                        *)
(***************************************************************************)
EXTENDS MmalVcPort, FiniteSetTheorems, FunctionTheorems, SequenceTheorems, TLAPS

-----------------------------------------------------------------------------
(* The inductive invariant, in layers: the types; where the threads are    *)
(* and the locks they hold; the one place where a call is; the one place   *)
(* where a buffer is; what the two sides think of a port; the stages of a  *)
(* disable; the counters; the order of data and flushes.                   *)

\* The thread that commits formats is the only one that enables and disables ports.
OneCommits ==
  \A c, d \in Controllers : \A p \in Ports :
    /\ <<"format", "in">> \in Calls[c]
    /\ <<"enable", p>> \in Calls[d] \/ <<"disable", p>> \in Calls[d]
    => c = d

\* A message that carries a buffer, and one that is a call or a reply of a thread.
IsBuffer(m)    == m.type \in {"buffer", "bulk_buffer"}
Carries(m, b)  == IsBuffer(m) /\ m.b = b
Asks(m, c)     == ~IsBuffer(m) /\ m.c = c
IsBulkOf(m, b) == m.type = "bulk_buffer" /\ m.b = b
OfPort(m, p)   == IsBuffer(m) /\ m.b \in Data /\ HomeOf(m.b) = p
IsReply(m, c)  == m.type = "reply" /\ m.c = c

Msgs(s) == {s[i] : i \in DOMAIN s}

Holds(s, b) == \E m \in Msgs(s) : Carries(m, b)
Asked(s, c) == \E m \in Msgs(s) : Asks(m, c)
Bulky(s, b) == \E m \in Msgs(s) : IsBulkOf(m, b)

\* A buffer, and a thread, is in a sequence of messages once.
OneBuffer(s) ==
  \A i, j \in DOMAIN s : IsBuffer(s[i]) /\ IsBuffer(s[j]) /\ s[i].b = s[j].b => i = j
OneCall(s) ==
  \A i, j \in DOMAIN s : ~IsBuffer(s[i]) /\ ~IsBuffer(s[j]) /\ s[i].c = s[j].c => i = j

\* After what c asks or is told there is no buffer of p.
Behind(s, c, p) ==
  \A i, j \in DOMAIN s : i < j /\ Asks(s[i], c) => ~OfPort(s[j], p)

\* What a call or a reply says of the thread it belongs to.
Fits(m) ==
  ~IsBuffer(m) =>
    /\ reply[m.c] = "none"
    /\ m.type \in {"enable", "disable"} => op[m.c] = m.type /\ pc[m.c] = "reply" /\ on[m.c] = m.p
    /\ m.type \in {"flush", "flush_sync"} =>
         op[m.c] = "flush" /\ pc[m.c] = "reply" /\ on[m.c] = m.p
    /\ m.type = "set_info" => op[m.c] = "format" /\ pc[m.c] = "reply"
    /\ m.type = "get_info" => op[m.c] = "format" /\ pc[m.c] = "get_reply" /\ on[m.c] = m.p
    /\ m.type = "reply" => pc[m.c] \in {"reply", "get_reply"}

Switching(c, p) ==
  op[c] \in {"enable", "disable"} /\ on[c] = p /\ pc[c] \in {"reply", "drain", "wait"}
Formatting(c) == op[c] = "format" /\ pc[c] \in {"reply", "get_reply"}
Flushing(c, p) == op[c] = "flush" /\ on[c] = p /\ pc[c] = "reply"

\* What is sent, what the server holds back, and what comes back.
ToServer   == [type : {"buffer", "bulk_buffer"}, b : Data]
              \cup [type : Requests, c : Controllers, p : Ports]
Held       == [type : {"bulk_buffer"}, b : Data]
              \cup [type : {"flush_sync"}, c : Controllers, p : Ports]
FromServer == [type : {"buffer"}, b : Buffers]
              \cup [type : {"reply"}, c : Controllers, status : {"ok", "fail"}, enabled : BOOLEAN]

\* The types, without the bounds that CountInv gives to the counters.
PortTypes ==
  /\ is_enabled \in [Ports -> BOOLEAN] /\ transit \in [Ports -> Int]
  /\ port_lock \in [Ports -> Controllers \cup {NoThread}]
  /\ send_lock \in [Ports -> Controllers \cup {NoThread}]
  /\ action_lock \in Controllers \cup {NoThread}
  /\ has_pool \in [Ports -> BOOLEAN] /\ allocated \in [Ports -> BOOLEAN]
  /\ free \in [Ports -> Int]
  /\ sent_data_on_port \in [Ports -> BOOLEAN] /\ is_zero_copy \in [Ports -> BOOLEAN]
  /\ connected \in [Ports -> BOOLEAN]
  /\ flush_compatible \in {"unknown", "yes", "no"}

WireTypes ==
  /\ at \in [Buffers -> {"client", "wire", "server", "queue"}]
  /\ callback_queue \in Seq(Buffers)
  /\ to_server \in Seq(ToServer) /\ bulks \in Seq(Held) /\ from_server \in Seq(FromServer)
  /\ server_enabled \in [Ports -> BOOLEAN]
  /\ overtaken \subseteq Data
  /\ faults \in 0 .. MaxFaults

ThreadTypes ==
  /\ op \in [Controllers -> {"none", "enable", "disable", "flush", "format"}]
  /\ on \in [Controllers -> Ports]
  /\ pc \in [Controllers -> {"idle", "start", "reply", "get", "get_reply", "drain", "wait"}]
  /\ reply \in [Controllers -> {"none", "ok", "fail"}]

Types == PortTypes /\ WireTypes /\ ThreadTypes

PlaceOf(c) ==
  /\ op[c] = "none" <=> pc[c] = "idle"
  /\ op[c] \in {"enable", "disable", "flush"} => <<op[c], on[c]>> \in Calls[c]
  /\ op[c] = "format" => <<"format", "in">> \in Calls[c]
  /\ op[c] = "format" => pc[c] \in {"start", "reply", "get_reply"}
  /\ op[c] \in {"enable", "flush"} => pc[c] \in {"start", "reply"}
  /\ op[c] = "disable" => pc[c] \in {"start", "reply", "drain", "wait"}
  /\ op[c] = "format" /\ pc[c] # "get_reply" => on[c] = "in"
  /\ pc[c] = "wait" => reply[c] = "ok"

LocksOf(c) ==
  \A p \in Ports :
    /\ port_lock[p] = c <=> Switching(c, p) \/ (p = "in" /\ Formatting(c))
    /\ send_lock[p] = c <=> Flushing(c, p)

Places == \A c \in Controllers : PlaceOf(c) /\ LocksOf(c)

CallInv ==
  /\ OneCall(to_server) /\ OneCall(bulks) /\ OneCall(from_server)
  /\ \A c \in Controllers : /\ Asked(to_server, c) => ~Asked(bulks, c) /\ ~Asked(from_server, c)
                            /\ Asked(bulks, c) => ~Asked(from_server, c)
  /\ \A m \in Msgs(to_server) \cup Msgs(bulks) \cup Msgs(from_server) : Fits(m)

BufferInv ==
  /\ OneBuffer(to_server) /\ OneBuffer(bulks) /\ OneBuffer(from_server)
  /\ \A i, j \in DOMAIN callback_queue : callback_queue[i] = callback_queue[j] => i = j
  /\ \A b \in Buffers :
       /\ at[b] = "wire" <=> Holds(to_server, b) \/ Holds(bulks, b) \/ Holds(from_server, b)
       /\ Holds(to_server, b) => ~Holds(bulks, b) /\ ~Holds(from_server, b)
       /\ Holds(bulks, b) => ~Holds(from_server, b)
       /\ at[b] = "queue" <=> b \in Msgs(callback_queue)

\* The server has done what c asked for.
Told(c) == \E m \in Msgs(from_server) : IsReply(m, c) /\ m.status = "ok"
Granted(c) == reply[c] = "ok" \/ Told(c)

\* A port is enabled on both sides but while a thread switches it: then the server has
\* switched it when it has granted the request.
SwitchOf(p) ==
  /\ is_enabled[p] => server_enabled[p] /\ \A c \in Controllers : ~Switching(c, p)
  /\ server_enabled[p] => is_enabled[p] \/ \E c \in Controllers : Switching(c, p)
  /\ \A c \in Controllers : Switching(c, p) =>
       /\ op[c] = "enable" => (server_enabled[p] <=> Granted(c))
       /\ op[c] = "disable" => (server_enabled[p] <=> ~Granted(c))
  /\ allocated[p] => has_pool[p]

\* What a commit reads back is still so.
InfoInv ==
  \A m \in Msgs(from_server) : \A c \in Controllers :
    IsReply(m, c) /\ pc[c] = "get_reply" => (m.enabled <=> server_enabled[on[c]])

SwitchInv == (\A p \in Ports : SwitchOf(p)) /\ InfoInv

Of(p) == {b \in Data : HomeOf(b) = p}

\* None of the buffers of p is on the way to the server or there.
NoneSent(p) == \A b \in Of(p) : at[b] # "server" /\ ~Holds(to_server, b) /\ ~Holds(bulks, b)

\* The stages of a disable: nothing of the port is sent after the request, what was sent is
\* back before the reply, and the callbacks are done before the wait.
Disabling(c, p) == op[c] = "disable" /\ Switching(c, p)
GoneOf(c, p) ==
  /\ Behind(to_server, c, p)
  /\ Told(c) => NoneSent(p) /\ Behind(from_server, c, p)
  /\ reply[c] = "ok" => \A b \in Of(p) : at[b] \in {"client", "queue"}
  /\ pc[c] = "wait" => \A b \in Of(p) : at[b] = "client"

\* The client has all the buffers of a port that is disabled and not being disabled.
RestOf(p) ==
  ~is_enabled[p] /\ (\A c \in Controllers : ~Disabling(c, p)) => \A b \in Of(p) : at[b] = "client"

GoneInv ==
  /\ \A c \in Controllers, p \in Ports : Disabling(c, p) => GoneOf(c, p)
  /\ \A p \in Ports : RestOf(p)

Away(p)    == {b \in Of(p) : at[b] # "client"}
Carried(p) == {b \in Of(p) : at[b] \in {"wire", "server"}}

\* The buffers in transit, and the contexts that the carried ones have from the pool.
CountOf(p) ==
  /\ transit[p] = Cardinality(Away(p))
  /\ free[p] \in 0 .. Contexts
  /\ allocated[p] => free[p] + Cardinality(Carried(p)) = Contexts

CountInv == \A p \in Ports : CountOf(p)

FlushInv ==
  /\ \A p \in Ports : \A b \in Of(p) : Bulky(to_server, b) \/ Bulky(bulks, b) =>
       sent_data_on_port[p] /\ ~is_zero_copy[p]
  /\ flush_compatible # "no" =>
       /\ overtaken = {}
       /\ \A m \in Msgs(to_server) : m.type = "flush" =>
            \A b \in Of(m.p) : ~Bulky(to_server, b) /\ ~Bulky(bulks, b)

-----------------------------------------------------------------------------
(* Messages that are appended, taken, and returned all together.           *)

\* t is s with m appended.
Added(s, t, m) ==
  /\ Msgs(t) = Msgs(s) \cup {m}
  /\ OneCall(s) /\ (~IsBuffer(m) => ~Asked(s, m.c)) => OneCall(t)
  /\ OneBuffer(s) /\ (IsBuffer(m) => ~Holds(s, m.b)) => OneBuffer(t)
  /\ \A c, p : Behind(s, c, p) /\ (Asked(s, c) => ~OfPort(m, p)) => Behind(t, c, p)

\* t is s without its first message m.
Taken(s, t, m) ==
  /\ Msgs(s) = Msgs(t) \cup {m}
  /\ OneCall(s) => OneCall(t) /\ \A c : Asks(m, c) => ~Asked(t, c)
  /\ OneBuffer(s) => OneBuffer(t) /\ \A b : Carries(m, b) => ~Holds(t, b)
  /\ \A c, p : Behind(s, c, p) =>
       Behind(t, c, p) /\ (Asks(m, c) => \A x \in Msgs(t) : ~OfPort(x, p))

Buf(b) == [type |-> "buffer", b |-> b]

\* t is s with the buffers of B, once each, and the reply r appended.
Poured(s, t, B, r) ==
  /\ Msgs(t) = Msgs(s) \cup {Buf(b) : b \in B} \cup {r}
  /\ OneCall(s) /\ ~Asked(s, r.c) => OneCall(t)
  /\ OneBuffer(s) /\ (\A b \in B : ~Holds(s, b)) => OneBuffer(t)
  /\ \A c, p : Behind(s, c, p) /\ (Asked(s, c) => \A b \in B : ~OfPort(Buf(b), p))
                 => Behind(t, c, p)

\* A message that is appended is the last one.
LEMMA AppendAdds ==
  ASSUME NEW M, NEW s \in Seq(M), NEW m \in M
  PROVE  Append(s, m) \in Seq(M) /\ Added(s, Append(s, m), m)
<1> DEFINE t == Append(s, m)
<1>1. /\ DOMAIN s = 1 .. Len(s) /\ DOMAIN t = 1 .. Len(s) + 1
      /\ Len(s) \in Nat /\ t \in Seq(M)
      /\ t[Len(s) + 1] = m
      /\ \A i \in DOMAIN s : t[i] = s[i]
  OBVIOUS
<1>2. DOMAIN t = DOMAIN s \cup {Len(s) + 1} /\ Len(s) + 1 \notin DOMAIN s
  BY <1>1
<1> HIDE DEF t
<1>3. Msgs(t) = Msgs(s) \cup {m}
  BY <1>1, <1>2 DEF Msgs
<1>4. ASSUME OneCall(s), ~IsBuffer(m) => ~Asked(s, m.c)
      PROVE  OneCall(t)
  BY <1>1, <1>2, <1>4 DEF OneCall, Asked, Asks, Msgs
<1>5. ASSUME OneBuffer(s), IsBuffer(m) => ~Holds(s, m.b)
      PROVE  OneBuffer(t)
  BY <1>1, <1>2, <1>5 DEF OneBuffer, Holds, Carries, Msgs
<1>6. ASSUME NEW c, NEW p, Behind(s, c, p), Asked(s, c) => ~OfPort(m, p)
      PROVE  Behind(t, c, p)
  <2> SUFFICES ASSUME NEW i \in DOMAIN t, NEW j \in DOMAIN t, i < j, Asks(t[i], c)
               PROVE  ~OfPort(t[j], p)
    BY DEF Behind
  <2>1. i \in DOMAIN s
    BY <1>1
  <2>2. Asks(s[i], c) /\ Asked(s, c)
    BY <2>1, <1>1 DEF Asked, Msgs
  <2>3. CASE j \in DOMAIN s
    BY <2>1, <2>2, <2>3, <1>1, <1>6 DEF Behind
  <2>4. CASE j = Len(s) + 1
    BY <2>2, <2>4, <1>1, <1>6
  <2> QED BY <2>3, <2>4, <1>2
<1> QED BY <1>1, <1>3, <1>4, <1>5, <1>6 DEF Added, t

\* The first message is taken from in front of the others.
LEMMA TailTakes ==
  ASSUME NEW M, NEW s \in Seq(M), s # <<>>
  PROVE  Head(s) \in M /\ Tail(s) \in Seq(M) /\ Taken(s, Tail(s), Head(s))
<1> DEFINE t == Tail(s)
           m == Head(s)
<1>1. /\ m \in M /\ t \in Seq(M) /\ 1 \in DOMAIN s /\ m = s[1]
      /\ Len(s) \in Nat \ {0} /\ Len(t) = Len(s) - 1
      /\ DOMAIN s = 1 .. Len(s) /\ DOMAIN t = 1 .. Len(s) - 1
  OBVIOUS
<1>2. \A i \in DOMAIN t : i + 1 \in DOMAIN s /\ t[i] = s[i + 1]
  BY <1>1
<1> HIDE DEF t, m
<1>3. \A i \in DOMAIN s : i = 1 \/ (i - 1 \in DOMAIN t /\ t[i - 1] = s[i])
  BY <1>1, <1>2
<1>4. Msgs(s) = Msgs(t) \cup {m}
  <2>1. Msgs(s) \subseteq Msgs(t) \cup {m}
    BY <1>1, <1>3 DEF Msgs
  <2>2. Msgs(t) \cup {m} \subseteq Msgs(s)
    BY <1>1, <1>2 DEF Msgs
  <2> QED BY <2>1, <2>2
<1>5. ASSUME OneCall(s)
      PROVE  OneCall(t) /\ \A c : Asks(m, c) => ~Asked(t, c)
  <2>1. OneCall(t)
    <3> SUFFICES ASSUME NEW i \in DOMAIN t, NEW j \in DOMAIN t,
                        ~IsBuffer(t[i]), ~IsBuffer(t[j]), t[i].c = t[j].c
                 PROVE  i = j
      BY DEF OneCall
    <3>1. i + 1 = j + 1
      BY <1>2, <1>5 DEF OneCall
    <3> QED BY <3>1, <1>1
  <2>2. ASSUME NEW c, Asks(m, c), Asked(t, c)
        PROVE  FALSE
    <3>1. PICK i \in DOMAIN t : Asks(t[i], c)
      BY <2>2 DEF Asked, Msgs
    <3>2. i + 1 = 1
      BY <3>1, <2>2, <1>1, <1>2, <1>5 DEF OneCall, Asks
    <3> QED BY <3>2, <1>1
  <2> QED BY <2>1, <2>2
<1>6. ASSUME OneBuffer(s)
      PROVE  OneBuffer(t) /\ \A b : Carries(m, b) => ~Holds(t, b)
  <2>1. OneBuffer(t)
    <3> SUFFICES ASSUME NEW i \in DOMAIN t, NEW j \in DOMAIN t,
                        IsBuffer(t[i]), IsBuffer(t[j]), t[i].b = t[j].b
                 PROVE  i = j
      BY DEF OneBuffer
    <3>1. i + 1 = j + 1
      BY <1>2, <1>6 DEF OneBuffer
    <3> QED BY <3>1, <1>1
  <2>2. ASSUME NEW b, Carries(m, b), Holds(t, b)
        PROVE  FALSE
    <3>1. PICK i \in DOMAIN t : Carries(t[i], b)
      BY <2>2 DEF Holds, Msgs
    <3>2. i + 1 = 1
      BY <3>1, <2>2, <1>1, <1>2, <1>6 DEF OneBuffer, Carries
    <3> QED BY <3>2, <1>1
  <2> QED BY <2>1, <2>2
<1>7. ASSUME NEW c, NEW p, Behind(s, c, p)
      PROVE  Behind(t, c, p) /\ (Asks(m, c) => \A x \in Msgs(t) : ~OfPort(x, p))
  <2>1. Behind(t, c, p)
    <3> SUFFICES ASSUME NEW i \in DOMAIN t, NEW j \in DOMAIN t, i < j, Asks(t[i], c)
                 PROVE  ~OfPort(t[j], p)
      BY DEF Behind
    <3>1. i + 1 \in DOMAIN s /\ j + 1 \in DOMAIN s /\ i + 1 < j + 1
      BY <1>1, <1>2
    <3> QED BY <3>1, <1>2, <1>7 DEF Behind
  <2>2. ASSUME Asks(m, c), NEW x \in Msgs(t)
        PROVE  ~OfPort(x, p)
    <3>1. PICK i \in DOMAIN t : x = t[i]
      BY DEF Msgs
    <3>2. i + 1 \in DOMAIN s /\ 1 < i + 1
      BY <1>1, <1>2, <3>1
    <3> QED BY <3>1, <3>2, <2>2, <1>1, <1>2, <1>7 DEF Behind
  <2> QED BY <2>1, <2>2
<1> QED BY <1>1, <1>4, <1>5, <1>6, <1>7 DEF Taken, t, m

\* A sequence that reaches every member of a set as often as there are members reaches
\* each of them once.
LEMMA OrderOnce ==
  ASSUME NEW B, IsFiniteSet(B), NEW order \in [1 .. Cardinality(B) -> B],
         {order[i] : i \in DOMAIN order} = B
  PROVE  /\ order \in Seq(B) /\ Len(order) = Cardinality(B)
         /\ DOMAIN order = 1 .. Cardinality(B) /\ Cardinality(B) \in Nat
         /\ \A i, j \in DOMAIN order : order[i] = order[j] => i = j
<1> DEFINE n == Cardinality(B)
<1>1. n \in Nat
  BY FS_CardinalityType
<1>2. IsFiniteSet(1 .. n) /\ Cardinality(1 .. n) = n
  BY <1>1, FS_Interval
<1>3. order \in Surjection(1 .. n, B)
  BY DEF Surjection
<1>4. order \in Injection(1 .. n, B)
  BY <1>2, <1>3, FS_SurjSameCardinalityImpliesInj
<1>5. \A i, j \in 1 .. n : order[i] = order[j] => i = j
  BY <1>4 DEF Injection, IsInjective
<1>6. order \in Seq(B) /\ Len(order) = n
  BY <1>1
<1> QED BY <1>1, <1>5, <1>6

\* The buffers a port gives back and the reply after them.
LEMMA PourPours ==
  ASSUME NEW s \in Seq(FromServer), NEW B \in SUBSET Buffers, IsFiniteSet(B),
         NEW order \in [1 .. Cardinality(B) -> B], {order[i] : i \in DOMAIN order} = B,
         NEW r \in FromServer, ~IsBuffer(r),
         NEW t, t = s \o [i \in DOMAIN order |-> Buf(order[i])] \o <<r>>
  PROVE  t \in Seq(FromServer) /\ Poured(s, t, B, r)
<1> DEFINE n == Cardinality(B)
           g == [i \in DOMAIN order |-> Buf(order[i])]
<1>1. /\ DOMAIN order = 1 .. n /\ n \in Nat
      /\ \A i \in 1 .. n : order[i] \in B
      /\ \A i, j \in 1 .. n : order[i] = order[j] => i = j
  BY OrderOnce
<1>2. \A b \in B : Buf(b) \in FromServer /\ IsBuffer(Buf(b)) /\ Buf(b).b = b
  BY DEF Buf, FromServer, IsBuffer
<1>4. g = [i \in 1 .. n |-> Buf(order[i])] /\ \A i \in 1 .. n : g[i] = Buf(order[i])
  BY <1>1
<1>3. g \in Seq(FromServer) /\ Len(g) = n
  <2>1. \A i \in 1 .. n : Buf(order[i]) \in FromServer
    BY <1>1, <1>2
  <2> HIDE DEF g, n
  <2>2. g \in [1 .. n -> FromServer]
    <3>1. DOMAIN g = 1 .. n /\ g = [i \in DOMAIN g |-> g[i]]
      BY <1>4
    <3>2. \A i \in 1 .. n : g[i] \in FromServer
      BY <2>1, <1>4
    <3> QED BY <3>1, <3>2
  <2>3. n \in Nat
    BY <1>1
  <2> QED BY <2>2, <2>3
<1> HIDE DEF n, g
<1> DEFINE u == s \o g
<1>5. /\ u \in Seq(FromServer) /\ Len(u) = Len(s) + n
      /\ \A i \in 1 .. Len(s) + n :
           u[i] = IF i <= Len(s) THEN s[i] ELSE g[i - Len(s)]
  BY <1>3, ConcatProperties
<1>6. t = Append(u, r)
  <2>1. t = u \o <<r>>
    BY DEF u, g
  <2> QED BY <2>1, <1>5, AppendIsConcat
<1> HIDE DEF u
<1>7. t \in Seq(FromServer) /\ Added(u, t, r)
  BY <1>5, <1>6, AppendAdds
<1>8. Len(s) \in Nat /\ DOMAIN s = 1 .. Len(s) /\ DOMAIN u = 1 .. Len(s) + n
  BY <1>5
<1>9. \A i \in DOMAIN u : \/ i \in DOMAIN s /\ u[i] = s[i]
                          \/ /\ i \notin DOMAIN s /\ i - Len(s) \in 1 .. n
                             /\ u[i] = Buf(order[i - Len(s)])
  <2> SUFFICES ASSUME NEW i \in DOMAIN u
               PROVE  \/ i \in DOMAIN s /\ u[i] = s[i]
                      \/ /\ i \notin DOMAIN s /\ i - Len(s) \in 1 .. n
                         /\ u[i] = Buf(order[i - Len(s)])
    OBVIOUS
  <2>1. i \in Int /\ 1 <= i /\ i <= Len(s) + n
    BY <1>1, <1>8
  <2>2. CASE i <= Len(s)
    BY <2>1, <2>2, <1>5, <1>8
  <2>3. CASE ~(i <= Len(s))
    <3>1. i - Len(s) \in 1 .. n /\ i \notin DOMAIN s
      BY <2>1, <2>3, <1>1, <1>8
    <3>2. u[i] = g[i - Len(s)]
      BY <2>1, <2>3, <1>1, <1>5, <1>8
    <3> QED BY <3>1, <3>2, <1>4
  <2> QED BY <2>2, <2>3
<1>10. \A i \in DOMAIN s : i \in DOMAIN u /\ u[i] = s[i]
  BY <1>1, <1>5, <1>8
<1>11. Msgs(u) = Msgs(s) \cup {Buf(b) : b \in B}
  <2>1. Msgs(u) \subseteq Msgs(s) \cup {Buf(b) : b \in B}
    BY <1>1, <1>9 DEF Msgs
  <2>2. Msgs(s) \subseteq Msgs(u)
    BY <1>10 DEF Msgs
  <2>3. ASSUME NEW b \in B
        PROVE  Buf(b) \in Msgs(u)
    <3>1. PICK i \in 1 .. n : order[i] = b
      BY <1>1
    <3>2. Len(s) + i \in 1 .. Len(s) + n /\ ~(Len(s) + i <= Len(s)) /\ Len(s) + i - Len(s) = i
      BY <1>1, <1>8
    <3>3. Len(s) + i \in DOMAIN u /\ u[Len(s) + i] = g[i]
      BY <3>2, <1>5, <1>8
    <3> QED BY <3>1, <3>3, <1>4 DEF Msgs
  <2> QED BY <2>1, <2>2, <2>3
<1>12. ASSUME OneCall(s)
       PROVE  OneCall(u)
  <2> SUFFICES ASSUME NEW i \in DOMAIN u, NEW j \in DOMAIN u,
                      ~IsBuffer(u[i]), ~IsBuffer(u[j]), u[i].c = u[j].c
               PROVE  i = j
    BY DEF OneCall
  <2>1. ASSUME NEW k \in DOMAIN u, ~IsBuffer(u[k])
        PROVE  k \in DOMAIN s /\ u[k] = s[k]
    BY <2>1, <1>1, <1>2, <1>9
  <2> QED BY <2>1, <1>12 DEF OneCall
<1>13. ASSUME OneBuffer(s), \A b \in B : ~Holds(s, b)
       PROVE  OneBuffer(u)
  <2> SUFFICES ASSUME NEW i \in DOMAIN u, NEW j \in DOMAIN u,
                      IsBuffer(u[i]), IsBuffer(u[j]), u[i].b = u[j].b
               PROVE  i = j
    BY DEF OneBuffer
  <2>1. ASSUME NEW k \in DOMAIN s, IsBuffer(s[k])
        PROVE  s[k].b \notin B
    BY <2>1, <1>13 DEF Holds, Carries, Msgs
  <2>2. CASE i \in DOMAIN s /\ j \in DOMAIN s
    BY <2>2, <1>9, <1>13 DEF OneBuffer
  <2>3. CASE i \in DOMAIN s /\ j \notin DOMAIN s
    BY <2>1, <2>3, <1>1, <1>2, <1>9
  <2>4. CASE i \notin DOMAIN s /\ j \in DOMAIN s
    BY <2>1, <2>4, <1>1, <1>2, <1>9
  <2>5. CASE i \notin DOMAIN s /\ j \notin DOMAIN s
    <3>1. order[i - Len(s)] = order[j - Len(s)]
      BY <2>5, <1>1, <1>2, <1>9
    <3>2. i - Len(s) = j - Len(s)
      BY <3>1, <2>5, <1>1, <1>9
    <3> QED BY <3>2, <1>1, <1>8
  <2> QED BY <2>2, <2>3, <2>4, <2>5
<1>14. ASSUME NEW c, NEW p, Behind(s, c, p), Asked(s, c) => \A b \in B : ~OfPort(Buf(b), p)
       PROVE  Behind(u, c, p)
  <2> SUFFICES ASSUME NEW i \in DOMAIN u, NEW j \in DOMAIN u, i < j, Asks(u[i], c)
               PROVE  ~OfPort(u[j], p)
    BY DEF Behind
  <2>1. i \in DOMAIN s /\ u[i] = s[i]
    BY <1>1, <1>2, <1>9 DEF Asks
  <2>2. Asked(s, c)
    BY <2>1 DEF Asked, Msgs
  <2>3. CASE j \in DOMAIN s
    BY <2>1, <2>3, <1>10, <1>14 DEF Behind
  <2>4. CASE j \notin DOMAIN s
    BY <2>2, <2>4, <1>1, <1>9, <1>14
  <2> QED BY <2>3, <2>4
<1>15. /\ \A c : Asked(u, c) <=> Asked(s, c)
       /\ \A p : ~OfPort(r, p)
  BY <1>2, <1>11 DEF Asked, Asks, OfPort
<1> QED
  <2>1. Msgs(t) = Msgs(s) \cup {Buf(b) : b \in B} \cup {r}
    BY <1>7, <1>11 DEF Added
  <2>2. OneCall(s) /\ ~Asked(s, r.c) => OneCall(t)
    BY <1>7, <1>12, <1>15 DEF Added
  <2>3. OneBuffer(s) /\ (\A b \in B : ~Holds(s, b)) => OneBuffer(t)
    BY <1>7, <1>13 DEF Added
  <2>4. \A c, p : Behind(s, c, p) /\ (Asked(s, c) => \A b \in B : ~OfPort(Buf(b), p))
                    => Behind(t, c, p)
    BY <1>7, <1>14, <1>15 DEF Added
  <2> QED BY <1>7, <2>1, <2>2, <2>3, <2>4 DEF Poured

-----------------------------------------------------------------------------
(* What the messages say, and what the server does with them.              *)

\* A call that is sent, and its reply.
Req(t, c, p) == [type |-> t, c |-> c, p |-> p]
Rep(c, s, e) == [type |-> "reply", c |-> c, status |-> s, enabled |-> e]

\* What the sequences hold is a buffer, or is about a thread and a port.
LEMMA MessageShapes ==
  /\ \A m \in ToServer \cup Held :
       /\ IsBuffer(m) => m.b \in Data /\ m.b \in Buffers
       /\ ~IsBuffer(m) => m.type \in Requests /\ m.c \in Controllers /\ m.p \in Ports
  /\ \A m \in Held : m \in ToServer /\ m.type \in {"bulk_buffer", "flush_sync"}
  /\ \A m \in ToServer : m.type \in {"bulk_buffer", "flush_sync"} => m \in Held
  /\ \A m \in FromServer :
       /\ IsBuffer(m) => m.b \in Buffers /\ m.type = "buffer"
       /\ ~IsBuffer(m) => /\ m.type = "reply" /\ m.c \in Controllers
                          /\ m.status \in {"ok", "fail"} /\ m.enabled \in BOOLEAN
<1>1. ASSUME NEW m \in ToServer
      PROVE  /\ IsBuffer(m) => m.b \in Data /\ m.b \in Buffers
             /\ ~IsBuffer(m) => m.type \in Requests /\ m.c \in Controllers /\ m.p \in Ports
  BY DEF ToServer, IsBuffer, Requests, Buffers
<1>2. ASSUME NEW m \in Held
      PROVE  m \in ToServer /\ m.type \in {"bulk_buffer", "flush_sync"}
  BY DEF ToServer, Held, Requests
<1>3. ASSUME NEW m \in ToServer, m.type \in {"bulk_buffer", "flush_sync"}
      PROVE  m \in Held
  BY <1>3 DEF ToServer, Held, Requests
<1>4. ASSUME NEW m \in FromServer
      PROVE  /\ IsBuffer(m) => m.b \in Buffers /\ m.type = "buffer"
             /\ ~IsBuffer(m) => /\ m.type = "reply" /\ m.c \in Controllers
                                /\ m.status \in {"ok", "fail"} /\ m.enabled \in BOOLEAN
  BY DEF FromServer, IsBuffer
<1> QED BY <1>1, <1>2, <1>3, <1>4

\* What is put into the sequences is a message.
LEMMA MessagesMade ==
  /\ \A b \in Buffers : Buf(b) \in FromServer /\ IsBuffer(Buf(b)) /\ Buf(b).b = b
                        /\ Buf(b).type = "buffer"
  /\ \A t \in Requests, c \in Controllers, p \in Ports :
       Req(t, c, p) \in ToServer /\ Req(t, c, p).type = t /\ Req(t, c, p).c = c
       /\ Req(t, c, p).p = p /\ ~IsBuffer(Req(t, c, p))
  /\ \A c \in Controllers, s \in {"ok", "fail"}, e \in BOOLEAN :
       Rep(c, s, e) \in FromServer /\ Rep(c, s, e).type = "reply" /\ Rep(c, s, e).c = c
       /\ Rep(c, s, e).status = s /\ Rep(c, s, e).enabled = e /\ ~IsBuffer(Rep(c, s, e))
<1>1. ASSUME NEW b \in Buffers
      PROVE  Buf(b) \in FromServer /\ IsBuffer(Buf(b)) /\ Buf(b).b = b /\ Buf(b).type = "buffer"
  BY DEF Buf, FromServer, IsBuffer
<1>2. ASSUME NEW t \in Requests, NEW c \in Controllers, NEW p \in Ports
      PROVE  Req(t, c, p) \in ToServer /\ Req(t, c, p).type = t /\ Req(t, c, p).c = c
             /\ Req(t, c, p).p = p /\ ~IsBuffer(Req(t, c, p))
  BY DEF Req, ToServer, Requests, IsBuffer
<1>3. ASSUME NEW c \in Controllers, NEW s \in {"ok", "fail"}, NEW e \in BOOLEAN
      PROVE  Rep(c, s, e) \in FromServer /\ Rep(c, s, e).type = "reply" /\ Rep(c, s, e).c = c
             /\ Rep(c, s, e).status = s /\ Rep(c, s, e).enabled = e /\ ~IsBuffer(Rep(c, s, e))
  BY DEF Rep, FromServer, IsBuffer
<1> QED BY <1>1, <1>2, <1>3

\* The message m is taken from the server's messages, or is the first bulk transfer.
Handles(m) ==
  \/ Taken(to_server, to_server', m) /\ UNCHANGED bulks
  \/ Taken(bulks, bulks', m) /\ UNCHANGED to_server

\* What the server does with m: hold it back, take the buffer, answer, give all back.
Defer(m) ==
  /\ m.type \in {"bulk_buffer", "flush_sync"}
  /\ Taken(to_server, to_server', m) /\ Added(bulks, bulks', m)
  /\ UNCHANGED <<from_server, at, server_enabled, overtaken>>

Arrive(m) ==
  /\ IsBuffer(m) /\ Handles(m)
  /\ at' = [at EXCEPT ![m.b] = "server"]
  /\ UNCHANGED <<from_server, server_enabled, overtaken>>

Answer(m, s) ==
  /\ m.type \in {"enable", "disable", "set_info", "get_info"}
  /\ s = "ok" => m.type # "disable"
  /\ Handles(m)
  /\ Added(from_server, from_server', Rep(m.c, s, server_enabled'[m.p]))
  /\ m.type = "enable" /\ s = "ok" => server_enabled' = [server_enabled EXCEPT ![m.p] = TRUE]
  /\ ~(m.type = "enable" /\ s = "ok") => UNCHANGED server_enabled
  /\ UNCHANGED <<at, overtaken>>

GiveBack(m) ==
  /\ m.type \in {"flush", "disable", "flush_sync"}
  /\ Handles(m)
  /\ Poured(from_server, from_server', BuffersOf(m.p), Rep(m.c, "ok", server_enabled'[m.p]))
  /\ at' = [b \in Buffers |-> IF b \in BuffersOf(m.p) THEN "wire" ELSE at[b]]
  /\ m.type = "disable" =>
       Pending(m.p) = {} /\ server_enabled' = [server_enabled EXCEPT ![m.p] = FALSE]
  /\ m.type # "disable" => UNCHANGED server_enabled
  /\ m.type = "flush" => overtaken' = overtaken \cup Pending(m.p) /\ UNCHANGED bulks
  /\ m.type # "flush" => UNCHANGED overtaken

ServerStep(m) ==
  Defer(m) \/ Arrive(m) \/ (\E s \in {"ok", "fail"} : Answer(m, s)) \/ GiveBack(m)

\* The buffers of a port are data, and finitely many.
LEMMA BuffersOfPort ==
  ASSUME NEW p \in Ports
  PROVE  BuffersOf(p) \subseteq Data /\ BuffersOf(p) \subseteq Buffers /\ IsFiniteSet(BuffersOf(p))
<1>1. BuffersOf(p) \subseteq Data
  BY DEF BuffersOf
<1>2. IsFiniteSet(BuffersOf(p))
  BY <1>1, VcPortAssumption, FS_Subset
<1> QED BY <1>1, <1>2 DEF Buffers

\* The buffers of a port go back before the reply.
LEMMA GiveBackPours ==
  ASSUME WireTypes, NEW m, m.c \in Controllers, m.p \in Ports,
         server_enabled'[m.p] \in BOOLEAN, GiveBackAll(m)
  PROVE  /\ from_server' \in Seq(FromServer)
         /\ Poured(from_server, from_server', BuffersOf(m.p), Rep(m.c, "ok", server_enabled'[m.p]))
         /\ at' = [b \in Buffers |-> IF b \in BuffersOf(m.p) THEN "wire" ELSE at[b]]
<1> DEFINE B == BuffersOf(m.p)
           r == Rep(m.c, "ok", server_enabled'[m.p])
<1>1. B \in SUBSET Buffers /\ IsFiniteSet(B)
  BY BuffersOfPort
<1>2. r \in FromServer /\ ~IsBuffer(r)
  BY MessagesMade
<1>3. PICK order \in [1 .. Cardinality(B) -> B] :
        /\ {order[i] : i \in DOMAIN order} = B
        /\ from_server' = from_server \o [i \in DOMAIN order |-> Buf(order[i])] \o <<r>>
        /\ at' = [b \in Buffers |-> IF b \in BuffersOf(m.p) THEN "wire" ELSE at[b]]
  BY DEF GiveBackAll, Reply, Rep, Buf
<1>4. from_server \in Seq(FromServer)
  BY DEF WireTypes
<1> HIDE DEF B, r
<1>5. from_server' \in Seq(FromServer) /\ Poured(from_server, from_server', B, r)
  BY <1>1, <1>2, <1>3, <1>4, PourPours
<1> QED BY <1>3, <1>5 DEF B, r

\* What a step of the server does, and the types it leaves.
LEMMA ServerSteps ==
  ASSUME WireTypes, Server
  PROVE  /\ WireTypes'
         /\ UNCHANGED <<core, locks, module, flush_compatible, callback_queue, calls>>
         /\ \E m \in ToServer \cup Held : ServerStep(m)
<1>1. CASE ServerHandles
  <2> DEFINE m == Head(to_server)
  <2>1. /\ UNCHANGED <<core, locks, module, flush_compatible, callback_queue, calls>>
        /\ to_server # <<>> /\ to_server' = Tail(to_server)
    BY <1>1 DEF ServerHandles
  <2>2. m \in ToServer /\ to_server' \in Seq(ToServer) /\ Taken(to_server, to_server', m)
    BY <2>1, TailTakes DEF WireTypes
  <2>3. CASE /\ m.type \in {"buffer", "bulk_buffer"}
             /\ ServerBuffer(m)
             /\ UNCHANGED <<from_server, server_enabled, overtaken, faults>>
    <3>1. m.b \in Buffers /\ IsBuffer(m)
      BY <2>2, <2>3, MessageShapes DEF IsBuffer
    <3> HIDE DEF m
    <3>2. CASE m.type = "bulk_buffer"
      <4>1. m \in Held /\ bulks' = Append(bulks, m) /\ UNCHANGED at
        BY <2>2, <2>3, <3>2, MessageShapes DEF ServerBuffer
      <4>2. bulks' \in Seq(Held) /\ Added(bulks, bulks', m)
        BY <4>1, AppendAdds DEF WireTypes
      <4>3. ServerStep(m)
        BY <2>2, <2>3, <3>2, <4>1, <4>2 DEF ServerStep, Defer
      <4>4. WireTypes'
        BY <2>1, <2>2, <2>3, <4>1, <4>2 DEF WireTypes
      <4> QED BY <2>1, <2>2, <4>3, <4>4
    <3>3. CASE m.type # "bulk_buffer"
      <4>1. at' = [at EXCEPT ![m.b] = "server"] /\ UNCHANGED bulks
        BY <2>3, <3>3 DEF ServerBuffer
      <4>2. ServerStep(m)
        BY <2>2, <2>3, <3>1, <4>1 DEF ServerStep, Arrive, Handles
      <4>3. WireTypes'
        BY <2>1, <2>2, <2>3, <3>1, <4>1 DEF WireTypes
      <4> QED BY <2>1, <2>2, <4>2, <4>3
    <3> QED BY <3>2, <3>3
  <2>4. CASE /\ m.type = "flush_sync"
             /\ bulks' = Append(bulks, m)
             /\ UNCHANGED <<at, from_server, server_enabled, overtaken, faults>>
    <3> HIDE DEF m
    <3>1. bulks' \in Seq(Held) /\ Added(bulks, bulks', m)
      BY <2>2, <2>4, MessageShapes, AppendAdds DEF WireTypes
    <3>2. ServerStep(m)
      BY <2>2, <2>4, <3>1 DEF ServerStep, Defer
    <3>3. WireTypes'
      BY <2>1, <2>2, <2>4, <3>1 DEF WireTypes
    <3> QED BY <2>1, <2>2, <3>2, <3>3
  <2>5. CASE /\ m.type = "flush"
             /\ overtaken' = overtaken \cup Pending(m.p)
             /\ UNCHANGED server_enabled
             /\ GiveBackAll(m)
             /\ UNCHANGED <<bulks, faults>>
    <3> HIDE DEF m
    <3>1. ~IsBuffer(m) /\ m.c \in Controllers /\ m.p \in Ports
      BY <2>2, <2>5, MessageShapes DEF IsBuffer
    <3>2. server_enabled'[m.p] \in BOOLEAN
      BY <2>5, <3>1 DEF WireTypes
    <3>3. /\ from_server' \in Seq(FromServer)
          /\ Poured(from_server, from_server', BuffersOf(m.p),
                    Rep(m.c, "ok", server_enabled'[m.p]))
          /\ at' = [b \in Buffers |-> IF b \in BuffersOf(m.p) THEN "wire" ELSE at[b]]
      BY <2>5, <3>1, <3>2, GiveBackPours
    <3>4. ServerStep(m)
      BY <2>2, <2>5, <3>3 DEF ServerStep, GiveBack, Handles
    <3>5. Pending(m.p) \subseteq Data
      BY MessageShapes, ElementOfSeq DEF Pending, WireTypes, IsBuffer
    <3>6. at' \in [Buffers -> {"client", "wire", "server", "queue"}]
      BY <3>3 DEF WireTypes
    <3>7. from_server' \in Seq(FromServer) /\ overtaken' \subseteq Data
      BY <2>5, <3>3, <3>5 DEF WireTypes
    <3>8. callback_queue' \in Seq(Buffers) /\ server_enabled' \in [Ports -> BOOLEAN]
          /\ bulks' \in Seq(Held) /\ faults' \in 0 .. MaxFaults
      BY <2>1, <2>5 DEF WireTypes
    <3>9. WireTypes'
      BY <2>2, <3>6, <3>7, <3>8 DEF WireTypes
    <3> QED BY <2>1, <2>2, <3>4, <3>9
  <2>6. CASE /\ m.type = "disable" /\ Pending(m.p) = {}
             /\ server_enabled' = [server_enabled EXCEPT ![m.p] = FALSE]
             /\ GiveBackAll(m)
             /\ UNCHANGED <<bulks, overtaken, faults>>
    <3> HIDE DEF m
    <3>1. ~IsBuffer(m) /\ m.c \in Controllers /\ m.p \in Ports
      BY <2>2, <2>6, MessageShapes DEF IsBuffer
    <3>0. server_enabled \in [Ports -> BOOLEAN]
      BY DEF WireTypes
    <3>2. server_enabled' \in [Ports -> BOOLEAN] /\ server_enabled'[m.p] \in BOOLEAN
      BY <2>6, <3>0, <3>1
    <3>3. /\ from_server' \in Seq(FromServer)
          /\ Poured(from_server, from_server', BuffersOf(m.p),
                    Rep(m.c, "ok", server_enabled'[m.p]))
          /\ at' = [b \in Buffers |-> IF b \in BuffersOf(m.p) THEN "wire" ELSE at[b]]
      BY <2>6, <3>1, <3>2, GiveBackPours
    <3>4. ServerStep(m)
      BY <2>2, <2>6, <3>3 DEF ServerStep, GiveBack, Handles
    <3>6. at' \in [Buffers -> {"client", "wire", "server", "queue"}]
      BY <3>3 DEF WireTypes
    <3>7. from_server' \in Seq(FromServer) /\ overtaken' \subseteq Data
      BY <2>6, <3>3 DEF WireTypes
    <3>8. callback_queue' \in Seq(Buffers) /\ bulks' \in Seq(Held) /\ faults' \in 0 .. MaxFaults
      BY <2>1, <2>6 DEF WireTypes
    <3>9. WireTypes'
      BY <2>2, <3>2, <3>6, <3>7, <3>8 DEF WireTypes
    <3> QED BY <2>1, <2>2, <3>4, <3>9
  <2>7. CASE /\ m.type \in {"enable", "set_info", "get_info"}
             /\ server_enabled' = IF m.type = "enable" THEN [server_enabled EXCEPT ![m.p] = TRUE]
                                  ELSE server_enabled
             /\ from_server' = Append(from_server, Reply(m, "ok"))
             /\ UNCHANGED <<at, bulks, overtaken, faults>>
    <3> HIDE DEF m
    <3>1. ~IsBuffer(m) /\ m.c \in Controllers /\ m.p \in Ports
      BY <2>2, <2>7, MessageShapes DEF IsBuffer
    <3>0. server_enabled \in [Ports -> BOOLEAN]
      BY DEF WireTypes
    <3>2. server_enabled' \in [Ports -> BOOLEAN] /\ server_enabled'[m.p] \in BOOLEAN
      BY <2>7, <3>0, <3>1
    <3>3. Rep(m.c, "ok", server_enabled'[m.p]) \in FromServer
      BY <3>1, <3>2, MessagesMade
    <3>4. /\ from_server' \in Seq(FromServer)
          /\ Added(from_server, from_server', Rep(m.c, "ok", server_enabled'[m.p]))
      BY <2>7, <3>3, AppendAdds DEF WireTypes, Reply, Rep
    <3>5. Answer(m, "ok")
      BY <2>2, <2>7, <3>4 DEF Answer, Handles
    <3>6. WireTypes'
      BY <2>1, <2>2, <2>7, <3>2, <3>4 DEF WireTypes
    <3> QED BY <2>1, <2>2, <3>5, <3>6 DEF ServerStep
  <2>8. CASE /\ m.type \in Requests \ {"flush_sync", "flush"} /\ Fault
             /\ UNCHANGED server_enabled
             /\ from_server' = Append(from_server, Reply(m, "fail"))
             /\ UNCHANGED <<at, bulks, overtaken>>
    <3> HIDE DEF m
    <3>1. m.type \in {"enable", "disable", "set_info", "get_info"}
      BY <2>8 DEF Requests
    <3>2. ~IsBuffer(m) /\ m.c \in Controllers /\ m.p \in Ports
      BY <2>2, <3>1, MessageShapes DEF IsBuffer
    <3>3. server_enabled'[m.p] \in BOOLEAN
      BY <2>8, <3>2 DEF WireTypes
    <3>4. Rep(m.c, "fail", server_enabled'[m.p]) \in FromServer
      BY <3>2, <3>3, MessagesMade
    <3>5. /\ from_server' \in Seq(FromServer)
          /\ Added(from_server, from_server', Rep(m.c, "fail", server_enabled'[m.p]))
      BY <2>8, <3>4, AppendAdds DEF WireTypes, Reply, Rep
    <3>6. Answer(m, "fail")
      BY <2>2, <2>8, <3>1, <3>5 DEF Answer, Handles
    <3>7. faults' \in 0 .. MaxFaults
      BY <2>8, VcPortAssumption DEF Fault, WireTypes
    <3>8. WireTypes'
      BY <2>1, <2>2, <2>8, <3>5, <3>7 DEF WireTypes
    <3> QED BY <2>1, <2>2, <3>6, <3>8 DEF ServerStep
  <2> QED BY <1>1, <2>3, <2>4, <2>5, <2>6, <2>7, <2>8 DEF ServerHandles
<1>2. CASE BulkDone
  <2> DEFINE m == Head(bulks)
  <2>1. /\ UNCHANGED <<core, locks, module, flush_compatible, callback_queue, calls>>
        /\ bulks # <<>> /\ bulks' = Tail(bulks) /\ UNCHANGED <<to_server, faults>>
        /\ UNCHANGED <<server_enabled, overtaken>>
    BY <1>2 DEF BulkDone
  <2>2. m \in Held /\ bulks' \in Seq(Held) /\ Taken(bulks, bulks', m)
    BY <2>1, TailTakes DEF WireTypes
  <2>3. CASE m.type = "bulk_buffer" /\ at' = [at EXCEPT ![m.b] = "server"] /\ UNCHANGED from_server
    <3> HIDE DEF m
    <3>1. m.b \in Buffers /\ IsBuffer(m)
      BY <2>2, <2>3, MessageShapes DEF IsBuffer
    <3>2. ServerStep(m)
      BY <2>1, <2>2, <2>3, <3>1 DEF ServerStep, Arrive, Handles
    <3>3. WireTypes'
      BY <2>1, <2>2, <2>3, <3>1 DEF WireTypes
    <3> QED BY <2>1, <2>2, <3>2, <3>3
  <2>4. CASE m.type = "flush_sync" /\ GiveBackAll(m)
    <3> HIDE DEF m
    <3>1. ~IsBuffer(m) /\ m.c \in Controllers /\ m.p \in Ports
      BY <2>2, <2>4, MessageShapes DEF IsBuffer
    <3>2. server_enabled'[m.p] \in BOOLEAN
      BY <2>1, <3>1 DEF WireTypes
    <3>3. /\ from_server' \in Seq(FromServer)
          /\ Poured(from_server, from_server', BuffersOf(m.p),
                    Rep(m.c, "ok", server_enabled'[m.p]))
          /\ at' = [b \in Buffers |-> IF b \in BuffersOf(m.p) THEN "wire" ELSE at[b]]
      BY <2>4, <3>1, <3>2, GiveBackPours
    <3>4. ServerStep(m)
      BY <2>1, <2>2, <2>4, <3>3 DEF ServerStep, GiveBack, Handles
    <3>6. at' \in [Buffers -> {"client", "wire", "server", "queue"}]
      BY <3>3 DEF WireTypes
    <3>7. WireTypes'
      BY <2>1, <2>2, <2>4, <3>3, <3>6 DEF WireTypes
    <3> QED BY <2>1, <2>2, <3>4, <3>7
  <2> QED BY <1>2, <2>3, <2>4 DEF BulkDone
<1> QED BY <1>1, <1>2 DEF Server

\* A request is the last message for the server.
LEMMA RequestAdds ==
  ASSUME WireTypes, NEW c \in Controllers, NEW t \in Requests, NEW p \in Ports, NEW l,
         Request(c, t, p, l)
  PROVE  to_server' \in Seq(ToServer) /\ Added(to_server, to_server', Req(t, c, p))
<1>1. Req(t, c, p) \in ToServer /\ to_server \in Seq(ToServer)
  BY MessagesMade DEF WireTypes
<1>2. to_server' = Append(to_server, Req(t, c, p))
  BY DEF Request, Req
<1> QED BY <1>1, <1>2, AppendAdds

\* A buffer that is sent follows what was sent before.
LEMMA SentAdds ==
  ASSUME WireTypes, NEW b \in Data, NEW kind, NEW p \in Ports, Sent(p, b, kind)
  PROVE  /\ to_server' \in Seq(ToServer)
         /\ \E t \in {"buffer", "bulk_buffer"} :
              /\ t = "bulk_buffer" <=> IsBulk(p, kind)
              /\ Added(to_server, to_server', [type |-> t, b |-> b])
<1>1. PICK t \in {"buffer", "bulk_buffer"} :
        /\ t = "bulk_buffer" <=> IsBulk(p, kind)
        /\ to_server' = Append(to_server, [type |-> t, b |-> b])
  <2>1. CASE IsBulk(p, kind)
    BY <2>1 DEF Sent
  <2>2. CASE ~IsBulk(p, kind)
    BY <2>2 DEF Sent
  <2> QED BY <2>1, <2>2
<1>2. [type |-> t, b |-> b] \in ToServer /\ to_server \in Seq(ToServer)
  BY DEF ToServer, WireTypes
<1> QED BY <1>1, <1>2, AppendAdds

\* The message that is received was the first of those that came back.
LEMMA ReceiveTakes ==
  ASSUME WireTypes, from_server # <<>>, from_server' = Tail(from_server)
  PROVE  /\ Head(from_server) \in FromServer /\ from_server' \in Seq(FromServer)
         /\ Taken(from_server, from_server', Head(from_server))
BY TailTakes DEF WireTypes

\* The first callback is taken from the queue, which has each buffer once.
LEMMA CallbackTakes ==
  ASSUME WireTypes, callback_queue # <<>>, DoCallback,
         \A i, j \in DOMAIN callback_queue : callback_queue[i] = callback_queue[j] => i = j
  PROVE  /\ Head(callback_queue) \in Buffers
         /\ Msgs(callback_queue') = Msgs(callback_queue) \ {Head(callback_queue)}
         /\ Head(callback_queue) \in Msgs(callback_queue)
         /\ \A i, j \in DOMAIN callback_queue' : callback_queue'[i] = callback_queue'[j] => i = j
<1> DEFINE s == callback_queue
           t == callback_queue'
<1>1. s \in Seq(Buffers) /\ t = Tail(s) /\ s # <<>>
  BY DEF WireTypes, DoCallback
<1> HIDE DEF s, t
<1>2. /\ Head(s) \in Buffers /\ t \in Seq(Buffers) /\ 1 \in DOMAIN s /\ Head(s) = s[1]
      /\ Len(s) \in Nat \ {0} /\ Len(t) = Len(s) - 1
      /\ DOMAIN s = 1 .. Len(s) /\ DOMAIN t = 1 .. Len(s) - 1
  BY <1>1
<1>3. \A i \in DOMAIN t : i + 1 \in DOMAIN s /\ t[i] = s[i + 1]
  BY <1>1, <1>2
<1>4. \A i \in DOMAIN s : i = 1 \/ (i - 1 \in DOMAIN t /\ t[i - 1] = s[i])
  BY <1>2, <1>3
<1>5. \A i, j \in DOMAIN s : s[i] = s[j] => i = j
  BY DEF s
<1>6. \A i, j \in DOMAIN t : t[i] = t[j] => i = j
  <2> SUFFICES ASSUME NEW i \in DOMAIN t, NEW j \in DOMAIN t, t[i] = t[j]
               PROVE  i = j
    OBVIOUS
  <2>1. i + 1 = j + 1
    BY <1>3, <1>5
  <2> QED BY <2>1, <1>2
<1>7. ASSUME NEW i \in DOMAIN t
      PROVE  t[i] # Head(s)
  BY <1>2, <1>3, <1>5
<1>8. Msgs(t) = Msgs(s) \ {Head(s)}
  <2>1. Msgs(t) \subseteq Msgs(s) \ {Head(s)}
    BY <1>3, <1>7 DEF Msgs
  <2>2. Msgs(s) \ {Head(s)} \subseteq Msgs(t)
    BY <1>2, <1>4 DEF Msgs
  <2> QED BY <2>1, <2>2
<1>9. Head(s) \in Msgs(s)
  BY <1>2 DEF Msgs
<1> QED BY <1>2, <1>6, <1>8, <1>9 DEF s, t

-----------------------------------------------------------------------------
(* The first layer: the types.                                             *)

\* The state starts with its types.
LEMMA TypesInit == Init => Types
<1> SUFFICES ASSUME Init
             PROVE  Types
  OBVIOUS
<1> USE VcPortAssumption
<1>1. PortTypes
  BY DEF Init, PortTypes
<1>2. WireTypes
  <2>1. at \in [Buffers -> {"client", "wire", "server", "queue"}]
    BY DEF Init
  <2> QED BY <2>1 DEF Init, WireTypes
<1>3. ThreadTypes
  BY DEF Init, ThreadTypes, Ports
<1> QED BY <1>1, <1>2, <1>3 DEF Types

\* A callback keeps the types.
LEMMA CallbackTypes ==
  ASSUME PortTypes, WireTypes, callback_queue # <<>>, DoCallback,
         UNCHANGED <<is_enabled, locks, module, flush_compatible, server, wire, faults>>
  PROVE  PortTypes' /\ WireTypes'
<1> DEFINE b == Head(callback_queue)
<1>1. b \in Buffers /\ callback_queue' \in Seq(Buffers)
  BY DEF WireTypes, DoCallback
<1>2. at' = [at EXCEPT ![b] = IF b \in Events THEN "server" ELSE "client"]
      /\ transit' = IF b \in Events THEN transit ELSE [transit EXCEPT ![HomeOf(b)] = @ - 1]
  BY DEF DoCallback
<1> HIDE DEF b
<1>3. HomeOf(b) \in Ports
  BY DEF HomeOf, Ports
<1>4. transit' \in [Ports -> Int]
  BY <1>2, <1>3 DEF PortTypes
<1>5. at' \in [Buffers -> {"client", "wire", "server", "queue"}]
  BY <1>1, <1>2 DEF WireTypes
<1> QED BY <1>1, <1>4, <1>5 DEF PortTypes, WireTypes, locks, module, server, wire

\* A thread that starts a call, proceeds with it or returns keeps the types.
LEMMA TypesOfCalls ==
  ASSUME Types, NEW c \in Controllers, Call(c) \/ Proceed(c)
  PROVE  Types'
<1> USE DEF locks, core, module, client, server, wire, calls
<1>a. VcPortAssumption /\ Types
  BY VcPortAssumption
<1>b. on[c] \in Ports /\ {"enable", "disable", "flush", "set_info", "get_info"} \subseteq Requests
      /\ "in" \in Ports /\ "out" \in Ports /\ {"flush", "flush_sync"} \subseteq Requests
  BY <1>a DEF Types, ThreadTypes, Requests, Ports
<1>1. CASE Call(c)
  <2>1. PICK call \in Calls[c] : /\ op' = [op EXCEPT ![c] = call[1]]
                                 /\ on' = [on EXCEPT ![c] = call[2]]
    BY <1>1 DEF Call
  <2>2. call[1] \in {"enable", "disable", "flush", "format"} /\ call[2] \in Ports
    BY <2>1, <1>a DEF VcPortAssumption, Ports
  <2>3. ThreadTypes'
    BY <1>1, <1>a, <2>1, <2>2 DEF Call, Goto, Types, ThreadTypes
  <2>4. PortTypes' /\ WireTypes'
    BY <1>1, <1>a DEF Call, Types, PortTypes, WireTypes
  <2> QED BY <2>3, <2>4 DEF Types
<1>2. CASE EnableStart(c)
  <2>1. Request(c, "enable", on[c], "reply")
    BY <1>2 DEF EnableStart
  <2>2. to_server' \in Seq(ToServer)
    BY <1>a, <1>b, <2>1, RequestAdds DEF Types
  <2>3. ThreadTypes'
    BY <1>2, <1>a, <2>1 DEF EnableStart, Request, Goto, Types, ThreadTypes
  <2>4. WireTypes'
    BY <1>2, <1>a, <2>2 DEF EnableStart, Types, WireTypes
  <2>5. PortTypes'
    <3>1. port_lock' \in [Ports -> Controllers \cup {NoThread}]
      BY <1>2, <1>a DEF EnableStart, Types, PortTypes
    <3>2. has_pool' \in [Ports -> BOOLEAN] /\ allocated' \in [Ports -> BOOLEAN]
      BY <1>2, <1>a DEF EnableStart, Types, PortTypes
    <3>3. free' \in [Ports -> Int]
      BY <1>2, <1>a DEF EnableStart, Types, PortTypes, VcPortAssumption
    <3> QED BY <1>2, <1>a, <3>1, <3>2, <3>3 DEF EnableStart, Types, PortTypes
  <2> QED BY <2>3, <2>4, <2>5 DEF Types
<1>3. CASE EnableRefused(c)
  <2>1. ThreadTypes'
    BY <1>3, <1>a DEF EnableRefused, Return, Goto, Types, ThreadTypes
  <2>2. faults' \in 0 .. MaxFaults
    BY <1>3, <1>a DEF EnableRefused, Fault, Types, WireTypes, VcPortAssumption
  <2>3. PortTypes' /\ WireTypes'
    BY <1>3, <1>a, <2>2 DEF EnableRefused, Types, PortTypes, WireTypes
  <2> QED BY <2>1, <2>3 DEF Types
<1>4. CASE EnableReply(c)
  <2>1. ThreadTypes'
    BY <1>4, <1>a DEF EnableReply, Return, Goto, Types, ThreadTypes
  <2>2. is_enabled' \in [Ports -> BOOLEAN] /\ allocated' \in [Ports -> BOOLEAN]
        /\ port_lock' \in [Ports -> Controllers \cup {NoThread}]
    BY <1>4, <1>a DEF EnableReply, Types, PortTypes
  <2>3. PortTypes' /\ WireTypes'
    BY <1>4, <1>a, <2>2 DEF EnableReply, Types, PortTypes, WireTypes
  <2> QED BY <2>1, <2>3 DEF Types
<1>5. CASE DisableStart(c)
  <2>1. Request(c, "disable", on[c], "reply")
    BY <1>5 DEF DisableStart
  <2>2. to_server' \in Seq(ToServer)
    BY <1>a, <1>b, <2>1, RequestAdds DEF Types
  <2>3. ThreadTypes'
    BY <1>5, <1>a, <2>1 DEF DisableStart, Request, Goto, Types, ThreadTypes
  <2>4. WireTypes'
    BY <1>5, <1>a, <2>2 DEF DisableStart, Types, WireTypes
  <2>5. is_enabled' \in [Ports -> BOOLEAN] /\ action_lock' \in Controllers \cup {NoThread}
        /\ port_lock' \in [Ports -> Controllers \cup {NoThread}]
    BY <1>5, <1>a DEF DisableStart, Types, PortTypes
  <2>6. PortTypes'
    BY <1>5, <1>a, <2>5 DEF DisableStart, Types, PortTypes
  <2> QED BY <2>3, <2>4, <2>6 DEF Types
<1>6. CASE DisableRefused(c)
  <2>1. ThreadTypes'
    BY <1>6, <1>a DEF DisableRefused, Return, Goto, Types, ThreadTypes
  <2>2. PortTypes' /\ WireTypes'
    BY <1>6, <1>a DEF DisableRefused, Types, PortTypes, WireTypes
  <2> QED BY <2>1, <2>2 DEF Types
<1>7. CASE DisableReply(c)
  <2>1. ThreadTypes'
    BY <1>7, <1>a DEF DisableReply, Goto, Types, ThreadTypes
  <2>2. has_pool' \in [Ports -> BOOLEAN] /\ allocated' \in [Ports -> BOOLEAN]
    BY <1>7, <1>a DEF DisableReply, Types, PortTypes
  <2>3. PortTypes' /\ WireTypes'
    BY <1>7, <1>a, <2>2 DEF DisableReply, Types, PortTypes, WireTypes
  <2> QED BY <2>1, <2>3 DEF Types
<1>8. CASE DisableDrain(c)
  <2>1. PortTypes' /\ WireTypes'
    BY <1>8, <1>a, CallbackTypes DEF DisableDrain, Types
  <2>2. ThreadTypes'
    BY <1>8, <1>a DEF DisableDrain, Types, ThreadTypes
  <2> QED BY <2>1, <2>2 DEF Types
<1>9. CASE DisableDrained(c)
  <2>1. ThreadTypes'
    BY <1>9, <1>a DEF DisableDrained, Return, Goto, Types, ThreadTypes
  <2>2. is_enabled' \in [Ports -> BOOLEAN] /\ action_lock' \in Controllers \cup {NoThread}
        /\ port_lock' \in [Ports -> Controllers \cup {NoThread}]
    BY <1>9, <1>a DEF DisableDrained, Types, PortTypes
  <2>3. PortTypes' /\ WireTypes'
    BY <1>9, <1>a, <2>2 DEF DisableDrained, Types, PortTypes, WireTypes
  <2> QED BY <2>1, <2>3 DEF Types
<1>10. CASE DisableWait(c)
  <2>1. ThreadTypes'
    BY <1>10, <1>a DEF DisableWait, Return, Goto, Types, ThreadTypes
  <2>2. port_lock' \in [Ports -> Controllers \cup {NoThread}]
    BY <1>10, <1>a DEF DisableWait, Types, PortTypes
  <2>3. PortTypes' /\ WireTypes'
    BY <1>10, <1>a, <2>2 DEF DisableWait, Types, PortTypes, WireTypes
  <2> QED BY <2>1, <2>3 DEF Types
<1>11. CASE FlushStart(c)
  <2>1. PICK t \in {"flush", "flush_sync"} : Request(c, t, on[c], "reply")
    BY <1>11 DEF FlushStart, FlushRequest
  <2>2. to_server' \in Seq(ToServer)
    BY <1>a, <1>b, <2>1, RequestAdds DEF Types
  <2>3. ThreadTypes'
    BY <1>11, <1>a, <2>1 DEF FlushStart, Request, Goto, Types, ThreadTypes
  <2>4. flush_compatible' \in {"unknown", "yes", "no"} /\ faults' \in 0 .. MaxFaults
    BY <1>11, <1>a DEF FlushStart, AskVersion, Fault, Types, PortTypes, WireTypes,
                       VcPortAssumption
  <2>5. WireTypes'
    BY <1>11, <1>a, <2>2, <2>4 DEF FlushStart, Types, WireTypes
  <2>6. send_lock' \in [Ports -> Controllers \cup {NoThread}]
        /\ action_lock' \in Controllers \cup {NoThread}
    BY <1>11, <1>a DEF FlushStart, Types, PortTypes
  <2>7. PortTypes'
    BY <1>11, <1>a, <2>4, <2>6 DEF FlushStart, Types, PortTypes
  <2> QED BY <2>3, <2>5, <2>7 DEF Types
<1>12. CASE FlushReply(c)
  <2>1. ThreadTypes'
    BY <1>12, <1>a DEF FlushReply, Return, Goto, Types, ThreadTypes
  <2>2. send_lock' \in [Ports -> Controllers \cup {NoThread}]
        /\ action_lock' \in Controllers \cup {NoThread}
    BY <1>12, <1>a DEF FlushReply, Types, PortTypes
  <2>3. PortTypes' /\ WireTypes'
    BY <1>12, <1>a, <2>2 DEF FlushReply, Types, PortTypes, WireTypes
  <2> QED BY <2>1, <2>3 DEF Types
<1>13. CASE FormatStart(c)
  <2>1. Request(c, "set_info", "in", "reply")
    BY <1>13 DEF FormatStart
  <2>2. to_server' \in Seq(ToServer)
    BY <1>a, <1>b, <2>1, RequestAdds DEF Types
  <2>3. ThreadTypes'
    BY <1>13, <1>a, <2>1 DEF FormatStart, Request, Goto, Types, ThreadTypes
  <2>4. WireTypes'
    BY <1>13, <1>a, <2>2 DEF FormatStart, Types, WireTypes
  <2>5. port_lock' \in [Ports -> Controllers \cup {NoThread}]
    BY <1>13, <1>a DEF FormatStart, Types, PortTypes
  <2>6. PortTypes'
    BY <1>13, <1>a, <2>5 DEF FormatStart, Types, PortTypes
  <2> QED BY <2>3, <2>4, <2>6 DEF Types
<1>14. CASE FormatNext(c)
  <2>1. UNCHANGED <<core, send_lock, action_lock, module, flush_compatible, client, server,
                    from_server, faults>>
    BY <1>14 DEF FormatNext
  <2>2. CASE \E p \in Ports : /\ Request(c, "get_info", p, "get_reply")
                              /\ on' = [on EXCEPT ![c] = p]
                              /\ UNCHANGED <<op, port_lock>>
    <3>1. PICK p \in Ports : /\ Request(c, "get_info", p, "get_reply")
                             /\ on' = [on EXCEPT ![c] = p]
                             /\ UNCHANGED <<op, port_lock>>
      BY <2>2
    <3>2. to_server' \in Seq(ToServer)
      BY <1>a, <1>b, <3>1, RequestAdds DEF Types
    <3>3. ThreadTypes'
      BY <1>a, <3>1 DEF Request, Goto, Types, ThreadTypes
    <3>4. PortTypes' /\ WireTypes'
      BY <1>a, <2>1, <3>1, <3>2 DEF Types, PortTypes, WireTypes
    <3> QED BY <3>3, <3>4 DEF Types
  <2>3. CASE /\ Request(c, "get_info", "in", "get_reply")
             /\ UNCHANGED <<op, on, port_lock>>
    <3>1. to_server' \in Seq(ToServer)
      BY <1>a, <1>b, <2>3, RequestAdds DEF Types
    <3>2. ThreadTypes'
      BY <1>a, <2>3 DEF Request, Goto, Types, ThreadTypes
    <3>3. PortTypes' /\ WireTypes'
      BY <1>a, <2>1, <2>3, <3>1 DEF Types, PortTypes, WireTypes
    <3> QED BY <3>2, <3>3 DEF Types
  <2>4. CASE FormatReturn(c)
    <3>1. ThreadTypes'
      BY <1>a, <1>b, <2>4 DEF FormatReturn, Return, Goto, Types, ThreadTypes
    <3>2. port_lock' \in [Ports -> Controllers \cup {NoThread}]
      BY <1>a, <2>4 DEF FormatReturn, Types, PortTypes
    <3>3. PortTypes' /\ WireTypes'
      BY <1>a, <2>1, <2>4, <3>2 DEF FormatReturn, Types, PortTypes, WireTypes
    <3> QED BY <3>1, <3>3 DEF Types
  <2> QED BY <1>14, <1>b, <2>2, <2>3, <2>4 DEF FormatNext
<1> QED BY <1>1, <1>2, <1>3, <1>4, <1>5, <1>6, <1>7, <1>8, <1>9, <1>10, <1>11, <1>12, <1>13,
           <1>14 DEF Proceed

\* Every step keeps the types.
LEMMA TypesNext ==
  ASSUME Types, [Next]_vars
  PROVE  Types'
<1> USE DEF locks, core, module, client, server, wire, calls
<1>a. VcPortAssumption /\ Types
  BY VcPortAssumption
<1>1. ASSUME NEW c \in Controllers, Call(c) \/ Proceed(c)
      PROVE  Types'
  BY <1>1, TypesOfCalls
<1>2. ASSUME NEW b \in Data, NEW k \in Kinds, Send(b, k)
      PROVE  Types'
  <2> DEFINE p == HomeOf(b)
  <2>1. p \in Ports /\ b \in Buffers
    BY DEF HomeOf, Ports, Buffers
  <2>2. /\ Sent(p, b, k) \/ SendFailed(p)
        /\ NoteBulk(p, k)
        /\ UNCHANGED <<is_enabled, locks, has_pool, allocated, is_zero_copy, connected,
                       flush_compatible, callback_queue, server, from_server, calls>>
    BY <1>2 DEF Send
  <2> HIDE DEF p
  <2>3. sent_data_on_port' \in [Ports -> BOOLEAN]
    BY <1>a, <2>1, <2>2 DEF NoteBulk, IsBulk, Types, PortTypes
  <2>4. ThreadTypes'
    BY <1>a, <2>2 DEF Types, ThreadTypes
  <2>5. CASE Sent(p, b, k)
    <3>1. to_server' \in Seq(ToServer)
      BY <1>a, <2>1, <2>5, SentAdds DEF Types
    <3>2. free' \in [Ports -> Int] /\ transit' \in [Ports -> Int]
      BY <1>a, <2>1, <2>5 DEF Sent, Types, PortTypes
    <3>3. at' \in [Buffers -> {"client", "wire", "server", "queue"}]
      BY <1>a, <2>1, <2>5 DEF Sent, Types, WireTypes
    <3>4. faults' = faults
      BY <2>5 DEF Sent
    <3> QED BY <1>a, <2>2, <2>3, <2>4, <3>1, <3>2, <3>3, <3>4 DEF Types, PortTypes, WireTypes
  <2>6. CASE SendFailed(p)
    <3>1. faults' \in 0 .. MaxFaults /\ UNCHANGED <<free, transit, at, to_server>>
      BY <1>a, <2>6 DEF SendFailed, Fault, Types, WireTypes, VcPortAssumption
    <3> QED BY <1>a, <2>2, <2>3, <2>4, <3>1 DEF Types, PortTypes, WireTypes
  <2> QED BY <2>2, <2>5, <2>6
<1>3. ASSUME NEW b \in Buffers, ServerReturns(b)
      PROVE  Types'
  <2>1. from_server' \in Seq(FromServer)
    BY <1>3, <1>a, MessagesMade, AppendAdds DEF ServerReturns, Buf, Types, WireTypes
  <2>2. at' \in [Buffers -> {"client", "wire", "server", "queue"}]
    BY <1>3, <1>a DEF ServerReturns, Types, WireTypes
  <2> QED BY <1>3, <1>a, <2>1, <2>2 DEF ServerReturns, Types, PortTypes, WireTypes, ThreadTypes
<1>4. ASSUME NEW p \in Ports, Connect(p)
      PROVE  Types'
  <2>1. connected' \in [Ports -> BOOLEAN]
    BY <1>4, <1>a DEF Connect, Types, PortTypes
  <2> QED BY <1>4, <1>a, <2>1 DEF Connect, Types, PortTypes, WireTypes, ThreadTypes
<1>5. ASSUME NEW p \in Ports, SetZeroCopy(p)
      PROVE  Types'
  <2>1. is_zero_copy' \in [Ports -> BOOLEAN]
    BY <1>5, <1>a DEF SetZeroCopy, Types, PortTypes
  <2> QED BY <1>5, <1>a, <2>1 DEF SetZeroCopy, Types, PortTypes, WireTypes, ThreadTypes
<1>6. CASE ActionThread
  <2>1. PortTypes' /\ WireTypes'
    BY <1>6, <1>a, CallbackTypes DEF ActionThread, Types
  <2> QED BY <1>6, <1>a, <2>1 DEF ActionThread, Types, ThreadTypes
<1>7. CASE ReceiveBuffer
  <2> DEFINE b == Head(from_server).b
  <2>1. Head(from_server) \in FromServer /\ from_server' \in Seq(FromServer)
    BY <1>7, <1>a, ReceiveTakes DEF ReceiveBuffer, Types
  <2>2. b \in Buffers
    BY <1>7, <2>1, MessageShapes DEF ReceiveBuffer, IsBuffer
  <2>3. /\ callback_queue' = Append(callback_queue, b)
        /\ at' = [at EXCEPT ![b] = "queue"]
        /\ free' = IF b \in Events \/ ~allocated[HomeOf(b)] THEN free
                   ELSE [free EXCEPT ![HomeOf(b)] = @ + 1]
    BY <1>7 DEF ReceiveBuffer
  <2> HIDE DEF b
  <2>4. callback_queue' \in Seq(Buffers)
    BY <1>a, <2>2, <2>3, AppendAdds DEF Types, WireTypes
  <2>5. at' \in [Buffers -> {"client", "wire", "server", "queue"}]
    BY <1>a, <2>2, <2>3 DEF Types, WireTypes
  <2>6. free' \in [Ports -> Int]
    <3>1. HomeOf(b) \in Ports /\ free \in [Ports -> Int]
      BY <1>a DEF HomeOf, Ports, Types, PortTypes
    <3>2. free' = free \/ free' = [free EXCEPT ![HomeOf(b)] = @ + 1]
      BY <2>3
    <3> QED BY <3>1, <3>2
  <2> QED BY <1>7, <1>a, <2>1, <2>4, <2>5, <2>6
          DEF ReceiveBuffer, Types, PortTypes, WireTypes, ThreadTypes
<1>8. CASE ReceiveReply
  <2> DEFINE m == Head(from_server)
  <2>1. m \in FromServer /\ from_server' \in Seq(FromServer)
    BY <1>8, <1>a, ReceiveTakes DEF ReceiveReply, Types
  <2>2. m.c \in Controllers /\ m.status \in {"ok", "fail"} /\ m.enabled \in BOOLEAN
    BY <1>8, <2>1, MessageShapes DEF ReceiveReply, IsBuffer
  <2>3. /\ reply' = [reply EXCEPT ![m.c] = m.status]
        /\ is_enabled' = [is_enabled EXCEPT ![on[m.c]] = m.enabled] \/ UNCHANGED is_enabled
    BY <1>8 DEF ReceiveReply
  <2> HIDE DEF m
  <2>4. reply' \in [Controllers -> {"none", "ok", "fail"}]
    BY <1>a, <2>2, <2>3 DEF Types, ThreadTypes
  <2>5. is_enabled' \in [Ports -> BOOLEAN]
    BY <1>a, <2>2, <2>3 DEF Types, PortTypes
  <2> QED BY <1>8, <1>a, <2>1, <2>4, <2>5
          DEF ReceiveReply, Types, PortTypes, WireTypes, ThreadTypes
<1>9. CASE Server
  <2>1. /\ WireTypes'
        /\ UNCHANGED <<core, locks, module, flush_compatible, callback_queue, calls>>
    BY <1>9, <1>a, ServerSteps DEF Types
  <2> QED BY <1>a, <2>1 DEF Types, PortTypes, ThreadTypes
<1>10. CASE UNCHANGED vars
  BY <1>10, <1>a DEF vars, Types, PortTypes, WireTypes, ThreadTypes
<1> QED BY <1>1, <1>2, <1>3, <1>4, <1>5, <1>6, <1>7, <1>8, <1>9, <1>10 DEF Next, Transport

-----------------------------------------------------------------------------
(* The layer of the calls: a call is in one place, and its thread waits.   *)

\* The messages of a sequence have its type.
LEMMA MsgsTyped == \A M : \A s \in Seq(M) : Msgs(s) \subseteq M
<1> SUFFICES ASSUME NEW M, NEW s \in Seq(M), NEW i \in DOMAIN s
             PROVE  s[i] \in M
  BY DEF Msgs
<1> QED OBVIOUS

NotAsked(c) == ~Asked(to_server, c) /\ ~Asked(bulks, c) /\ ~Asked(from_server, c)

\* Only c does something.
Others(c) ==
  \A d \in Controllers : d # c =>
    op'[d] = op[d] /\ on'[d] = on[d] /\ pc'[d] = pc[d] /\ reply'[d] = reply[d]

\* A thread whose call is somewhere waits for its reply.
LEMMA AskedWaits ==
  ASSUME Types, CallInv, NEW c \in Controllers, ~NotAsked(c)
  PROVE  reply[c] = "none" /\ pc[c] \in {"reply", "get_reply"}
<1>1. PICK m \in Msgs(to_server) \cup Msgs(bulks) \cup Msgs(from_server) : Asks(m, c)
  BY DEF NotAsked, Asked
<1>2. m \in ToServer \cup Held \cup FromServer
  BY MsgsTyped DEF Types, WireTypes
<1>3. m.type \in Requests \cup {"reply"}
  BY <1>1, <1>2, MessageShapes DEF Asks
<1>4. Fits(m)
  BY <1>1 DEF CallInv
<1> QED BY <1>1, <1>3, <1>4 DEF Fits, Asks, Requests

\* What a message says of another thread stays true.
LEMMA FitsOthers ==
  ASSUME NEW c \in Controllers, Others(c), NEW m, Fits(m),
         IsBuffer(m) \/ (m.c \in Controllers /\ m.c # c)
  PROVE  Fits(m)'
BY DEF Fits, Others

\* A thread that is not asked for may do what it likes.
LEMMA CallRests ==
  ASSUME Types, CallInv, UNCHANGED <<to_server, bulks, from_server>>,
         NEW c \in Controllers, NotAsked(c), Others(c)
  PROVE  CallInv'
<1>1. ASSUME NEW m \in Msgs(to_server) \cup Msgs(bulks) \cup Msgs(from_server)
      PROVE  Fits(m)'
  <2>1. Fits(m)
    BY DEF CallInv
  <2>2. m \in ToServer \cup Held \cup FromServer
    BY MsgsTyped DEF Types, WireTypes
  <2>3. IsBuffer(m) \/ (m.c \in Controllers /\ m.c # c)
    BY <2>2, MessageShapes DEF NotAsked, Asked, Asks
  <2> QED BY <2>1, <2>3, FitsOthers
<1> QED BY <1>1 DEF CallInv

\* Nothing happens to the calls.
LEMMA CallStays ==
  ASSUME CallInv, UNCHANGED <<to_server, bulks, from_server, calls>>
  PROVE  CallInv'
BY DEF CallInv, Fits, calls

\* A thread calls.
LEMMA CallAsks ==
  ASSUME Types, CallInv, NEW c \in Controllers, NEW t \in Requests, NEW p \in Ports,
         Added(to_server, to_server', Req(t, c, p)), UNCHANGED <<bulks, from_server>>,
         NotAsked(c), Others(c), Fits(Req(t, c, p))'
  PROVE  CallInv'
<1> DEFINE r == Req(t, c, p)
<1>1. r.c = c /\ ~IsBuffer(r)
  BY MessagesMade
<1> HIDE DEF r
<1>2. Msgs(to_server') = Msgs(to_server) \cup {r} /\ OneCall(to_server')
  BY <1>1 DEF Added, CallInv, NotAsked, r
<1>3. ASSUME NEW m \in Msgs(to_server) \cup Msgs(bulks) \cup Msgs(from_server)
      PROVE  Fits(m)'
  <2>1. Fits(m)
    BY DEF CallInv
  <2>2. m \in ToServer \cup Held \cup FromServer
    BY MsgsTyped DEF Types, WireTypes
  <2>3. IsBuffer(m) \/ (m.c \in Controllers /\ m.c # c)
    BY <2>2, MessageShapes DEF NotAsked, Asked, Asks
  <2> QED BY <2>1, <2>3, FitsOthers
<1>4. \A d \in Controllers : Asked(to_server', d) => Asked(to_server, d) \/ d = c
  BY <1>1, <1>2 DEF Asked, Asks
<1>5. Fits(r)'
  BY DEF r
<1>6. \A d \in Controllers : /\ Asked(to_server', d) => ~Asked(bulks, d) /\ ~Asked(from_server, d)
                             /\ Asked(bulks, d) => ~Asked(from_server, d)
  BY <1>4 DEF NotAsked, CallInv
<1>7. \A m \in Msgs(to_server') \cup Msgs(bulks) \cup Msgs(from_server) : Fits(m)'
  BY <1>2, <1>3, <1>5
<1> QED BY <1>2, <1>6, <1>7 DEF CallInv

\* A buffer is sent.
LEMMA CallSends ==
  ASSUME CallInv, NEW m, IsBuffer(m), Added(to_server, to_server', m),
         UNCHANGED <<bulks, from_server, calls>>
  PROVE  CallInv'
<1>1. Msgs(to_server') = Msgs(to_server) \cup {m} /\ OneCall(to_server')
  BY DEF Added, CallInv
<1>2. \A d : Asked(to_server', d) <=> Asked(to_server, d)
  BY <1>1 DEF Asked, Asks
<1>3. \A x \in Msgs(to_server') \cup Msgs(bulks) \cup Msgs(from_server) : Fits(x)'
  BY <1>1 DEF CallInv, Fits, calls
<1> QED BY <1>1, <1>2, <1>3 DEF CallInv

\* A buffer comes back.
LEMMA CallReturns ==
  ASSUME CallInv, NEW m, IsBuffer(m), Added(from_server, from_server', m),
         UNCHANGED <<bulks, to_server, calls>>
  PROVE  CallInv'
<1>1. Msgs(from_server') = Msgs(from_server) \cup {m} /\ OneCall(from_server')
  BY DEF Added, CallInv
<1>2. \A d : Asked(from_server', d) <=> Asked(from_server, d)
  BY <1>1 DEF Asked, Asks
<1>3. \A x \in Msgs(to_server) \cup Msgs(bulks) \cup Msgs(from_server') : Fits(x)'
  BY <1>1 DEF CallInv, Fits, calls
<1> QED BY <1>1, <1>2, <1>3 DEF CallInv

\* A buffer is received.
LEMMA CallTakes ==
  ASSUME CallInv, NEW m, IsBuffer(m), Taken(from_server, from_server', m),
         UNCHANGED <<bulks, to_server, calls>>
  PROVE  CallInv'
<1>1. Msgs(from_server) = Msgs(from_server') \cup {m} /\ OneCall(from_server')
  BY DEF Taken, CallInv
<1>2. \A d : Asked(from_server', d) <=> Asked(from_server, d)
  BY <1>1 DEF Asked, Asks
<1>3. \A x \in Msgs(to_server) \cup Msgs(bulks) \cup Msgs(from_server') : Fits(x)'
  BY <1>1 DEF CallInv, Fits, calls
<1> QED BY <1>1, <1>2, <1>3 DEF CallInv

\* A reply is received: nothing else of its thread is anywhere.
LEMMA CallReplied ==
  ASSUME Types, CallInv, NEW m, m.c \in Controllers, ~IsBuffer(m),
         Taken(from_server, from_server', m), UNCHANGED <<bulks, to_server>>, Others(m.c)
  PROVE  CallInv'
<1>1. Msgs(from_server) = Msgs(from_server') \cup {m} /\ OneCall(from_server')
      /\ ~Asked(from_server', m.c)
  BY DEF Taken, CallInv, Asks
<1>2. \A d : Asked(from_server', d) => Asked(from_server, d)
  BY <1>1 DEF Asked
<1>3. Asked(from_server, m.c)
  BY <1>1 DEF Asked, Asks
<1>4. ~Asked(to_server, m.c) /\ ~Asked(bulks, m.c)
  BY <1>3 DEF CallInv
<1>5. ASSUME NEW x \in Msgs(to_server) \cup Msgs(bulks) \cup Msgs(from_server')
      PROVE  Fits(x)'
  <2>1. Fits(x)
    BY <1>1 DEF CallInv
  <2>2. x \in ToServer \cup Held \cup FromServer
    BY <1>1, MsgsTyped DEF Types, WireTypes
  <2>3. IsBuffer(x) \/ (x.c \in Controllers /\ x.c # m.c)
    BY <2>2, <1>1, <1>4, MessageShapes DEF Asked, Asks
  <2> QED BY <2>1, <2>3, FitsOthers
<1> QED BY <1>1, <1>2, <1>5 DEF CallInv

\* What the server handles is in one place only, and leaves it.
LEMMA CallHandled ==
  ASSUME CallInv, NEW m, Handles(m)
  PROVE  /\ OneCall(to_server') /\ OneCall(bulks')
         /\ m \in Msgs(to_server) \cup Msgs(bulks)
         /\ Msgs(to_server') \cup Msgs(bulks') \subseteq Msgs(to_server) \cup Msgs(bulks)
         /\ Msgs(to_server') \subseteq Msgs(to_server) /\ Msgs(bulks') \subseteq Msgs(bulks)
         /\ \A d : Asks(m, d) /\ d \in Controllers =>
              ~Asked(to_server', d) /\ ~Asked(bulks', d) /\ ~Asked(from_server, d)
<1>1. CASE Taken(to_server, to_server', m) /\ UNCHANGED bulks
  <2>1. Msgs(to_server) = Msgs(to_server') \cup {m}
    BY <1>1 DEF Taken
  <2>2. \A d : Asks(m, d) => Asked(to_server, d) /\ ~Asked(to_server', d)
    BY <1>1, <2>1 DEF Taken, CallInv, Asked
  <2>3. \A d : Asks(m, d) /\ d \in Controllers => ~Asked(bulks, d) /\ ~Asked(from_server, d)
    BY <2>2 DEF CallInv
  <2> QED BY <1>1, <2>1, <2>2, <2>3 DEF Taken, CallInv
<1>2. CASE Taken(bulks, bulks', m) /\ UNCHANGED to_server
  <2>1. Msgs(bulks) = Msgs(bulks') \cup {m}
    BY <1>2 DEF Taken
  <2>2. \A d : Asks(m, d) => Asked(bulks, d) /\ ~Asked(bulks', d)
    BY <1>2, <2>1 DEF Taken, CallInv, Asked
  <2>3. \A d : Asks(m, d) /\ d \in Controllers => ~Asked(to_server, d) /\ ~Asked(from_server, d)
    BY <2>2 DEF CallInv
  <2> QED BY <1>2, <2>1, <2>2, <2>3 DEF Taken, CallInv
<1> QED BY <1>1, <1>2 DEF Handles

\* The server answers what it was asked.
LEMMA CallServed ==
  ASSUME Types, WireTypes', CallInv, NEW m \in ToServer \cup Held, ServerStep(m), UNCHANGED calls
  PROVE  CallInv'
<1>1. CASE Defer(m)
  <2>1. /\ Msgs(to_server) = Msgs(to_server') \cup {m} /\ Msgs(bulks') = Msgs(bulks) \cup {m}
        /\ UNCHANGED from_server
    BY <1>1 DEF Defer, Taken, Added
  <2>2. \A d : Asks(m, d) => Asked(to_server, d) /\ ~Asked(to_server', d)
    BY <1>1, <2>1 DEF Defer, Taken, CallInv, Asked
  <2>3. ~IsBuffer(m) => m.c \in Controllers /\ Asks(m, m.c)
    BY MessageShapes DEF Asks
  <2>4. ~IsBuffer(m) => ~Asked(bulks, m.c)
    BY <2>2, <2>3 DEF CallInv
  <2>5. OneCall(to_server') /\ OneCall(bulks')
    BY <1>1, <2>4 DEF Defer, Taken, Added, CallInv
  <2>6. \A d : Asked(to_server', d) => Asked(to_server, d)
    BY <2>1 DEF Asked
  <2>7. \A d : Asked(bulks', d) => Asked(bulks, d) \/ Asks(m, d)
    BY <2>1 DEF Asked
  <2>8. \A d \in Controllers :
          /\ Asked(to_server', d) => ~Asked(bulks', d) /\ ~Asked(from_server, d)
          /\ Asked(bulks', d) => ~Asked(from_server, d)
    BY <2>2, <2>6, <2>7 DEF CallInv
  <2>9. \A x \in Msgs(to_server') \cup Msgs(bulks') \cup Msgs(from_server') : Fits(x)'
    BY <2>1 DEF CallInv, Fits, calls
  <2> QED BY <2>1, <2>5, <2>8, <2>9 DEF CallInv
<1>2. CASE Arrive(m)
  <2>1. UNCHANGED from_server /\ Handles(m)
    BY <1>2 DEF Arrive
  <2>2. /\ OneCall(to_server') /\ OneCall(bulks')
        /\ Msgs(to_server') \subseteq Msgs(to_server) /\ Msgs(bulks') \subseteq Msgs(bulks)
    BY <2>1, CallHandled
  <2>3. \A d : Asked(to_server', d) => Asked(to_server, d)
    BY <2>2 DEF Asked
  <2>4. \A d : Asked(bulks', d) => Asked(bulks, d)
    BY <2>2 DEF Asked
  <2>5. \A x \in Msgs(to_server') \cup Msgs(bulks') \cup Msgs(from_server') : Fits(x)'
    BY <2>1, <2>2 DEF CallInv, Fits, calls
  <2> QED BY <2>1, <2>2, <2>3, <2>4, <2>5 DEF CallInv
<1>3. ASSUME NEW s \in {"ok", "fail"}, NEW e \in BOOLEAN, NEW B \in SUBSET Buffers,
             Handles(m), ~IsBuffer(m),
             \/ Added(from_server, from_server', Rep(m.c, s, e))
             \/ Poured(from_server, from_server', B, Rep(m.c, s, e))
      PROVE  CallInv'
  <2> DEFINE r == Rep(m.c, s, e)
  <2>1. m.c \in Controllers /\ Asks(m, m.c) /\ m.type \in Requests
    BY <1>3, MessageShapes DEF Asks
  <2>2. r.c = m.c /\ ~IsBuffer(r) /\ r.type = "reply"
    BY <1>3, <2>1, MessagesMade
  <2> HIDE DEF r
  <2>3. /\ OneCall(to_server') /\ OneCall(bulks') /\ m \in Msgs(to_server) \cup Msgs(bulks)
        /\ Msgs(to_server') \subseteq Msgs(to_server) /\ Msgs(bulks') \subseteq Msgs(bulks)
        /\ ~Asked(to_server', m.c) /\ ~Asked(bulks', m.c) /\ ~Asked(from_server, m.c)
    BY <1>3, <2>1, CallHandled
  <2>4. /\ OneCall(from_server')
        /\ \A x \in Msgs(from_server') : x \in Msgs(from_server) \/ IsBuffer(x) \/ x = r
    <3>1. CASE Added(from_server, from_server', r)
      BY <3>1, <2>2, <2>3 DEF Added, CallInv
    <3>2. CASE Poured(from_server, from_server', B, r)
      BY <3>2, <2>2, <2>3, MessagesMade DEF Poured, CallInv
    <3> QED BY <1>3, <3>1, <3>2 DEF r
  <2>5. \A d : Asked(from_server', d) => Asked(from_server, d) \/ d = m.c
    BY <2>2, <2>4 DEF Asked, Asks
  <2>6. \A d : /\ Asked(to_server', d) => Asked(to_server, d)
               /\ Asked(bulks', d) => Asked(bulks, d)
    BY <2>3 DEF Asked
  <2>7. Fits(r)'
    <3>1. Fits(m)
      BY <2>3 DEF CallInv
    <3>2. reply[m.c] = "none" /\ pc[m.c] \in {"reply", "get_reply"}
      BY <1>3, <2>1, <3>1 DEF Fits, Requests
    <3> QED BY <2>2, <3>2 DEF Fits, calls
  <2>8. ASSUME NEW x \in Msgs(to_server') \cup Msgs(bulks') \cup Msgs(from_server')
        PROVE  Fits(x)'
    <3>1. CASE IsBuffer(x)
      BY <3>1 DEF Fits
    <3>2. CASE x = r
      BY <3>2, <2>7
    <3>3. CASE x \in Msgs(to_server) \cup Msgs(bulks) \cup Msgs(from_server)
      <4>1. Fits(x)
        BY <3>3 DEF CallInv
      <4> QED BY <4>1 DEF Fits, calls
    <3> QED BY <2>3, <2>4, <3>1, <3>2, <3>3
  <2>9. \A d \in Controllers :
          /\ Asked(to_server', d) => ~Asked(bulks', d) /\ ~Asked(from_server', d)
          /\ Asked(bulks', d) => ~Asked(from_server', d)
    BY <2>3, <2>5, <2>6 DEF CallInv
  <2> QED BY <2>3, <2>4, <2>8, <2>9 DEF CallInv
<1>4. ASSUME NEW s \in {"ok", "fail"}, Answer(m, s)
      PROVE  CallInv'
  <2>1. ~IsBuffer(m) /\ Handles(m)
        /\ Added(from_server, from_server', Rep(m.c, s, server_enabled'[m.p]))
    BY <1>4 DEF Answer, IsBuffer
  <2>2. server_enabled'[m.p] \in BOOLEAN /\ {} \in SUBSET Buffers
    BY <2>1, MessageShapes DEF WireTypes
  <2> QED BY <2>1, <2>2, <1>3
<1>5. CASE GiveBack(m)
  <2>1. ~IsBuffer(m) /\ Handles(m)
        /\ Poured(from_server, from_server', BuffersOf(m.p), Rep(m.c, "ok", server_enabled'[m.p]))
    BY <1>5 DEF GiveBack, IsBuffer
  <2>2. server_enabled'[m.p] \in BOOLEAN /\ BuffersOf(m.p) \in SUBSET Buffers
    BY <2>1, MessageShapes, BuffersOfPort DEF WireTypes
  <2> QED BY <2>1, <2>2, <1>3
<1> QED BY <1>1, <1>2, <1>4, <1>5 DEF ServerStep

\* A thread does something only while nothing is asked for it; it does not touch the
\* buffers, and what it asks is what it is about.
LEMMA ThreadSteps ==
  ASSUME Types, Places, CallInv, NEW c \in Controllers, Call(c) \/ Proceed(c),
         ~DisableDrain(c)
  PROVE  /\ NotAsked(c) /\ Others(c)
         /\ UNCHANGED <<client, server, from_server>>
         /\ \/ UNCHANGED to_server
            \/ \E t \in Requests, p \in Ports :
                 /\ Added(to_server, to_server', Req(t, c, p)) /\ Fits(Req(t, c, p))'
                 /\ UNCHANGED op /\ op[c] # "none"
                 /\ t = "flush" => FlushStart(c) /\ Request(c, FlushRequest(p), p, "reply")
<1> USE DEF Others
<1>b. on[c] \in Ports /\ {"enable", "disable", "flush", "set_info", "get_info"} \subseteq Requests
      /\ "in" \in Ports /\ "out" \in Ports /\ {"flush", "flush_sync"} \subseteq Requests
      /\ WireTypes
  BY DEF Types, ThreadTypes, Requests, Ports
<1>c. ThreadTypes
  BY DEF Types
<1>d. reply[c] # "none" \/ pc[c] \notin {"reply", "get_reply"} => NotAsked(c)
  BY AskedWaits
<1>e. ASSUME NEW t \in Requests, NEW p \in Ports, NEW l, Request(c, t, p, l),
             t \in {"enable", "disable"} => op[c] = t /\ l = "reply" /\ on[c] = p,
             t \in {"flush", "flush_sync"} => op[c] = "flush" /\ l = "reply" /\ on[c] = p,
             t = "set_info" => op[c] = "format" /\ l = "reply",
             t = "get_info" => op[c] = "format" /\ l = "get_reply" /\ on'[c] = p,
             t # "get_info" => on' = on,
             op' = op
      PROVE  Added(to_server, to_server', Req(t, c, p)) /\ Fits(Req(t, c, p))'
  <2>1. Added(to_server, to_server', Req(t, c, p))
    BY <1>b, <1>e, RequestAdds
  <2>2. reply'[c] = "none" /\ pc'[c] = l
    BY <1>c, <1>e DEF Request, Goto, ThreadTypes
  <2>3. /\ Req(t, c, p).type = t /\ Req(t, c, p).c = c /\ Req(t, c, p).p = p
    BY MessagesMade
  <2>4. t # "reply"
    BY DEF Requests
  <2>5. Fits(Req(t, c, p))'
    BY <1>e, <2>2, <2>3, <2>4 DEF Fits
  <2> QED BY <2>1, <2>5
<1>1. CASE Call(c)
  BY <1>1, <1>c, <1>d DEF Call, Goto, ThreadTypes, wire, server
<1>2. CASE EnableStart(c)
  <2>1. Request(c, "enable", on[c], "reply") /\ UNCHANGED <<op, on>> /\ op[c] = "enable"
        /\ pc[c] = "start" /\ UNCHANGED <<client, server, from_server>>
    BY <1>2 DEF EnableStart, Starts
  <2>2. Others(c)
    BY <2>1, <1>c DEF Request, Goto, ThreadTypes
  <2>3. Added(to_server, to_server', Req("enable", c, on[c])) /\ Fits(Req("enable", c, on[c]))'
    BY <2>1, <1>b, <1>e
  <2> QED BY <2>1, <2>2, <2>3, <1>b, <1>d
<1>3. CASE EnableRefused(c)
  BY <1>3, <1>c, <1>d DEF EnableRefused, Starts, Return, Goto, ThreadTypes, wire
<1>4. CASE EnableReply(c)
  BY <1>4, <1>c, <1>d DEF EnableReply, Replied, Return, Goto, ThreadTypes, wire
<1>5. CASE DisableStart(c)
  <2>1. Request(c, "disable", on[c], "reply") /\ UNCHANGED <<op, on>> /\ op[c] = "disable"
        /\ pc[c] = "start" /\ UNCHANGED <<client, server, from_server>>
    BY <1>5 DEF DisableStart, Starts
  <2>2. Others(c)
    BY <2>1, <1>c DEF Request, Goto, ThreadTypes
  <2>3. Added(to_server, to_server', Req("disable", c, on[c])) /\ Fits(Req("disable", c, on[c]))'
    BY <2>1, <1>b, <1>e
  <2> QED BY <2>1, <2>2, <2>3, <1>b, <1>d
<1>6. CASE DisableRefused(c)
  BY <1>6, <1>c, <1>d DEF DisableRefused, Starts, Return, Goto, ThreadTypes, wire
<1>7. CASE DisableReply(c)
  BY <1>7, <1>c, <1>d DEF DisableReply, Replied, Goto, ThreadTypes, wire
<1>8. CASE DisableDrained(c)
  BY <1>8, <1>c, <1>d DEF DisableDrained, Return, Goto, ThreadTypes, wire
<1>9. CASE DisableWait(c)
  BY <1>9, <1>c, <1>d DEF DisableWait, Return, Goto, ThreadTypes, wire
<1>10. CASE FlushStart(c)
  <2>1. PICK t \in {"flush", "flush_sync"} :
          Request(c, t, on[c], "reply") /\ t = FlushRequest(on[c])
    BY <1>10 DEF FlushStart, FlushRequest
  <2>2. UNCHANGED <<op, on>> /\ op[c] = "flush"
        /\ pc[c] = "start" /\ UNCHANGED <<client, server, from_server>>
    BY <1>10 DEF FlushStart, Starts
  <2>3. Others(c)
    BY <2>1, <2>2, <1>c DEF Request, Goto, ThreadTypes
  <2>4. Added(to_server, to_server', Req(t, c, on[c])) /\ Fits(Req(t, c, on[c]))'
    BY <2>1, <2>2, <1>b, <1>e
  <2> QED BY <2>1, <2>2, <2>3, <2>4, <1>10, <1>b, <1>d
<1>11. CASE FlushReply(c)
  BY <1>11, <1>c, <1>d DEF FlushReply, Replied, Return, Goto, ThreadTypes, wire
<1>12. CASE FormatStart(c)
  <2>1. Request(c, "set_info", "in", "reply") /\ UNCHANGED <<op, on>> /\ op[c] = "format"
        /\ pc[c] = "start" /\ UNCHANGED <<client, server, from_server>>
    BY <1>12 DEF FormatStart, Starts
  <2>2. Others(c)
    BY <2>1, <1>c DEF Request, Goto, ThreadTypes
  <2>3. Added(to_server, to_server', Req("set_info", c, "in")) /\ Fits(Req("set_info", c, "in"))'
    BY <2>1, <1>b, <1>e
  <2> QED BY <2>1, <2>2, <2>3, <1>b, <1>d
<1>13. CASE FormatNext(c)
  <2>1. UNCHANGED <<client, server, from_server>> /\ op[c] = "format" /\ NotAsked(c)
    BY <1>13, <1>d DEF FormatNext, Replied
  <2>2. ASSUME NEW p \in Ports, Request(c, "get_info", p, "get_reply"), on'[c] = p, UNCHANGED op,
               on' = [on EXCEPT ![c] = p] \/ UNCHANGED on
        PROVE  /\ Others(c)
               /\ Added(to_server, to_server', Req("get_info", c, p))
               /\ Fits(Req("get_info", c, p))'
    <3>1. Others(c)
      BY <2>2, <1>c DEF Request, Goto, ThreadTypes
    <3> QED BY <3>1, <2>1, <2>2, <1>b, <1>e
  <2>3. CASE /\ on' = [on EXCEPT ![c] = "out"] /\ Request(c, "get_info", "out", "get_reply")
             /\ UNCHANGED <<op, port_lock>>
    <3>1. on'[c] = "out"
      BY <2>3, <1>c DEF ThreadTypes
    <3>2. /\ Others(c) /\ Added(to_server, to_server', Req("get_info", c, "out"))
          /\ Fits(Req("get_info", c, "out"))'
      BY <2>2, <2>3, <3>1, <1>b
    <3> QED BY <2>1, <2>3, <3>2, <1>b
  <2>4. CASE /\ Replied(c, "reply") /\ Request(c, "get_info", "in", "get_reply")
             /\ UNCHANGED <<op, on, port_lock>> /\ on[c] = "in"
    <3>1. /\ Others(c) /\ Added(to_server, to_server', Req("get_info", c, "in"))
          /\ Fits(Req("get_info", c, "in"))'
      BY <2>2, <2>4, <1>b
    <3> QED BY <2>1, <2>4, <3>1, <1>b
  <2>5. CASE FormatReturn(c)
    BY <2>1, <2>5, <1>c DEF FormatReturn, Return, Goto, ThreadTypes
  <2>6. pc[c] = "reply" => on[c] = "in"
    BY <2>1 DEF Places, PlaceOf
  <2> QED BY <1>13, <2>3, <2>4, <2>5, <2>6 DEF FormatNext, Replied
<1> QED BY <1>1, <1>2, <1>3, <1>4, <1>5, <1>6, <1>7, <1>8, <1>9, <1>10, <1>11, <1>12, <1>13
        DEF Proceed

\* Before anything is called there is nothing anywhere.
LEMMA CallInit == Init => CallInv
<1>1. Msgs(<<>>) = {} /\ OneCall(<<>>)
  BY DEF Msgs, OneCall
<1> QED BY <1>1 DEF Init, CallInv, Asked

\* Every step keeps the calls in one place.
LEMMA CallNext ==
  ASSUME Types, Places, CallInv, [Next]_vars
  PROVE  CallInv'
<1>1. ASSUME NEW c \in Controllers, Call(c) \/ Proceed(c), ~DisableDrain(c)
      PROVE  CallInv'
  <2>1. /\ NotAsked(c) /\ Others(c)
        /\ UNCHANGED <<client, server, from_server>>
        /\ \/ UNCHANGED to_server
           \/ \E t \in Requests, p \in Ports :
                Added(to_server, to_server', Req(t, c, p)) /\ Fits(Req(t, c, p))'
    BY <1>1, ThreadSteps
  <2>2. UNCHANGED <<bulks, from_server>>
    BY <2>1 DEF server
  <2>3. CASE UNCHANGED to_server
    BY <2>1, <2>2, <2>3, CallRests
  <2>4. CASE \E t \in Requests, p \in Ports :
               Added(to_server, to_server', Req(t, c, p)) /\ Fits(Req(t, c, p))'
    BY <2>1, <2>2, <2>4, CallAsks
  <2> QED BY <2>1, <2>3, <2>4
<1>2. ASSUME NEW c \in Controllers, DisableDrain(c)
      PROVE  CallInv'
  BY <1>2, CallStays DEF DisableDrain, server, wire
<1>3. ASSUME NEW b \in Data, NEW k \in Kinds, Send(b, k)
      PROVE  CallInv'
  <2>1. UNCHANGED <<bulks, from_server, calls>>
    BY <1>3 DEF Send, server
  <2>2. CASE Sent(HomeOf(b), b, k)
    <3>1. HomeOf(b) \in Ports
      BY DEF HomeOf, Ports
    <3>2. PICK t \in {"buffer", "bulk_buffer"} :
            Added(to_server, to_server', [type |-> t, b |-> b])
      BY <2>2, <3>1, SentAdds DEF Types
    <3>3. IsBuffer([type |-> t, b |-> b])
      BY DEF IsBuffer
    <3> QED BY <2>1, <3>2, <3>3, CallSends
  <2>3. CASE SendFailed(HomeOf(b))
    BY <2>1, <2>3, CallStays DEF SendFailed
  <2> QED BY <1>3, <2>2, <2>3 DEF Send
<1>4. ASSUME NEW b \in Buffers, ServerReturns(b)
      PROVE  CallInv'
  <2>1. Added(from_server, from_server', Buf(b)) /\ IsBuffer(Buf(b))
    BY <1>4, MessagesMade, AppendAdds DEF ServerReturns, Buf, Types, WireTypes
  <2> QED BY <1>4, <2>1, CallReturns DEF ServerReturns, server
<1>5. ASSUME NEW p \in Ports, Connect(p) \/ SetZeroCopy(p)
      PROVE  CallInv'
  BY <1>5, CallStays DEF Connect, SetZeroCopy, server, wire
<1>6. CASE ActionThread
  BY <1>6, CallStays DEF ActionThread, server, wire
<1>7. CASE ReceiveBuffer
  <2>1. Taken(from_server, from_server', Head(from_server)) /\ IsBuffer(Head(from_server))
    BY <1>7, ReceiveTakes DEF ReceiveBuffer, Types, IsBuffer
  <2> QED BY <1>7, <2>1, CallTakes DEF ReceiveBuffer, server
<1>8. CASE ReceiveReply
  <2> DEFINE m == Head(from_server)
  <2>1. m \in FromServer /\ Taken(from_server, from_server', m)
    BY <1>8, ReceiveTakes DEF ReceiveReply, Types
  <2>2. ~IsBuffer(m) /\ m.c \in Controllers
    BY <1>8, <2>1, MessageShapes DEF ReceiveReply, IsBuffer
  <2>3. /\ reply' = [reply EXCEPT ![m.c] = m.status]
        /\ UNCHANGED <<bulks, to_server, op, on, pc>>
    BY <1>8 DEF ReceiveReply, server
  <2> HIDE DEF m
  <2>4. Others(m.c)
    BY <2>2, <2>3 DEF Others, Types, ThreadTypes
  <2> QED BY <2>1, <2>2, <2>3, <2>4, CallReplied
<1>9. CASE Server
  <2>1. PICK m \in ToServer \cup Held : ServerStep(m)
    BY <1>9, ServerSteps DEF Types
  <2>2. WireTypes' /\ UNCHANGED calls
    BY <1>9, ServerSteps DEF Types
  <2> QED BY <2>1, <2>2, CallServed
<1>10. CASE UNCHANGED vars
  BY <1>10, CallStays DEF vars, server, wire
<1> QED BY <1>1, <1>2, <1>3, <1>4, <1>5, <1>6, <1>7, <1>8, <1>9, <1>10
        DEF Next, Transport

-----------------------------------------------------------------------------
(* The layer of the threads: where they are, and the locks they hold.      *)

\* At first no thread is anywhere, and no lock is taken.
LEMMA PlacesInit == Init => Places
BY VcPortAssumption
   DEF Init, Places, PlaceOf, LocksOf, Switching, Formatting, Flushing

\* A thread that does something leaves the others where they are, with their locks.
LEMMA PlacesOthers ==
  ASSUME Places, NEW c \in Controllers, Others(c),
         \A p \in Ports : port_lock'[p] = port_lock[p]
                          \/ (port_lock[p] \in {c, NoThread} /\ port_lock'[p] \in {c, NoThread}),
         \A p \in Ports : send_lock'[p] = send_lock[p]
                          \/ (send_lock[p] \in {c, NoThread} /\ send_lock'[p] \in {c, NoThread}),
         NEW d \in Controllers, d # c
  PROVE  PlaceOf(d)' /\ LocksOf(d)'
<1>1. op'[d] = op[d] /\ on'[d] = on[d] /\ pc'[d] = pc[d] /\ reply'[d] = reply[d]
  BY DEF Others
<1>2. PlaceOf(d)'
  BY <1>1 DEF Places, PlaceOf
<1>3. d # NoThread
  BY VcPortAssumption
<1>4. \A p \in Ports : /\ port_lock'[p] = d <=> port_lock[p] = d
                       /\ send_lock'[p] = d <=> send_lock[p] = d
  BY <1>3
<1>5. LocksOf(d)'
  BY <1>1, <1>4 DEF Places, LocksOf, Switching, Formatting, Flushing
<1> QED BY <1>2, <1>5

\* A thread keeps to its place, and takes and leaves its locks.
LEMMA PlacesOfCalls ==
  ASSUME Types, Places, CallInv, NEW c \in Controllers, Call(c) \/ Proceed(c)
  PROVE  Places'
<1> DEFINE Mine == PlaceOf(c) /\ LocksOf(c)
           Kept(f) == \A p \in Ports : f'[p] = f[p]
                        \/ (f[p] \in {c, NoThread} /\ f'[p] \in {c, NoThread})
<1>t. /\ op \in [Controllers -> {"none", "enable", "disable", "flush", "format"}]
      /\ on \in [Controllers -> Ports]
      /\ pc \in [Controllers -> {"idle", "start", "reply", "get", "get_reply", "drain", "wait"}]
      /\ reply \in [Controllers -> {"none", "ok", "fail"}]
      /\ port_lock \in [Ports -> Controllers \cup {NoThread}]
      /\ send_lock \in [Ports -> Controllers \cup {NoThread}]
      /\ c # NoThread /\ on[c] \in Ports
  BY VcPortAssumption DEF Types, ThreadTypes, PortTypes
<1>p. PlaceOf(c) /\ LocksOf(c)
  BY DEF Places
<1>q. ASSUME ~DisableDrain(c), Mine', Kept(port_lock), Kept(send_lock)
      PROVE  Places'
  <2>1. Others(c)
    BY <1>q, ThreadSteps
  <2>2. \A d \in Controllers : d # c => PlaceOf(d)' /\ LocksOf(d)'
    BY <1>q, <2>1, PlacesOthers
  <2> QED BY <1>q, <2>2 DEF Places
<1> USE DEF Goto, Starts, Replied
<1>1. CASE Call(c)
  <2>1. PICK call \in Calls[c] : /\ op' = [op EXCEPT ![c] = call[1]]
                                 /\ on' = [on EXCEPT ![c] = call[2]]
    BY <1>1 DEF Call
  <2>2. /\ call[1] \in {"enable", "disable", "flush", "format"} /\ call = <<call[1], call[2]>>
        /\ call[1] = "format" => call = <<"format", "in">>
    BY <2>1, VcPortAssumption
  <2>3. pc[c] = "idle" /\ pc'[c] = "start" /\ UNCHANGED <<port_lock, send_lock>>
    BY <1>1, <1>t DEF Call, locks
  <2>4. op'[c] = call[1] /\ on'[c] = call[2]
    BY <2>1, <1>t
  <2>5. PlaceOf(c)'
    <3>1. <<op'[c], on'[c]>> \in Calls[c]
      BY <2>1, <2>2, <2>4
    <3>2. op'[c] = "format" => on'[c] = "in" /\ <<"format", "in">> \in Calls[c]
      BY <2>1, <2>2, <2>4
    <3> QED BY <2>2, <2>3, <2>4, <3>1, <3>2 DEF PlaceOf
  <2>6. LocksOf(c)'
    BY <2>3, <1>p DEF LocksOf, Switching, Formatting, Flushing
  <2>7. ~DisableDrain(c)
    BY <2>3 DEF DisableDrain
  <2> QED BY <2>3, <2>5, <2>6, <2>7, <1>q
<1>2. CASE EnableStart(c)
  <2>1. /\ op[c] = "enable" /\ pc[c] = "start" /\ port_lock[on[c]] = NoThread
        /\ op' = op /\ on' = on /\ pc'[c] = "reply" /\ send_lock' = send_lock
        /\ port_lock' = [port_lock EXCEPT ![on[c]] = c]
    BY <1>2, <1>t DEF EnableStart, Request
  <2>2. PlaceOf(c)'
    BY <2>1, <1>p DEF PlaceOf
  <2>3. LocksOf(c)'
    BY <2>1, <1>p, <1>t DEF LocksOf, Switching, Formatting, Flushing
  <2>4. Kept(port_lock) /\ Kept(send_lock) /\ ~DisableDrain(c)
    BY <2>1, <1>t DEF DisableDrain
  <2> QED BY <2>2, <2>3, <2>4, <1>q
<1>3. CASE EnableRefused(c) \/ DisableRefused(c)
  <2>1. /\ op[c] \in {"enable", "disable"} /\ pc[c] = "start"
        /\ op'[c] = "none" /\ on' = on /\ pc'[c] = "idle" /\ reply'[c] = "none"
        /\ send_lock' = send_lock /\ port_lock' = port_lock
    BY <1>3, <1>t DEF EnableRefused, DisableRefused, Return, locks
  <2>2. PlaceOf(c)'
    BY <2>1 DEF PlaceOf
  <2>3. LocksOf(c)'
    BY <2>1, <1>p DEF LocksOf, Switching, Formatting, Flushing
  <2>4. ~DisableDrain(c)
    BY <2>1 DEF DisableDrain
  <2> QED BY <2>1, <2>2, <2>3, <2>4, <1>q
<1>4. CASE EnableReply(c) \/ DisableWait(c)
  <2>1. /\ (op[c] = "enable" /\ pc[c] = "reply") \/ pc[c] = "wait"
        /\ op'[c] = "none" /\ on' = on /\ pc'[c] = "idle" /\ reply'[c] = "none"
        /\ send_lock' = send_lock /\ port_lock' = [port_lock EXCEPT ![on[c]] = NoThread]
    BY <1>4, <1>t DEF EnableReply, DisableWait, Return
  <2>2. op[c] \in {"enable", "disable"} /\ pc[c] \in {"reply", "wait"}
    BY <2>1, <1>p, <1>t DEF PlaceOf
  <2>3. PlaceOf(c)'
    BY <2>1 DEF PlaceOf
  <2>4. port_lock[on[c]] = c
    BY <2>2, <1>p, <1>t DEF LocksOf, Switching
  <2>5. LocksOf(c)'
    BY <2>1, <2>2, <1>p, <1>t DEF LocksOf, Switching, Formatting, Flushing
  <2>6. Kept(port_lock) /\ Kept(send_lock) /\ ~DisableDrain(c)
    BY <2>1, <2>4, <1>t DEF DisableDrain
  <2> QED BY <2>3, <2>5, <2>6, <1>q
<1>5. CASE DisableStart(c)
  <2>1. /\ op[c] = "disable" /\ pc[c] = "start" /\ port_lock[on[c]] = NoThread
        /\ op' = op /\ on' = on /\ pc'[c] = "reply" /\ send_lock' = send_lock
        /\ port_lock' = [port_lock EXCEPT ![on[c]] = c]
    BY <1>5, <1>t DEF DisableStart, Request
  <2>2. PlaceOf(c)'
    BY <2>1, <1>p DEF PlaceOf
  <2>3. LocksOf(c)'
    BY <2>1, <1>p, <1>t DEF LocksOf, Switching, Formatting, Flushing
  <2>4. Kept(port_lock) /\ Kept(send_lock) /\ ~DisableDrain(c)
    BY <2>1, <1>t DEF DisableDrain
  <2> QED BY <2>2, <2>3, <2>4, <1>q
<1>6. CASE DisableReply(c)
  <2>1. /\ op[c] = "disable" /\ pc[c] = "reply"
        /\ op' = op /\ on' = on /\ pc'[c] = "drain" /\ send_lock' = send_lock
        /\ port_lock' = port_lock
    BY <1>6, <1>t DEF DisableReply, locks
  <2>2. PlaceOf(c)'
    BY <2>1, <1>p DEF PlaceOf
  <2>3. LocksOf(c)'
    BY <2>1, <1>p, <1>t DEF LocksOf, Switching, Formatting, Flushing
  <2>4. ~DisableDrain(c)
    BY <2>1 DEF DisableDrain
  <2> QED BY <2>1, <2>2, <2>3, <2>4, <1>q
<1>7. CASE DisableDrain(c)
  <2>1. UNCHANGED <<op, on, pc, reply, port_lock, send_lock>>
    BY <1>7 DEF DisableDrain, locks, calls
  <2> QED BY <2>1 DEF Places, PlaceOf, LocksOf, Switching, Formatting, Flushing
<1>8. CASE DisableDrained(c) /\ reply[c] = "ok"
  <2>1. /\ pc[c] = "drain" /\ op' = op /\ on' = on /\ pc'[c] = "wait" /\ reply' = reply
        /\ send_lock' = send_lock /\ port_lock' = port_lock
    BY <1>8, <1>t DEF DisableDrained
  <2>2. op[c] = "disable"
    BY <2>1, <1>p, <1>t DEF PlaceOf
  <2>3. PlaceOf(c)'
    BY <2>1, <2>2, <1>8, <1>p DEF PlaceOf
  <2>4. LocksOf(c)'
    BY <2>1, <2>2, <1>p, <1>t DEF LocksOf, Switching, Formatting, Flushing
  <2>5. ~DisableDrain(c)
    BY <1>8 DEF DisableDrain, DisableDrained, Drained
  <2> QED BY <2>1, <2>3, <2>4, <2>5, <1>q
<1>9. CASE DisableDrained(c) /\ reply[c] # "ok"
  <2>1. /\ pc[c] = "drain"
        /\ op'[c] = "none" /\ on' = on /\ pc'[c] = "idle" /\ reply'[c] = "none"
        /\ send_lock' = send_lock /\ port_lock' = [port_lock EXCEPT ![on[c]] = NoThread]
    BY <1>9, <1>t DEF DisableDrained, Return
  <2>2. op[c] = "disable"
    BY <2>1, <1>p, <1>t DEF PlaceOf
  <2>3. PlaceOf(c)'
    BY <2>1 DEF PlaceOf
  <2>4. port_lock[on[c]] = c
    BY <2>1, <2>2, <1>p, <1>t DEF LocksOf, Switching
  <2>5. LocksOf(c)'
    BY <2>1, <2>2, <1>p, <1>t DEF LocksOf, Switching, Formatting, Flushing
  <2>6. Kept(port_lock) /\ Kept(send_lock)
    BY <2>1, <2>4, <1>t
  <2>7. ~DisableDrain(c)
    BY <1>9 DEF DisableDrain, DisableDrained, Drained
  <2> QED BY <2>3, <2>5, <2>6, <2>7, <1>q
<1>10. CASE FlushStart(c)
  <2>1. /\ op[c] = "flush" /\ pc[c] = "start" /\ send_lock[on[c]] = NoThread
        /\ op' = op /\ on' = on /\ pc'[c] = "reply" /\ port_lock' = port_lock
        /\ send_lock' = [send_lock EXCEPT ![on[c]] = c]
    BY <1>10, <1>t DEF FlushStart, Request
  <2>2. PlaceOf(c)'
    BY <2>1, <1>p DEF PlaceOf
  <2>3. LocksOf(c)'
    BY <2>1, <1>p, <1>t DEF LocksOf, Switching, Formatting, Flushing
  <2>4. Kept(port_lock) /\ Kept(send_lock) /\ ~DisableDrain(c)
    BY <2>1, <1>t DEF DisableDrain
  <2> QED BY <2>2, <2>3, <2>4, <1>q
<1>11. CASE FlushReply(c)
  <2>1. /\ op[c] = "flush" /\ pc[c] = "reply"
        /\ op'[c] = "none" /\ on' = on /\ pc'[c] = "idle" /\ reply'[c] = "none"
        /\ port_lock' = port_lock /\ send_lock' = [send_lock EXCEPT ![on[c]] = NoThread]
    BY <1>11, <1>t DEF FlushReply, Return
  <2>2. PlaceOf(c)'
    BY <2>1 DEF PlaceOf
  <2>3. send_lock[on[c]] = c
    BY <2>1, <1>p, <1>t DEF LocksOf, Flushing
  <2>4. LocksOf(c)'
    BY <2>1, <1>p, <1>t DEF LocksOf, Switching, Formatting, Flushing
  <2>5. Kept(port_lock) /\ Kept(send_lock) /\ ~DisableDrain(c)
    BY <2>1, <2>3, <1>t DEF DisableDrain
  <2> QED BY <2>2, <2>4, <2>5, <1>q
<1>12. CASE FormatStart(c)
  <2>1. /\ op[c] = "format" /\ pc[c] = "start" /\ port_lock["in"] = NoThread
        /\ op' = op /\ on' = on /\ pc'[c] = "reply" /\ send_lock' = send_lock
        /\ port_lock' = [port_lock EXCEPT !["in"] = c] /\ "in" \in Ports
    BY <1>12, <1>t DEF FormatStart, Request, Ports
  <2>2. PlaceOf(c)'
    BY <2>1, <1>p DEF PlaceOf
  <2>3. LocksOf(c)'
    BY <2>1, <1>p, <1>t DEF LocksOf, Switching, Formatting, Flushing
  <2>4. Kept(port_lock) /\ Kept(send_lock) /\ ~DisableDrain(c)
    BY <2>1, <1>t DEF DisableDrain
  <2> QED BY <2>2, <2>3, <2>4, <1>q
<1>13. CASE FormatNext(c)
  <2>1. op[c] = "format" /\ pc[c] \in {"reply", "get_reply"} /\ send_lock' = send_lock
        /\ "in" \in Ports
    BY <1>13 DEF FormatNext, Ports
  <2>2. ~DisableDrain(c)
    BY <2>1 DEF DisableDrain
  <2>3. CASE FormatReturn(c)
    <3>1. /\ op'[c] = "none" /\ pc'[c] = "idle" /\ reply'[c] = "none"
          /\ port_lock' = [port_lock EXCEPT !["in"] = NoThread]
      BY <2>3, <1>t DEF FormatReturn, Return
    <3>2. PlaceOf(c)'
      BY <3>1 DEF PlaceOf
    <3>3. port_lock["in"] = c
      BY <2>1, <1>p DEF LocksOf, Formatting
    <3>4. LocksOf(c)'
      BY <2>1, <3>1, <1>p, <1>t DEF LocksOf, Switching, Formatting, Flushing
    <3>5. Kept(port_lock) /\ Kept(send_lock)
      BY <2>1, <3>1, <3>3, <1>t
    <3> QED BY <2>2, <3>2, <3>4, <3>5, <1>q
  <2>4. CASE /\ op' = op /\ port_lock' = port_lock /\ pc'[c] = "get_reply"
    <3>1. PlaceOf(c)'
      BY <2>1, <2>4, <1>p DEF PlaceOf
    <3>2. LocksOf(c)'
      BY <2>1, <2>4, <1>p DEF LocksOf, Switching, Formatting, Flushing
    <3> QED BY <2>1, <2>2, <2>4, <3>1, <3>2, <1>q
  <2>5. FormatReturn(c) \/ (op' = op /\ port_lock' = port_lock /\ pc'[c] = "get_reply")
    BY <1>13, <1>t DEF FormatNext, Request
  <2> QED BY <2>3, <2>4, <2>5
<1> QED BY <1>1, <1>2, <1>3, <1>4, <1>5, <1>6, <1>7, <1>8, <1>9, <1>10, <1>11, <1>12, <1>13
        DEF Proceed

\* Every step keeps the threads and their locks together.
LEMMA PlacesNext ==
  ASSUME Types, Places, CallInv, [Next]_vars
  PROVE  Places'
<1>1. ASSUME NEW c \in Controllers, Call(c) \/ Proceed(c)
      PROVE  Places'
  BY <1>1, PlacesOfCalls
<1>2. ASSUME UNCHANGED <<op, on, pc, reply, port_lock, send_lock>>
      PROVE  Places'
  BY <1>2 DEF Places, PlaceOf, LocksOf, Switching, Formatting, Flushing
<1>3. ASSUME NEW b \in Data, NEW k \in Kinds, Send(b, k)
      PROVE  Places'
  BY <1>2, <1>3 DEF Send, locks, calls
<1>4. ASSUME NEW b \in Buffers, ServerReturns(b)
      PROVE  Places'
  BY <1>2, <1>4 DEF ServerReturns, locks, calls
<1>5. ASSUME NEW p \in Ports, Connect(p) \/ SetZeroCopy(p)
      PROVE  Places'
  BY <1>2, <1>5 DEF Connect, SetZeroCopy, locks, calls
<1>6. CASE ActionThread \/ ReceiveBuffer
  BY <1>2, <1>6 DEF ActionThread, ReceiveBuffer, locks, calls
<1>7. CASE ReceiveReply
  <2> DEFINE m == Head(from_server)
  <2>1. m \in FromServer /\ Taken(from_server, from_server', m)
    BY <1>7, ReceiveTakes DEF ReceiveReply, Types
  <2>2. ~IsBuffer(m) /\ m.c \in Controllers
    BY <1>7, <2>1, MessageShapes DEF ReceiveReply, IsBuffer
  <2>3. /\ reply' = [reply EXCEPT ![m.c] = m.status]
        /\ UNCHANGED <<op, on, pc, port_lock, send_lock>>
    BY <1>7 DEF ReceiveReply, locks
  <2> HIDE DEF m
  <2>4. m \in Msgs(from_server)
    BY <2>1 DEF Taken
  <2>5. pc[m.c] # "wait"
    <3>1. ~NotAsked(m.c)
      BY <2>2, <2>4 DEF NotAsked, Asked, Asks
    <3> QED BY <2>2, <3>1, AskedWaits
  <2>6. \A d \in Controllers : d # m.c => reply'[d] = reply[d]
    BY <2>3 DEF Types, ThreadTypes
  <2>7. ASSUME NEW d \in Controllers
        PROVE  PlaceOf(d)'
    BY <2>3, <2>5, <2>6 DEF Places, PlaceOf
  <2>8. ASSUME NEW d \in Controllers
        PROVE  LocksOf(d)'
    BY <2>3 DEF Places, LocksOf, Switching, Formatting, Flushing
  <2> QED BY <2>7, <2>8 DEF Places
<1>8. CASE Server
  <2>1. UNCHANGED <<locks, calls>>
    BY <1>8, ServerSteps DEF Types
  <2> QED BY <1>2, <2>1 DEF locks, calls
<1>9. CASE UNCHANGED vars
  BY <1>2, <1>9 DEF vars, locks, calls
<1> QED BY <1>1, <1>3, <1>4, <1>5, <1>6, <1>7, <1>8, <1>9 DEF Next, Transport

-----------------------------------------------------------------------------
(* The layer of the buffers: each is in one place, which "at" names.       *)

\* A message that is appended adds its buffer.
LEMMA HoldsAdded ==
  \A s, t, m : Added(s, t, m) =>
    /\ \A b : Holds(t, b) <=> Holds(s, b) \/ Carries(m, b)
    /\ \A b : Bulky(t, b) <=> Bulky(s, b) \/ IsBulkOf(m, b)
    /\ OneBuffer(s) /\ (\A b : Carries(m, b) => ~Holds(s, b)) => OneBuffer(t)
<1> SUFFICES ASSUME NEW s, NEW t, NEW m, Added(s, t, m)
             PROVE  /\ \A b : Holds(t, b) <=> Holds(s, b) \/ Carries(m, b)
                    /\ \A b : Bulky(t, b) <=> Bulky(s, b) \/ IsBulkOf(m, b)
                    /\ OneBuffer(s) /\ (\A b : Carries(m, b) => ~Holds(s, b)) => OneBuffer(t)
  OBVIOUS
<1>1. Msgs(t) = Msgs(s) \cup {m}
  BY DEF Added
<1>2. OneBuffer(s) /\ (\A b : Carries(m, b) => ~Holds(s, b)) => OneBuffer(t)
  BY DEF Added, Carries
<1> QED BY <1>1, <1>2 DEF Holds, Bulky

\* The first message takes its buffer with it.
LEMMA HoldsTaken ==
  \A s, t, m : Taken(s, t, m) =>
    /\ OneBuffer(s) => OneBuffer(t)
    /\ \A b : Carries(m, b) => Holds(s, b) /\ (OneBuffer(s) => ~Holds(t, b))
    /\ \A b : ~Carries(m, b) => (Holds(t, b) <=> Holds(s, b))
    /\ \A b : Bulky(t, b) => Bulky(s, b)
    /\ \A b : IsBulkOf(m, b) => Bulky(s, b)
<1> SUFFICES ASSUME NEW s, NEW t, NEW m, Taken(s, t, m)
             PROVE  /\ OneBuffer(s) => OneBuffer(t)
                    /\ \A b : Carries(m, b) => Holds(s, b) /\ (OneBuffer(s) => ~Holds(t, b))
                    /\ \A b : ~Carries(m, b) => (Holds(t, b) <=> Holds(s, b))
                    /\ \A b : Bulky(t, b) => Bulky(s, b)
                    /\ \A b : IsBulkOf(m, b) => Bulky(s, b)
  OBVIOUS
<1>1. Msgs(s) = Msgs(t) \cup {m} /\ (OneBuffer(s) => OneBuffer(t))
      /\ \A b : OneBuffer(s) /\ Carries(m, b) => ~Holds(t, b)
  BY DEF Taken
<1> QED BY <1>1 DEF Holds, Bulky

\* The buffers that go back are added, the reply is not one.
LEMMA HoldsPoured ==
  \A s, t, r : \A B \in SUBSET Buffers : Poured(s, t, B, r) /\ ~IsBuffer(r) =>
    /\ \A b : Holds(t, b) <=> Holds(s, b) \/ b \in B
    /\ OneBuffer(s) /\ (\A b \in B : ~Holds(s, b)) => OneBuffer(t)
<1> SUFFICES ASSUME NEW s, NEW t, NEW r, NEW B \in SUBSET Buffers, Poured(s, t, B, r), ~IsBuffer(r)
             PROVE  /\ \A b : Holds(t, b) <=> Holds(s, b) \/ b \in B
                    /\ OneBuffer(s) /\ (\A b \in B : ~Holds(s, b)) => OneBuffer(t)
  OBVIOUS
<1>1. Msgs(t) = Msgs(s) \cup {Buf(b) : b \in B} \cup {r}
  BY DEF Poured
<1>2. \A b \in B : Carries(Buf(b), b)
  BY MessagesMade DEF Carries
<1>3. \A b, x : x \in B /\ Carries(Buf(x), b) => b = x
  BY MessagesMade DEF Carries
<1>4. \A b : ~Carries(r, b)
  BY DEF Carries
<1>5. ASSUME NEW b
      PROVE  Holds(t, b) <=> Holds(s, b) \/ b \in B
  BY <1>1, <1>2, <1>3, <1>4 DEF Holds
<1> QED BY <1>5 DEF Poured

\* Where a buffer is, is where a message carries it or the callbacks have it.
LEMMA Wheres ==
  ASSUME Types, BufferInv, NEW b \in Buffers
  PROVE  /\ at[b] \in {"client", "wire", "server", "queue"}
         /\ at[b] # "wire" => ~Holds(to_server, b) /\ ~Holds(bulks, b) /\ ~Holds(from_server, b)
         /\ at[b] # "queue" => b \notin Msgs(callback_queue)
BY DEF Types, WireTypes, BufferInv

\* The buffers do not move, whatever is asked.
LEMMA BufferStays ==
  ASSUME BufferInv, UNCHANGED <<at, callback_queue, bulks, from_server>>,
         UNCHANGED to_server \/ \E m : ~IsBuffer(m) /\ Added(to_server, to_server', m)
  PROVE  BufferInv'
<1>1. CASE UNCHANGED to_server
  BY <1>1 DEF BufferInv
<1>2. CASE \E m : ~IsBuffer(m) /\ Added(to_server, to_server', m)
  <2>1. PICK m : ~IsBuffer(m) /\ Added(to_server, to_server', m)
    BY <1>2
  <2>2. \A b : ~Carries(m, b)
    BY <2>1 DEF Carries
  <2>3. (\A b : Holds(to_server', b) <=> Holds(to_server, b)) /\ OneBuffer(to_server')
    BY <2>1, <2>2, HoldsAdded DEF BufferInv
  <2> QED BY <2>3 DEF BufferInv
<1> QED BY <1>1, <1>2

\* The first callback is done.
LEMMA BufferDone ==
  ASSUME Types, BufferInv, callback_queue # <<>>, DoCallback, UNCHANGED <<bulks, wire>>
  PROVE  BufferInv'
<1> DEFINE b == Head(callback_queue)
<1>1. /\ b \in Buffers
      /\ Msgs(callback_queue') = Msgs(callback_queue) \ {b}
      /\ b \in Msgs(callback_queue)
      /\ \A i, j \in DOMAIN callback_queue' : callback_queue'[i] = callback_queue'[j] => i = j
  BY CallbackTakes DEF Types, BufferInv
<1>2. at' = [at EXCEPT ![b] = IF b \in Events THEN "server" ELSE "client"]
  BY DEF DoCallback
<1> HIDE DEF b
<1>3. at[b] = "queue" /\ at'[b] \in {"server", "client"}
      /\ \A x \in Buffers : x # b => at'[x] = at[x]
  BY <1>1, <1>2 DEF BufferInv, Types, WireTypes
<1> QED BY <1>1, <1>3 DEF BufferInv, wire

\* A buffer of the client is sent.
LEMMA BufferSent ==
  ASSUME Types, BufferInv, NEW b \in Data, NEW t \in {"buffer", "bulk_buffer"},
         Added(to_server, to_server', [type |-> t, b |-> b]),
         at[b] = "client", at' = [at EXCEPT ![b] = "wire"],
         UNCHANGED <<bulks, from_server, callback_queue>>
  PROVE  BufferInv'
<1> DEFINE m == [type |-> t, b |-> b]
<1>1. b \in Buffers
  BY DEF Buffers
<1>2. \A x : Carries(m, x) <=> x = b
  BY DEF Carries, IsBuffer
<1> HIDE DEF m
<1>3. ~Holds(to_server, b) /\ ~Holds(bulks, b) /\ ~Holds(from_server, b)
      /\ b \notin Msgs(callback_queue)
  BY <1>1, Wheres
<1>4. (\A x : Holds(to_server', x) <=> Holds(to_server, x) \/ x = b) /\ OneBuffer(to_server')
  BY <1>2, <1>3, HoldsAdded DEF BufferInv, m
<1>5. at'[b] = "wire" /\ \A x \in Buffers : x # b => at'[x] = at[x]
  BY <1>1 DEF Types, WireTypes
<1> QED BY <1>3, <1>4, <1>5 DEF BufferInv

\* The server returns a buffer.
LEMMA BufferReturned ==
  ASSUME Types, BufferInv, NEW b \in Buffers, ServerReturns(b)
  PROVE  BufferInv'
<1>1. Added(from_server, from_server', Buf(b))
  BY MessagesMade, AppendAdds DEF ServerReturns, Buf, Types, WireTypes
<1>2. \A x : Carries(Buf(b), x) <=> x = b
  BY MessagesMade DEF Carries
<1>3. /\ at[b] = "server" /\ at' = [at EXCEPT ![b] = "wire"]
      /\ UNCHANGED <<to_server, bulks, callback_queue>>
  BY DEF ServerReturns, server
<1>4. ~Holds(to_server, b) /\ ~Holds(bulks, b) /\ ~Holds(from_server, b)
      /\ b \notin Msgs(callback_queue)
  BY <1>3, Wheres
<1>5. (\A x : Holds(from_server', x) <=> Holds(from_server, x) \/ x = b) /\ OneBuffer(from_server')
  BY <1>1, <1>2, <1>4, HoldsAdded DEF BufferInv
<1>6. at'[b] = "wire" /\ \A x \in Buffers : x # b => at'[x] = at[x]
  BY <1>3 DEF Types, WireTypes
<1> QED BY <1>3, <1>4, <1>5, <1>6 DEF BufferInv

\* A buffer that comes back waits for its callback.
LEMMA BufferReceived ==
  ASSUME Types, BufferInv, ReceiveBuffer
  PROVE  BufferInv'
<1> DEFINE m == Head(from_server)
           b == m.b
<1>1. m \in FromServer /\ Taken(from_server, from_server', m)
  BY ReceiveTakes DEF ReceiveBuffer, Types
<1>2. IsBuffer(m) /\ b \in Buffers
  BY <1>1, MessageShapes DEF ReceiveBuffer, IsBuffer
<1>3. /\ callback_queue' = Append(callback_queue, b)
      /\ at' = [at EXCEPT ![b] = "queue"]
      /\ UNCHANGED <<to_server, bulks>>
  BY DEF ReceiveBuffer, server
<1>4. \A x : Carries(m, x) <=> x = b
  BY <1>2 DEF Carries
<1> HIDE DEF m, b
<1>5. /\ OneBuffer(from_server')
      /\ Holds(from_server, b) /\ ~Holds(from_server', b)
      /\ \A x : x # b => (Holds(from_server', x) <=> Holds(from_server, x))
  BY <1>1, <1>4, HoldsTaken DEF BufferInv
<1>6. at[b] = "wire" /\ ~Holds(to_server, b) /\ ~Holds(bulks, b)
  BY <1>2, <1>5 DEF BufferInv
<1>7. b \notin Msgs(callback_queue)
  BY <1>2, <1>6, Wheres
<1>8. Msgs(callback_queue') = Msgs(callback_queue) \cup {b}
  BY <1>2, <1>3, AppendAdds DEF Types, WireTypes, Added
<1>9. \A i, j \in DOMAIN callback_queue' : callback_queue'[i] = callback_queue'[j] => i = j
  <2> DEFINE s == callback_queue
             t == callback_queue'
  <2>1. s \in Seq(Buffers) /\ t = Append(s, b)
    BY <1>3 DEF Types, WireTypes
  <2>2. \A i, j \in DOMAIN s : s[i] = s[j] => i = j
    BY DEF BufferInv
  <2> HIDE DEF s, t
  <2>3. /\ DOMAIN s = 1 .. Len(s) /\ DOMAIN t = 1 .. Len(s) + 1 /\ Len(s) \in Nat
        /\ t[Len(s) + 1] = b /\ \A i \in DOMAIN s : t[i] = s[i]
    BY <2>1, <1>2
  <2>4. DOMAIN t = DOMAIN s \cup {Len(s) + 1} /\ Len(s) + 1 \notin DOMAIN s
    BY <2>3
  <2>5. \A i \in DOMAIN s : s[i] # b
    BY <1>7 DEF Msgs, s
  <2>6. \A i, j \in DOMAIN t : t[i] = t[j] => i = j
    BY <2>2, <2>3, <2>4, <2>5
  <2> QED BY <2>6 DEF t
<1>10. at'[b] = "queue" /\ \A x \in Buffers : x # b => at'[x] = at[x]
  BY <1>2, <1>3 DEF Types, WireTypes
<1> QED BY <1>2, <1>3, <1>5, <1>6, <1>8, <1>9, <1>10 DEF BufferInv

\* A reply carries no buffer.
LEMMA BufferReplied ==
  ASSUME Types, BufferInv, ReceiveReply
  PROVE  BufferInv'
<1> DEFINE m == Head(from_server)
<1>1. Taken(from_server, from_server', m)
  BY ReceiveTakes DEF ReceiveReply, Types
<1>2. \A b : ~Carries(m, b)
  BY DEF ReceiveReply, IsBuffer, Carries
<1> HIDE DEF m
<1>3. OneBuffer(from_server') /\ \A b : Holds(from_server', b) <=> Holds(from_server, b)
  BY <1>1, <1>2, HoldsTaken DEF BufferInv
<1> QED BY <1>3 DEF BufferInv, ReceiveReply, client, server

\* A buffer that the server handles is on the wire, and leaves it.
LEMMA BufferHandled ==
  ASSUME Types, BufferInv, NEW m \in ToServer \cup Held, Handles(m)
  PROVE  /\ OneBuffer(to_server') /\ OneBuffer(bulks')
         /\ \A x : ~Carries(m, x) => /\ Holds(to_server', x) <=> Holds(to_server, x)
                                     /\ Holds(bulks', x) <=> Holds(bulks, x)
         /\ \A x \in Buffers : Carries(m, x) =>
              /\ at[x] = "wire" /\ ~Holds(to_server', x) /\ ~Holds(bulks', x)
              /\ ~Holds(from_server, x)
<1>1. CASE Taken(to_server, to_server', m) /\ UNCHANGED bulks
  BY <1>1, HoldsTaken DEF BufferInv
<1>2. CASE Taken(bulks, bulks', m) /\ UNCHANGED to_server
  BY <1>2, HoldsTaken DEF BufferInv
<1> QED BY <1>1, <1>2 DEF Handles

\* The server moves the buffers it handles and gives back.
LEMMA BufferServed ==
  ASSUME Types, WireTypes', BufferInv, NEW m \in ToServer \cup Held, ServerStep(m),
         UNCHANGED callback_queue
  PROVE  BufferInv'
<1>1. CASE Defer(m)
  <2>1. /\ Taken(to_server, to_server', m) /\ Added(bulks, bulks', m)
        /\ UNCHANGED <<at, from_server>>
    BY <1>1 DEF Defer
  <2>2. /\ OneBuffer(to_server')
        /\ \A x : Carries(m, x) => Holds(to_server, x) /\ ~Holds(to_server', x)
        /\ \A x : ~Carries(m, x) => (Holds(to_server', x) <=> Holds(to_server, x))
    BY <2>1, HoldsTaken DEF BufferInv
  <2>3. \A x : Carries(m, x) => x \in Buffers
    BY MessageShapes DEF Carries
  <2>4. \A x : Carries(m, x) => ~Holds(bulks, x) /\ ~Holds(from_server, x)
    BY <2>2, <2>3 DEF BufferInv
  <2>5. OneBuffer(bulks') /\ \A x : Holds(bulks', x) <=> Holds(bulks, x) \/ Carries(m, x)
    BY <2>1, <2>4, HoldsAdded DEF BufferInv
  <2>6. ASSUME NEW x \in Buffers
        PROVE  /\ at'[x] = "wire" <=>
                  Holds(to_server', x) \/ Holds(bulks', x) \/ Holds(from_server', x)
               /\ Holds(to_server', x) => ~Holds(bulks', x) /\ ~Holds(from_server', x)
               /\ Holds(bulks', x) => ~Holds(from_server', x)
               /\ at'[x] = "queue" <=> x \in Msgs(callback_queue')
    BY <2>1, <2>2, <2>4, <2>5 DEF BufferInv
  <2> QED BY <2>1, <2>2, <2>5, <2>6 DEF BufferInv
<1>2. CASE Arrive(m)
  <2>1. /\ Handles(m) /\ UNCHANGED from_server /\ at' = [at EXCEPT ![m.b] = "server"]
        /\ IsBuffer(m)
    BY <1>2 DEF Arrive
  <2>2. m.b \in Buffers /\ \A x : Carries(m, x) <=> x = m.b
    BY <2>1, MessageShapes DEF Carries
  <2>3. at'[m.b] = "server" /\ \A x \in Buffers : x # m.b => at'[x] = at[x]
    BY <2>1, <2>2 DEF Types, WireTypes
  <2>4. at[m.b] = "wire" /\ ~Holds(to_server', m.b) /\ ~Holds(bulks', m.b)
        /\ ~Holds(from_server', m.b)
    BY <2>1, <2>2, BufferHandled
  <2>5. m.b \notin Msgs(callback_queue')
    BY <2>2, <2>4, Wheres
  <2>6. /\ OneBuffer(to_server') /\ OneBuffer(bulks')
        /\ \A x : x # m.b => /\ Holds(to_server', x) <=> Holds(to_server, x)
                             /\ Holds(bulks', x) <=> Holds(bulks, x)
    BY <2>1, <2>2, BufferHandled
  <2>7. ASSUME NEW x \in Buffers
        PROVE  /\ at'[x] = "wire" <=>
                  Holds(to_server', x) \/ Holds(bulks', x) \/ Holds(from_server', x)
               /\ Holds(to_server', x) => ~Holds(bulks', x) /\ ~Holds(from_server', x)
               /\ Holds(bulks', x) => ~Holds(from_server', x)
               /\ at'[x] = "queue" <=> x \in Msgs(callback_queue')
    BY <2>1, <2>3, <2>4, <2>5, <2>6 DEF BufferInv
  <2> QED BY <2>1, <2>6, <2>7 DEF BufferInv
<1>3. ASSUME NEW s \in {"ok", "fail"}, Answer(m, s)
      PROVE  BufferInv'
  <2>1. /\ Handles(m) /\ ~IsBuffer(m) /\ UNCHANGED at
        /\ Added(from_server, from_server', Rep(m.c, s, server_enabled'[m.p]))
    BY <1>3 DEF Answer, IsBuffer
  <2>2. m.c \in Controllers /\ server_enabled'[m.p] \in BOOLEAN
    BY <2>1, MessageShapes DEF WireTypes
  <2>3. \A x : ~Carries(m, x) /\ ~Carries(Rep(m.c, s, server_enabled'[m.p]), x)
    BY <2>1, <2>2, MessagesMade DEF Carries
  <2>4. /\ OneBuffer(to_server') /\ OneBuffer(bulks')
        /\ \A x : /\ Holds(to_server', x) <=> Holds(to_server, x)
                  /\ Holds(bulks', x) <=> Holds(bulks, x)
    BY <2>1, <2>3, BufferHandled
  <2>5. OneBuffer(from_server') /\ \A x : Holds(from_server', x) <=> Holds(from_server, x)
    BY <2>1, <2>3, HoldsAdded DEF BufferInv
  <2> QED BY <2>1, <2>4, <2>5 DEF BufferInv
<1>4. CASE GiveBack(m)
  <2> DEFINE B == BuffersOf(m.p)
             r == Rep(m.c, "ok", server_enabled'[m.p])
  <2>1. /\ Handles(m) /\ ~IsBuffer(m)
        /\ Poured(from_server, from_server', B, r)
        /\ at' = [b \in Buffers |-> IF b \in B THEN "wire" ELSE at[b]]
    BY <1>4 DEF GiveBack, IsBuffer
  <2>2. m.c \in Controllers /\ m.p \in Ports /\ server_enabled'[m.p] \in BOOLEAN
    BY <2>1, MessageShapes DEF WireTypes
  <2>3. ~IsBuffer(r) /\ \A x : ~Carries(m, x)
    BY <2>1, <2>2, MessagesMade DEF Carries
  <2>4. B \in SUBSET Buffers /\ \A b \in B : at[b] = "server"
    BY <2>2, BuffersOfPort DEF BuffersOf
  <2> HIDE DEF B, r
  <2>5. \A b \in B : ~Holds(to_server, b) /\ ~Holds(bulks, b) /\ ~Holds(from_server, b)
                     /\ b \notin Msgs(callback_queue)
    BY <2>4, Wheres
  <2>6. /\ OneBuffer(to_server') /\ OneBuffer(bulks')
        /\ \A x : /\ Holds(to_server', x) <=> Holds(to_server, x)
                  /\ Holds(bulks', x) <=> Holds(bulks, x)
    BY <2>1, <2>3, BufferHandled
  <2>7. /\ OneBuffer(from_server')
        /\ \A x : Holds(from_server', x) <=> Holds(from_server, x) \/ x \in B
    BY <2>1, <2>3, <2>4, <2>5, HoldsPoured DEF BufferInv
  <2>8. \A b \in Buffers : /\ b \in B => at'[b] = "wire"
                           /\ b \notin B => at'[b] = at[b]
    BY <2>1
  <2>9. ASSUME NEW x \in Buffers
        PROVE  /\ at'[x] = "wire" <=>
                  Holds(to_server', x) \/ Holds(bulks', x) \/ Holds(from_server', x)
               /\ Holds(to_server', x) => ~Holds(bulks', x) /\ ~Holds(from_server', x)
               /\ Holds(bulks', x) => ~Holds(from_server', x)
               /\ at'[x] = "queue" <=> x \in Msgs(callback_queue')
    <3>1. CASE x \in B
      BY <3>1, <2>5, <2>6, <2>7, <2>8 DEF BufferInv
    <3>2. CASE x \notin B
      BY <3>2, <2>6, <2>7, <2>8 DEF BufferInv
    <3> QED BY <3>1, <3>2
  <2>10. \A i, j \in DOMAIN callback_queue' : callback_queue'[i] = callback_queue'[j] => i = j
    BY DEF BufferInv
  <2> QED BY <2>6, <2>7, <2>9, <2>10 DEF BufferInv
<1> QED BY <1>1, <1>2, <1>3, <1>4 DEF ServerStep

\* At first the buffers are with the client and the events with the server.
LEMMA BufferInit == Init => BufferInv
<1>1. Msgs(<<>>) = {} /\ OneBuffer(<<>>)
  BY DEF Msgs, OneBuffer
<1> QED BY <1>1 DEF Init, BufferInv, Holds

\* Every step keeps the buffers in one place.
LEMMA BufferNext ==
  ASSUME Types, Places, CallInv, BufferInv, [Next]_vars
  PROVE  BufferInv'
<1>1. ASSUME NEW c \in Controllers, Call(c) \/ Proceed(c), ~DisableDrain(c)
      PROVE  BufferInv'
  <2>1. /\ UNCHANGED <<client, server, from_server>>
        /\ \/ UNCHANGED to_server
           \/ \E t \in Requests, p \in Ports : Added(to_server, to_server', Req(t, c, p))
    BY <1>1, ThreadSteps
  <2> QED BY <2>1, MessagesMade, BufferStays DEF client, server
<1>2. ASSUME NEW c \in Controllers, DisableDrain(c)
      PROVE  BufferInv'
  BY <1>2, BufferDone DEF DisableDrain, server
<1>3. ASSUME NEW b \in Data, NEW k \in Kinds, Send(b, k)
      PROVE  BufferInv'
  <2>1. UNCHANGED <<bulks, from_server, callback_queue>> /\ at[b] = "client"
    BY <1>3 DEF Send, server
  <2>2. CASE Sent(HomeOf(b), b, k)
    <3>1. HomeOf(b) \in Ports
      BY DEF HomeOf, Ports
    <3>2. PICK t \in {"buffer", "bulk_buffer"} :
            Added(to_server, to_server', [type |-> t, b |-> b])
      BY <2>2, <3>1, SentAdds DEF Types
    <3>3. at' = [at EXCEPT ![b] = "wire"]
      BY <2>2 DEF Sent
    <3> QED BY <2>1, <3>2, <3>3, BufferSent
  <2>3. CASE SendFailed(HomeOf(b))
    BY <2>1, <2>3, BufferStays DEF SendFailed
  <2> QED BY <1>3, <2>2, <2>3 DEF Send
<1>4. ASSUME NEW b \in Buffers, ServerReturns(b)
      PROVE  BufferInv'
  BY <1>4, BufferReturned
<1>5. ASSUME NEW p \in Ports, Connect(p) \/ SetZeroCopy(p)
      PROVE  BufferInv'
  BY <1>5, BufferStays DEF Connect, SetZeroCopy, server, client, wire
<1>6. CASE ActionThread
  BY <1>6, BufferDone DEF ActionThread, server
<1>7. CASE ReceiveBuffer
  BY <1>7, BufferReceived
<1>8. CASE ReceiveReply
  BY <1>8, BufferReplied
<1>9. CASE Server
  <2>1. PICK m \in ToServer \cup Held : ServerStep(m)
    BY <1>9, ServerSteps DEF Types
  <2>2. WireTypes' /\ UNCHANGED callback_queue
    BY <1>9, ServerSteps DEF Types
  <2> QED BY <2>1, <2>2, BufferServed
<1>10. CASE UNCHANGED vars
  BY <1>10, BufferStays DEF vars, server, client, wire
<1> QED BY <1>1, <1>2, <1>3, <1>4, <1>5, <1>6, <1>7, <1>8, <1>9, <1>10
        DEF Next, Transport

-----------------------------------------------------------------------------
(* The layer of the switches: what the two sides think of a port.          *)

\* A port is switched by one thread, which has its lock.
LEMMA OneSwitch ==
  ASSUME Places, NEW p \in Ports, NEW c \in Controllers, Switching(c, p)
  PROVE  /\ port_lock[p] = c
         /\ \A d \in Controllers : Switching(d, p) => d = c
BY DEF Places, LocksOf

\* Nobody switches a port whose lock is free.
LEMMA NoSwitch ==
  ASSUME Places, NEW p \in Ports, port_lock[p] = NoThread, NEW c \in Controllers
  PROVE  ~Switching(c, p)
BY VcPortAssumption DEF Places, LocksOf

\* While a format is committed nobody switches a port.
LEMMA NoCommit ==
  ASSUME OneCommits, Types, Places, NEW c \in Controllers, op[c] = "format",
         NEW d \in Controllers, NEW p \in Ports
  PROVE  ~Switching(d, p)
<1> SUFFICES ASSUME Switching(d, p)
             PROVE  FALSE
  OBVIOUS
<1>1. op[d] \in {"enable", "disable"} /\ on[d] = p
  BY DEF Switching
<1>2. <<op[d], p>> \in Calls[d] /\ <<"format", "in">> \in Calls[c]
  BY <1>1 DEF Places, PlaceOf
<1>3. c = d
  BY <1>1, <1>2 DEF OneCommits
<1> QED BY <1>1, <1>3

\* A thread that waits for nothing is told nothing.
LEMMA NotTold ==
  ASSUME NEW c \in Controllers, NotAsked(c)
  PROVE  ~Told(c) /\ \A m \in Msgs(from_server) : ~IsReply(m, c)
BY DEF NotAsked, Asked, Asks, Told, IsReply, IsBuffer

\* A step of a thread that is not about a port, or leaves it as it is.
LEMMA SwitchElse ==
  ASSUME NEW q \in Ports, SwitchOf(q), NEW c \in Controllers, Others(c), UNCHANGED from_server,
         is_enabled'[q] = is_enabled[q], server_enabled'[q] = server_enabled[q],
         allocated'[q] => has_pool'[q],
         Switching(c, q)' <=> Switching(c, q),
         Switching(c, q) => op'[c] = op[c] /\ reply'[c] = reply[c]
  PROVE  SwitchOf(q)'
<1>1. \A d \in Controllers : Switching(d, q)' <=> Switching(d, q)
  BY DEF Others, Switching
<1>2. \A d \in Controllers : Switching(d, q) => op'[d] = op[d] /\ (Granted(d)' <=> Granted(d))
  BY DEF Others, Granted, Told
<1> QED BY <1>1, <1>2 DEF SwitchOf

\* A step of a thread leaves what the others read back.
LEMMA InfoElse ==
  ASSUME InfoInv, NEW c \in Controllers, Others(c), NotAsked(c),
         UNCHANGED <<from_server, server_enabled>>
  PROVE  InfoInv'
<1>1. \A m \in Msgs(from_server) : ~IsReply(m, c)
  BY NotTold
<1> QED BY <1>1 DEF InfoInv, Others

\* Nothing of all that happens.
LEMMA SwitchStays ==
  ASSUME SwitchInv, UNCHANGED <<is_enabled, server_enabled, has_pool, allocated, calls>>,
         \A m : (\E c : IsReply(m, c)) => (m \in Msgs(from_server') <=> m \in Msgs(from_server))
  PROVE  SwitchInv'
<1>1. \A c \in Controllers : Granted(c)' <=> Granted(c)
  BY DEF Granted, Told, calls
<1>2. \A c \in Controllers, p \in Ports : Switching(c, p)' <=> Switching(c, p)
  BY DEF Switching, calls
<1>3. InfoInv'
  BY DEF SwitchInv, InfoInv, calls
<1>4. ASSUME NEW p \in Ports
      PROVE  SwitchOf(p)'
  BY <1>1, <1>2 DEF SwitchInv, SwitchOf, calls
<1> QED BY <1>3, <1>4 DEF SwitchInv

\* A thread that switches a port, and what the server has done for it.
LEMMA SwitchOfCalls ==
  ASSUME Types, Places, CallInv, SwitchInv, NEW c \in Controllers, Call(c) \/ Proceed(c)
  PROVE  SwitchInv'
<1>0. PICK p \in Ports : p = on[c]
  BY DEF Types, ThreadTypes
<1>t. /\ op \in [Controllers -> {"none", "enable", "disable", "flush", "format"}]
      /\ on \in [Controllers -> Ports]
      /\ pc \in [Controllers -> {"idle", "start", "reply", "get", "get_reply", "drain", "wait"}]
      /\ reply \in [Controllers -> {"none", "ok", "fail"}]
      /\ is_enabled \in [Ports -> BOOLEAN]
      /\ has_pool \in [Ports -> BOOLEAN] /\ allocated \in [Ports -> BOOLEAN]
      /\ p = on[c]
  BY <1>0 DEF Types, ThreadTypes, PortTypes
<1>p. PlaceOf(c) /\ SwitchOf(p) /\ \A q \in Ports : SwitchOf(q)
  BY <1>t DEF Places, SwitchInv
<1>q. \A q \in Ports : allocated[q] => has_pool[q]
  BY <1>p DEF SwitchOf
<1>s. ASSUME ~DisableDrain(c)
      PROVE  /\ Others(c) /\ NotAsked(c) /\ InfoInv' /\ ~Told(c) /\ ~Told(c)'
             /\ UNCHANGED <<from_server, server_enabled>>
  <2>1. Others(c) /\ NotAsked(c) /\ UNCHANGED <<from_server, server_enabled>>
    BY <1>s, ThreadSteps DEF server
  <2>2. InfoInv'
    BY <2>1, InfoElse DEF SwitchInv
  <2>3. ~Told(c) /\ ~Told(c)'
    BY <2>1, NotTold DEF Told
  <2> QED BY <2>1, <2>2, <2>3
<1>e. ASSUME ~DisableDrain(c), \A q \in Ports : Switching(c, q) => q = p,
             \A q \in Ports : Switching(c, q)' => q = p,
             \A q \in Ports : q # p => /\ is_enabled'[q] = is_enabled[q]
                                       /\ allocated'[q] => has_pool'[q],
             SwitchOf(p)'
      PROVE  SwitchInv'
  <2>1. \A q \in Ports : q # p => SwitchOf(q)'
    BY <1>e, <1>s, <1>p, SwitchElse
  <2> QED BY <1>e, <1>s, <2>1 DEF SwitchInv
<1>f. ASSUME ~DisableDrain(c), UNCHANGED is_enabled,
             \A q \in Ports : allocated'[q] => has_pool'[q],
             \A q \in Ports : Switching(c, q)' <=> Switching(c, q),
             \A q \in Ports : Switching(c, q) => op'[c] = op[c] /\ reply'[c] = reply[c]
      PROVE  SwitchInv'
  <2>1. \A q \in Ports : SwitchOf(q)'
    BY <1>f, <1>s, <1>p, SwitchElse
  <2> QED BY <1>f, <1>s, <2>1 DEF SwitchInv
<1>o. ASSUME on' = on
      PROVE  \A q \in Ports : (Switching(c, q) => q = p) /\ (Switching(c, q)' => q = p)
  BY <1>o, <1>t DEF Switching
<1> USE DEF Goto, Starts, Replied
<1>1. CASE Call(c)
  <2>1. pc[c] = "idle" /\ pc'[c] = "start" /\ UNCHANGED <<is_enabled, allocated, has_pool>>
    BY <1>1, <1>t DEF Call, core, module
  <2> QED BY <2>1, <1>f, <1>q DEF Switching, DisableDrain
<1>2. CASE EnableStart(c)
  <2>1. /\ op[c] = "enable" /\ pc[c] = "start" /\ port_lock[p] = NoThread /\ ~is_enabled[p]
        /\ op' = op /\ on' = on /\ pc'[c] = "reply" /\ reply'[c] = "none"
        /\ is_enabled' = is_enabled
    BY <1>2, <1>t DEF EnableStart, Request, core
  <2>2. \A q \in Ports : allocated'[q] => has_pool'[q]
    BY <1>2, <1>t, <1>q DEF EnableStart
  <2>3. ~DisableDrain(c)
    BY <2>1 DEF DisableDrain
  <2>4. \A d \in Controllers : ~Switching(d, p)
    BY <2>1, <1>t, NoSwitch
  <2>5. ~server_enabled[p] /\ ~server_enabled'[p]
    BY <2>1, <2>3, <2>4, <1>p, <1>s DEF SwitchOf
  <2>6. \A d \in Controllers : Switching(d, p)' => d = c
    BY <2>3, <2>4, <1>s DEF Others, Switching
  <2>7. Switching(c, p)' /\ ~Granted(c)' /\ op'[c] = "enable"
    BY <2>1, <2>3, <1>s, <1>t DEF Switching, Granted
  <2>8. SwitchOf(p)'
    BY <2>1, <2>2, <2>5, <2>6, <2>7, <1>t DEF SwitchOf
  <2> QED BY <2>1, <2>2, <2>3, <2>8, <1>e, <1>o
<1>3. CASE EnableRefused(c) \/ DisableRefused(c)
  <2>1. pc[c] = "start" /\ pc'[c] = "idle" /\ UNCHANGED <<is_enabled, allocated, has_pool>>
    BY <1>3, <1>t DEF EnableRefused, DisableRefused, Return, core, module
  <2> QED BY <2>1, <1>f, <1>q DEF Switching, DisableDrain
<1>4. CASE EnableReply(c)
  <2>1. /\ op[c] = "enable" /\ pc[c] = "reply" /\ pc'[c] = "idle" /\ on' = on
        /\ \A q \in Ports : q # p => is_enabled'[q] = is_enabled[q]
        /\ reply[c] = "ok" => is_enabled'[p]
        /\ reply[c] # "ok" => is_enabled' = is_enabled
        /\ has_pool' = has_pool /\ \A q \in Ports : allocated'[q] => allocated[q]
    BY <1>4, <1>t DEF EnableReply, Return
  <2>2. ~DisableDrain(c)
    BY <2>1 DEF DisableDrain
  <2>3. Switching(c, p) /\ ~Switching(c, p)'
    BY <2>1, <1>t DEF Switching
  <2>4. \A d \in Controllers : ~Switching(d, p)'
    BY <2>2, <2>3, <1>s, <1>t, OneSwitch DEF Others, Switching
  <2>5. server_enabled'[p] <=> reply[c] = "ok"
    BY <2>1, <2>2, <2>3, <1>p, <1>s DEF SwitchOf, Granted
  <2>6. ~is_enabled[p]
    BY <2>3, <1>p DEF SwitchOf
  <2>7. SwitchOf(p)'
    BY <2>1, <2>4, <2>5, <2>6, <1>q, <1>t DEF SwitchOf
  <2> QED BY <2>1, <2>2, <2>7, <1>e, <1>o, <1>q
<1>5. CASE DisableStart(c)
  <2>1. /\ op[c] = "disable" /\ pc[c] = "start" /\ port_lock[p] = NoThread /\ is_enabled[p]
        /\ op' = op /\ on' = on /\ pc'[c] = "reply" /\ reply'[c] = "none"
        /\ ~is_enabled'[p] /\ \A q \in Ports : q # p => is_enabled'[q] = is_enabled[q]
        /\ has_pool' = has_pool /\ allocated' = allocated
    BY <1>5, <1>t DEF DisableStart, Request, module
  <2>2. ~DisableDrain(c)
    BY <2>1 DEF DisableDrain
  <2>3. \A d \in Controllers : ~Switching(d, p)
    BY <2>1, <1>t, NoSwitch
  <2>4. server_enabled'[p]
    BY <2>1, <2>2, <1>p, <1>s DEF SwitchOf
  <2>5. \A d \in Controllers : Switching(d, p)' => d = c
    BY <2>2, <2>3, <1>s DEF Others, Switching
  <2>6. Switching(c, p)' /\ ~Granted(c)' /\ op'[c] = "disable"
    BY <2>1, <2>2, <1>s, <1>t DEF Switching, Granted
  <2>7. SwitchOf(p)'
    BY <2>1, <2>4, <2>5, <2>6, <1>q, <1>t DEF SwitchOf
  <2> QED BY <2>1, <2>2, <2>7, <1>e, <1>o, <1>q
<1>6. CASE DisableReply(c)
  <2>1. /\ op[c] = "disable" /\ pc[c] = "reply" /\ pc'[c] = "drain" /\ op' = op /\ on' = on
        /\ reply' = reply /\ is_enabled' = is_enabled
        /\ has_pool' = [has_pool EXCEPT ![p] = FALSE]
        /\ allocated' = IF has_pool[p] THEN [allocated EXCEPT ![p] = FALSE] ELSE allocated
    BY <1>6, <1>t DEF DisableReply, core
  <2>2. ~DisableDrain(c)
    BY <2>1 DEF DisableDrain
  <2>3. ASSUME NEW q \in Ports, allocated'[q]
        PROVE  has_pool'[q]
    BY <2>1, <2>3, <1>q, <1>t
  <2>4. \A q \in Ports : Switching(c, q)' <=> Switching(c, q)
    BY <2>1 DEF Switching
  <2> QED BY <2>1, <2>2, <2>3, <2>4, <1>f
<1>7. CASE DisableDrain(c)
  <2>1. UNCHANGED <<is_enabled, server_enabled, has_pool, allocated, calls, from_server>>
    BY <1>7 DEF DisableDrain, module, server, wire
  <2> QED BY <2>1, SwitchStays
<1>8. CASE DisableDrained(c) /\ reply[c] = "ok"
  <2>1. /\ pc[c] = "drain" /\ op' = op /\ on' = on /\ pc'[c] = "wait" /\ reply' = reply
        /\ is_enabled' = is_enabled /\ has_pool' = has_pool /\ allocated' = allocated
    BY <1>8, <1>t DEF DisableDrained, module
  <2>2. ~DisableDrain(c)
    BY <1>8 DEF DisableDrain, DisableDrained, Drained
  <2>3. \A q \in Ports : Switching(c, q)' <=> Switching(c, q)
    BY <2>1 DEF Switching
  <2> QED BY <2>1, <2>2, <2>3, <1>f, <1>q
<1>9. CASE DisableDrained(c) /\ reply[c] # "ok"
  <2>1. /\ pc[c] = "drain" /\ on' = on /\ pc'[c] = "idle" /\ is_enabled'[p]
        /\ \A q \in Ports : q # p => is_enabled'[q] = is_enabled[q]
        /\ has_pool' = has_pool /\ allocated' = allocated
    BY <1>9, <1>t DEF DisableDrained, Return, module
  <2>2. ~DisableDrain(c)
    BY <1>9 DEF DisableDrain, DisableDrained, Drained
  <2>3. op[c] = "disable" /\ Switching(c, p) /\ ~Switching(c, p)'
    BY <2>1, <1>p, <1>t DEF PlaceOf, Switching
  <2>4. \A d \in Controllers : ~Switching(d, p)'
    BY <2>2, <2>3, <1>s, <1>t, OneSwitch DEF Others, Switching
  <2>5. server_enabled'[p]
    BY <2>2, <2>3, <1>9, <1>p, <1>s DEF SwitchOf, Granted
  <2>6. SwitchOf(p)'
    BY <2>1, <2>4, <2>5, <1>q, <1>t DEF SwitchOf
  <2> QED BY <2>1, <2>2, <2>6, <1>e, <1>o, <1>q
<1>10. CASE DisableWait(c)
  <2>1. /\ pc[c] = "wait" /\ on' = on /\ pc'[c] = "idle" /\ is_enabled' = is_enabled
        /\ has_pool' = has_pool /\ allocated' = allocated
    BY <1>10, <1>t DEF DisableWait, Return, core, module
  <2>2. ~DisableDrain(c)
    BY <2>1 DEF DisableDrain
  <2>3. op[c] = "disable" /\ reply[c] = "ok" /\ Switching(c, p) /\ ~Switching(c, p)'
    BY <2>1, <1>p, <1>t DEF PlaceOf, Switching
  <2>4. \A d \in Controllers : ~Switching(d, p)'
    BY <2>2, <2>3, <1>s, <1>t, OneSwitch DEF Others, Switching
  <2>5. ~server_enabled'[p] /\ ~is_enabled'[p]
    BY <2>1, <2>2, <2>3, <1>p, <1>s DEF SwitchOf, Granted
  <2>6. SwitchOf(p)'
    BY <2>1, <2>4, <2>5, <1>q, <1>t DEF SwitchOf
  <2> QED BY <2>1, <2>2, <2>6, <1>e, <1>o, <1>q
<1>11. CASE FlushStart(c) \/ FlushReply(c) \/ FormatStart(c) \/ FormatNext(c)
  <2>1. /\ op[c] \in {"flush", "format"} /\ op'[c] \in {"flush", "format", "none"}
        /\ pc[c] # "drain"
        /\ UNCHANGED <<is_enabled, has_pool, allocated>>
    <3>1. CASE FlushStart(c) \/ FormatStart(c)
      BY <3>1, <1>t DEF FlushStart, FormatStart, core, module
    <3>2. CASE FlushReply(c)
      BY <3>2, <1>t DEF FlushReply, Return, core, module
    <3>3. CASE FormatNext(c)
      BY <3>3, <1>t DEF FormatNext, FormatReturn, Return, core, module
    <3> QED BY <1>11, <3>1, <3>2, <3>3
  <2>2. \A q \in Ports : ~Switching(c, q)' /\ ~Switching(c, q)
    BY <2>1 DEF Switching
  <2> QED BY <2>1, <2>2, <1>f, <1>q DEF DisableDrain
<1> QED BY <1>1, <1>2, <1>3, <1>4, <1>5, <1>6, <1>7, <1>8, <1>9, <1>10, <1>11 DEF Proceed

\* What is asked for a thread that switches a port is that.
LEMMA AskedSwitches ==
  ASSUME CallInv, NEW m \in Msgs(to_server) \cup Msgs(bulks),
         m.type \in {"enable", "disable"}
  PROVE  op[m.c] = m.type /\ pc[m.c] = "reply" /\ on[m.c] = m.p /\ Switching(m.c, m.p)
         /\ reply[m.c] = "none"
<1>1. Fits(m)
  BY DEF CallInv
<1> QED BY <1>1 DEF Fits, Switching, IsBuffer

\* The server switches a port and says so.
LEMMA SwitchServed ==
  ASSUME OneCommits, Types, WireTypes', Places, CallInv, SwitchInv,
         NEW m \in ToServer \cup Held, ServerStep(m),
         UNCHANGED <<core, module, calls>>
  PROVE  SwitchInv'
<1>1. CASE Defer(m) \/ Arrive(m)
  BY <1>1, SwitchStays DEF Defer, Arrive, core, module
<1>2. ASSUME NEW s \in {"ok", "fail"}, NEW e \in BOOLEAN, Handles(m), ~IsBuffer(m),
             Rep(m.c, s, e) \in Msgs(from_server'), Msgs(from_server) \subseteq Msgs(from_server'),
             \A x \in Msgs(from_server') :
               x \in Msgs(from_server) \/ IsBuffer(x) \/ x = Rep(m.c, s, e),
             e = server_enabled'[m.p],
             \/ server_enabled' = server_enabled
                /\ (m.type \in {"enable", "disable"} => s = "fail")
             \/ /\ m.type = "enable" /\ s = "ok"
                /\ server_enabled' = [server_enabled EXCEPT ![m.p] = TRUE]
             \/ /\ m.type = "disable" /\ s = "ok"
                /\ server_enabled' = [server_enabled EXCEPT ![m.p] = FALSE]
      PROVE  SwitchInv'
  <2> DEFINE r == Rep(m.c, s, e)
  <2>1. m.c \in Controllers /\ m.p \in Ports /\ Asks(m, m.c) /\ m.type \in Requests
    BY <1>2, MessageShapes DEF Asks
  <2>2. r.c = m.c /\ ~IsBuffer(r) /\ r.type = "reply" /\ r.status = s /\ r.enabled = e
    BY <1>2, <2>1, MessagesMade
  <2> HIDE DEF r
  <2>3. m \in Msgs(to_server) \cup Msgs(bulks) /\ ~Asked(from_server, m.c)
    BY <1>2, <2>1, CallHandled
  <2>4. Fits(m)
    BY <2>3 DEF CallInv
  <2>5. \A x : IsReply(x, m.c) => x \notin Msgs(from_server)
    BY <2>3 DEF IsReply, Asked, Asks, IsBuffer
  <2>6. \A d \in Controllers : d # m.c => (Told(d)' <=> Told(d))
    <3> SUFFICES ASSUME NEW d \in Controllers, d # m.c
                 PROVE  Told(d)' <=> Told(d)
      OBVIOUS
    <3>1. ASSUME NEW x
          PROVE  IsReply(x, d) => (x \in Msgs(from_server') <=> x \in Msgs(from_server))
      BY <1>2, <2>2 DEF IsReply, IsBuffer, r
    <3> QED BY <3>1 DEF Told
  <2>7. ~Told(m.c) /\ (Told(m.c)' <=> s = "ok")
    <3>1. ~Told(m.c)
      BY <2>5 DEF Told
    <3>2. s = "ok" => Told(m.c)'
      BY <1>2, <2>2 DEF Told, IsReply, r
    <3>3. Told(m.c)' => s = "ok"
      <4> SUFFICES ASSUME NEW x \in Msgs(from_server'), IsReply(x, m.c), x.status = "ok"
                   PROVE  s = "ok"
        BY DEF Told
      <4>1. x = r
        BY <1>2, <2>5 DEF IsReply, IsBuffer, r
      <4> QED BY <4>1, <2>2
    <3> QED BY <3>1, <3>2, <3>3
  <2>8. reply[m.c] = "none" /\ pc[m.c] \in {"reply", "get_reply"}
    BY <1>2, <2>1, <2>4 DEF Fits, Requests
  <2>9. \A d \in Controllers : d # m.c => (Granted(d)' <=> Granted(d))
    BY <2>6 DEF Granted, calls
  <2>10. ~Granted(m.c) /\ (Granted(m.c)' <=> s = "ok")
    BY <2>7, <2>8 DEF Granted, calls
  <2>11. \A d \in Controllers, q \in Ports : Switching(d, q)' <=> Switching(d, q)
    BY DEF Switching, calls
  <2>12. /\ UNCHANGED <<is_enabled, has_pool, allocated, op, on, pc, reply>>
         /\ server_enabled \in [Ports -> BOOLEAN]
    BY DEF core, module, calls, Types, WireTypes
  <2>13. m.type \in {"enable", "disable"} =>
           /\ op[m.c] = m.type /\ pc[m.c] = "reply" /\ on[m.c] = m.p /\ Switching(m.c, m.p)
           /\ \A d \in Controllers : Switching(d, m.p) => d = m.c
    BY <2>1, <2>3, AskedSwitches, OneSwitch
  <2>14. m.type \notin {"enable", "disable"} => \A q \in Ports : ~Switching(m.c, q)
    BY <2>1, <2>4 DEF Fits, Switching, Requests, IsBuffer
  <2>15. ASSUME NEW q \in Ports
         PROVE  SwitchOf(q)'
    <3>1. SwitchOf(q)
      BY DEF SwitchInv
    <3>2. CASE m.type \in {"enable", "disable"} /\ s = "ok" /\ q = m.p
      <4>1. server_enabled'[q] <=> m.type = "enable"
        BY <1>2, <3>2, <2>1, <2>12
      <4> QED BY <3>1, <3>2, <4>1, <2>1, <2>10, <2>11, <2>12, <2>13 DEF SwitchOf
    <3>3. CASE s = "fail" \/ m.type \notin {"enable", "disable"}
      <4>1. server_enabled' = server_enabled
        BY <1>2, <3>3
      <4>2. \A d \in Controllers : Switching(d, q) => (Granted(d)' <=> Granted(d))
        BY <3>3, <2>9, <2>10, <2>14
      <4> QED BY <3>1, <4>1, <4>2, <2>11, <2>12 DEF SwitchOf
    <3>4. CASE m.type \in {"enable", "disable"} /\ q # m.p
      <4>1. server_enabled'[q] = server_enabled[q]
        BY <1>2, <3>4, <2>1, <2>12
      <4>2. ~Switching(m.c, q)
        BY <3>4, <2>13 DEF Switching
      <4>3. \A d \in Controllers : Switching(d, q) => (Granted(d)' <=> Granted(d))
        BY <4>2, <2>9
      <4> QED BY <3>1, <4>1, <4>3, <2>11, <2>12 DEF SwitchOf
    <3> QED BY <3>2, <3>3, <3>4, <1>2
  <2>16. InfoInv'
    <3> SUFFICES ASSUME NEW x \in Msgs(from_server'), NEW d \in Controllers, IsReply(x, d),
                        pc[d] = "get_reply"
                 PROVE  x.enabled <=> server_enabled'[on[d]]
      BY <2>12 DEF InfoInv
    <3>1. op[d] = "format"
      BY DEF Places, PlaceOf, Types, ThreadTypes
    <3>2. m.type \notin {"enable", "disable"}
      BY <2>1, <2>13, <3>1, NoCommit
    <3>3. server_enabled' = server_enabled
      BY <1>2, <3>2
    <3>4. CASE x \in Msgs(from_server)
      BY <3>3, <3>4 DEF SwitchInv, InfoInv
    <3>5. CASE x = r
      <4>1. d = m.c
        BY <3>5, <2>2 DEF IsReply
      <4>2. on[d] = m.p
        BY <4>1, <2>1, <2>4, <3>2 DEF Fits, Requests, IsBuffer
      <4> QED BY <3>5, <4>2, <2>2, <1>2
    <3> QED BY <1>2, <3>4, <3>5 DEF IsReply, IsBuffer, r
  <2> QED BY <2>15, <2>16 DEF SwitchInv
<1>3. ASSUME NEW s \in {"ok", "fail"}, Answer(m, s)
      PROVE  SwitchInv'
  <2> DEFINE e == server_enabled'[m.p]
  <2>1. /\ Handles(m) /\ ~IsBuffer(m)
        /\ Added(from_server, from_server', Rep(m.c, s, e))
    BY <1>3 DEF Answer, IsBuffer
  <2>2. e \in BOOLEAN
    BY <2>1, MessageShapes DEF WireTypes
  <2>3. Msgs(from_server') = Msgs(from_server) \cup {Rep(m.c, s, e)}
    BY <2>1 DEF Added
  <2>4. \/ server_enabled' = server_enabled
           /\ (m.type \in {"enable", "disable"} => s = "fail")
        \/ /\ m.type = "enable" /\ s = "ok"
           /\ server_enabled' = [server_enabled EXCEPT ![m.p] = TRUE]
    BY <1>3 DEF Answer
  <2> QED BY <2>1, <2>2, <2>3, <2>4, <1>2
<1>4. CASE GiveBack(m)
  <2> DEFINE e == server_enabled'[m.p]
             B == BuffersOf(m.p)
  <2>1. /\ Handles(m) /\ ~IsBuffer(m)
        /\ Poured(from_server, from_server', B, Rep(m.c, "ok", e))
    BY <1>4 DEF GiveBack, IsBuffer
  <2>2. e \in BOOLEAN /\ B \subseteq Buffers
    BY <2>1, MessageShapes, BuffersOfPort DEF WireTypes
  <2>3. Msgs(from_server') = Msgs(from_server) \cup {Buf(b) : b \in B} \cup {Rep(m.c, "ok", e)}
    BY <2>1 DEF Poured
  <2>4. \A x \in Msgs(from_server') :
               x \in Msgs(from_server) \/ IsBuffer(x) \/ x = Rep(m.c, "ok", e)
    BY <2>2, <2>3, MessagesMade
  <2>5. \/ server_enabled' = server_enabled /\ m.type \notin {"enable", "disable"}
        \/ /\ m.type = "disable"
           /\ server_enabled' = [server_enabled EXCEPT ![m.p] = FALSE]
    BY <1>4 DEF GiveBack
  <2> QED BY <2>1, <2>2, <2>3, <2>4, <2>5, <1>2
<1> QED BY <1>1, <1>3, <1>4 DEF ServerStep

\* A reply tells its thread what the server has done.
LEMMA SwitchReplied ==
  ASSUME OneCommits, Types, Places, CallInv, SwitchInv, ReceiveReply
  PROVE  SwitchInv'
<1> DEFINE m == Head(from_server)
<1>1. m \in FromServer /\ Taken(from_server, from_server', m)
  BY ReceiveTakes DEF ReceiveReply, Types
<1>2. ~IsBuffer(m) /\ m.type = "reply" /\ m.c \in Controllers /\ m.status \in {"ok", "fail"}
      /\ m.enabled \in BOOLEAN
  BY <1>1, MessageShapes DEF ReceiveReply, IsBuffer
<1>3. /\ reply' = [reply EXCEPT ![m.c] = m.status]
      /\ UNCHANGED <<server_enabled, has_pool, allocated, op, on, pc>>
      /\ \/ /\ pc[m.c] = "get_reply"
            /\ is_enabled' = [is_enabled EXCEPT ![on[m.c]] = m.enabled]
         \/ UNCHANGED is_enabled
  BY DEF ReceiveReply, module, server
<1> HIDE DEF m
<1>4. m \in Msgs(from_server) /\ Msgs(from_server') \subseteq Msgs(from_server)
      /\ Msgs(from_server) = Msgs(from_server') \cup {m} /\ ~Asked(from_server', m.c)
  BY <1>1, <1>2 DEF Taken, CallInv, Asks
<1>5. Fits(m)
  BY <1>4 DEF CallInv
<1>6. reply[m.c] = "none"
  BY <1>2, <1>5 DEF Fits
<1>7. \A x \in Msgs(from_server') : ~IsReply(x, m.c)
  BY <1>4 DEF IsReply, Asked, Asks, IsBuffer
<1>8. \A d \in Controllers : d # m.c => reply'[d] = reply[d]
  BY <1>3 DEF Types, ThreadTypes
<1>9. reply'[m.c] = m.status
  BY <1>2, <1>3 DEF Types, ThreadTypes
<1>10. ASSUME NEW d \in Controllers
       PROVE  Granted(d)' <=> Granted(d)
  <2>1. CASE d = m.c
    <3>1. Granted(d) <=> m.status = "ok"
      BY <2>1, <1>2, <1>4, <1>6, <1>7 DEF Granted, Told, IsReply
    <3>2. Granted(d)' <=> m.status = "ok"
      BY <2>1, <1>7, <1>9 DEF Granted, Told
    <3> QED BY <3>1, <3>2
  <2>2. CASE d # m.c
    <3>1. Told(d)' <=> Told(d)
      BY <2>2, <1>4 DEF Told, IsReply
    <3> QED BY <2>2, <3>1, <1>8 DEF Granted
  <2> QED BY <2>1, <2>2
<1>11. is_enabled' = is_enabled
  <2>1. CASE /\ pc[m.c] = "get_reply"
             /\ is_enabled' = [is_enabled EXCEPT ![on[m.c]] = m.enabled]
    <3>1. op[m.c] = "format"
      BY <2>1, <1>2 DEF Places, PlaceOf, Types, ThreadTypes
    <3>2. on[m.c] \in Ports /\ \A d \in Controllers : ~Switching(d, on[m.c])
      BY <3>1, <1>2, NoCommit DEF Types, ThreadTypes
    <3>3. m.enabled <=> server_enabled[on[m.c]]
      BY <2>1, <1>2, <1>4 DEF SwitchInv, InfoInv, IsReply
    <3>4. is_enabled[on[m.c]] <=> server_enabled[on[m.c]]
      BY <3>2 DEF SwitchInv, SwitchOf
    <3>5. is_enabled \in [Ports -> BOOLEAN] /\ is_enabled[on[m.c]] = m.enabled
      BY <3>2, <3>3, <3>4, <1>2 DEF Types, PortTypes
    <3> QED BY <2>1, <3>5
  <2> QED BY <2>1, <1>3
<1>12. InfoInv'
  BY <1>3, <1>4 DEF SwitchInv, InfoInv
<1>13. \A d \in Controllers, q \in Ports : Switching(d, q)' <=> Switching(d, q)
  BY <1>3 DEF Switching
<1>14. ASSUME NEW q \in Ports
       PROVE  SwitchOf(q)'
  BY <1>3, <1>10, <1>11, <1>13 DEF SwitchInv, SwitchOf
<1> QED BY <1>12, <1>14 DEF SwitchInv

\* At first all ports are disabled on both sides.
LEMMA SwitchInit == Init => SwitchInv
<1>1. Msgs(<<>>) = {}
  BY DEF Msgs
<1> QED BY <1>1 DEF Init, SwitchInv, SwitchOf, InfoInv, Switching

\* Every step keeps the two sides together.
LEMMA SwitchNext ==
  ASSUME OneCommits, Types, Places, CallInv, SwitchInv, [Next]_vars
  PROVE  SwitchInv'
<1>1. ASSUME NEW c \in Controllers, Call(c) \/ Proceed(c)
      PROVE  SwitchInv'
  BY <1>1, SwitchOfCalls
<1>2. ASSUME UNCHANGED <<is_enabled, server_enabled, has_pool, allocated, calls, from_server>>
      PROVE  SwitchInv'
  BY <1>2, SwitchStays
<1>3. ASSUME NEW b \in Data, NEW k \in Kinds, Send(b, k)
      PROVE  SwitchInv'
  BY <1>2, <1>3 DEF Send, server
<1>4. ASSUME NEW b \in Buffers, ServerReturns(b)
      PROVE  SwitchInv'
  <2>1. Added(from_server, from_server', Buf(b)) /\ Buf(b).type = "buffer"
    BY <1>4, MessagesMade, AppendAdds DEF ServerReturns, Buf, Types, WireTypes
  <2>2. \A m : (\E c : IsReply(m, c)) => (m \in Msgs(from_server') <=> m \in Msgs(from_server))
    BY <2>1 DEF Added, IsReply
  <2> QED BY <1>4, <2>2, SwitchStays DEF ServerReturns, core, module, server
<1>5. ASSUME NEW p \in Ports, Connect(p) \/ SetZeroCopy(p)
      PROVE  SwitchInv'
  BY <1>2, <1>5 DEF Connect, SetZeroCopy, core, server, wire
<1>6. CASE ActionThread
  BY <1>2, <1>6 DEF ActionThread, module, server, wire
<1>7. CASE ReceiveBuffer
  <2>1. Taken(from_server, from_server', Head(from_server)) /\ Head(from_server).type = "buffer"
    BY <1>7, ReceiveTakes DEF ReceiveBuffer, Types
  <2>2. \A m : (\E c : IsReply(m, c)) => (m \in Msgs(from_server') <=> m \in Msgs(from_server))
    BY <2>1 DEF Taken, IsReply
  <2>3. UNCHANGED <<is_enabled, server_enabled, has_pool, calls>>
    BY <1>7 DEF ReceiveBuffer, core, server
  <2>4. UNCHANGED allocated
    BY <1>7 DEF ReceiveBuffer
  <2> QED BY <2>2, <2>3, <2>4, SwitchStays
<1>8. CASE ReceiveReply
  BY <1>8, SwitchReplied
<1>9. CASE Server
  <2>1. PICK m \in ToServer \cup Held : ServerStep(m)
    BY <1>9, ServerSteps DEF Types
  <2>2. WireTypes' /\ UNCHANGED <<core, module, calls>>
    BY <1>9, ServerSteps DEF Types
  <2> QED BY <2>1, <2>2, SwitchServed
<1>10. CASE UNCHANGED vars
  BY <1>2, <1>10 DEF vars, core, module, server, wire
<1> QED BY <1>1, <1>3, <1>4, <1>5, <1>6, <1>7, <1>8, <1>9, <1>10
        DEF Next, Transport

-----------------------------------------------------------------------------
(* The layer of the disables: what a port that is disabled gives back.     *)

\* The buffers of a port are buffers.
LEMMA OfBuffers == \A p : \A b \in Of(p) : b \in Data /\ b \in Buffers /\ HomeOf(b) = p
BY DEF Of, Buffers

\* A port that is being disabled is not enabled.
LEMMA DisablingIsOff ==
  ASSUME SwitchInv, NEW c \in Controllers, NEW p \in Ports, Disabling(c, p)
  PROVE  ~is_enabled[p]
BY DEF SwitchInv, SwitchOf, Disabling

\* What a thread does to a disable: its own, stage by stage.
LEMMA DisableStages ==
  ASSUME Types, Places, NEW c \in Controllers, Call(c) \/ Proceed(c), ~DisableDrain(c),
         NEW q \in Ports
  PROVE  /\ Disabling(c, q)' /\ reply'[c] = "ok" => Disabling(c, q) /\ reply[c] = "ok"
         /\ Disabling(c, q)' /\ pc'[c] = "wait" =>
              Disabling(c, q) /\ reply[c] = "ok" /\ callback_queue = <<>>
         /\ is_enabled[q] /\ ~is_enabled'[q] => Disabling(c, q)'
         /\ Disabling(c, q) /\ ~Disabling(c, q)' => is_enabled'[q] \/ pc[c] = "wait"
<1>0. PICK p \in Ports : p = on[c]
  BY DEF Types, ThreadTypes
<1>t. /\ op \in [Controllers -> {"none", "enable", "disable", "flush", "format"}]
      /\ on \in [Controllers -> Ports]
      /\ pc \in [Controllers -> {"idle", "start", "reply", "get", "get_reply", "drain", "wait"}]
      /\ reply \in [Controllers -> {"none", "ok", "fail"}]
      /\ is_enabled \in [Ports -> BOOLEAN]
      /\ p = on[c] /\ PlaceOf(c)
  BY <1>0 DEF Types, ThreadTypes, PortTypes, Places
<1> USE DEF Goto, Starts, Replied
<1>a. ASSUME UNCHANGED is_enabled, ~Disabling(c, q), ~Disabling(c, q)'
      PROVE  /\ Disabling(c, q)' /\ reply'[c] = "ok" => Disabling(c, q) /\ reply[c] = "ok"
             /\ Disabling(c, q)' /\ pc'[c] = "wait" =>
                  Disabling(c, q) /\ reply[c] = "ok" /\ callback_queue = <<>>
             /\ is_enabled[q] /\ ~is_enabled'[q] => Disabling(c, q)'
             /\ Disabling(c, q) /\ ~Disabling(c, q)' => is_enabled'[q] \/ pc[c] = "wait"
  BY <1>a
<1>1. CASE Call(c)
  <2>1. pc[c] = "idle" /\ pc'[c] = "start" /\ UNCHANGED is_enabled
    BY <1>1, <1>t DEF Call, core
  <2> QED BY <2>1, <1>a DEF Disabling, Switching
<1>2. CASE EnableStart(c)
  <2>1. op[c] = "enable" /\ op'[c] = "enable" /\ UNCHANGED is_enabled
    BY <1>2, <1>t DEF EnableStart, core
  <2> QED BY <2>1, <1>a DEF Disabling
<1>3. CASE EnableRefused(c) \/ DisableRefused(c)
  <2>1. pc[c] = "start" /\ pc'[c] = "idle" /\ UNCHANGED is_enabled
    BY <1>3, <1>t DEF EnableRefused, DisableRefused, Return, core
  <2> QED BY <2>1, <1>a DEF Disabling, Switching
<1>4. CASE EnableReply(c)
  <2>1. op[c] = "enable" /\ op'[c] = "none" /\ (is_enabled[q] => is_enabled'[q])
    BY <1>4, <1>t DEF EnableReply, Return
  <2> QED BY <2>1 DEF Disabling
<1>5. CASE DisableStart(c)
  <2>1. /\ op[c] = "disable" /\ pc[c] = "start" /\ op' = op /\ on' = on /\ pc'[c] = "reply"
        /\ reply'[c] = "none" /\ \A x \in Ports : x # p => is_enabled'[x] = is_enabled[x]
    BY <1>5, <1>t DEF DisableStart, Request
  <2>2. ~Disabling(c, q) /\ (q = p => Disabling(c, q)')
    BY <2>1, <1>t DEF Disabling, Switching
  <2> QED BY <2>1, <2>2
<1>6. CASE DisableReply(c)
  <2>1. /\ op[c] = "disable" /\ pc[c] = "reply" /\ op' = op /\ on' = on /\ pc'[c] = "drain"
        /\ reply' = reply /\ UNCHANGED is_enabled
    BY <1>6, <1>t DEF DisableReply, core
  <2>2. Disabling(c, q)' <=> Disabling(c, q)
    BY <2>1 DEF Disabling, Switching
  <2> QED BY <2>1, <2>2
<1>7. CASE DisableDrained(c) /\ reply[c] = "ok"
  <2>1. /\ pc[c] = "drain" /\ op' = op /\ on' = on /\ pc'[c] = "wait"
        /\ reply' = reply /\ UNCHANGED is_enabled /\ callback_queue = <<>>
    BY <1>7, <1>t DEF DisableDrained, Drained
  <2>2. Disabling(c, q)' <=> Disabling(c, q)
    BY <2>1 DEF Disabling, Switching
  <2> QED BY <2>1, <2>2, <1>7
<1>8. CASE DisableDrained(c) /\ reply[c] # "ok"
  <2>1. pc'[c] = "idle" /\ is_enabled' = [is_enabled EXCEPT ![p] = TRUE]
    BY <1>8, <1>t DEF DisableDrained, Return
  <2>2. ~Disabling(c, q)' /\ (Disabling(c, q) => q = p)
    BY <2>1, <1>t DEF Disabling, Switching
  <2>3. is_enabled'[p] /\ (is_enabled[q] => is_enabled'[q])
    BY <2>1, <1>t
  <2> QED BY <2>2, <2>3
<1>9. CASE DisableWait(c)
  <2>1. pc[c] = "wait" /\ pc'[c] = "idle" /\ UNCHANGED is_enabled
    BY <1>9, <1>t DEF DisableWait, Return, core
  <2> QED BY <2>1 DEF Disabling, Switching
<1>10. CASE FlushStart(c) \/ FlushReply(c) \/ FormatStart(c) \/ FormatNext(c)
  <2>1. op[c] # "disable" /\ op'[c] # "disable" /\ UNCHANGED is_enabled
    <3>1. CASE FlushStart(c) \/ FormatStart(c)
      BY <3>1, <1>t DEF FlushStart, FormatStart, core
    <3>2. CASE FlushReply(c)
      BY <3>2, <1>t DEF FlushReply, Return, core
    <3>3. CASE FormatNext(c)
      BY <3>3, <1>t DEF FormatNext, FormatReturn, Return, core
    <3> QED BY <1>10, <3>1, <3>2, <3>3
  <2> QED BY <2>1, <1>a DEF Disabling
<1> QED BY <1>1, <1>2, <1>3, <1>4, <1>5, <1>6, <1>7, <1>8, <1>9, <1>10 DEF Proceed

\* No thread undoes a stage of a disable.
LEMMA GoneOfCalls ==
  ASSUME Types, Places, CallInv, BufferInv, SwitchInv, GoneInv,
         NEW c \in Controllers, Call(c) \/ Proceed(c), ~DisableDrain(c)
  PROVE  GoneInv'
<1>1. /\ NotAsked(c) /\ Others(c)
      /\ UNCHANGED <<client, server, from_server>>
      /\ \/ UNCHANGED to_server
         \/ \E t \in Requests, p \in Ports : Added(to_server, to_server', Req(t, c, p))
  BY ThreadSteps
<1>2. UNCHANGED <<at, callback_queue, bulks, from_server>>
  BY <1>1 DEF client, server
<1>3. \A d, p : Behind(to_server, d, p) => Behind(to_server', d, p)
  BY <1>1, MessagesMade DEF Added, OfPort
<1>4. \A b : Holds(to_server', b) <=> Holds(to_server, b)
  BY <1>1, MessagesMade, HoldsAdded DEF Carries
<1>5. \A p : NoneSent(p) => NoneSent(p)'
  BY <1>2, <1>4 DEF NoneSent
<1>6. \A d \in Controllers : (Told(d)' <=> Told(d))
  BY <1>2 DEF Told
<1>7. ~Told(c) /\ \A p : Behind(to_server, c, p)
  BY <1>1, NotTold DEF NotAsked, Asked, Behind, Msgs
<1>8. \A q \in Ports :
         /\ Disabling(c, q)' /\ reply'[c] = "ok" => Disabling(c, q) /\ reply[c] = "ok"
         /\ Disabling(c, q)' /\ pc'[c] = "wait" =>
              Disabling(c, q) /\ reply[c] = "ok" /\ callback_queue = <<>>
         /\ is_enabled[q] /\ ~is_enabled'[q] => Disabling(c, q)'
         /\ Disabling(c, q) /\ ~Disabling(c, q)' => is_enabled'[q] \/ pc[c] = "wait"
  BY DisableStages
<1>9. \A d \in Controllers : d # c =>
        /\ \A p : Disabling(d, p)' <=> Disabling(d, p)
        /\ pc'[d] = pc[d] /\ reply'[d] = reply[d]
  BY <1>1 DEF Others, Disabling, Switching
<1>10. ASSUME NEW d \in Controllers, NEW p \in Ports, Disabling(d, p)', d # c
       PROVE  GoneOf(d, p)'
  BY <1>10, <1>2, <1>3, <1>5, <1>6, <1>9 DEF GoneInv, GoneOf
<1>11. ASSUME NEW p \in Ports, Disabling(c, p)'
       PROVE  GoneOf(c, p)'
  <2>1. Behind(to_server', c, p) /\ ~Told(c)'
    BY <1>3, <1>6, <1>7
  <2>2. reply'[c] = "ok" => \A b \in Of(p) : at'[b] \in {"client", "queue"}
    BY <1>2, <1>8, <1>11 DEF GoneInv, GoneOf
  <2>3. ASSUME pc'[c] = "wait", NEW b \in Of(p)
        PROVE  at'[b] = "client"
    <3>1. at[b] \in {"client", "queue"} /\ callback_queue = <<>>
      BY <1>8, <1>11, <2>3 DEF GoneInv, GoneOf
    <3>2. at[b] # "queue"
      BY <3>1, OfBuffers DEF BufferInv, Msgs
    <3> QED BY <3>1, <3>2, <1>2
  <2> QED BY <2>1, <2>2, <2>3 DEF GoneOf
<1>12. ASSUME NEW p \in Ports
       PROVE  RestOf(p)'
  <2> SUFFICES ASSUME ~is_enabled'[p], \A d \in Controllers : ~Disabling(d, p)'
               PROVE  \A b \in Of(p) : at[b] = "client"
    BY <1>2 DEF RestOf
  <2>1. ~is_enabled[p]
    BY <1>8
  <2>2. CASE Disabling(c, p)
    BY <2>2, <1>8 DEF GoneInv, GoneOf
  <2>3. CASE ~Disabling(c, p)
    BY <2>1, <2>3, <1>9 DEF GoneInv, RestOf
  <2> QED BY <2>2, <2>3
<1> QED BY <1>10, <1>11, <1>12 DEF GoneInv

\* Callbacks give the client more buffers.
LEMMA GoneDone ==
  ASSUME Types, BufferInv, GoneInv, callback_queue # <<>>, DoCallback,
         UNCHANGED <<is_enabled, bulks, wire, calls>>
  PROVE  GoneInv'
<1> DEFINE b == Head(callback_queue)
<1>1. b \in Buffers /\ b \in Msgs(callback_queue)
  BY CallbackTakes DEF Types, BufferInv
<1>2. at' = [at EXCEPT ![b] = IF b \in Events THEN "server" ELSE "client"]
  BY DEF DoCallback
<1> HIDE DEF b
<1>3. \A x \in Data : at'[x] = at[x] \/ at'[x] = "client"
  BY <1>1, <1>2, VcPortAssumption DEF Types, WireTypes, Buffers
<1>4. UNCHANGED <<to_server, from_server, bulks, is_enabled, op, on, pc, reply>>
  BY DEF wire, calls
<1>5. \A c, p : Disabling(c, p)' <=> Disabling(c, p)
  BY <1>4 DEF Disabling, Switching
<1>6. \A c : Told(c)' <=> Told(c)
  BY <1>4 DEF Told
<1>7. \A p : NoneSent(p) => NoneSent(p)'
  BY <1>3, <1>4, OfBuffers DEF NoneSent
<1>8. ASSUME NEW c \in Controllers, NEW p \in Ports, Disabling(c, p)'
      PROVE  GoneOf(c, p)'
  BY <1>8, <1>3, <1>4, <1>5, <1>6, <1>7, OfBuffers DEF GoneInv, GoneOf
<1>9. ASSUME NEW p \in Ports
      PROVE  RestOf(p)'
  BY <1>3, <1>4, <1>5, OfBuffers DEF GoneInv, RestOf
<1> QED BY <1>8, <1>9 DEF GoneInv

\* A buffer is sent on an enabled port: nobody is disabling it.
LEMMA GoneSent ==
  ASSUME Types, SwitchInv, GoneInv, NEW b \in Data, NEW k \in Kinds, Send(b, k)
  PROVE  GoneInv'
<1>1. /\ UNCHANGED <<bulks, from_server, is_enabled, op, on, pc, reply>>
      /\ HomeOf(b) \in Ports /\ is_enabled[HomeOf(b)]
  BY DEF Send, server, calls, HomeOf, Ports
<1>2. /\ \A x \in Buffers : x # b => at'[x] = at[x]
      /\ \A c, p : Behind(to_server, c, p) /\ p # HomeOf(b) => Behind(to_server', c, p)
      /\ \A x : x # b => (Holds(to_server', x) <=> Holds(to_server, x))
  <2>1. CASE Sent(HomeOf(b), b, k)
    <3>1. PICK t \in {"buffer", "bulk_buffer"} :
            Added(to_server, to_server', [type |-> t, b |-> b])
      BY <2>1, <1>1, SentAdds DEF Types
    <3>2. \A p : OfPort([type |-> t, b |-> b], p) => p = HomeOf(b)
      BY DEF OfPort
    <3>3. \A x : Carries([type |-> t, b |-> b], x) => x = b
      BY DEF Carries
    <3>4. \A x \in Buffers : x # b => at'[x] = at[x]
      BY <2>1 DEF Sent, Types, WireTypes
    <3>5. \A c, p : Behind(to_server, c, p) /\ p # HomeOf(b) => Behind(to_server', c, p)
      BY <3>1, <3>2 DEF Added
    <3>6. \A x : x # b => (Holds(to_server', x) <=> Holds(to_server, x))
      BY <3>1, <3>3, HoldsAdded
    <3> QED BY <3>4, <3>5, <3>6
  <2>2. CASE SendFailed(HomeOf(b))
    BY <2>2 DEF SendFailed
  <2> QED BY <2>1, <2>2 DEF Send
<1>3. \A p \in Ports : ~is_enabled[p] => p # HomeOf(b) /\ b \notin Of(p)
  BY <1>1 DEF Of
<1>4. \A c, p : Disabling(c, p)' <=> Disabling(c, p)
  BY <1>1 DEF Disabling, Switching
<1>5. \A c : Told(c)' <=> Told(c)
  BY <1>1 DEF Told
<1>6. ASSUME NEW p \in Ports, ~is_enabled[p], NoneSent(p)
      PROVE  NoneSent(p)'
  BY <1>1, <1>2, <1>3, <1>6, OfBuffers DEF NoneSent
<1>7. ASSUME NEW c \in Controllers, NEW p \in Ports, Disabling(c, p)'
      PROVE  GoneOf(c, p)'
  <2>1. GoneOf(c, p) /\ ~is_enabled[p]
    BY <1>4, <1>7, DisablingIsOff DEF GoneInv
  <2>2. \A x \in Of(p) : at'[x] = at[x]
    BY <2>1, <1>2, <1>3, OfBuffers
  <2>3. Behind(to_server', c, p)
    BY <2>1, <1>2, <1>3 DEF GoneOf
  <2> QED BY <2>1, <2>2, <2>3, <1>1, <1>5, <1>6 DEF GoneOf
<1>8. ASSUME NEW p \in Ports
      PROVE  RestOf(p)'
  BY <1>1, <1>2, <1>3, <1>4, OfBuffers DEF GoneInv, RestOf
<1> QED BY <1>7, <1>8 DEF GoneInv

\* A buffer that the server returns is not of a port that it has disabled.
LEMMA GoneReturned ==
  ASSUME Types, BufferInv, GoneInv, NEW b \in Buffers, ServerReturns(b)
  PROVE  GoneInv'
<1>1. Added(from_server, from_server', Buf(b)) /\ Buf(b).type = "buffer" /\ Buf(b).b = b
  BY MessagesMade, AppendAdds DEF ServerReturns, Buf, Types, WireTypes
<1>2. /\ UNCHANGED <<to_server, bulks, is_enabled, op, on, pc, reply>>
      /\ at[b] = "server" /\ at' = [at EXCEPT ![b] = "wire"]
  BY DEF ServerReturns, server, core, calls
<1>3. \A x \in Buffers : at'[x] = at[x] \/ (x = b /\ at'[x] = "wire")
  BY <1>2 DEF Types, WireTypes
<1>4. \A c, p : Disabling(c, p)' <=> Disabling(c, p)
  BY <1>2 DEF Disabling, Switching
<1>5. \A c : Told(c)' <=> Told(c)
  BY <1>1 DEF Added, Told, IsReply
<1>6. \A p : NoneSent(p) => NoneSent(p)' /\ b \notin Of(p)
  BY <1>2, <1>3, OfBuffers DEF NoneSent
<1>7. \A c, p : Behind(from_server, c, p) /\ b \notin Of(p) => Behind(from_server', c, p)
  BY <1>1 DEF Added, OfPort, Of
<1>8. ASSUME NEW c \in Controllers, NEW p \in Ports, Disabling(c, p)'
      PROVE  GoneOf(c, p)'
  <2>1. GoneOf(c, p)
    BY <1>4, <1>8 DEF GoneInv
  <2>2. \A x \in Of(p) : at[x] \in {"client", "queue"} => at'[x] = at[x]
    BY <1>2, <1>3, OfBuffers
  <2>3. reply[c] = "ok" => \A x \in Of(p) : at'[x] \in {"client", "queue"}
    BY <2>1, <2>2 DEF GoneOf
  <2>4. pc[c] = "wait" => \A x \in Of(p) : at'[x] = "client"
    BY <2>1, <2>2 DEF GoneOf
  <2> QED BY <2>1, <2>3, <2>4, <1>2, <1>5, <1>6, <1>7 DEF GoneOf
<1>9. ASSUME NEW p \in Ports
      PROVE  RestOf(p)'
  <2>1. \A x \in Of(p) : at[x] = "client" => at'[x] = at[x]
    BY <1>2, <1>3, OfBuffers
  <2> QED BY <2>1, <1>2, <1>4 DEF GoneInv, RestOf
<1> QED BY <1>8, <1>9 DEF GoneInv

\* A buffer comes back to the queue of callbacks.
LEMMA GoneReceived ==
  ASSUME Types, BufferInv, GoneInv, ReceiveBuffer
  PROVE  GoneInv'
<1> DEFINE m == Head(from_server)
           b == m.b
<1>1. m \in FromServer /\ Taken(from_server, from_server', m)
  BY ReceiveTakes DEF ReceiveBuffer, Types
<1>2. IsBuffer(m) /\ b \in Buffers /\ m.type = "buffer"
  BY <1>1, MessageShapes DEF ReceiveBuffer, IsBuffer
<1>3. /\ at' = [at EXCEPT ![b] = "queue"]
      /\ UNCHANGED <<to_server, bulks, is_enabled, op, on, pc, reply>>
  BY DEF ReceiveBuffer, server, core, calls
<1>4. Carries(m, b)
  BY <1>2 DEF Carries
<1> HIDE DEF m, b
<1>5. at[b] = "wire"
  BY <1>1, <1>2, <1>4, HoldsTaken DEF BufferInv
<1>6. \A x \in Buffers : at'[x] = at[x] \/ (x = b /\ at'[x] = "queue")
  BY <1>2, <1>3 DEF Types, WireTypes
<1>7. \A c, p : Disabling(c, p)' <=> Disabling(c, p)
  BY <1>3 DEF Disabling, Switching
<1>8. \A c : Told(c)' <=> Told(c)
  BY <1>1, <1>2 DEF Taken, Told, IsReply
<1>9. \A p : NoneSent(p) => NoneSent(p)'
  BY <1>3, <1>6, OfBuffers DEF NoneSent
<1>10. \A c, p : Behind(from_server, c, p) => Behind(from_server', c, p)
  BY <1>1 DEF Taken
<1>11. ASSUME NEW p
       PROVE  \A x \in Of(p) : at[x] \in {"client", "queue"} => at'[x] = at[x]
  BY <1>5, <1>6, OfBuffers
<1>12. ASSUME NEW c \in Controllers, NEW p \in Ports, Disabling(c, p)'
       PROVE  GoneOf(c, p)'
  <2>1. GoneOf(c, p)
    BY <1>7, <1>12 DEF GoneInv
  <2>2. reply[c] = "ok" => \A x \in Of(p) : at'[x] \in {"client", "queue"}
    BY <2>1, <1>11 DEF GoneOf
  <2>3. pc[c] = "wait" => \A x \in Of(p) : at'[x] = "client"
    BY <2>1, <1>11 DEF GoneOf
  <2> QED BY <2>1, <2>2, <2>3, <1>3, <1>8, <1>9, <1>10 DEF GoneOf
<1>13. ASSUME NEW p \in Ports
       PROVE  RestOf(p)'
  BY <1>3, <1>7, <1>11 DEF GoneInv, RestOf
<1> QED BY <1>12, <1>13 DEF GoneInv

\* The reply of a disable: all the buffers have come before it.
LEMMA GoneReplied ==
  ASSUME Types, Places, CallInv, BufferInv, SwitchInv, SwitchInv', GoneInv, ReceiveReply
  PROVE  GoneInv'
<1> DEFINE m == Head(from_server)
<1>1. m \in FromServer /\ Taken(from_server, from_server', m)
  BY ReceiveTakes DEF ReceiveReply, Types
<1>2. ~IsBuffer(m) /\ m.type = "reply" /\ m.c \in Controllers /\ m.status \in {"ok", "fail"}
  BY <1>1, MessageShapes DEF ReceiveReply, IsBuffer
<1>3. /\ reply' = [reply EXCEPT ![m.c] = m.status]
      /\ UNCHANGED <<at, to_server, bulks, server_enabled, op, on, pc>>
  BY DEF ReceiveReply, client, server
<1> HIDE DEF m
<1>4. m \in Msgs(from_server) /\ Msgs(from_server') \subseteq Msgs(from_server)
  BY <1>1 DEF Taken
<1>5. Fits(m) /\ Asks(m, m.c) /\ IsReply(m, m.c)
  BY <1>2, <1>4 DEF CallInv, Asks, IsReply
<1>6. reply'[m.c] = m.status /\ \A d \in Controllers : d # m.c => reply'[d] = reply[d]
  BY <1>2, <1>3 DEF Types, ThreadTypes
<1>7. \A c, p : Disabling(c, p)' <=> Disabling(c, p)
  BY <1>3 DEF Disabling, Switching
<1>8. \A c : Told(c)' => Told(c)
  BY <1>4 DEF Told
<1>9. \A p : NoneSent(p) => NoneSent(p)'
  BY <1>3 DEF NoneSent
<1>10. \A c, p : Behind(from_server, c, p) => Behind(from_server', c, p)
  BY <1>1 DEF Taken
<1>11. ASSUME NEW p \in Ports, Disabling(m.c, p), m.status = "ok", NEW b \in Of(p)
       PROVE  at[b] \in {"client", "queue"}
  <2>1. GoneOf(m.c, p) /\ Told(m.c)
    BY <1>2, <1>4, <1>5, <1>11 DEF GoneInv, Told
  <2>2. NoneSent(p) /\ Behind(from_server, m.c, p)
    BY <2>1 DEF GoneOf
  <2>3. \A x \in Msgs(from_server) : ~OfPort(x, p)
    BY <2>2, <1>1, <1>2, <1>5 DEF Taken, OfPort
  <2>4. ~Holds(from_server, b)
    BY <2>3, OfBuffers DEF Holds, Carries, OfPort
  <2>5. at[b] # "wire" /\ at[b] # "server"
    BY <2>2, <2>4, OfBuffers DEF NoneSent, BufferInv
  <2> QED BY <2>5, OfBuffers, Wheres
<1>12. ASSUME NEW c \in Controllers, NEW p \in Ports, Disabling(c, p)'
       PROVE  GoneOf(c, p)'
  <2>1. GoneOf(c, p) /\ Disabling(c, p)
    BY <1>7, <1>12 DEF GoneInv
  <2>2. reply'[c] = "ok" => \A x \in Of(p) : at[x] \in {"client", "queue"}
    BY <2>1, <1>6, <1>11 DEF GoneOf
  <2> QED BY <2>1, <2>2, <1>3, <1>8, <1>9, <1>10 DEF GoneOf
<1>13. ASSUME NEW p \in Ports
       PROVE  RestOf(p)'
  <2> SUFFICES ASSUME ~is_enabled'[p], \A c \in Controllers : ~Disabling(c, p)
               PROVE  \A b \in Of(p) : at[b] = "client"
    BY <1>3, <1>7 DEF RestOf
  <2>1. ~is_enabled[p]
    <3> SUFFICES ASSUME is_enabled[p]
                 PROVE  FALSE
      OBVIOUS
    <3>1. server_enabled[p] /\ \A c \in Controllers : ~Switching(c, p)
      BY DEF SwitchInv, SwitchOf
    <3>2. server_enabled'[p] /\ \A c \in Controllers : ~Switching(c, p)'
      BY <3>1, <1>3 DEF Switching
    <3> QED BY <3>2 DEF SwitchInv, SwitchOf
  <2> QED BY <2>1 DEF GoneInv, RestOf
<1> QED BY <1>12, <1>13 DEF GoneInv

\* What the server does to the buffers: it moves those on the wire or with it, and neither
\* to the client nor to its queue.
LEMMA ServedBuffers ==
  ASSUME Types, BufferInv, NEW m \in ToServer \cup Held, ServerStep(m)
  PROVE  /\ \A b \in Buffers : at[b] \in {"client", "queue"} => at'[b] = at[b]
         /\ \A b \in Buffers : at'[b] = at[b] \/ at'[b] \in {"wire", "server"}
         /\ \A p : NoneSent(p) => NoneSent(p)'
<1>1. CASE Defer(m)
  <2>1. UNCHANGED at /\ Taken(to_server, to_server', m) /\ Added(bulks, bulks', m)
    BY <1>1 DEF Defer
  <2>2. \A b : Holds(to_server', b) => Holds(to_server, b)
    BY <2>1, HoldsTaken
  <2>3. \A b : Holds(bulks', b) => Holds(bulks, b) \/ Holds(to_server, b)
    BY <2>1, HoldsTaken, HoldsAdded
  <2> QED BY <2>1, <2>2, <2>3 DEF NoneSent
<1>2. ASSUME Handles(m)
      PROVE  \A b : /\ Holds(to_server', b) => Holds(to_server, b)
                    /\ Holds(bulks', b) => Holds(bulks, b)
                    /\ Carries(m, b) => Holds(to_server, b) \/ Holds(bulks, b)
  BY <1>2, HoldsTaken DEF Handles
<1>3. CASE Arrive(m)
  <2>1. IsBuffer(m) /\ Handles(m) /\ at' = [at EXCEPT ![m.b] = "server"]
    BY <1>3 DEF Arrive
  <2>2. m.b \in Buffers /\ Carries(m, m.b)
    BY <2>1, MessageShapes DEF Carries
  <2>3. at[m.b] = "wire" /\ (Holds(to_server, m.b) \/ Holds(bulks, m.b))
    BY <2>1, <2>2, <1>2 DEF BufferInv
  <2>4. \A b \in Buffers : at'[b] = at[b] \/ (b = m.b /\ at'[b] = "server")
    BY <2>1, <2>2 DEF Types, WireTypes
  <2>5. \A p : NoneSent(p) => NoneSent(p)'
    BY <2>1, <2>3, <2>4, <1>2, OfBuffers DEF NoneSent
  <2> QED BY <2>3, <2>4, <2>5
<1>4. ASSUME NEW s \in {"ok", "fail"}, Answer(m, s)
      PROVE  /\ UNCHANGED at
             /\ \A p : NoneSent(p) => NoneSent(p)'
  BY <1>2, <1>4 DEF Answer, NoneSent
<1>5. CASE GiveBack(m)
  <2>1. /\ Handles(m) /\ ~IsBuffer(m)
        /\ at' = [b \in Buffers |-> IF b \in BuffersOf(m.p) THEN "wire" ELSE at[b]]
    BY <1>5 DEF GiveBack, IsBuffer
  <2>2. \A b \in Buffers : at'[b] = at[b] \/ (at[b] = "server" /\ at'[b] = "wire")
    BY <2>1 DEF BuffersOf
  <2>3. \A p : NoneSent(p) => NoneSent(p)'
    BY <2>1, <2>2, <1>2, OfBuffers DEF NoneSent
  <2> QED BY <2>2, <2>3
<1> QED BY <1>1, <1>3, <1>4, <1>5 DEF ServerStep

\* The server replies to one thread, and what it returns is of no port that it has disabled.
LEMMA ServedReplies ==
  ASSUME Types, WireTypes', NEW m \in ToServer \cup Held, ServerStep(m)
  PROVE  /\ \A c \in Controllers : Told(c)' => Told(c)
                \/ (~IsBuffer(m) /\ m.c = c /\ (Answer(m, "ok") \/ GiveBack(m)))
         /\ \A c, p : NoneSent(p) /\ Behind(from_server, c, p) => Behind(from_server', c, p)
<1>1. CASE Defer(m) \/ Arrive(m)
  BY <1>1 DEF Defer, Arrive, Told
<1>2. ASSUME NEW s \in {"ok", "fail"}, Answer(m, s)
      PROVE  /\ \A c \in Controllers : Told(c)' => Told(c)
                \/ (~IsBuffer(m) /\ m.c = c /\ (Answer(m, "ok") \/ GiveBack(m)))
             /\ \A c, p : NoneSent(p) /\ Behind(from_server, c, p) => Behind(from_server', c, p)
  <2> DEFINE r == Rep(m.c, s, server_enabled'[m.p])
  <2>1. ~IsBuffer(m) /\ Added(from_server, from_server', r)
    BY <1>2 DEF Answer, IsBuffer
  <2>2. r.c = m.c /\ r.status = s /\ ~IsBuffer(r)
    BY <2>1, MessageShapes, MessagesMade DEF WireTypes
  <2> HIDE DEF r
  <2>3. \A c, p : Behind(from_server, c, p) => Behind(from_server', c, p)
    BY <2>1, <2>2 DEF Added, OfPort
  <2>4. Msgs(from_server') = Msgs(from_server) \cup {r}
    BY <2>1 DEF Added
  <2>5. \A c \in Controllers : Told(c)' => Told(c) \/ (m.c = c /\ s = "ok")
    BY <2>2, <2>4 DEF Told, IsReply
  <2> QED BY <2>1, <2>3, <2>5, <1>2
<1>3. CASE GiveBack(m)
  <2> DEFINE r == Rep(m.c, "ok", server_enabled'[m.p])
             B == BuffersOf(m.p)
  <2>1. ~IsBuffer(m) /\ Poured(from_server, from_server', B, r)
    BY <1>3 DEF GiveBack, IsBuffer
  <2>2. r.c = m.c /\ ~IsBuffer(r)
    BY <2>1, MessageShapes, MessagesMade DEF WireTypes
  <2>3. \A b \in B : at[b] = "server" /\ b \in Data /\ Buf(b).b = b /\ Buf(b).type = "buffer"
    BY MessagesMade DEF BuffersOf, Buffers
  <2> HIDE DEF r, B
  <2>4. Msgs(from_server') = Msgs(from_server) \cup {Buf(b) : b \in B} \cup {r}
    BY <2>1 DEF Poured
  <2>5. \A c \in Controllers : Told(c)' => Told(c) \/ m.c = c
    BY <2>2, <2>3, <2>4 DEF Told, IsReply
  <2>6. \A p : NoneSent(p) => \A b \in B : ~OfPort(Buf(b), p)
    BY <2>3 DEF NoneSent, OfPort, Of
  <2>7. \A c, p : NoneSent(p) /\ Behind(from_server, c, p) => Behind(from_server', c, p)
    BY <2>1, <2>6 DEF Poured
  <2> QED BY <2>1, <2>5, <2>7, <1>3
<1> QED BY <1>1, <1>2, <1>3 DEF ServerStep

\* The server disables a port when everything that was sent is there, and gives it back.
LEMMA ServerDisables ==
  ASSUME Types, WireTypes', CallInv, BufferInv, NEW m \in ToServer \cup Held, GiveBack(m),
         m.type = "disable", Behind(to_server, m.c, m.p)
  PROVE  NoneSent(m.p)' /\ Behind(from_server', m.c, m.p)
<1>1. ~IsBuffer(m) /\ Asks(m, m.c)
  BY DEF IsBuffer, Asks
<1>2. m.c \in Controllers /\ m.p \in Ports /\ m \notin Held
  BY <1>1, MessageShapes
<1>3. Handles(m) /\ Pending(m.p) = {}
      /\ at' = [b \in Buffers |-> IF b \in BuffersOf(m.p) THEN "wire" ELSE at[b]]
  BY DEF GiveBack
<1>4. Taken(to_server, to_server', m) /\ UNCHANGED bulks
  BY <1>2, <1>3, MsgsTyped DEF Handles, Taken, Types, WireTypes
<1>5. \A x \in Msgs(to_server') : ~OfPort(x, m.p)
  BY <1>1, <1>4 DEF Taken
<1>6. \A b \in Of(m.p) : ~Holds(to_server', b)
  BY <1>5, OfBuffers DEF Holds, Carries, OfPort
<1>7. ASSUME NEW b \in Of(m.p), Holds(bulks, b)
      PROVE  FALSE
  <2>1. bulks \in Seq(Held)
    BY DEF Types, WireTypes
  <2>2. PICK i \in DOMAIN bulks : Carries(bulks[i], b)
    BY <1>7 DEF Holds, Msgs
  <2>3. bulks[i] \in Held /\ i \in 1 .. Len(bulks)
    BY <2>1, <2>2
  <2>4. bulks[i].type = "bulk_buffer" /\ bulks[i].b = b /\ HomeOf(b) = m.p
    BY <2>2, <2>3, MessageShapes, OfBuffers DEF Carries, IsBuffer
  <2>5. b \in Pending(m.p)
    BY <2>3, <2>4 DEF Pending
  <2> QED BY <2>5, <1>3
<1>8. \A b \in Of(m.p) : at'[b] # "server"
  BY <1>3, OfBuffers DEF BuffersOf
<1>9. NoneSent(m.p)'
  BY <1>4, <1>6, <1>7, <1>8 DEF NoneSent
<1>10. ~Asked(from_server, m.c)
  BY <1>1, <1>2, <1>3, CallHandled
<1>11. Behind(from_server, m.c, m.p)
  BY <1>10 DEF Asked, Behind, Msgs
<1>12. Behind(from_server', m.c, m.p)
  BY <1>10, <1>11 DEF GiveBack, Poured
<1> QED BY <1>9, <1>12

\* The server keeps the stages of a disable, and takes it to the next.
LEMMA GoneServed ==
  ASSUME Types, WireTypes', CallInv, BufferInv, GoneInv, NEW m \in ToServer \cup Held,
         ServerStep(m), UNCHANGED <<is_enabled, calls>>
  PROVE  GoneInv'
<1>1. /\ \A b \in Buffers : at[b] \in {"client", "queue"} => at'[b] = at[b]
      /\ \A p : NoneSent(p) => NoneSent(p)'
  BY ServedBuffers
<1>2. UNCHANGED <<is_enabled, op, on, pc, reply>>
  BY DEF calls
<1>3. \A c, p : Disabling(c, p)' <=> Disabling(c, p)
  BY <1>2 DEF Disabling, Switching
<1>4. \A c, p : Behind(to_server, c, p) => Behind(to_server', c, p)
  BY DEF ServerStep, Defer, Arrive, Answer, GiveBack, Handles, Taken
<1>5. ASSUME NEW c \in Controllers, NEW p \in Ports, Disabling(c, p)'
      PROVE  GoneOf(c, p)'
  <2>1. GoneOf(c, p) /\ Disabling(c, p)
    BY <1>3, <1>5 DEF GoneInv
  <2>2. reply'[c] = "ok" => \A b \in Of(p) : at'[b] \in {"client", "queue"}
    BY <2>1, <1>1, <1>2, OfBuffers DEF GoneOf
  <2>3. pc'[c] = "wait" => \A b \in Of(p) : at'[b] = "client"
    BY <2>1, <1>1, <1>2, OfBuffers DEF GoneOf
  <2>4. ASSUME Told(c)'
        PROVE  NoneSent(p)' /\ Behind(from_server', c, p)
    <3>1. CASE Told(c)
      BY <3>1, <2>1, <1>1, ServedReplies DEF GoneOf
    <3>2. CASE ~IsBuffer(m) /\ m.c = c /\ (Answer(m, "ok") \/ GiveBack(m))
      <4>1. Handles(m) /\ m.type \in Requests
        BY <3>2, MessageShapes DEF Answer, GiveBack
      <4>2. Fits(m)
        BY <4>1, CallHandled DEF CallInv
      <4>3. op[c] = "disable" /\ on[c] = p
        BY <2>1 DEF Disabling, Switching
      <4>4. m.type = "disable" /\ m.p = p
        BY <3>2, <4>1, <4>2, <4>3 DEF Fits, Requests, Answer, GiveBack
      <4>5. GiveBack(m)
        BY <3>2, <4>4 DEF Answer
      <4> QED BY <2>1, <3>2, <4>4, <4>5, ServerDisables DEF GoneOf
    <3> QED BY <2>4, <3>1, <3>2, ServedReplies
  <2> QED BY <2>1, <2>2, <2>3, <2>4, <1>4 DEF GoneOf
<1>6. ASSUME NEW p \in Ports
      PROVE  RestOf(p)'
  BY <1>1, <1>2, <1>3, OfBuffers DEF GoneInv, RestOf
<1> QED BY <1>5, <1>6 DEF GoneInv

\* At first nobody disables a port, and the client has all the buffers.
LEMMA GoneInit == Init => GoneInv
<1> SUFFICES ASSUME Init
             PROVE  GoneInv
  OBVIOUS
<1>1. \A c \in Controllers, p \in Ports : ~Disabling(c, p)
  BY DEF Init, Disabling
<1>2. \A p : \A b \in Of(p) : at[b] = "client"
  BY OfBuffers, VcPortAssumption DEF Init
<1> QED BY <1>1, <1>2 DEF GoneInv, RestOf

\* Every step keeps the stages of the disables.
LEMMA GoneNext ==
  ASSUME OneCommits, Types, Places, CallInv, BufferInv, SwitchInv, GoneInv, [Next]_vars
  PROVE  GoneInv'
<1>1. ASSUME NEW c \in Controllers, Call(c) \/ Proceed(c), ~DisableDrain(c)
      PROVE  GoneInv'
  BY <1>1, GoneOfCalls
<1>2. ASSUME NEW c \in Controllers, DisableDrain(c)
      PROVE  GoneInv'
  BY <1>2, GoneDone DEF DisableDrain, server
<1>3. ASSUME NEW b \in Data, NEW k \in Kinds, Send(b, k)
      PROVE  GoneInv'
  BY <1>3, GoneSent
<1>4. ASSUME NEW b \in Buffers, ServerReturns(b)
      PROVE  GoneInv'
  BY <1>4, GoneReturned
<1>5. ASSUME UNCHANGED <<is_enabled, client, bulks, wire, calls>>
      PROVE  GoneInv'
  BY <1>5 DEF GoneInv, GoneOf, RestOf, Disabling, Switching, Told, NoneSent, client, wire, calls
<1>6. ASSUME NEW p \in Ports, Connect(p) \/ SetZeroCopy(p)
      PROVE  GoneInv'
  BY <1>5, <1>6 DEF Connect, SetZeroCopy, core, server
<1>7. CASE ActionThread
  BY <1>7, GoneDone DEF ActionThread, server
<1>8. CASE ReceiveBuffer
  BY <1>8, GoneReceived
<1>9. CASE ReceiveReply
  <2>1. SwitchInv'
    BY SwitchNext
  <2> QED BY <1>9, <2>1, GoneReplied
<1>10. CASE Server
  <2>1. PICK m \in ToServer \cup Held : ServerStep(m)
    BY <1>10, ServerSteps DEF Types
  <2>2. WireTypes' /\ UNCHANGED <<is_enabled, calls>>
    BY <1>10, ServerSteps DEF Types, core
  <2> QED BY <2>1, <2>2, GoneServed
<1>11. CASE UNCHANGED vars
  BY <1>5, <1>11 DEF vars, core, server
<1> QED BY <1>1, <1>2, <1>3, <1>4, <1>6, <1>7, <1>8, <1>9, <1>10, <1>11
        DEF Next, Transport

-----------------------------------------------------------------------------
(* The layer of the counters: buffers in transit, and contexts.            *)

\* The buffers of a port are finitely many, wherever they are.
LEMMA PortFinite ==
  ASSUME NEW p
  PROVE  /\ IsFiniteSet(Away(p)) /\ IsFiniteSet(Carried(p))
         /\ Cardinality(Away(p)) \in Nat /\ Cardinality(Carried(p)) \in Nat
<1>1. Away(p) \subseteq Data /\ Carried(p) \subseteq Data
  BY DEF Away, Carried, Of
<1>2. IsFiniteSet(Away(p)) /\ IsFiniteSet(Carried(p))
  BY <1>1, FS_Subset, VcPortAssumption
<1> QED BY <1>2, FS_CardinalityType

\* A port whose buffers stay, or move between the wire and the server.
LEMMA CountStays ==
  ASSUME Types, NEW p \in Ports, CountOf(p), transit'[p] = transit[p], free'[p] = free[p],
         allocated'[p] => allocated[p],
         \A b \in Of(p) : /\ at[b] \in {"client", "queue"} => at'[b] = at[b]
                          /\ at[b] \notin {"client", "queue"} => at'[b] \in {"wire", "server"}
  PROVE  CountOf(p)'
<1>1. Away(p)' = Away(p)
  BY DEF Away
<1>2. ASSUME NEW b \in Of(p), at[b] \in {"wire", "server"}
      PROVE  at'[b] \in {"wire", "server"}
  BY <1>2
<1>3. ASSUME NEW b \in Of(p), at'[b] \in {"wire", "server"}
      PROVE  at[b] \in {"wire", "server"}
  BY <1>3, OfBuffers DEF Types, WireTypes
<1>4. Carried(p)' = Carried(p)
  BY <1>2, <1>3 DEF Carried
<1> QED BY <1>1, <1>4 DEF CountOf

\* Nothing of the counters changes.
LEMMA CountSame ==
  ASSUME Types, CountInv, UNCHANGED <<transit, free, at>>,
         \A p \in Ports : allocated'[p] => allocated[p]
  PROVE  CountInv'
<1> SUFFICES ASSUME NEW p \in Ports
             PROVE  CountOf(p)'
  BY DEF CountInv
<1>1. \A b \in Of(p) : /\ at[b] \in {"client", "queue"} => at'[b] = at[b]
                       /\ at[b] \notin {"client", "queue"} => at'[b] \in {"wire", "server"}
  BY OfBuffers DEF Types, WireTypes
<1> QED BY <1>1, CountStays DEF CountInv

\* A buffer that is sent is in transit, and has a context from the pool.
LEMMA CountSent ==
  ASSUME Types, CountInv, NEW b \in Data, NEW k, at[b] = "client",
         free[HomeOf(b)] > 0, Sent(HomeOf(b), b, k), UNCHANGED allocated
  PROVE  CountInv'
<1> SUFFICES ASSUME NEW p \in Ports
             PROVE  CountOf(p)'
  BY DEF CountInv
<1>1. /\ at' = [at EXCEPT ![b] = "wire"]
      /\ free' = [free EXCEPT ![HomeOf(b)] = @ - 1]
      /\ transit' = [transit EXCEPT ![HomeOf(b)] = @ + 1]
  BY DEF Sent
<1>2. HomeOf(b) \in Ports /\ b \in Buffers
  BY DEF HomeOf, Ports, Buffers
<1>3. at'[b] = "wire" /\ \A x \in Buffers : x # b => at'[x] = at[x]
  BY <1>1, <1>2 DEF Types, WireTypes
<1>4. free \in [Ports -> Int] /\ transit \in [Ports -> Int]
  BY DEF Types, PortTypes
<1>5. CASE p = HomeOf(b)
  <2>1. b \in Of(p) /\ b \notin Away(p) /\ b \notin Carried(p)
    BY <1>5 DEF Of, Away, Carried
  <2>2. Away(p)' = Away(p) \cup {b} /\ Carried(p)' = Carried(p) \cup {b}
    BY <2>1, <1>3, OfBuffers DEF Away, Carried
  <2>3. /\ Cardinality(Away(p)') = Cardinality(Away(p)) + 1
        /\ Cardinality(Carried(p)') = Cardinality(Carried(p)) + 1
    BY <2>1, <2>2, PortFinite, FS_AddElement
  <2>4. transit'[p] = transit[p] + 1 /\ free'[p] = free[p] - 1
    BY <1>1, <1>2, <1>4, <1>5
  <2>5. Cardinality(Away(p)) \in Nat /\ Cardinality(Carried(p)) \in Nat /\ Contexts \in Nat
    BY PortFinite, VcPortAssumption
  <2>6. CountOf(p) /\ allocated'[p] = allocated[p] /\ free[p] > 0
    BY <1>5 DEF CountInv
  <2> QED BY <2>3, <2>4, <2>5, <2>6 DEF CountOf
<1>6. CASE p # HomeOf(b)
  <2>1. b \notin Of(p)
    BY <1>6 DEF Of
  <2>2. \A x \in Of(p) : at'[x] = at[x] /\ at[x] \in {"client", "wire", "server", "queue"}
    BY <2>1, <1>3, OfBuffers DEF Types, WireTypes
  <2>3. transit'[p] = transit[p] /\ free'[p] = free[p]
    BY <1>1, <1>2, <1>4, <1>6
  <2>4. \A x \in Of(p) : /\ at[x] \in {"client", "queue"} => at'[x] = at[x]
                         /\ at[x] \notin {"client", "queue"} => at'[x] \in {"wire", "server"}
    BY <2>2
  <2> QED BY <2>3, <2>4, CountStays DEF CountInv
<1> QED BY <1>5, <1>6

\* A callback takes its buffer out of transit.
LEMMA CountDone ==
  ASSUME Types, BufferInv, CountInv, callback_queue # <<>>, DoCallback, UNCHANGED module
  PROVE  CountInv'
<1> SUFFICES ASSUME NEW p \in Ports
             PROVE  CountOf(p)'
  BY DEF CountInv
<1> DEFINE b == Head(callback_queue)
<1>1. b \in Buffers /\ at[b] = "queue"
  BY CallbackTakes DEF Types, BufferInv
<1>2. /\ at' = [at EXCEPT ![b] = IF b \in Events THEN "server" ELSE "client"]
      /\ transit' = IF b \in Events THEN transit ELSE [transit EXCEPT ![HomeOf(b)] = @ - 1]
      /\ UNCHANGED <<free, allocated>>
  BY DEF DoCallback, module
<1> HIDE DEF b
<1>3. \A x \in Buffers : x # b => at'[x] = at[x]
  BY <1>2 DEF Types, WireTypes
<1>4. transit \in [Ports -> Int]
  BY DEF Types, PortTypes
<1>5. CASE b \in Events \/ p # HomeOf(b)
  <2>1. b \notin Of(p) /\ transit'[p] = transit[p]
    BY <1>2, <1>4, <1>5, VcPortAssumption DEF Of
  <2>2. \A x \in Of(p) : at'[x] = at[x] /\ at[x] \in {"client", "wire", "server", "queue"}
    BY <2>1, <1>3, OfBuffers DEF Types, WireTypes
  <2>3. \A x \in Of(p) : /\ at[x] \in {"client", "queue"} => at'[x] = at[x]
                         /\ at[x] \notin {"client", "queue"} => at'[x] \in {"wire", "server"}
    BY <2>2
  <2> QED BY <2>1, <2>3, <1>2, CountStays DEF CountInv
<1>6. CASE b \notin Events /\ p = HomeOf(b)
  <2>1. b \in Of(p) /\ at'[b] = "client"
    BY <1>1, <1>2, <1>6 DEF Of, Buffers, Types, WireTypes
  <2>2. Away(p)' = Away(p) \ {b} /\ b \in Away(p) /\ Carried(p)' = Carried(p)
    BY <2>1, <1>1, <1>3, OfBuffers DEF Away, Carried
  <2>3. Cardinality(Away(p)') = Cardinality(Away(p)) - 1
    BY <2>2, PortFinite, FS_RemoveElement
  <2>4. transit'[p] = transit[p] - 1
    BY <1>2, <1>4, <1>6
  <2> QED BY <2>2, <2>3, <2>4, <1>2 DEF CountInv, CountOf
<1> QED BY <1>5, <1>6

\* A buffer that comes back gives its context back.
LEMMA CountReceived ==
  ASSUME Types, BufferInv, CountInv, ReceiveBuffer
  PROVE  CountInv'
<1> SUFFICES ASSUME NEW p \in Ports
             PROVE  CountOf(p)'
  BY DEF CountInv
<1> DEFINE m == Head(from_server)
           b == m.b
<1>1. m \in FromServer /\ Taken(from_server, from_server', m)
  BY ReceiveTakes DEF ReceiveBuffer, Types
<1>2. IsBuffer(m) /\ b \in Buffers /\ Carries(m, b)
  BY <1>1, MessageShapes DEF ReceiveBuffer, IsBuffer, Carries
<1>3. /\ at' = [at EXCEPT ![b] = "queue"]
      /\ free' = IF b \in Events \/ ~allocated[HomeOf(b)] THEN free
                 ELSE [free EXCEPT ![HomeOf(b)] = @ + 1]
      /\ UNCHANGED <<transit, allocated>>
  BY DEF ReceiveBuffer, core
<1> HIDE DEF m, b
<1>4. at[b] = "wire"
  BY <1>1, <1>2, HoldsTaken DEF BufferInv
<1>5. at'[b] = "queue" /\ \A x \in Buffers : x # b => at'[x] = at[x]
  BY <1>2, <1>3 DEF Types, WireTypes
<1>6. free \in [Ports -> Int]
  BY DEF Types, PortTypes
<1>7. CASE b \in Events \/ p # HomeOf(b)
  <2>1. b \notin Of(p) /\ free'[p] = free[p]
    BY <1>3, <1>6, <1>7, VcPortAssumption DEF Of
  <2>2. \A x \in Of(p) : at'[x] = at[x] /\ at[x] \in {"client", "wire", "server", "queue"}
    BY <2>1, <1>5, OfBuffers DEF Types, WireTypes
  <2>3. \A x \in Of(p) : /\ at[x] \in {"client", "queue"} => at'[x] = at[x]
                         /\ at[x] \notin {"client", "queue"} => at'[x] \in {"wire", "server"}
    BY <2>2
  <2> QED BY <2>1, <2>3, <1>3, CountStays DEF CountInv
<1>8. CASE b \notin Events /\ p = HomeOf(b)
  <2>1. b \in Of(p)
    BY <1>2, <1>8 DEF Of, Buffers
  <2>2. Away(p)' = Away(p) /\ Carried(p)' = Carried(p) \ {b} /\ b \in Carried(p)
    BY <2>1, <1>4, <1>5, OfBuffers DEF Away, Carried
  <2>3. Cardinality(Carried(p)') = Cardinality(Carried(p)) - 1
    BY <2>2, PortFinite, FS_RemoveElement
  <2>4. Cardinality(Carried(p)) \in Nat /\ Cardinality(Carried(p)') \in Nat /\ Contexts \in Nat
    <3>1. IsFiniteSet(Carried(p)')
      BY <2>2, PortFinite, FS_RemoveElement
    <3> QED BY <3>1, PortFinite, FS_CardinalityType, VcPortAssumption
  <2>5. CountOf(p) /\ allocated'[p] = allocated[p] /\ transit'[p] = transit[p]
    BY <1>3 DEF CountInv
  <2>6. CASE allocated[p]
    <3>1. free'[p] = free[p] + 1
      BY <2>6, <1>3, <1>6, <1>8
    <3>2. transit'[p] = Cardinality(Away(p)')
      BY <2>2, <2>5 DEF CountOf
    <3>3. free'[p] \in 0 .. Contexts /\ free'[p] + Cardinality(Carried(p)') = Contexts
      BY <3>1, <2>3, <2>4, <2>5, <2>6 DEF CountOf
    <3> QED BY <3>2, <3>3 DEF CountOf
  <2>7. CASE ~allocated[p]
    <3>1. free'[p] = free[p]
      BY <2>7, <1>3, <1>8
    <3> QED BY <3>1, <2>2, <2>5, <2>7 DEF CountOf
  <2> QED BY <2>6, <2>7
<1> QED BY <1>7, <1>8

\* A pool is created when the client has all the buffers of the port.
LEMMA CountEnabled ==
  ASSUME Types, Places, GoneInv, CountInv, NEW c \in Controllers, EnableStart(c)
  PROVE  CountInv'
<1>1. PICK q \in Ports : q = on[c]
  BY DEF Types, ThreadTypes
<1>2. /\ port_lock[q] = NoThread /\ ~is_enabled[q] /\ UNCHANGED <<transit, at>>
      /\ \/ UNCHANGED <<allocated, free>>
         \/ /\ allocated' = [allocated EXCEPT ![q] = TRUE]
            /\ free' = [free EXCEPT ![q] = Contexts]
  BY <1>1 DEF EnableStart, core, client
<1>3. \A d \in Controllers : ~Disabling(d, q)
  BY <1>2, NoSwitch DEF Disabling
<1>4. \A b \in Of(q) : at[b] = "client"
  BY <1>2, <1>3 DEF GoneInv, RestOf
<1>5. Carried(q) = {}
  BY <1>4 DEF Carried
<1>6. Cardinality(Carried(q)) = 0 /\ Contexts \in Nat
  BY <1>5, FS_EmptySet, VcPortAssumption
<1>7. /\ allocated \in [Ports -> BOOLEAN] /\ free \in [Ports -> Int]
      /\ \A p : Away(p)' = Away(p) /\ Carried(p)' = Carried(p)
  BY <1>2 DEF Types, PortTypes, Away, Carried
<1>8. CASE UNCHANGED <<allocated, free>>
  BY <1>2, <1>8, CountSame
<1>9. CASE /\ allocated' = [allocated EXCEPT ![q] = TRUE]
           /\ free' = [free EXCEPT ![q] = Contexts]
  <2> SUFFICES ASSUME NEW p \in Ports
               PROVE  CountOf(p)'
    BY DEF CountInv
  <2>1. CountOf(p)
    BY DEF CountInv
  <2>2. p # q => free'[p] = free[p] /\ allocated'[p] = allocated[p]
    BY <1>7, <1>9
  <2>3. p = q => free'[p] = Contexts
    BY <1>7, <1>9
  <2>4. CASE p = q
    BY <2>1, <2>3, <2>4, <1>2, <1>6, <1>7 DEF CountOf
  <2>5. CASE p # q
    BY <2>1, <2>2, <2>5, <1>2, <1>7 DEF CountOf
  <2> QED BY <2>4, <2>5
<1> QED BY <1>2, <1>8, <1>9

\* At first nothing is in transit, and there are no pools.
LEMMA CountInit == Init => CountInv
<1> SUFFICES ASSUME Init, NEW p \in Ports
             PROVE  CountOf(p)
  BY DEF CountInv
<1>1. \A b \in Of(p) : at[b] = "client"
  BY OfBuffers, VcPortAssumption DEF Init
<1>2. Away(p) = {}
  BY <1>1 DEF Away
<1>3. Cardinality(Away(p)) = 0
  BY <1>2, FS_EmptySet
<1>4. transit[p] = 0 /\ free[p] = 0 /\ ~allocated[p]
  BY DEF Init
<1> QED BY <1>3, <1>4, VcPortAssumption DEF CountOf

\* Every step keeps the counters.
LEMMA CountNext ==
  ASSUME Types, Places, CallInv, BufferInv, GoneInv, CountInv, [Next]_vars
  PROVE  CountInv'
<1>1. ASSUME NEW c \in Controllers, Call(c) \/ Proceed(c), ~DisableDrain(c), ~EnableStart(c)
      PROVE  CountInv'
  <2>1. UNCHANGED at
    BY <1>1, ThreadSteps DEF client
  <2>2. UNCHANGED <<transit, free>>
    BY <1>1 DEF Call, Proceed, EnableRefused, EnableReply, DisableStart, DisableRefused,
                DisableReply, DisableDrained, DisableWait, FlushStart, FlushReply, FormatStart,
                FormatNext, core, module
  <2>3. CASE EnableReply(c)
    <3>1. allocated \in [Ports -> BOOLEAN] /\ on[c] \in Ports
      BY DEF Types, PortTypes, ThreadTypes
    <3>2. UNCHANGED allocated \/ allocated' = [allocated EXCEPT ![on[c]] = FALSE]
      BY <2>3 DEF EnableReply
    <3>3. \A p \in Ports : allocated'[p] => allocated[p]
      BY <3>1, <3>2
    <3> QED BY <2>1, <2>2, <3>3, CountSame
  <2>4. CASE DisableReply(c)
    <3>1. allocated \in [Ports -> BOOLEAN] /\ on[c] \in Ports
      BY DEF Types, PortTypes, ThreadTypes
    <3>2. UNCHANGED allocated \/ allocated' = [allocated EXCEPT ![on[c]] = FALSE]
      BY <2>4 DEF DisableReply
    <3>3. \A p \in Ports : allocated'[p] => allocated[p]
      BY <3>1, <3>2
    <3> QED BY <2>1, <2>2, <3>3, CountSame
  <2>5. CASE ~EnableReply(c) /\ ~DisableReply(c)
    <3>1. UNCHANGED allocated
      BY <1>1, <2>5 DEF Call, Proceed, EnableRefused, DisableStart, DisableRefused,
                DisableDrained, DisableWait, FlushStart, FlushReply, FormatStart,
                FormatNext, module
    <3> QED BY <2>1, <2>2, <3>1, CountSame
  <2> QED BY <2>3, <2>4, <2>5
<1>2. ASSUME NEW c \in Controllers, DisableDrain(c)
      PROVE  CountInv'
  BY <1>2, CountDone DEF DisableDrain
<1>3. ASSUME NEW b \in Data, NEW k \in Kinds, Send(b, k)
      PROVE  CountInv'
  <2>1. at[b] = "client" /\ free[HomeOf(b)] > 0 /\ UNCHANGED allocated
    BY <1>3 DEF Send
  <2>2. CASE Sent(HomeOf(b), b, k)
    BY <2>1, <2>2, CountSent
  <2>3. CASE SendFailed(HomeOf(b))
    BY <2>1, <2>3, CountSame DEF SendFailed
  <2> QED BY <1>3, <2>2, <2>3 DEF Send
<1>4. ASSUME NEW b \in Buffers, ServerReturns(b)
      PROVE  CountInv'
  <2>1. /\ at[b] = "server" /\ at' = [at EXCEPT ![b] = "wire"]
        /\ UNCHANGED <<transit, free, allocated>>
    BY <1>4 DEF ServerReturns, core, module
  <2>2. \A p : \A x \in Of(p) :
          /\ at[x] \in {"client", "queue"} => at'[x] = at[x]
          /\ at[x] \notin {"client", "queue"} => at'[x] \in {"wire", "server"}
    BY <2>1, OfBuffers DEF Types, WireTypes
  <2> QED BY <2>1, <2>2, CountStays DEF CountInv
<1>5. ASSUME NEW c \in Controllers, EnableStart(c)
      PROVE  CountInv'
  BY <1>5, CountEnabled
<1>6. ASSUME NEW p \in Ports, Connect(p) \/ SetZeroCopy(p)
      PROVE  CountInv'
  BY <1>6, CountSame DEF Connect, SetZeroCopy, core, client
<1>7. CASE ActionThread
  BY <1>7, CountDone DEF ActionThread
<1>8. CASE ReceiveBuffer
  BY <1>8, CountReceived
<1>9. CASE ReceiveReply
  BY <1>9, CountSame DEF ReceiveReply, client, module
<1>10. CASE Server
  <2>1. PICK m \in ToServer \cup Held : ServerStep(m)
    BY <1>10, ServerSteps DEF Types
  <2>2. UNCHANGED <<transit, free, allocated>>
    BY <1>10, ServerSteps DEF Types, core, module
  <2>3. /\ \A b \in Buffers : at[b] \in {"client", "queue"} => at'[b] = at[b]
        /\ \A b \in Buffers : at'[b] = at[b] \/ at'[b] \in {"wire", "server"}
    BY <2>1, ServedBuffers
  <2>4. \A p : \A x \in Of(p) :
          /\ at[x] \in {"client", "queue"} => at'[x] = at[x]
          /\ at[x] \notin {"client", "queue"} => at'[x] \in {"wire", "server"}
    BY <2>3, OfBuffers DEF Types, WireTypes
  <2> QED BY <2>2, <2>4, CountStays DEF CountInv
<1>11. CASE UNCHANGED vars
  BY <1>11, CountSame DEF vars, core, module, client
<1> QED BY <1>1, <1>2, <1>3, <1>4, <1>5, <1>6, <1>7, <1>8, <1>9, <1>10, <1>11
        DEF Next, Transport

-----------------------------------------------------------------------------
(* The layer of the flushes: no data is behind one that would overtake it. *)

\* No more data on its way, and no new flush: then nothing is overtaken.
LEMMA FlushStays ==
  ASSUME FlushInv, UNCHANGED <<is_zero_copy, overtaken>>,
         \A b : Bulky(to_server', b) \/ Bulky(bulks', b) => Bulky(to_server, b) \/ Bulky(bulks, b),
         \A p \in Ports : sent_data_on_port[p] => sent_data_on_port'[p],
         flush_compatible' # "no" => flush_compatible # "no",
         \A m \in Msgs(to_server') : m.type = "flush" => m \in Msgs(to_server)
  PROVE  FlushInv'
BY DEF FlushInv

\* Data on its way is on the wire.
LEMMA BulkyOnWire ==
  ASSUME BufferInv, NEW b \in Buffers, Bulky(to_server, b) \/ Bulky(bulks, b)
  PROVE  at[b] = "wire"
<1>1. Holds(to_server, b) \/ Holds(bulks, b)
  BY DEF Bulky, Holds, IsBulkOf, Carries, IsBuffer
<1> QED BY <1>1 DEF BufferInv

\* While a flush is on its way nothing is sent on its port.
LEMMA FlushHoldsSends ==
  ASSUME Types, Places, CallInv, NEW m \in Msgs(to_server), m.type = "flush"
  PROVE  m.p \in Ports /\ send_lock[m.p] # NoThread
<1>1. m \in ToServer /\ ~IsBuffer(m)
  BY MsgsTyped DEF Types, WireTypes, IsBuffer
<1>2. m.c \in Controllers /\ m.p \in Ports
  BY <1>1, MessageShapes
<1>3. Flushing(m.c, m.p)
  BY <1>1 DEF CallInv, Fits, Flushing
<1> QED BY <1>2, <1>3, VcPortAssumption DEF Places, LocksOf

\* Data is sent when no flush of its port is on its way, and the port remembers it.
LEMMA FlushSent ==
  ASSUME Types, Places, CallInv, FlushInv, NEW b \in Data, NEW k \in Kinds, Send(b, k)
  PROVE  FlushInv'
<1>1. /\ HomeOf(b) \in Ports /\ send_lock[HomeOf(b)] = NoThread /\ NoteBulk(HomeOf(b), k)
      /\ UNCHANGED <<is_zero_copy, overtaken, bulks, flush_compatible>>
  BY DEF Send, server, HomeOf, Ports
<1>2. /\ \A p \in Ports : sent_data_on_port[p] => sent_data_on_port'[p]
      /\ IsBulk(HomeOf(b), k) => sent_data_on_port'[HomeOf(b)] /\ ~is_zero_copy[HomeOf(b)]
  BY <1>1 DEF NoteBulk, IsBulk, Types, PortTypes
<1>3. CASE Sent(HomeOf(b), b, k)
  <2>1. PICK t \in {"buffer", "bulk_buffer"} :
          /\ t = "bulk_buffer" <=> IsBulk(HomeOf(b), k)
          /\ Added(to_server, to_server', [type |-> t, b |-> b])
    BY <1>1, <1>3, SentAdds DEF Types
  <2> DEFINE x == [type |-> t, b |-> b]
  <2>2. x.type = t /\ \A y : IsBulkOf(x, y) => y = b /\ t = "bulk_buffer"
    BY DEF IsBulkOf
  <2>3. Msgs(to_server') = Msgs(to_server) \cup {x}
    BY <2>1 DEF Added
  <2> HIDE DEF x
  <2>4. \A y : Bulky(to_server', y) => Bulky(to_server, y) \/ (y = b /\ t = "bulk_buffer")
    BY <2>2, <2>3 DEF Bulky
  <2>5. ASSUME NEW p \in Ports, NEW y \in Of(p), Bulky(to_server', y) \/ Bulky(bulks', y)
        PROVE  sent_data_on_port'[p] /\ ~is_zero_copy'[p]
    <3>1. CASE y = b /\ t = "bulk_buffer"
      <4>1. p = HomeOf(b)
        BY <3>1, OfBuffers
      <4> QED BY <4>1, <3>1, <2>1, <1>1, <1>2
    <3>2. CASE Bulky(to_server, y) \/ Bulky(bulks, y)
      BY <3>2, <1>1, <1>2 DEF FlushInv
    <3> QED BY <2>4, <2>5, <3>1, <3>2, <1>1
  <2>6. ASSUME flush_compatible' # "no", NEW m \in Msgs(to_server'), m.type = "flush",
               NEW y \in Of(m.p)
        PROVE  ~Bulky(to_server', y) /\ ~Bulky(bulks', y)
    <3>1. m \in Msgs(to_server)
      BY <2>2, <2>3, <2>6
    <3>2. m.p # HomeOf(b)
      BY <3>1, <2>6, <1>1, FlushHoldsSends
    <3>3. y # b
      BY <3>2, OfBuffers
    <3>4. ~Bulky(to_server, y) /\ ~Bulky(bulks, y)
      BY <3>1, <2>6, <1>1 DEF FlushInv
    <3> QED BY <3>3, <3>4, <2>4, <1>1
  <2>7. flush_compatible' # "no" => overtaken' = {}
    BY <1>1 DEF FlushInv
  <2> QED BY <2>5, <2>6, <2>7 DEF FlushInv
<1>4. CASE SendFailed(HomeOf(b))
  BY <1>1, <1>2, <1>4, FlushStays DEF SendFailed
<1> QED BY <1>3, <1>4 DEF Send

\* A thread that flushes chooses a request that does not overtake data.
LEMMA FlushOfCalls ==
  ASSUME Types, Places, CallInv, FlushInv,
         NEW c \in Controllers, Call(c) \/ Proceed(c), ~DisableDrain(c)
  PROVE  FlushInv'
<1>1. UNCHANGED <<bulks, overtaken>>
  BY ThreadSteps DEF server
<1>2. /\ UNCHANGED <<is_zero_copy, sent_data_on_port>>
      /\ flush_compatible' # "no" => flush_compatible # "no"
  <2>1. CASE FlushStart(c)
    BY <2>1 DEF FlushStart, AskVersion, module
  <2>2. CASE ~FlushStart(c)
    BY <2>2 DEF Call, Proceed, EnableStart, EnableRefused, EnableReply, DisableStart,
           DisableRefused, DisableReply, DisableDrain, DisableDrained, DisableWait, FlushReply,
           FormatStart, FormatNext, module
  <2> QED BY <2>1, <2>2
<1>3. CASE UNCHANGED to_server
  BY <1>1, <1>2, <1>3, FlushStays
<1>4. CASE ~UNCHANGED to_server
  <2>1. PICK t \in Requests, p \in Ports :
          /\ Added(to_server, to_server', Req(t, c, p))
          /\ t = "flush" => FlushStart(c) /\ Request(c, FlushRequest(p), p, "reply")
    BY <1>4, ThreadSteps
  <2>2. /\ Req(t, c, p).type = t /\ Req(t, c, p).p = p
        /\ \A b : ~IsBulkOf(Req(t, c, p), b)
    BY MessagesMade DEF IsBulkOf, IsBuffer
  <2>3. \A b : Bulky(to_server', b) <=> Bulky(to_server, b)
    BY <2>1, <2>2, HoldsAdded
  <2>4. \A m \in Msgs(to_server') : m \in Msgs(to_server) \/ (m.type = t /\ m.p = p)
    BY <2>1, <2>2 DEF Added
  <2>5. CASE t # "flush"
    BY <2>3, <2>4, <2>5, <1>1, <1>2, FlushStays
  <2>6. CASE t = "flush"
    <3>1. FlushRequest(p) = "flush"
      <4>1. to_server \in Seq(ToServer) /\ p \in Ports /\ FlushRequest(p) \in Requests
        BY DEF Types, WireTypes, FlushRequest, Requests
      <4>2. to_server' = Append(to_server, Req(FlushRequest(p), c, p))
        BY <2>1, <2>6 DEF Request, Req
      <4>3. Msgs(to_server') = Msgs(to_server) \cup {Req(FlushRequest(p), c, p)}
        BY <4>1, <4>2, MessagesMade, AppendAdds DEF Added
      <4>4. Req("flush", c, p) \in Msgs(to_server')
        BY <2>1, <2>6 DEF Added
      <4>5. Req("flush", c, p) \notin Msgs(to_server)
        <5>1. NotAsked(c)
          BY ThreadSteps
        <5>2. Asks(Req("flush", c, p), c)
          BY <2>6, MessagesMade DEF Asks
        <5> QED BY <5>1, <5>2 DEF NotAsked, Asked
      <4>6. Req("flush", c, p) = Req(FlushRequest(p), c, p)
        BY <4>3, <4>4, <4>5
      <4>7. Req("flush", c, p).type = "flush"
            /\ Req(FlushRequest(p), c, p).type = FlushRequest(p)
        BY DEF Req
      <4> QED BY <4>6, <4>7
    <3>2. flush_compatible' # "no" => is_zero_copy[p] \/ ~sent_data_on_port[p]
      BY <3>1 DEF FlushRequest
    <3>3. flush_compatible' # "no" => \A b \in Of(p) : ~Bulky(to_server, b) /\ ~Bulky(bulks, b)
      BY <3>2 DEF FlushInv
    <3>4. ASSUME flush_compatible' # "no", NEW m \in Msgs(to_server'), m.type = "flush",
                 NEW b \in Of(m.p)
          PROVE  ~Bulky(to_server', b) /\ ~Bulky(bulks', b)
      <4>1. CASE m \in Msgs(to_server)
        BY <4>1, <3>4, <2>3, <1>1, <1>2 DEF FlushInv
      <4>2. CASE m.p = p
        BY <4>2, <3>3, <3>4, <2>3, <1>1
      <4> QED BY <2>4, <4>1, <4>2
    <3>5. /\ \A q \in Ports : \A b \in Of(q) : Bulky(to_server', b) \/ Bulky(bulks', b) =>
               sent_data_on_port'[q] /\ ~is_zero_copy'[q]
          /\ flush_compatible' # "no" => overtaken' = {}
      BY <2>3, <1>1, <1>2 DEF FlushInv
    <3> QED BY <3>4, <3>5 DEF FlushInv
  <2> QED BY <2>5, <2>6
<1> QED BY <1>3, <1>4

\* The server finds no data behind a flush.
LEMMA FlushServed ==
  ASSUME Types, FlushInv, NEW m \in ToServer \cup Held, ServerStep(m),
         UNCHANGED <<module, flush_compatible>>
  PROVE  FlushInv'
<1>1. UNCHANGED <<is_zero_copy, sent_data_on_port>>
  BY DEF module
<1>2. \A b : Bulky(to_server', b) \/ Bulky(bulks', b) => Bulky(to_server, b) \/ Bulky(bulks, b)
  <2>1. CASE Defer(m)
    BY <2>1, HoldsTaken, HoldsAdded DEF Defer
  <2>2. CASE Handles(m)
    BY <2>2, HoldsTaken DEF Handles
  <2> QED BY <2>1, <2>2 DEF ServerStep, Arrive, Answer, GiveBack
<1>3. Msgs(to_server') \subseteq Msgs(to_server)
  BY DEF ServerStep, Defer, Arrive, Answer, GiveBack, Handles, Taken
<1>4. flush_compatible # "no" => overtaken' = overtaken
  <2>1. CASE GiveBack(m) /\ m.type = "flush"
    <3>1. Handles(m) /\ overtaken' = overtaken \cup Pending(m.p) /\ m \notin Held
      BY <2>1, MessageShapes DEF GiveBack
    <3>2. m \in Msgs(to_server)
      BY <3>1, MsgsTyped DEF Handles, Taken, Types, WireTypes
    <3>3. ASSUME flush_compatible # "no", NEW b \in Pending(m.p)
          PROVE  FALSE
      <4>1. bulks \in Seq(Held)
        BY DEF Types, WireTypes
      <4>2. PICK i \in 1 .. Len(bulks) : /\ bulks[i].type = "bulk_buffer" /\ bulks[i].b = b
                                         /\ HomeOf(bulks[i].b) = m.p
        BY <3>3 DEF Pending
      <4>3. bulks[i] \in Held /\ bulks[i] \in Msgs(bulks)
        BY <4>1, <4>2 DEF Msgs
      <4>4. b \in Of(m.p)
        BY <4>2, <4>3, MessageShapes DEF Of, IsBuffer
      <4>5. Bulky(bulks, b)
        BY <4>2, <4>3 DEF Bulky, IsBulkOf
      <4> QED BY <4>4, <4>5, <3>2, <3>3, <2>1 DEF FlushInv
    <3> QED BY <3>1, <3>3
  <2>2. CASE ~(GiveBack(m) /\ m.type = "flush")
    BY <2>2 DEF ServerStep, Defer, Arrive, Answer, GiveBack
  <2> QED BY <2>1, <2>2
<1> QED BY <1>1, <1>2, <1>3, <1>4 DEF FlushInv

\* At first nothing is on its way.
LEMMA FlushInit == Init => FlushInv
<1>1. Msgs(<<>>) = {}
  BY DEF Msgs
<1> QED BY <1>1 DEF Init, FlushInv, Bulky

\* Every step keeps data ahead of the flushes.
LEMMA FlushNext ==
  ASSUME Types, Places, CallInv, BufferInv, GoneInv, FlushInv, [Next]_vars
  PROVE  FlushInv'
<1>1. ASSUME NEW c \in Controllers, Call(c) \/ Proceed(c), ~DisableDrain(c)
      PROVE  FlushInv'
  BY <1>1, FlushOfCalls
<1>2. ASSUME UNCHANGED <<module, flush_compatible, server, to_server>>
      PROVE  FlushInv'
  BY <1>2, FlushStays DEF module, server
<1>3. ASSUME NEW c \in Controllers, DisableDrain(c)
      PROVE  FlushInv'
  BY <1>2, <1>3 DEF DisableDrain, wire
<1>4. ASSUME NEW b \in Data, NEW k \in Kinds, Send(b, k)
      PROVE  FlushInv'
  BY <1>4, FlushSent
<1>5. ASSUME NEW b \in Buffers, ServerReturns(b)
      PROVE  FlushInv'
  BY <1>2, <1>5 DEF ServerReturns
<1>6. ASSUME NEW p \in Ports, Connect(p)
      PROVE  FlushInv'
  <2>1. UNCHANGED <<is_zero_copy, sent_data_on_port, overtaken, bulks, to_server, flush_compatible>>
    BY <1>6 DEF Connect, server, wire
  <2> QED BY <2>1, FlushStays
<1>7. ASSUME NEW p \in Ports, SetZeroCopy(p)
      PROVE  FlushInv'
  <2>1. /\ ~is_enabled[p] /\ port_lock[p] = NoThread
        /\ is_zero_copy' = [is_zero_copy EXCEPT ![p] = ~@]
        /\ UNCHANGED <<sent_data_on_port, overtaken, bulks, to_server, flush_compatible>>
    BY <1>7 DEF SetZeroCopy, Quiet, server, wire
  <2>2. \A c \in Controllers : ~Disabling(c, p)
    BY <2>1, NoSwitch DEF Disabling
  <2>3. \A b \in Of(p) : at[b] = "client"
    BY <2>1, <2>2 DEF GoneInv, RestOf
  <2>4. \A b \in Of(p) : ~Bulky(to_server, b) /\ ~Bulky(bulks, b)
    BY <2>3, OfBuffers, BulkyOnWire
  <2>5. \A q \in Ports : q # p => is_zero_copy'[q] = is_zero_copy[q]
    BY <2>1 DEF Types, PortTypes
  <2>6. \A q \in Ports : \A b \in Of(q) : Bulky(to_server, b) \/ Bulky(bulks, b) =>
          sent_data_on_port[q] /\ ~is_zero_copy'[q]
    BY <2>4, <2>5 DEF FlushInv
  <2> QED BY <2>1, <2>6 DEF FlushInv
<1>8. CASE ActionThread
  BY <1>2, <1>8 DEF ActionThread, wire
<1>9. CASE ReceiveBuffer
  <2>1. UNCHANGED <<is_zero_copy, sent_data_on_port, overtaken, bulks, to_server, flush_compatible>>
    BY <1>9 DEF ReceiveBuffer, server
  <2> QED BY <2>1, FlushStays
<1>10. CASE ReceiveReply
  BY <1>2, <1>10 DEF ReceiveReply
<1>11. CASE Server
  <2>1. PICK m \in ToServer \cup Held : ServerStep(m)
    BY <1>11, ServerSteps DEF Types
  <2>2. UNCHANGED <<module, flush_compatible>>
    BY <1>11, ServerSteps DEF Types
  <2> QED BY <2>1, <2>2, FlushServed
<1>12. CASE UNCHANGED vars
  BY <1>2, <1>12 DEF vars, wire
<1> QED BY <1>1, <1>3, <1>4, <1>5, <1>6, <1>7, <1>8, <1>9, <1>10, <1>11, <1>12
        DEF Next, Transport

-----------------------------------------------------------------------------
(* The theorems.                                                           *)

\* The inductive invariant.
VcPortIInv ==
  Types /\ Places /\ CallInv /\ BufferInv /\ SwitchInv /\ GoneInv /\ CountInv /\ FlushInv

\* It holds at first.
LEMMA IInvInit == Init => VcPortIInv
BY TypesInit, PlacesInit, CallInit, BufferInit, SwitchInit, GoneInit, CountInit, FlushInit
   DEF VcPortIInv

\* Every step of such clients keeps it.
LEMMA IInvNext ==
  ASSUME OneCommits, VcPortIInv, [Next]_vars
  PROVE  VcPortIInv'
BY TypesNext, PlacesNext, CallNext, BufferNext, SwitchNext, GoneNext, CountNext, FlushNext
   DEF VcPortIInv

\* It holds of every state of such clients.
LEMMA IInvCorrect == OneCommits /\ Spec => []VcPortIInv
<1>1. Init => VcPortIInv
  BY IInvInit
<1>2. OneCommits /\ VcPortIInv /\ [Next]_vars => VcPortIInv'
  BY IInvNext
<1>3. CASE OneCommits
  <2>1. VcPortIInv /\ [Next]_vars => VcPortIInv'
    BY <1>2, <1>3
  <2> QED BY <1>1, <2>1, PTL DEF Spec
<1>4. CASE ~OneCommits
  BY <1>4
<1> QED BY <1>3, <1>4

\* A thread that is told that its port is disabled finds all the contexts in the pool.
LEMMA IInvReturnsContexts == VcPortIInv => ContextsBack
<1> SUFFICES ASSUME VcPortIInv, NEW c \in Controllers, Replied(c, "reply"), op[c] = "disable",
                    reply[c] = "ok", allocated[on[c]]
             PROVE  free[on[c]] = Contexts
  BY DEF ContextsBack
<1>1. PICK p \in Ports : p = on[c]
  BY DEF VcPortIInv, Types, ThreadTypes
<1>2. Disabling(c, p)
  BY <1>1 DEF Disabling, Switching, Replied
<1>3. \A b \in Of(p) : at[b] \in {"client", "queue"}
  BY <1>2 DEF VcPortIInv, GoneInv, GoneOf
<1>4. Carried(p) = {}
  BY <1>3 DEF Carried
<1>5. Cardinality(Carried(p)) = 0
  BY <1>4, FS_EmptySet
<1>6. free[p] \in 0 .. Contexts /\ free[p] + Cardinality(Carried(p)) = Contexts
  BY <1>1 DEF VcPortIInv, CountInv, CountOf
<1> QED BY <1>1, <1>5, <1>6, VcPortAssumption

\* The counters are in their bounds.
LEMMA IInvTyped == VcPortIInv => TypeOK
<1> SUFFICES ASSUME VcPortIInv
             PROVE  TypeOK
  OBVIOUS
<1>1. transit \in [Ports -> Int] /\ free \in [Ports -> Int]
  BY DEF VcPortIInv, Types, PortTypes
<1>2. \A p \in Ports : transit[p] \in Nat /\ free[p] \in 0 .. Contexts
  BY PortFinite DEF VcPortIInv, CountInv, CountOf
<1>3. transit \in [Ports -> Nat] /\ free \in [Ports -> 0 .. Contexts]
  BY <1>1, <1>2
<1> QED BY <1>3 DEF TypeOK, VcPortIInv, Types, PortTypes, WireTypes, ThreadTypes,
                    ToServer, Held, FromServer

\* Before a disable returns, the client has the buffers of its port.
LEMMA IInvGivesBack == VcPortIInv => DisableGivesBack
<1> SUFFICES ASSUME VcPortIInv, NEW c \in Controllers, pc[c] = "wait", NEW b \in Data,
                    HomeOf(b) = on[c]
             PROVE  at[b] = "client"
  BY DEF DisableGivesBack
<1>1. PICK p \in Ports : p = on[c]
  BY DEF VcPortIInv, Types, ThreadTypes
<1>2. op[c] = "disable"
  BY DEF VcPortIInv, Types, ThreadTypes, Places, PlaceOf
<1>3. Disabling(c, p) /\ b \in Of(p)
  BY <1>1, <1>2 DEF Disabling, Switching, Of
<1> QED BY <1>3 DEF VcPortIInv, GoneInv, GoneOf

\* The ports are sound: the client contexts of a port are back in its pool when
\* mmal_vc_port_disable() deletes it, whatever the server, the callbacks and the other
\* threads do.
THEOREM PortIsSafe == OneCommits /\ Spec => []VcPortInv
<1>1. VcPortIInv => VcPortInv
  BY IInvReturnsContexts, IInvTyped DEF VcPortInv
<1> QED BY <1>1, IInvCorrect, PTL

\* A flush overtakes no data that was sent before it, if the server can do the dummy bulk
\* transfer that mmal_vc_port_flush() asks for.
THEOREM FlushCorrect == OneCommits /\ Spec => []FlushInOrder
<1>1. VcPortIInv => FlushInOrder
  BY DEF VcPortIInv, FlushInv, FlushInOrder
<1> QED BY <1>1, IInvCorrect, PTL

\* When mmal_port_disable() is done waiting no buffer of the port is left in the transport,
\* with the server or among the callbacks.
THEOREM GivesBackCorrect == OneCommits /\ Spec => []DisableGivesBack
<1>1. VcPortIInv => DisableGivesBack
  BY IInvGivesBack
<1> QED BY <1>1, IInvCorrect, PTL
=============================================================================
