----------------------- MODULE MmalComponentProofs --------------------------
(***************************************************************************)
(* Theorems about MmalComponent: a component is alive while it is used and *)
(* quiet when it is freed, gives back what it took, runs when enabled, and *)
(* no queued buffer is without its wake-up; for any number of threads,     *)
(* ports and references, whichever call fails.                             *)
(*                                                                         *)
(* And about MmalClock, which has a thread of its own as a component has:  *)
(* for any clients, slots and times.                                       *)
(***************************************************************************)
EXTENDS MmalComponent, MmalClock, FiniteSetTheorems, SequenceTheorems, WellFoundedInduction, TLAPS

\* The parts a creation takes, in one list: as a set they are these twelve.
LEMMA Order ==
  /\ Len(CreationOrder) = 12 /\ DOMAIN CreationOrder = 1 .. 12
  /\ Range(CreationOrder) = {"core", "memory", "control", "client", "vc", "module", "ports",
                             "queue", "action", "info", "pool", "list"}
<1>1. Len(CreationOrder) = 12 /\ DOMAIN CreationOrder = 1 .. 12
  BY DEF CreationOrder
<1>2. \A i \in 1 .. 12 : i \in {1,2,3,4,5,6,7,8,9,10,11,12}
  OBVIOUS
<1>3. \A i \in 1 .. 12 :
        CreationOrder[i] \in {"core", "memory", "control", "client", "vc", "module", "ports",
                              "queue", "action", "info", "pool", "list"}
  BY <1>2 DEF CreationOrder
<1>4. \A s \in {"core", "memory", "control", "client", "vc", "module", "ports",
                "queue", "action", "info", "pool", "list"} :
        \E i \in 1 .. 12 : CreationOrder[i] = s
  BY DEF CreationOrder
<1> QED BY <1>1, <1>3, <1>4 DEF Range

\* After each part of a creation the next one is taken.
LEMMA Successors ==
  /\ Successor("core") = "memory" /\ Successor("memory") = "control"
  /\ Successor("control") = "client" /\ Successor("client") = "vc"
  /\ Successor("vc") = "module" /\ Successor("module") = "ports"
  /\ Successor("ports") = "queue" /\ Successor("queue") = "action"
  /\ Successor("action") = "info" /\ Successor("info") = "pool"
  /\ Successor("pool") = "list"
<1>1. \A i, j \in 1 .. 12 : CreationOrder[i] = CreationOrder[j] => i = j
  <2>1. \A i \in 1 .. 12 : i \in {1,2,3,4,5,6,7,8,9,10,11,12}
    OBVIOUS
  <2>2. /\ CreationOrder[1] = "core" /\ CreationOrder[2] = "memory" /\ CreationOrder[3] = "control"
        /\ CreationOrder[4] = "client" /\ CreationOrder[5] = "vc" /\ CreationOrder[6] = "module"
        /\ CreationOrder[7] = "ports" /\ CreationOrder[8] = "queue" /\ CreationOrder[9] = "action"
        /\ CreationOrder[10] = "info" /\ CreationOrder[11] = "pool" /\ CreationOrder[12] = "list"
    BY DEF CreationOrder
  <2> QED BY <2>1, <2>2
<1>2. ASSUME NEW k \in 1 .. 11
      PROVE  Successor(CreationOrder[k]) = CreationOrder[k + 1]
  <2> DEFINE s == CHOOSE i \in DOMAIN CreationOrder : CreationOrder[i] = CreationOrder[k]
  <2>1. s \in 1 .. 12 /\ CreationOrder[s] = CreationOrder[k]
    BY Order
  <2>2. Successor(CreationOrder[k]) = IF s = Len(CreationOrder) THEN "idle" ELSE CreationOrder[s + 1]
    BY DEF Successor
  <2> HIDE DEF s
  <2>3. s = k
    BY <1>1, <2>1
  <2> QED BY Order, <2>2, <2>3
<1>3. \A k \in {1,2,3,4,5,6,7,8,9,10,11} : Successor(CreationOrder[k]) = CreationOrder[k + 1]
  BY <1>2
<1> QED BY <1>3 DEF CreationOrder

-----------------------------------------------------------------------------
\* The references of either kind as a set, one element for each of them.
Tokens(refs) == {t \in Clients \X (1 .. MaxRefs) : t[2] <= refs[t[1]]}

\* There are finitely many references of either kind.
LEMMA TokensFinite ==
  ASSUME NEW refs
  PROVE  IsFiniteSet(Tokens(refs)) /\ Cardinality(Tokens(refs)) \in Nat
<1>1. IsFiniteSet(Clients) /\ IsFiniteSet(1 .. MaxRefs)
  BY ComponentAssumption, FS_Interval
<1>2. IsFiniteSet(Clients \X (1 .. MaxRefs))
  BY <1>1, FS_Product
<1>3. IsFiniteSet(Tokens(refs))
  BY <1>2, FS_Subset DEF Tokens
<1> QED BY <1>3, FS_CardinalityType

\* A reference more of one thread is a reference more in all.
LEMMA TokenAdded ==
  ASSUME NEW refs \in [Clients -> 0 .. MaxRefs], NEW c \in Clients, refs[c] < MaxRefs
  PROVE  Cardinality(Tokens([refs EXCEPT ![c] = @ + 1])) = Cardinality(Tokens(refs)) + 1
<1> DEFINE new == [refs EXCEPT ![c] = @ + 1]
           t == <<c, refs[c] + 1>>
<1>1. Tokens(new) = Tokens(refs) \cup {t}
  <2>1. ASSUME NEW u \in Clients \X (1 .. MaxRefs)
        PROVE  u \in Tokens(new) <=> u \in Tokens(refs) \/ u = t
    <3>1. PICK d \in Clients, k \in 1 .. MaxRefs : u = <<d, k>>
      OBVIOUS
    <3>2. k <= new[d] <=> k <= refs[d] \/ (d = c /\ k = refs[c] + 1)
      BY ComponentAssumption
    <3> QED BY <3>1, <3>2 DEF Tokens
  <2>2. t \in Clients \X (1 .. MaxRefs)
    BY ComponentAssumption
  <2> QED BY <2>1, <2>2 DEF Tokens
<1>2. t \notin Tokens(refs)
  BY DEF Tokens
<1> QED BY <1>1, <1>2, TokensFinite, FS_AddElement

\* A reference less of one thread is a reference less in all.
LEMMA TokenRemoved ==
  ASSUME NEW refs \in [Clients -> 0 .. MaxRefs], NEW c \in Clients, refs[c] > 0
  PROVE  Cardinality(Tokens([refs EXCEPT ![c] = @ - 1])) = Cardinality(Tokens(refs)) - 1
<1> DEFINE old == [refs EXCEPT ![c] = @ - 1]
<1>1. MaxRefs \in Nat /\ refs[c] \in 1 .. MaxRefs
  BY ComponentAssumption
<1>2. old \in [Clients -> 0 .. MaxRefs] /\ old[c] = refs[c] - 1
  BY <1>1
<1>3. \A d \in Clients : refs[d] = [old EXCEPT ![c] = @ + 1][d]
  BY <1>1, <1>2
<1>4. refs = [old EXCEPT ![c] = @ + 1]
  BY <1>3
<1> HIDE DEF old
<1>5. old[c] < MaxRefs
  BY <1>1, <1>2
<1>6. Cardinality(Tokens([old EXCEPT ![c] = @ + 1])) = Cardinality(Tokens(old)) + 1
  BY <1>2, <1>5, TokenAdded, Zenon
<1>7. Cardinality(Tokens(refs)) = Cardinality(Tokens(old)) + 1
  BY <1>4, <1>6
<1> QED BY <1>7, TokensFinite DEF old

\* There are no references exactly when no thread has one.
LEMMA NoTokens ==
  ASSUME NEW refs \in [Clients -> 0 .. MaxRefs]
  PROVE  Cardinality(Tokens(refs)) = 0 <=> \A c \in Clients : refs[c] = 0
<1>1. ASSUME \A c \in Clients : refs[c] = 0 PROVE Tokens(refs) = {}
  BY <1>1, ComponentAssumption DEF Tokens
<1>2. ASSUME NEW c \in Clients, refs[c] # 0 PROVE <<c, 1>> \in Tokens(refs)
  BY <1>2, ComponentAssumption DEF Tokens
<1> QED BY <1>1, <1>2, TokensFinite, FS_EmptySet
-----------------------------------------------------------------------------
\* Every step keeps the types, if the two counters that it could take below their range
\* are where they should be.
LEMMA TypeStep ==
  ASSUME TypeOK, Next,
         \A c \in Clients : /\ At(c, "acquire") => port_refs[c] < MaxRefs
                            /\ At(c, "release") => refcount_ports > 0 /\ port_refs[c] > 0
                            /\ At(c, "drain") => left[c] # <<>>
  PROVE  TypeOK'
<1> USE DEF At, Goto, Holder, Threads, life, references, ports, action, threads
<1>1. ASSUME NEW c \in Clients, left[c] # <<>>
      PROVE  /\ FirstLeft(c) \in Ports
             /\ [left EXCEPT ![c] = Tail(@)] \in [Clients -> Seq(Ports)]
  <2>1. left[c] \in Seq(Ports) /\ left \in [Clients -> Seq(Ports)]
    BY DEF TypeOK
  <2>2. Head(left[c]) \in Ports /\ Tail(left[c]) \in Seq(Ports)
    BY <1>1, <2>1
  <2> QED BY <2>1, <2>2 DEF FirstLeft
<1>2. \A q \in Ports : /\ [inside EXCEPT ![q] = @ + 1] \in [Ports -> Nat]
                       /\ inside[q] > 0 => [inside EXCEPT ![q] = @ - 1] \in [Ports -> Nat]
  BY DEF TypeOK
<1>3. callback_queue # <<>> => /\ Head(callback_queue) \in Ports
                               /\ Tail(callback_queue) \in Seq(Ports)
  BY DEF TypeOK
<1>4. ASSUME NEW q \in Ports, Callback(q) PROVE inside' \in [Ports -> Nat]
  BY <1>2, <1>4 DEF Callback, TypeOK
<1>5. PortArray \in Seq(Ports) /\ <<>> \in Seq(Ports) /\ \A q \in Ports : <<q>> \in Seq(Ports)
  BY ComponentAssumption
<1>6. \A c \in Clients : /\ component_refs[c] \in 0 .. MaxRefs /\ port_refs[c] \in 0 .. MaxRefs
                         /\ c \in Threads
  BY DEF TypeOK
<1>7. 1 \in 0 .. MaxRefs /\ MaxRefs \in Nat /\ Action \in Threads /\ Transport \in Threads
  BY ComponentAssumption
<1>8. ASSUME NEW c \in Clients, ReleaseOne(c) PROVE TypeOK'
  <2>1. component_refs' \in [Clients -> 0 .. MaxRefs]
    BY <1>6, <1>7, <1>8 DEF ReleaseOne, TypeOK
  <2> QED BY <1>8, <2>1 DEF ReleaseOne, TypeOK
<1>9. ASSUME NEW c \in Clients, ReleaseLast(c) PROVE TypeOK'
  <2>1. component_refs' \in [Clients -> 0 .. MaxRefs]
    BY <1>6, <1>7, <1>9 DEF ReleaseLast, TypeOK
  <2> QED BY <1>5, <1>9, <2>1 DEF ReleaseLast, TypeOK
<1>10. ASSUME NEW c \in Clients, NEW l \in {"resume", "pause"}, Begin(c, l) PROVE TypeOK'
  BY <1>5, <1>10 DEF Begin, TypeOK
<1>11. ASSUME NEW c \in Clients, NEW d \in Clients, AcquireComponent(c, d) PROVE TypeOK'
  BY <1>6, <1>7, <1>11 DEF AcquireComponent, TypeOK
<1>12. ASSUME NEW c \in Clients, NEW p \in Ports, PayloadAlloc(c, p) \/ PayloadFree(c, p)
       PROVE  TypeOK'
  BY <1>12 DEF PayloadAlloc, PayloadFree, TypeOK
<1>13. ASSUME NEW c \in Clients, NEW p \in Ports, EnablePort(c, p) PROVE TypeOK'
  BY <1>13 DEF EnablePort, TypeOK
<1>14. ASSUME NEW c \in Clients, NEW p \in Ports, DisablePort(c, p) PROVE TypeOK'
  BY <1>5, <1>14 DEF DisablePort, TypeOK
<1>15. ASSUME NEW c \in Clients, NEW p \in Ports, Send(c, p) PROVE TypeOK'
  BY <1>2, <1>15 DEF Send, TypeOK
<1>16. ASSUME NEW c \in Clients, CoreInit(c) PROVE TypeOK'
  BY <1>16, Order, Successors DEF CoreInit, Take, TypeOK
<1>17. ASSUME NEW c \in Clients, CreateMemory(c) PROVE TypeOK'
  BY <1>17, Order, Successors DEF CreateMemory, Take, TypeOK
<1>18. ASSUME NEW c \in Clients, NEW part \in Range(CreationOrder) \ {"list"}, CreatePart(c, part)
       PROVE  TypeOK'
  <2>1. Successor(part) \in Range(CreationOrder)
    BY Order, Successors
  <2> QED BY <1>18, <2>1 DEF CreatePart, Take, TypeOK
<1>19. ASSUME NEW c \in Clients, RegisterAction(c) PROVE TypeOK'
  BY <1>19, <1>7, Order, Successors DEF RegisterAction, Take, TypeOK
<1>20. ASSUME NEW c \in Clients, Created(c) PROVE TypeOK'
  BY <1>7, <1>20, Order DEF Created, Take, TypeOK
<1>21. ASSUME NEW c \in Clients, NEW part \in Range(CreationOrder), Fails(c, part), parts' \subseteq parts,
              NEW l \in {"idle", "destroy"}, Goto(c, l)
       PROVE TypeOK'
  BY <1>21 DEF Fails, TypeOK
<1>22. ASSUME NEW c \in Clients, NEW l \in {"resume", "pause"}, NEW b \in BOOLEAN, SetPaused(c, l, b)
       PROVE  TypeOK'
  BY <1>1, <1>22 DEF SetPaused, DropFirst, TypeOK
<1>23. ASSUME NEW c \in Clients, ResumeFailed(c) PROVE TypeOK'
  BY <1>5, <1>23 DEF ResumeFailed, TypeOK
<1>24. ASSUME NEW c \in Clients, NEW l \in {"resume", "pause"}, Refused(c, l) PROVE TypeOK'
  BY <1>5, <1>24 DEF Refused, TypeOK
<1>25. ASSUME NEW c \in Clients, End(c) PROVE TypeOK'
  BY <1>25 DEF End, TypeOK
<1>26. ASSUME NEW c \in Clients, DisableSkip(c) PROVE TypeOK'
  BY <1>1, <1>26 DEF DisableSkip, DropFirst, TypeOK
<1>27. ASSUME NEW c \in Clients, DisableOff(c) PROVE TypeOK'
  BY <1>1, <1>27 DEF DisableOff, TypeOK
<1>28. ASSUME NEW c \in Clients, DisableLock(c) \/ DisableStopped(c) PROVE TypeOK'
  BY <1>28 DEF DisableLock, DisableStopped, TypeOK
<1>29. ASSUME NEW c \in Clients, DisableDrain(c) PROVE TypeOK'
  BY <1>3, <1>4, <1>29 DEF DisableDrain, TypeOK
<1>30. ASSUME NEW c \in Clients, At(c, "drain") => left[c] # <<>>, DisableDrained(c)
       PROVE  TypeOK'
  BY <1>1, <1>30 DEF DisableDrained, DropFirst, TypeOK
<1>31. ASSUME NEW c \in Clients, DisableEnd(c) \/ FinalDelayed(c) \/ FinalDestroy(c)
       PROVE  TypeOK'
  BY <1>31 DEF DisableEnd, FinalDelayed, FinalDestroy, TypeOK
<1>32. ASSUME NEW c \in Clients, AcquirePort(c) PROVE TypeOK'
  BY <1>6, <1>7, <1>32 DEF AcquirePort, TypeOK
<1>33. ASSUME NEW c \in Clients, ReleasePort(c) PROVE TypeOK'
  <2>1. PICK l \in {"idle", "destroy"} : Goto(c, l)
    BY <1>33 DEF ReleasePort
  <2>2. refcount_ports' \in Nat /\ port_refs' \in [Clients -> 0 .. MaxRefs]
    BY <1>6, <1>7, <1>33 DEF ReleasePort, TypeOK
  <2> QED BY <1>33, <2>1, <2>2 DEF ReleasePort, TypeOK
<1>34. ASSUME NEW c \in Clients, Destroy(c) PROVE TypeOK'
  <2>1. PICK l \in {"join", "free"} : Goto(c, l)
    BY <1>34 DEF Destroy
  <2>2. action_sema' \in Nat /\ action_quit' \in BOOLEAN
    <3>1. action_sema \in Nat /\ action_quit \in BOOLEAN /\ action_sema + 1 \in Nat
      BY DEF TypeOK
    <3> QED BY <1>34, <3>1 DEF Destroy
  <2> QED BY <1>34, <2>1, <2>2 DEF Destroy, TypeOK
<1>35. ASSUME NEW c \in Clients, Join(c) PROVE TypeOK'
  BY <1>35 DEF Join, TypeOK
<1>36. ASSUME NEW c \in Clients, VcDestroy(c) \/ VcDestroyRefused(c) \/ Free(c) PROVE TypeOK'
  BY <1>36, Order DEF VcDestroy, VcDestroyed, VcDestroyRefused, Free, CoreDeinit, TypeOK
<1>37. ASSUME NEW p \in Ports, Complete(p) PROVE TypeOK'
  BY <1>2, <1>7, <1>37 DEF Complete, TypeOK
<1>38. CASE Trigger
  BY <1>7, <1>38 DEF Trigger, TypeOK
<1>39. CASE Wake
  BY <1>7, <1>39 DEF Wake, TypeOK
<1>40. CASE Run
  BY <1>3, <1>7, <1>40 DEF Run, TypeOK
<1>41. CASE Deliver
  BY <1>4, <1>7, <1>41 DEF Deliver, TypeOK
<1>42. CASE Finished
  BY <1>42 DEF Finished, vars, TypeOK
<1> HIDE DEF At, Goto, Holder
<1>43. ASSUME NEW c \in Clients, GoesOn(c) PROVE TypeOK'
  <2>1. ASSUME \/ CreateControl(c) \/ CreateAtVc(c) \/ CreatePorts(c) \/ CreateInfo(c) \/ CreatePool(c)
        PROVE  TypeOK'
    BY <1>18, <2>1, Order DEF CreateControl, CreateAtVc, CreatePorts, CreateInfo, CreatePool
  <2>2. ASSUME \/ NoMemory(c) \/ CreateFailed(c) \/ VcRefuses(c) \/ NoModule(c) \/ ConstructorFailed(c)
        PROVE  TypeOK'
    BY <1>21, <2>2, Order DEF NoMemory, CreateFailed, VcRefuses, NoModule, ConstructorFailed,
       Constructor, VcDestroyed
  <2>3. Resume(c) \/ Pause(c) \/ EnableRefused(c) \/ DisableRefused(c) => TypeOK'
    BY <1>22, <1>24 DEF Resume, Pause, EnableRefused, DisableRefused
  <2>4. DisableDrained(c) => TypeOK'
    BY <1>30 DEF DisableDrained
  <2> QED BY <1>16, <1>17, <1>19, <1>20, <1>23, <1>25, <1>26, <1>27, <1>28, <1>29, <1>31, <1>32,
     <1>33,
             <1>34, <1>35, <1>36, <1>43, <2>1, <2>2, <2>3, <2>4 DEF GoesOn
<1>44. ASSUME NEW c \in Clients, Client(c) PROVE TypeOK'
  <2>1. Enable(c) \/ Disable(c) => TypeOK'
    BY <1>10 DEF Enable, Disable
  <2> QED BY <1>8, <1>9, <1>11, <1>12, <1>13, <1>14, <1>15, <1>44, <2>1 DEF Client
<1> QED BY <1>37, <1>38, <1>39, <1>40, <1>41, <1>42, <1>43, <1>44 DEF Next, ActionThread

-----------------------------------------------------------------------------
(* The references, and who may be where because of them.                   *)

\* Some thread refers to the component, or is releasing it.
Used == \E c \in Clients : component_refs[c] > 0 \/ port_refs[c] > 0 \/ c \in releasing

\* Who creates the component, or destroys it, has it for itself.
Sole(c) == Creating(c) \/ pc[c] \in {"destroy", "join", "free"}

ClientPlaces ==
  \A c \in Clients : \/ Sole(c)
                     \/ pc[c] \in {"idle", "resume", "pause", "disable", "lock", "stop",
                                   "drain", "final", "acquire", "release"}

Alone == \A c \in Clients : Sole(c) => ~Used /\ \A d \in Clients \ {c} : At(d, "idle")

\* While it is used the component is all there, its counts are those of the references and
\* its destruction is pending only while a thread is about it.
Whole ==
  Used =>
    /\ allocated /\ failed = "none" /\ pf_action /\ ~action_quit
    /\ parts = Range(CreationOrder)
    /\ refcount = Cardinality(Tokens(component_refs))
    /\ refcount_ports = Cardinality(Tokens(port_refs))
    /\ destruction_pending <=> releasing # {}

\* The creator's reference is counted before it has it, and no other is.
CreatorCounted ==
  \A c \in Clients : Creating(c) =>
    /\ failed = "none" /\ refcount_ports = 0 /\ ~destruction_pending /\ ~action_quit
    /\ allocated <=> pc[c] \notin {"core", "memory"}
    /\ allocated => refcount = 1

\* What is destroyed exists.
Exists == \A c \in Clients : pc[c] \in {"destroy", "join", "free"} => allocated

\* One thread releases the last reference to the component, when no other has one.
OneReleaser ==
  \A c \in releasing :
    /\ pc[c] \in {"disable", "lock", "stop", "drain", "final"}
    /\ \A d \in Clients : component_refs[d] = 0
    /\ \A d \in releasing : d = c

\* The references that a thread in a call has.
HasWhatItNeeds(c, l) ==
  /\ l \in {"resume", "pause"} => component_refs[c] > 0
  /\ l \in {"disable", "lock", "stop", "drain"} => component_refs[c] > 0 \/ c \in releasing
  /\ l = "final" => c \in releasing
  /\ l = "acquire" => (component_refs[c] > 0 \/ port_refs[c] > 0) /\ port_refs[c] < MaxRefs
  /\ l = "release" => port_refs[c] > 0

CallsHaveReferences == \A c \in Clients : HasWhatItNeeds(c, pc[c])

LifeInv ==
  /\ ClientPlaces /\ Alone /\ Whole /\ CreatorCounted /\ Exists
  /\ OneReleaser /\ CallsHaveReferences

lifeVars == <<life, references, pf_action, action_quit, releasing>>

\* Nobody creates or destroys what is used, and what anybody else is in is used.
LEMMA UsedOrSole ==
  ASSUME TypeOK, LifeInv, NEW c \in Clients
  PROVE  /\ Used => ~Sole(c)
         /\ ~At(c, "idle") => Used \/ Sole(c)
         /\ component_refs[c] > 0 \/ port_refs[c] > 0 \/ c \in releasing => Used
<1>1. Used => ~Sole(c)
  BY DEF LifeInv, Alone
<1>2. ~At(c, "idle") => Used \/ Sole(c)
  BY DEF LifeInv, ClientPlaces, CallsHaveReferences, HasWhatItNeeds, Used, At
<1> QED BY <1>1, <1>2 DEF Used

\* A step which leaves the clients where they are, and the life of the component.
LEMMA LifeSame ==
  ASSUME TypeOK, LifeInv, UNCHANGED lifeVars, \A c \in Clients : pc'[c] = pc[c]
  PROVE  LifeInv'
<1>1. (\A c \in Clients : Sole(c)' <=> Sole(c)) /\ (Used' <=> Used)
  BY DEF Sole, Creating, Used, lifeVars, references
<1>2. ClientPlaces' /\ Alone'
  BY <1>1 DEF LifeInv, ClientPlaces, Alone, At
<1>3. Whole'
  BY <1>1 DEF LifeInv, Whole, lifeVars, life, references
<1>4. CreatorCounted' /\ Exists'
  BY DEF LifeInv, CreatorCounted, Exists, Creating, lifeVars, life, references
<1>5. OneReleaser'
  BY DEF LifeInv, OneReleaser, lifeVars, references, TypeOK
<1>6. CallsHaveReferences'
  BY DEF LifeInv, CallsHaveReferences, HasWhatItNeeds, lifeVars, references
<1> QED BY <1>2, <1>3, <1>4, <1>5, <1>6 DEF LifeInv

SharedPlaces == {"idle", "resume", "pause", "disable", "lock", "stop", "drain", "final",
                 "acquire", "release"}

\* As long as nobody creates or destroys the component.
LEMMA StaysShared ==
  ASSUME TypeOK, LifeInv, Used, NEW c \in Clients, NEW l \in SharedPlaces,
         pc' = pc \/ Goto(c, l)
  PROVE  ClientPlaces' /\ Alone' /\ CreatorCounted' /\ Exists'
<1>1. \A d \in Clients : pc'[d] = pc[d] \/ (d = c /\ pc'[d] = l)
  BY DEF Goto, TypeOK, Threads
<1>2. \A d \in Clients : ~Sole(d) /\ ~Sole(d)'
  BY <1>1, UsedOrSole, Order DEF Sole, Creating, SharedPlaces
<1>3. ClientPlaces'
  BY <1>1, <1>2 DEF LifeInv, ClientPlaces, SharedPlaces
<1> QED BY <1>2, <1>3 DEF Alone, CreatorCounted, Exists, Sole

\* A thread goes from one place to another for which it has what it needs.
LEMMA LifeMove ==
  ASSUME TypeOK, LifeInv, UNCHANGED lifeVars, Used,
         NEW c \in Clients, NEW l \in SharedPlaces, Goto(c, l), HasWhatItNeeds(c, l),
         c \in releasing => l \in {"disable", "lock", "stop", "drain", "final"}
  PROVE  LifeInv'
<1>1. pc'[c] = l /\ \A d \in Clients \ {c} : pc'[d] = pc[d]
  BY DEF Goto, TypeOK, Threads
<1>2. Whole'
  BY DEF LifeInv, Whole, Used, lifeVars, life, references
<1>3. OneReleaser'
  <2>1. UNCHANGED <<component_refs, releasing>> /\ OneReleaser
    BY DEF LifeInv, lifeVars, references
  <2>2. releasing \subseteq Clients
    BY DEF TypeOK
  <2>3. \A d \in releasing : pc'[d] \in {"disable", "lock", "stop", "drain", "final"}
    BY <1>1, <2>1, <2>2 DEF OneReleaser
  <2> QED BY <2>1, <2>3 DEF OneReleaser
<1>4. CallsHaveReferences'
  BY <1>1 DEF LifeInv, CallsHaveReferences, HasWhatItNeeds, lifeVars, references
<1> QED BY <1>2, <1>3, <1>4, StaysShared DEF LifeInv

\* A step of a creation or destruction that ends with nobody having a reference.
LEMMA SoleStep ==
  ASSUME TypeOK, LifeInv, NEW c \in Clients, Sole(c), NEW l,
         pc'[c] = l, \A d \in Clients \ {c} : pc'[d] = pc[d],
         UNCHANGED <<component_refs, port_refs, releasing>>,
         \/ /\ l \in Range(CreationOrder)
            /\ failed' = "none" /\ refcount_ports' = 0 /\ ~destruction_pending'
            /\ ~action_quit'
            /\ allocated' <=> l \notin {"core", "memory"}
            /\ allocated' => refcount' = 1
         \/ l \in {"destroy", "join", "free"} /\ allocated'
         \/ l = "idle"
  PROVE  LifeInv'
<1>1. ~Used' /\ \A d \in Clients \ {c} : pc'[d] = "idle"
  BY DEF LifeInv, Alone, Used, At
<1>2. ClientPlaces' /\ Alone'
  <2>1. \A d \in Clients \ {c} : ~Sole(d)'
    BY <1>1, Order DEF Sole, Creating
  <2>2. Sole(c)' \/ pc'[c] = "idle"
    BY DEF Sole, Creating
  <2>3. ClientPlaces'
    BY <1>1, <2>2 DEF ClientPlaces
  <2> QED BY <1>1, <2>1, <2>3 DEF Alone, At
<1>3. Whole' /\ OneReleaser'
  BY <1>1 DEF Whole, OneReleaser, Used, LifeInv, TypeOK
<1>4. CreatorCounted' /\ Exists'
  BY <1>1, Order DEF CreatorCounted, Exists, Creating
<1>5. CallsHaveReferences'
  BY <1>1, Order DEF CallsHaveReferences, HasWhatItNeeds
<1> QED BY <1>2, <1>3, <1>4, <1>5 DEF LifeInv

\* The counts, when one reference of d comes or goes.
LEMMA OneMore ==
  ASSUME NEW refs \in [Clients -> 0 .. MaxRefs], NEW d \in Clients, refs[d] < MaxRefs,
         NEW new, new = [refs EXCEPT ![d] = @ + 1]
  PROVE  /\ Cardinality(Tokens(new)) = Cardinality(Tokens(refs)) + 1
         /\ \A e \in Clients : new[e] >= refs[e]
<1>1. Cardinality(Tokens(new)) = Cardinality(Tokens(refs)) + 1
  BY TokenAdded
<1>2. \A e \in Clients : refs[e] \in Int /\ (new[e] = refs[e] \/ new[e] = refs[e] + 1)
  BY ComponentAssumption
<1> QED BY <1>1, <1>2

\* The same for a reference that goes.
LEMMA OneLess ==
  ASSUME NEW refs \in [Clients -> 0 .. MaxRefs], NEW d \in Clients, refs[d] > 0,
         NEW new, new = [refs EXCEPT ![d] = @ - 1]
  PROVE  /\ Cardinality(Tokens(new)) = Cardinality(Tokens(refs)) - 1
         /\ new \in [Clients -> 0 .. MaxRefs]
         /\ \A e \in Clients \ {d} : new[e] = refs[e]
<1>1. Cardinality(Tokens(new)) = Cardinality(Tokens(refs)) - 1
  BY TokenRemoved
<1>2. refs[d] - 1 \in 0 .. MaxRefs
  BY ComponentAssumption
<1> QED BY <1>1, <1>2

\* A call that changes references, but for the last ones.
LEMMA LifeAcquire ==
  ASSUME TypeOK, LifeInv, NEW c \in Clients, NEW d \in Clients, AcquireComponent(c, d)
  PROVE  LifeInv'
<1> USE DEF At, Holder, life, references, action, threads
<1>1. Used /\ component_refs[c] > 0
  BY UsedOrSole, Zenon DEF AcquireComponent, Holder
<1>2. component_refs \in [Clients -> 0 .. MaxRefs] /\ component_refs[d] < MaxRefs
  BY DEF AcquireComponent, TypeOK
<1>3. /\ Cardinality(Tokens(component_refs')) = Cardinality(Tokens(component_refs)) + 1
      /\ \A e \in Clients : component_refs'[e] >= component_refs[e]
  BY <1>2, OneMore DEF AcquireComponent
<1>4. refcount = Cardinality(Tokens(component_refs)) /\ refcount' = refcount + 1
  BY <1>1 DEF LifeInv, Whole, AcquireComponent
<1>5. Whole'
  BY <1>1, <1>3, <1>4 DEF LifeInv, Whole, AcquireComponent
<1>6. releasing = {} /\ releasing' = {}
  BY <1>1 DEF LifeInv, OneReleaser, AcquireComponent
<1>7. CallsHaveReferences'
  BY <1>2, <1>3 DEF LifeInv, CallsHaveReferences, HasWhatItNeeds, AcquireComponent, TypeOK
<1>8. pc' = pc /\ "idle" \in SharedPlaces
  BY DEF AcquireComponent, SharedPlaces
<1> QED BY <1>1, <1>5, <1>6, <1>7, <1>8, StaysShared DEF LifeInv, OneReleaser

\* mmal_port_acquire() counts a reference to a port that the thread then has.
LEMMA LifeAcquirePort ==
  ASSUME TypeOK, LifeInv, NEW c \in Clients, AcquirePort(c)
  PROVE  LifeInv'
<1> USE DEF At, life, references, action
<1>1. (component_refs[c] > 0 \/ port_refs[c] > 0) /\ port_refs[c] < MaxRefs
  BY DEF LifeInv, CallsHaveReferences, HasWhatItNeeds, AcquirePort
<1>2. Used /\ port_refs \in [Clients -> 0 .. MaxRefs]
  BY <1>1, UsedOrSole DEF TypeOK
<1>3. /\ Cardinality(Tokens(port_refs')) = Cardinality(Tokens(port_refs)) + 1
      /\ \A e \in Clients : port_refs'[e] >= port_refs[e]
  BY <1>1, <1>2, OneMore DEF AcquirePort
<1>4. refcount_ports = Cardinality(Tokens(port_refs)) /\ refcount_ports' = refcount_ports + 1
  BY <1>2 DEF LifeInv, Whole, AcquirePort
<1>5. Whole'
  BY <1>2, <1>3, <1>4 DEF LifeInv, Whole, AcquirePort
<1>6. pc'[c] = "idle" /\ \A d \in Clients \ {c} : pc'[d] = pc[d] /\ port_refs'[d] = port_refs[d]
  BY DEF AcquirePort, Goto, TypeOK, Threads
<1>7. c \notin releasing
  BY DEF LifeInv, OneReleaser, AcquirePort
<1>8. OneReleaser'
  BY <1>6, <1>7 DEF LifeInv, OneReleaser, AcquirePort, TypeOK
<1>9. CallsHaveReferences'
  BY <1>6 DEF LifeInv, CallsHaveReferences, HasWhatItNeeds, AcquirePort
<1>10. Goto(c, "idle") /\ "idle" \in SharedPlaces
  BY DEF AcquirePort, SharedPlaces
<1> QED BY <1>2, <1>5, <1>8, <1>9, <1>10, StaysShared DEF LifeInv

\* mmal_component_release() of one reference out of several leaves the component in use.
LEMMA LifeReleaseOne ==
  ASSUME TypeOK, LifeInv, NEW c \in Clients, ReleaseOne(c)
  PROVE  LifeInv'
<1> USE DEF At, Holder, life, references, action, threads
<1>1. Used /\ component_refs[c] > 0 /\ component_refs \in [Clients -> 0 .. MaxRefs]
  BY UsedOrSole, Zenon DEF ReleaseOne, Holder, TypeOK
<1>2. /\ Cardinality(Tokens(component_refs')) = Cardinality(Tokens(component_refs)) - 1
      /\ component_refs' \in [Clients -> 0 .. MaxRefs]
      /\ \A e \in Clients \ {c} : component_refs'[e] = component_refs[e]
  BY <1>1, OneLess DEF ReleaseOne
<1>3. refcount = Cardinality(Tokens(component_refs)) /\ refcount' = refcount - 1
  BY <1>1 DEF LifeInv, Whole, ReleaseOne
<1>4. Whole'
  BY <1>1, <1>2, <1>3 DEF LifeInv, Whole, ReleaseOne
<1>5. releasing = {} /\ releasing' = {}
  BY <1>1 DEF LifeInv, OneReleaser, ReleaseOne
<1>6. CallsHaveReferences'
  BY <1>2 DEF LifeInv, CallsHaveReferences, HasWhatItNeeds, ReleaseOne
<1>7. pc' = pc /\ "idle" \in SharedPlaces
  BY DEF ReleaseOne, SharedPlaces
<1> QED BY <1>1, <1>4, <1>5, <1>6, <1>7, StaysShared DEF LifeInv, OneReleaser

\* mmal_component_release() of the last reference makes the thread the only releaser.
LEMMA LifeReleaseLast ==
  ASSUME TypeOK, LifeInv, NEW c \in Clients, ReleaseLast(c)
  PROVE  LifeInv'
<1> USE DEF At, Holder, life, references, action
<1>1. Used /\ component_refs[c] > 0 /\ component_refs \in [Clients -> 0 .. MaxRefs]
  BY UsedOrSole, Zenon DEF ReleaseLast, Holder, TypeOK
<1>2. /\ Cardinality(Tokens(component_refs')) = Cardinality(Tokens(component_refs)) - 1
      /\ component_refs' \in [Clients -> 0 .. MaxRefs]
      /\ \A e \in Clients \ {c} : component_refs'[e] = component_refs[e]
  BY <1>1, OneLess DEF ReleaseLast
<1>3. refcount = Cardinality(Tokens(component_refs)) /\ refcount = 1 /\ refcount' = 0
  BY <1>1 DEF LifeInv, Whole, ReleaseLast
<1>4. releasing = {} /\ releasing' = {c}
  BY <1>1 DEF LifeInv, OneReleaser, ReleaseLast
<1>5. \A d \in Clients : component_refs'[d] = 0
  BY <1>2, <1>3, NoTokens
<1>6. Whole'
  BY <1>1, <1>2, <1>3, <1>4 DEF LifeInv, Whole, ReleaseLast
<1>7. pc'[c] = "disable" /\ \A d \in Clients \ {c} : pc'[d] = pc[d]
  BY DEF ReleaseLast, Goto, TypeOK, Threads
<1>8. OneReleaser'
  BY <1>4, <1>5, <1>7 DEF OneReleaser
<1>9. CallsHaveReferences'
  BY <1>2, <1>4, <1>7 DEF LifeInv, CallsHaveReferences, HasWhatItNeeds, ReleaseLast
<1>10. Goto(c, "disable") /\ "disable" \in SharedPlaces
  BY DEF ReleaseLast, SharedPlaces
<1> QED BY <1>1, <1>6, <1>8, <1>9, <1>10, StaysShared DEF LifeInv

\* The destruction is delayed: the releaser has to do no more.
LEMMA LifeFinalDelayed ==
  ASSUME TypeOK, LifeInv, NEW c \in Clients, FinalDelayed(c)
  PROVE  LifeInv'
<1> USE DEF At, life, action
<1>1. c \in releasing /\ Used
  BY UsedOrSole DEF LifeInv, CallsHaveReferences, HasWhatItNeeds, FinalDelayed
<1>2. releasing = {c} /\ \A d \in Clients : component_refs[d] = 0
  BY <1>1 DEF LifeInv, OneReleaser
<1>3. releasing' = {} /\ destruction_pending' = FALSE
  BY <1>2 DEF FinalDelayed
<1>4. Whole' /\ OneReleaser'
  BY <1>1, <1>3 DEF LifeInv, Whole, OneReleaser, FinalDelayed
<1>5. pc'[c] = "idle" /\ \A d \in Clients \ {c} : pc'[d] = pc[d]
  BY DEF FinalDelayed, Goto, TypeOK, Threads
<1>6. CallsHaveReferences'
  BY <1>2, <1>5 DEF LifeInv, CallsHaveReferences, HasWhatItNeeds, FinalDelayed
<1>7. Goto(c, "idle") /\ "idle" \in SharedPlaces
  BY DEF FinalDelayed, SharedPlaces
<1> QED BY <1>1, <1>4, <1>6, <1>7, StaysShared DEF LifeInv

\* Who finds that it was the last one to use the component destroys it.
LEMMA LifeAlone ==
  ASSUME TypeOK, LifeInv, NEW c \in Clients, Used, Goto(c, "destroy"), ~Used',
         \A d \in Clients \ {c} : d \notin releasing,
         \A d \in Clients \ {c} : component_refs[d] = 0 /\ port_refs[d] = 0,
         UNCHANGED allocated, releasing' \subseteq Clients
  PROVE  LifeInv'
<1>1. pc'[c] = "destroy" /\ \A d \in Clients \ {c} : pc'[d] = pc[d]
  BY DEF Goto, TypeOK, Threads
<1>2. \A d \in Clients \ {c} : pc[d] = "idle"
  BY UsedOrSole DEF LifeInv, ClientPlaces, CallsHaveReferences, HasWhatItNeeds
<1>3. ClientPlaces' /\ Alone'
  BY <1>1, <1>2, Order DEF ClientPlaces, Alone, Sole, Creating, At
<1>4. Whole' /\ OneReleaser'
  <2>1. releasing' = {}
    BY DEF Used
  <2> QED BY <2>1 DEF Whole, OneReleaser
<1>5. CreatorCounted' /\ Exists' /\ CallsHaveReferences'
  BY <1>1, <1>2, Order DEF CreatorCounted, Exists, Creating, CallsHaveReferences,
     HasWhatItNeeds, LifeInv, Whole
<1> QED BY <1>3, <1>4, <1>5 DEF LifeInv

\* The releaser destroys the component when no port is referenced any more.
LEMMA LifeFinalDestroy ==
  ASSUME TypeOK, LifeInv, NEW c \in Clients, FinalDestroy(c)
  PROVE  LifeInv'
<1> USE DEF At, life, references, action
<1>1. c \in releasing /\ Used
  BY UsedOrSole DEF LifeInv, CallsHaveReferences, HasWhatItNeeds, FinalDestroy
<1>2. releasing = {c} /\ \A d \in Clients : component_refs[d] = 0
  BY <1>1 DEF LifeInv, OneReleaser
<1>3. \A d \in Clients : port_refs[d] = 0
  BY <1>1, NoTokens DEF LifeInv, Whole, FinalDestroy, TypeOK
<1>4. ~Used' /\ Goto(c, "destroy") /\ releasing' \subseteq Clients
  BY <1>2, <1>3 DEF FinalDestroy, Used
<1> QED BY <1>1, <1>2, <1>3, <1>4, LifeAlone DEF FinalDestroy

\* mmal_port_release() drops a reference that is counted, and destroys what it was the last of.
LEMMA LifeReleasePort ==
  ASSUME TypeOK, LifeInv, NEW c \in Clients, ReleasePort(c)
  PROVE  LifeInv' /\ refcount_ports > 0
<1> USE DEF At, life, references, action
<1>1. port_refs[c] > 0 /\ port_refs \in [Clients -> 0 .. MaxRefs]
  BY DEF LifeInv, CallsHaveReferences, HasWhatItNeeds, ReleasePort, TypeOK
<1>2. Used
  BY <1>1, UsedOrSole
<1>3. /\ Cardinality(Tokens(port_refs')) = Cardinality(Tokens(port_refs)) - 1
      /\ port_refs' \in [Clients -> 0 .. MaxRefs]
      /\ \A e \in Clients \ {c} : port_refs'[e] = port_refs[e]
  BY <1>1, OneLess DEF ReleasePort
<1>4. refcount_ports = Cardinality(Tokens(port_refs)) /\ refcount_ports' = refcount_ports - 1
  BY <1>2 DEF LifeInv, Whole, ReleasePort
<1>5. refcount_ports > 0
  BY <1>1, <1>4, NoTokens, TokensFinite
<1>6. Whole'
  BY <1>2, <1>3, <1>4 DEF LifeInv, Whole, ReleasePort
<1>7. c \notin releasing
  BY DEF LifeInv, OneReleaser, ReleasePort
<1>8. CASE refcount_ports > 1 \/ refcount > 0 \/ destruction_pending
  <2>1. Goto(c, "idle") /\ "idle" \in SharedPlaces
    BY <1>8 DEF ReleasePort, SharedPlaces
  <2>2. pc'[c] = "idle" /\ \A d \in Clients \ {c} : pc'[d] = pc[d]
    BY <2>1 DEF Goto, TypeOK, Threads
  <2>3. OneReleaser'
    BY <1>7, <2>2 DEF LifeInv, OneReleaser, ReleasePort, TypeOK
  <2>4. CallsHaveReferences'
    BY <1>3, <2>2 DEF LifeInv, CallsHaveReferences, HasWhatItNeeds, ReleasePort
  <2> QED BY <1>2, <1>5, <1>6, <2>1, <2>3, <2>4, StaysShared DEF LifeInv
<1>9. CASE ~(refcount_ports > 1 \/ refcount > 0 \/ destruction_pending)
  <2>1. Cardinality(Tokens(port_refs')) = 0 /\ Goto(c, "destroy")
    BY <1>3, <1>4, <1>5, <1>9, TokensFinite DEF ReleasePort
  <2>2. \A d \in Clients : port_refs'[d] = 0
    BY <1>3, <2>1, NoTokens
  <2>3. releasing = {} /\ refcount = 0 /\ refcount = Cardinality(Tokens(component_refs))
    BY <1>2, <1>9 DEF LifeInv, Whole, TypeOK
  <2>4. \A d \in Clients : component_refs[d] = 0
    BY <2>3, NoTokens DEF TypeOK
  <2>5. ~Used'
    BY <2>2, <2>3, <2>4 DEF Used, ReleasePort
  <2>6. \A d \in Clients \ {c} : port_refs[d] = 0
    BY <1>3, <2>2
  <2>7. UNCHANGED allocated /\ releasing' \subseteq Clients
    BY DEF ReleasePort, TypeOK
  <2> QED BY <1>2, <1>5, <2>1, <2>3, <2>4, <2>5, <2>6, <2>7, LifeAlone
<1> QED BY <1>8, <1>9

\* The parts of a creation.
LEMMA LifeCreates ==
  ASSUME TypeOK, LifeInv, NEW c \in Clients,
         \/ CoreInit(c) \/ CreateMemory(c) \/ RegisterAction(c)
         \/ \E part \in Range(CreationOrder) \ {"core", "memory", "list"} : CreatePart(c, part)
  PROVE  LifeInv'
<1> USE DEF At, Goto, Take, references
<1>1. PICK part \in Range(CreationOrder) \ {"list"} :
        At(c, part) /\ pc'[c] = Successor(part) /\ \A d \in Clients \ {c} : pc'[d] = pc[d]
  BY Order, ComponentAssumption DEF CoreInit, CreateMemory, RegisterAction, CreatePart, TypeOK,
  Threads
<1>2. Creating(c) /\ Sole(c)
  BY <1>1 DEF Creating, Sole
<1>3. /\ failed = "none" /\ refcount_ports = 0 /\ ~destruction_pending /\ ~action_quit
      /\ allocated <=> part \notin {"core", "memory"}
      /\ allocated => refcount = 1
  BY <1>1, <1>2 DEF LifeInv, CreatorCounted
<1>4. Successor(part) \in Range(CreationOrder)
  BY <1>1, Order, Successors
<1>5. /\ failed' = failed /\ refcount_ports' = refcount_ports /\ action_quit' = action_quit
      /\ destruction_pending' = destruction_pending
      /\ UNCHANGED <<component_refs, port_refs, releasing>>
  BY DEF CoreInit, CreateMemory, RegisterAction, CreatePart
<1>6. /\ allocated' <=> Successor(part) \notin {"core", "memory"}
      /\ allocated' => refcount' = 1
  BY <1>1, <1>3, Order, Successors DEF CoreInit, CreateMemory, RegisterAction, CreatePart
<1> QED BY <1>1, <1>2, <1>3, <1>4, <1>5, <1>6, SoleStep

\* A creation that ends gives its thread the one reference that is counted.
LEMMA LifeCreated ==
  ASSUME TypeOK, LifeInv, NEW c \in Clients, Created(c), pf_action, parts = Range(CreationOrder) \ {"list"}
  PROVE  LifeInv'
<1> USE DEF At, Goto, Take, life, references
<1>1. Creating(c) /\ Sole(c) /\ "list" \in Range(CreationOrder)
  BY Order DEF Creating, Sole, Created
<1>2. /\ failed = "none" /\ refcount_ports = 0 /\ ~destruction_pending /\ ~action_quit
      /\ allocated /\ refcount = 1
  BY <1>1 DEF LifeInv, CreatorCounted, Created
<1>3. ~Used /\ \A d \in Clients \ {c} : pc[d] = "idle"
  BY <1>1 DEF LifeInv, Alone
<1>4. component_refs \in [Clients -> 0 .. MaxRefs] /\ port_refs \in [Clients -> 0 .. MaxRefs]
  BY DEF TypeOK
<1>5. \A d \in Clients : component_refs[d] = 0 /\ port_refs[d] = 0 /\ d \notin releasing
  BY <1>3, <1>4 DEF Used
<1>6. component_refs' = [component_refs EXCEPT ![c] = @ + 1] /\ component_refs[c] < MaxRefs
  <2>1. component_refs[c] = 0 /\ component_refs[c] + 1 = 1 /\ component_refs[c] < MaxRefs
    BY <1>5, ComponentAssumption
  <2>2. component_refs' = [component_refs EXCEPT ![c] = 1]
    BY DEF Created
  <2> QED BY <2>1, <2>2
<1>7. Cardinality(Tokens(component_refs)) = 0 /\ Cardinality(Tokens(port_refs)) = 0
  BY <1>4, <1>5, NoTokens
<1>8. Cardinality(Tokens(component_refs')) = 1
  <2>1. Cardinality(Tokens(component_refs')) = Cardinality(Tokens(component_refs)) + 1
    BY <1>4, <1>6, OneMore
  <2> QED BY <1>7, <2>1
<1>9. releasing = {} /\ releasing' = {}
  BY <1>5 DEF TypeOK, Created
<1>10. Whole'
  BY <1>1, <1>2, <1>7, <1>8, <1>9 DEF Whole, Created
<1>11. \A d \in Clients : pc'[d] = "idle"
  BY <1>3 DEF Created, TypeOK, Threads
<1>12. \A d \in Clients : ~Sole(d)'
  BY <1>11, Order DEF Sole, Creating
<1>13. ClientPlaces' /\ Alone' /\ CreatorCounted' /\ Exists' /\ CallsHaveReferences'
  BY <1>11, <1>12 DEF ClientPlaces, Alone, CreatorCounted, Exists, CallsHaveReferences,
     HasWhatItNeeds, Sole
<1> QED BY <1>9, <1>10, <1>13 DEF LifeInv, OneReleaser

\* A creation that fails, at whatever call, ends or destroys what there is.
LEMMA LifeFails ==
  ASSUME TypeOK, LifeInv, NEW c \in Clients,
         \/ NoMemory(c) \/ CreateFailed(c) \/ VcRefuses(c) \/ NoModule(c) \/ ConstructorFailed(c)
  PROVE  LifeInv'
<1> USE DEF At, Goto, Fails, references
<1>1. PICK part \in Range(CreationOrder), l \in {"idle", "destroy"} :
        /\ At(c, part) /\ pc'[c] = l /\ \A d \in Clients \ {c} : pc'[d] = pc[d]
        /\ l = "destroy" => part \notin {"core", "memory"}
  BY Order DEF NoMemory, CreateFailed, VcRefuses, NoModule, ConstructorFailed, Constructor,
  TypeOK, Threads
<1>2. Creating(c) /\ Sole(c)
  BY <1>1 DEF Creating, Sole
<1>3. l = "destroy" => allocated
  BY <1>1, <1>2 DEF LifeInv, CreatorCounted
<1>4. allocated' = allocated /\ UNCHANGED <<component_refs, port_refs, releasing>>
  BY DEF NoMemory, CreateFailed, VcRefuses, NoModule, ConstructorFailed
<1> QED BY <1>1, <1>2, <1>3, <1>4, SoleStep

\* A destruction goes on in one thread, alone, until the component is freed or refused.
LEMMA LifeDestroys ==
  ASSUME TypeOK, LifeInv, NEW c \in Clients,
         Destroy(c) \/ Join(c) \/ VcDestroy(c) \/ VcDestroyRefused(c) \/ Free(c)
  PROVE  LifeInv'
<1> USE DEF At, Goto, references, threads
<1>1. PICK l \in {"join", "free", "idle"} :
        pc'[c] = l /\ \A d \in Clients \ {c} : pc'[d] = pc[d]
  BY DEF Destroy, Join, VcDestroy, VcDestroyRefused, Free, TypeOK, Threads
<1>2. pc[c] \in {"destroy", "join", "free"} /\ Sole(c) /\ allocated
  BY DEF Destroy, Join, VcDestroy, VcDestroyRefused, Free, Sole, LifeInv, Exists
<1>3. l # "idle" => allocated'
  BY <1>1, <1>2, Order DEF Destroy, Join, VcDestroy, VcDestroyRefused, Free, life, TypeOK, Threads
<1>4. UNCHANGED <<component_refs, port_refs, releasing>>
  BY DEF Destroy, Join, VcDestroy, VcDestroyRefused, Free
<1> QED BY <1>1, <1>2, <1>3, <1>4, SoleStep

\* All other steps of a client leave references alone.
LEMMA LifeCalls ==
  ASSUME TypeOK, LifeInv, NEW c \in Clients,
         \/ Enable(c) \/ Disable(c) \/ Resume(c) \/ Pause(c) \/ ResumeFailed(c)
         \/ EnableRefused(c) \/ DisableRefused(c) \/ End(c)
         \/ \E p \in Ports : \/ PayloadAlloc(c, p) \/ PayloadFree(c, p)
                             \/ EnablePort(c, p) \/ DisablePort(c, p) \/ Send(c, p)
         \/ DisableSkip(c) \/ DisableOff(c) \/ DisableLock(c) \/ DisableStopped(c)
         \/ DisableDrain(c) \/ DisableDrained(c) \/ DisableEnd(c)
  PROVE  LifeInv' /\ Used
<1> USE DEF At, Holder
<1>1. UNCHANGED lifeVars
  BY DEF Enable, Disable, Begin, Resume, Pause, SetPaused, ResumeFailed, EnableRefused,
     DisableRefused, Refused, End, PayloadAlloc, PayloadFree, EnablePort, DisablePort, Send,
     DisableSkip, DisableOff, DisableLock, DisableStopped, DisableDrain, DisableDrained,
     DisableEnd, lifeVars, action, threads
<1>2. \/ pc[c] = "idle" /\ (component_refs[c] > 0 \/ port_refs[c] > 0)
      \/ pc[c] \in {"resume", "pause", "disable", "lock", "stop", "drain"}
  BY DEF Enable, Disable, Begin, Resume, Pause, SetPaused, ResumeFailed, EnableRefused,
     DisableRefused, Refused, End, PayloadAlloc, PayloadFree, EnablePort, DisablePort, Send,
     DisableSkip, DisableOff, DisableLock, DisableStopped, DisableDrain, DisableDrained,
     DisableEnd
<1>3. /\ pc[c] \in {"resume", "pause"} => component_refs[c] > 0
      /\ pc[c] \in {"disable", "lock", "stop", "drain"} => component_refs[c] > 0 \/ c \in releasing
      /\ c \in releasing => pc[c] \in {"disable", "lock", "stop", "drain", "final"}
  BY DEF LifeInv, CallsHaveReferences, HasWhatItNeeds, OneReleaser
<1>4. Used
  BY <1>2, <1>3, UsedOrSole
<1>5. ASSUME NEW l \in SharedPlaces, Goto(c, l), HasWhatItNeeds(c, l),
             c \in releasing => l \in {"disable", "lock", "stop", "drain", "final"}
      PROVE  LifeInv'
  BY <1>1, <1>4, <1>5, LifeMove
<1>6. CASE pc' = pc
  <2>1. \A d \in Clients : pc'[d] = pc[d]
    BY <1>6
  <2> QED BY <1>1, <1>4, <2>1, LifeSame
<1>7. ASSUME NEW p \in Ports, PayloadAlloc(c, p) \/ PayloadFree(c, p) PROVE LifeInv'
  <2>1. ASSUME PayloadAlloc(c, p) PROVE LifeInv'
    <3>1. HasWhatItNeeds(c, "acquire") /\ "acquire" \in SharedPlaces /\ c \notin releasing
      BY <1>3, <2>1 DEF PayloadAlloc, HasWhatItNeeds, SharedPlaces
    <3> QED BY <1>5, <2>1, <3>1 DEF PayloadAlloc
  <2>2. ASSUME PayloadFree(c, p) PROVE LifeInv'
    <3>1. HasWhatItNeeds(c, "release") /\ "release" \in SharedPlaces /\ c \notin releasing
      BY <1>3, <2>2 DEF PayloadFree, HasWhatItNeeds, SharedPlaces
    <3> QED BY <1>5, <2>2, <3>1 DEF PayloadFree
  <2> QED BY <1>7, <2>1, <2>2
<1>8. ASSUME NEW l \in {"resume", "pause"}, Begin(c, l) PROVE LifeInv'
  <2>1. HasWhatItNeeds(c, l) /\ l \in SharedPlaces /\ c \notin releasing
    BY <1>3, <1>8 DEF Begin, HasWhatItNeeds, SharedPlaces
  <2> QED BY <1>5, <1>8, <2>1 DEF Begin
<1>9. ASSUME NEW p \in Ports, DisablePort(c, p) PROVE LifeInv'
  <2>1. HasWhatItNeeds(c, "disable") /\ "disable" \in SharedPlaces /\ c \notin releasing
    BY <1>3, <1>9 DEF DisablePort, HasWhatItNeeds, SharedPlaces
  <2> QED BY <1>5, <1>9, <2>1 DEF DisablePort
<1>10. ASSUME ResumeFailed(c) \/ EnableRefused(c) \/ DisableRefused(c) \/ End(c) PROVE LifeInv'
  <2>1. Goto(c, "idle") /\ pc[c] \in {"resume", "pause"}
    BY <1>10 DEF ResumeFailed, EnableRefused, DisableRefused, Refused, End
  <2>2. HasWhatItNeeds(c, "idle") /\ "idle" \in SharedPlaces /\ c \notin releasing
    BY <1>3, <2>1 DEF HasWhatItNeeds, SharedPlaces
  <2> QED BY <1>5, <2>1, <2>2
<1>11. ASSUME NEW l \in {"disable", "lock", "stop", "drain"}, Goto(c, l),
              pc[c] \in {"disable", "lock", "stop", "drain"}
       PROVE  LifeInv'
  <2>1. HasWhatItNeeds(c, l) /\ l \in SharedPlaces
    BY <1>3, <1>11 DEF HasWhatItNeeds, SharedPlaces
  <2> QED BY <1>5, <1>11, <2>1
<1>12. ASSUME DisableEnd(c) PROVE LifeInv'
  <2>1. CASE c \in releasing
    <3>1. Goto(c, "final") /\ HasWhatItNeeds(c, "final") /\ "final" \in SharedPlaces
      BY <1>12, <2>1 DEF DisableEnd, HasWhatItNeeds, SharedPlaces
    <3> QED BY <1>5, <3>1
  <2>2. CASE c \notin releasing
    <3>1. Goto(c, "idle") /\ HasWhatItNeeds(c, "idle") /\ "idle" \in SharedPlaces
      BY <1>12, <2>2 DEF DisableEnd, HasWhatItNeeds, SharedPlaces
    <3> QED BY <1>5, <2>2, <3>1
  <2> QED BY <2>1, <2>2
<1>13. DisableOff(c) \/ DisableLock(c) \/ DisableStopped(c) \/ DisableDrained(c) => LifeInv'
  BY <1>11 DEF DisableOff, DisableLock, DisableStopped, DisableDrained
<1>14. Enable(c) \/ Disable(c) => LifeInv'
  BY <1>8 DEF Enable, Disable
<1>15. \/ Resume(c) \/ Pause(c) \/ DisableSkip(c) \/ DisableDrain(c)
       \/ \E p \in Ports : EnablePort(c, p) \/ Send(c, p)
       => pc' = pc
  BY DEF Resume, Pause, SetPaused, DisableSkip, DisableDrain, EnablePort, Send, threads
<1> QED BY <1>4, <1>6, <1>7, <1>9, <1>10, <1>12, <1>13, <1>14, <1>15

\* The other threads have no part in it.
LEMMA LifeOthers ==
  ASSUME TypeOK, LifeInv, Trigger \/ ActionThread \/ Finished \/ \E p \in Ports : Complete(p)
  PROVE  LifeInv'
<1>1. UNCHANGED lifeVars
  BY DEF Trigger, ActionThread, Wake, Run, Deliver, Finished, Complete, lifeVars,
     action, threads, vars
<1>2. \A c \in Clients : pc'[c] = pc[c]
  BY ComponentAssumption DEF Trigger, ActionThread, Wake, Run, Deliver, Finished, Complete, Goto,
     TypeOK, Threads, vars, threads
<1> QED BY <1>1, <1>2, LifeSame

\* Every step keeps it, given the parts that a creation ends with.
LEMMA LifeStep ==
  ASSUME TypeOK, LifeInv, Next,
         \A c \in Clients : At(c, "list") => pf_action /\ parts = Range(CreationOrder) \ {"list"}
  PROVE  LifeInv' /\ \A c \in Clients : ReleasePort(c) => refcount_ports > 0
<1>1. ASSUME NEW c \in Clients, Client(c) PROVE LifeInv'
  BY <1>1, LifeAcquire, LifeReleaseOne, LifeReleaseLast, LifeCalls DEF Client
<1>2. ASSUME NEW c \in Clients, GoesOn(c) PROVE LifeInv'
  <2>1. ASSUME CreateControl(c) \/ CreateAtVc(c) \/ CreatePorts(c) \/ CreateInfo(c) \/ CreatePool(c)
        PROVE  LifeInv'
    <3>1. \E part \in Range(CreationOrder) \ {"core", "memory", "list"} : CreatePart(c, part)
      BY <2>1, Order DEF CreateControl, CreateAtVc, CreatePorts, CreateInfo, CreatePool
    <3> QED BY <3>1, LifeCreates
  <2>2. CoreInit(c) \/ CreateMemory(c) \/ RegisterAction(c) => LifeInv'
    BY LifeCreates
  <2>3. Created(c) => LifeInv'
    BY LifeCreated DEF Created, Take
  <2> QED BY <1>2, <2>1, <2>2, <2>3, LifeFails, LifeCalls, LifeAcquirePort, LifeReleasePort,
             LifeFinalDelayed, LifeFinalDestroy, LifeDestroys DEF GoesOn
<1> QED BY <1>1, <1>2, LifeOthers, LifeReleasePort DEF Next

-----------------------------------------------------------------------------
(* The parts that have been taken.                                         *)

\* In the states of a creation, and those that a destruction finds: if the constructor did
\* not end VideoCore has nothing of it, but for what NoModule leaves there.
PartsInv ==
  /\ pf_action <=> "action" \in parts
  /\ \A c \in Clients :
     /\ At(c, "core") => parts = {}
     /\ At(c, "memory") => parts = {"core"}
     /\ At(c, "control") => parts = {"core", "memory"}
     /\ At(c, "client") => parts = {"core", "memory", "control"}
     /\ At(c, "vc") => parts = {"core", "memory", "control", "client"}
     /\ At(c, "module") => parts = {"core", "memory", "control", "client", "vc"}
     /\ At(c, "ports") => parts = {"core", "memory", "control", "client", "vc", "module"}
     /\ At(c, "queue") => parts = {"core", "memory", "control", "client", "vc", "module",
                                   "ports"}
     /\ At(c, "action") => parts = {"core", "memory", "control", "client", "vc", "module",
                                    "ports", "queue"}
     /\ At(c, "info") => parts = Range(CreationOrder) \ {"info", "pool", "list"}
     /\ At(c, "pool") => parts = Range(CreationOrder) \ {"pool", "list"}
     /\ At(c, "list") => parts = Range(CreationOrder) \ {"list"}
     /\ At(c, "free") => ~pf_action
     /\ pc[c] \in {"destroy", "join", "free"} =>
          \/ "info" \in parts
          \/ parts \cap {"client", "vc", "module", "ports"} \subseteq
               (IF failed = "module" THEN {"vc"} ELSE {})

\* What nobody creates or destroys, and is gone, has left nothing.
GoneInv ==
  ~allocated /\ (\A c \in Clients : At(c, "idle")) =>
    /\ ~pf_action
    /\ parts \subseteq {"queue"} \cup (CASE failed = "memory" -> {"core"}
                                         [] failed = "module" -> {"vc"}
                                         [] OTHER             -> {})

\* A step that takes or gives back no part.
LEMMA PartsSame ==
  ASSUME TypeOK, PartsInv, UNCHANGED <<parts, failed, pf_action>>, NEW c \in Clients,
         \A d \in Clients \ {c} : pc'[d] = pc[d],
         \/ pc'[c] = pc[c]
         \/ pc'[c] \in SharedPlaces
         \/ pc'[c] = "destroy" /\ "info" \in parts
         \/ pc'[c] = "join" /\ pc[c] = "destroy"
         \/ pc'[c] = "free" /\ pc[c] = "destroy" /\ ~pf_action
  PROVE  PartsInv'
<1>1. (pf_action <=> "action" \in parts)'
  BY DEF PartsInv
<1>2. \A d \in Clients : pc'[d] \in {"core", "memory", "control", "client", "vc", "module", "ports",
              "queue", "action", "info", "pool", "list"} => pc'[d] = pc[d]
  BY DEF SharedPlaces
<1>3. \A d \in Clients : pc'[d] = "free" => ~pf_action
  BY DEF SharedPlaces, PartsInv, At
<1>4. \A d \in Clients : pc'[d] \in {"destroy", "join", "free"} =>
        "info" \in parts \/ pc[d] \in {"destroy", "join", "free"}
  BY DEF SharedPlaces
<1> QED BY <1>1, <1>2, <1>3, <1>4 DEF PartsInv, At

\* What a client is in exists, but for the start of a creation.
LEMMA BusyExists ==
  ASSUME TypeOK, LifeInv, NEW c \in Clients
  PROVE  /\ pc[c] \notin {"idle", "core", "memory"} => allocated
         /\ component_refs[c] > 0 \/ port_refs[c] > 0 => allocated /\ "info" \in parts
<1>1. Used => allocated /\ "info" \in parts
  BY Order DEF LifeInv, Whole
<1>2. Sole(c) /\ pc[c] \notin {"core", "memory"} => allocated
  BY DEF LifeInv, CreatorCounted, Exists, Sole
<1> QED BY <1>1, <1>2, UsedOrSole DEF At

\* Steps of a client in which the parts stay what they are.
LEMMA PartsKept ==
  ASSUME TypeOK, LifeInv, PartsInv, NEW c \in Clients,
         \/ Client(c)
         \/ Resume(c) \/ Pause(c) \/ ResumeFailed(c) \/ EnableRefused(c) \/ DisableRefused(c)
         \/ End(c) \/ DisableSkip(c) \/ DisableOff(c) \/ DisableLock(c) \/ DisableStopped(c)
         \/ DisableDrain(c) \/ DisableDrained(c) \/ DisableEnd(c)
         \/ AcquirePort(c) \/ ReleasePort(c) \/ FinalDelayed(c) \/ FinalDestroy(c) \/ Destroy(c)
  PROVE  PartsInv' /\ allocated /\ allocated'
<1> USE DEF At, Holder
<1>1. UNCHANGED <<parts, failed, pf_action, allocated>>
  BY DEF Client, ReleaseOne, ReleaseLast, AcquireComponent, Enable, Disable, Begin, Resume,
  Pause, SetPaused, ResumeFailed, EnableRefused,
     DisableRefused, Refused, End, PayloadAlloc, PayloadFree, EnablePort, DisablePort, Send,
     DisableSkip, DisableOff, DisableLock, DisableStopped, DisableDrain, DisableDrained,
     DisableEnd, AcquirePort, ReleasePort, FinalDelayed, FinalDestroy, Destroy, life, action
<1>2. \A d \in Clients \ {c} : pc'[d] = pc[d]
  BY DEF Client, ReleaseOne, ReleaseLast, AcquireComponent, Enable, Disable, Begin, Resume,
  Pause, SetPaused, ResumeFailed, EnableRefused,
     DisableRefused, Refused, End, PayloadAlloc, PayloadFree, EnablePort, DisablePort, Send,
     DisableSkip, DisableOff, DisableLock, DisableStopped, DisableDrain, DisableDrained,
     DisableEnd, AcquirePort, ReleasePort, FinalDelayed, FinalDestroy, Destroy, threads,
     Goto, TypeOK, Threads
<1>3. ASSUME ~FinalDestroy(c), ~ReleasePort(c), ~Destroy(c)
      PROVE pc'[c] = pc[c] \/ pc'[c] \in SharedPlaces
  BY <1>3 DEF Client, ReleaseOne, ReleaseLast, AcquireComponent, Enable, Disable, Begin, Resume,
     Pause, SetPaused, ResumeFailed, EnableRefused,
     DisableRefused, Refused, End, PayloadAlloc, PayloadFree, EnablePort, DisablePort, Send,
     DisableSkip, DisableOff, DisableLock, DisableStopped, DisableDrain, DisableDrained,
     DisableEnd, AcquirePort, FinalDelayed, threads,
     Goto, TypeOK, Threads, SharedPlaces
<1>4. FinalDestroy(c) \/ ReleasePort(c) => pc'[c] \in {"idle", "destroy"} /\ Used
  BY UsedOrSole DEF FinalDestroy, ReleasePort, Goto, TypeOK, Threads, LifeInv,
  CallsHaveReferences, HasWhatItNeeds
<1>5. Used => "info" \in parts
  BY Order DEF LifeInv, Whole
<1>6. Destroy(c) => pc[c] = "destroy" /\ (pc'[c] = "join" \/ (pc'[c] = "free" /\ ~pf_action))
  BY DEF Destroy, Goto, TypeOK, Threads
<1>7. PartsInv'
  <2>1. \/ pc'[c] = pc[c] \/ pc'[c] \in SharedPlaces
        \/ pc'[c] = "destroy" /\ "info" \in parts
        \/ pc'[c] = "join" /\ pc[c] = "destroy"
        \/ pc'[c] = "free" /\ pc[c] = "destroy" /\ ~pf_action
    <3>1. "idle" \in SharedPlaces
      BY DEF SharedPlaces
    <3> QED BY <1>3, <1>4, <1>5, <1>6, <3>1
  <2> QED BY <1>1, <1>2, <2>1, PartsSame
<1>8. allocated
  <2>1. \/ pc[c] \notin {"idle", "core", "memory"}
        \/ component_refs[c] > 0 \/ port_refs[c] > 0
    BY DEF Client, ReleaseOne, ReleaseLast, AcquireComponent, Enable, Disable, Begin, Resume,
    Pause, SetPaused, ResumeFailed, EnableRefused,
     DisableRefused, Refused, End, PayloadAlloc, PayloadFree, EnablePort, DisablePort, Send,
     DisableSkip, DisableOff, DisableLock, DisableStopped, DisableDrain, DisableDrained,
     DisableEnd, AcquirePort, ReleasePort, FinalDelayed, FinalDestroy, Destroy
  <2> QED BY <2>1, BusyExists
<1> QED BY <1>1, <1>7, <1>8

\* A creation goes on to the next part.
LEMMA PartsTaken ==
  ASSUME TypeOK, LifeInv, PartsInv, NEW c \in Clients,
         \/ CoreInit(c) \/ CreateMemory(c) \/ RegisterAction(c) \/ Created(c)
         \/ \E part \in Range(CreationOrder) \ {"core", "memory", "action", "list"} :
              CreatePart(c, part)
  PROVE  PartsInv' /\ (pc'[c] # "idle" \/ allocated')
<1> USE DEF At, Goto, Take, references
<1> DEFINE Taken(part) == /\ pc[c] = part /\ parts' = parts \cup {part} /\ failed' = failed
                          /\ pc'[c] = IF part = "list" THEN "idle" ELSE Successor(part)
                          /\ \A d \in Clients \ {c} : pc'[d] = pc[d]
                          /\ pf_action' <=> pf_action \/ part = "action"
                          /\ part \notin {"core", "memory"} => allocated' = allocated
<1>1. PICK part \in Range(CreationOrder) : Taken(part)
  <2>1. CoreInit(c) => Taken("core")
    BY DEF CoreInit, TypeOK, Threads
  <2>2. CreateMemory(c) => Taken("memory")
    BY DEF CreateMemory, TypeOK, Threads
  <2>3. RegisterAction(c) => Taken("action")
    BY ComponentAssumption DEF RegisterAction, TypeOK, Threads
  <2>4. Created(c) => Taken("list")
    BY DEF Created, TypeOK, Threads
  <2>5. \A part \in Range(CreationOrder) \ {"core", "memory", "action", "list"} :
          CreatePart(c, part) => Taken(part)
    BY DEF CreatePart, TypeOK, Threads
  <2> HIDE DEF Taken
  <2> QED BY <2>1, <2>2, <2>3, <2>4, <2>5, Order
<1>2. \A d \in Clients \ {c} : pc'[d] = "idle"
  BY <1>1 DEF LifeInv, Alone, Sole, Creating
<1>3. pc'[c] = "idle" => allocated'
  BY <1>1, Order, Successors, BusyExists
<1>4. parts \subseteq Range(CreationOrder)
  BY DEF TypeOK
<1>5. PartsInv'
  <2>1. CASE part = "core"
    BY <1>1, <1>2, <1>4, <2>1, Order, Successors DEF PartsInv
  <2>2. CASE part = "memory"
    BY <1>1, <1>2, <1>4, <2>2, Order, Successors DEF PartsInv
  <2>3. CASE part = "control"
    BY <1>1, <1>2, <1>4, <2>3, Order, Successors DEF PartsInv
  <2>4. CASE part = "client"
    BY <1>1, <1>2, <1>4, <2>4, Order, Successors DEF PartsInv
  <2>5. CASE part = "vc"
    BY <1>1, <1>2, <1>4, <2>5, Order, Successors DEF PartsInv
  <2>6. CASE part = "module"
    BY <1>1, <1>2, <1>4, <2>6, Order, Successors DEF PartsInv
  <2>7. CASE part = "ports"
    BY <1>1, <1>2, <1>4, <2>7, Order, Successors DEF PartsInv
  <2>8. CASE part = "queue"
    BY <1>1, <1>2, <1>4, <2>8, Order, Successors DEF PartsInv
  <2>9. CASE part = "action"
    BY <1>1, <1>2, <1>4, <2>9, Order, Successors DEF PartsInv
  <2>10. CASE part = "info"
    BY <1>1, <1>2, <1>4, <2>10, Order, Successors DEF PartsInv
  <2>11. CASE part = "pool"
    BY <1>1, <1>2, <1>4, <2>11, Order, Successors DEF PartsInv
  <2>12. CASE part = "list"
    BY <1>1, <1>2, <1>4, <2>12, Order, Successors DEF PartsInv
  <2> QED BY <2>1, <2>2, <2>3, <2>4, <2>5, <2>6, <2>7, <2>8, <2>9, <2>10, <2>11, <2>12, Order
<1> QED BY <1>1, <1>3, <1>5

\* A creation fails, or a destruction goes on.
LEMMA PartsGiven ==
  ASSUME TypeOK, LifeInv, PartsInv, NEW c \in Clients,
         \/ NoMemory(c) \/ CreateFailed(c) \/ VcRefuses(c) \/ NoModule(c) \/ ConstructorFailed(c)
         \/ Join(c) \/ VcDestroy(c) \/ VcDestroyRefused(c) \/ Free(c)
  PROVE  /\ PartsInv'
         /\ allocated' \/ ~(\A d \in Clients : pc'[d] = "idle") \/ NoMemory(c) \/ Free(c)
<1> USE DEF At, Goto, Fails, references, threads
<1> DEFINE Parts == {"client", "vc", "module", "ports"}
           Allowed == IF failed = "module" THEN {"vc"} ELSE {}
<1>1. Sole(c)
  BY Order DEF Sole, Creating, NoMemory, CreateFailed, VcRefuses, NoModule, ConstructorFailed,
     Constructor, Join, VcDestroy, VcDestroyRefused, Free
<1>2. \A d \in Clients \ {c} : pc[d] = "idle"
  BY <1>1 DEF LifeInv, Alone
<1>3. \A d \in Clients \ {c} : pc'[d] = "idle"
  BY <1>2 DEF NoMemory, CreateFailed, VcRefuses, NoModule, ConstructorFailed, Constructor, Join,
     VcDestroy,
     VcDestroyRefused, Free, TypeOK, Threads
<1>4. ASSUME pf_action' <=> "action" \in parts', pc'[c] \in {"idle", "destroy"},
             pc'[c] = "destroy" => "info" \in parts' \/ parts' \cap Parts \subseteq Allowed'
      PROVE  PartsInv'
  BY <1>3, <1>4 DEF PartsInv
<1>5. ASSUME NoMemory(c) PROVE PartsInv'
  <2>1. /\ pf_action' <=> "action" \in parts'
        /\ pc'[c] = "idle"
    BY <1>5 DEF NoMemory, PartsInv, action, TypeOK, Threads
  <2> QED BY <1>4, <2>1
<1>6. ASSUME CreateFailed(c) PROVE PartsInv'
  <2>1. PICK part \in {"control", "client", "pool", "list"} : At(c, part)
    BY <1>6 DEF CreateFailed
  <2>2. parts' = parts /\ failed' = part /\ pc'[c] = "destroy" /\ UNCHANGED pf_action
    BY <1>6, <2>1 DEF CreateFailed, action, TypeOK, Threads
  <2>3. "info" \in parts \/ parts \cap Parts = {}
    BY <2>1, Order DEF PartsInv
  <2>4. pf_action <=> "action" \in parts
    BY DEF PartsInv
  <2> QED BY <1>4, <2>2, <2>3, <2>4
<1>7. ASSUME VcRefuses(c) PROVE PartsInv'
  <2>1. parts' = {"core", "memory", "control"} /\ pc'[c] = "destroy" /\ UNCHANGED pf_action
    BY <1>7 DEF VcRefuses, PartsInv, action, TypeOK, Threads
  <2>2. ~pf_action
    BY <1>7 DEF VcRefuses, PartsInv
  <2> QED BY <1>4, <2>1, <2>2
<1>8. ASSUME NoModule(c) PROVE PartsInv'
  <2>1. /\ parts' = {"core", "memory", "control", "vc"} /\ pc'[c] = "destroy"
        /\ failed' = "module" /\ UNCHANGED pf_action
    BY <1>8 DEF NoModule, PartsInv, action, TypeOK, Threads
  <2>2. ~pf_action
    BY <1>8 DEF NoModule, PartsInv
  <2> QED BY <1>4, <2>1, <2>2
<1>9. ASSUME ConstructorFailed(c) PROVE PartsInv'
  <2>1. parts' = VcDestroyed /\ pc'[c] = "destroy" /\ UNCHANGED pf_action
    BY <1>9 DEF ConstructorFailed, action, TypeOK, Threads
  <2>2. pf_action' <=> "action" \in parts'
    BY <2>1 DEF PartsInv, VcDestroyed
  <2>3. parts' \cap Parts = {}
    BY <2>1 DEF VcDestroyed
  <2> QED BY <1>4, <2>1, <2>2, <2>3
<1>10. ASSUME Join(c) PROVE PartsInv'
  <2>1. /\ parts' = parts \ {"action"} /\ ~pf_action' /\ failed' = failed
        /\ pc'[c] = "free" /\ pc[c] = "join"
    BY <1>10 DEF Join, TypeOK, Threads
  <2>2. "info" \in parts \/ parts \cap Parts \subseteq Allowed
    BY <2>1 DEF PartsInv
  <2>3. "info" \in parts' \/ parts' \cap Parts \subseteq Allowed'
    BY <2>1, <2>2
  <2> QED BY <1>3, <2>1, <2>3 DEF PartsInv
<1>11. ASSUME VcDestroy(c) PROVE PartsInv'
  <2>1. parts' = VcDestroyed /\ pc'[c] = "free" /\ UNCHANGED pf_action /\ ~pf_action
    BY <1>11 DEF VcDestroy, action, PartsInv
  <2>2. "action" \notin parts'
    BY <2>1 DEF PartsInv, VcDestroyed
  <2>3. parts' \cap Parts = {}
    BY <2>1 DEF VcDestroyed
  <2> QED BY <1>3, <2>1, <2>2, <2>3 DEF PartsInv
<1>12. ASSUME VcDestroyRefused(c) \/ Free(c) PROVE PartsInv'
  <2>1. pc'[c] = "idle" /\ UNCHANGED pf_action /\ ("action" \in parts' <=> "action" \in parts)
    BY <1>12 DEF VcDestroyRefused, Free, CoreDeinit, action, TypeOK, Threads
  <2>2. pf_action <=> "action" \in parts
    BY DEF PartsInv
  <2> QED BY <1>4, <2>1, <2>2
<1>13. allocated' \/ pc'[c] # "idle" \/ NoMemory(c) \/ Free(c)
  <2>1. Join(c) \/ VcDestroy(c) \/ VcDestroyRefused(c) => allocated' = allocated /\ allocated
    BY DEF Join, VcDestroy, VcDestroyRefused, LifeInv, Exists
  <2>2. CreateFailed(c) \/ VcRefuses(c) \/ NoModule(c) \/ ConstructorFailed(c) => pc'[c] = "destroy"
    BY DEF CreateFailed, VcRefuses, NoModule, ConstructorFailed, TypeOK, Threads
  <2> QED BY <2>1, <2>2
<1> QED BY <1>5, <1>6, <1>7, <1>8, <1>9, <1>10, <1>11, <1>12, <1>13

\* Every step keeps account of the parts that are taken.
LEMMA PartsStep ==
  ASSUME TypeOK, LifeInv, PartsInv, GoneInv, Next
  PROVE  PartsInv' /\ GoneInv'
<1>1. ASSUME NEW c \in Clients, Client(c) PROVE PartsInv' /\ GoneInv'
  BY <1>1, PartsKept DEF GoneInv
<1>2. ASSUME NEW c \in Clients, GoesOn(c)
      PROVE  /\ PartsInv'
             /\ \/ allocated' \/ ~(\A d \in Clients : pc'[d] = "idle")
                \/ NoMemory(c) \/ Free(c)
  <2>1. ASSUME CreateControl(c) \/ CreateAtVc(c) \/ CreatePorts(c) \/ CreateInfo(c) \/ CreatePool(c)
        PROVE  PartsInv' /\ (pc'[c] # "idle" \/ allocated')
    <3>1. \E part \in Range(CreationOrder) \ {"core", "memory", "action", "list"} : CreatePart(c, part)
      BY <2>1, Order DEF CreateControl, CreateAtVc, CreatePorts, CreateInfo, CreatePool
    <3> QED BY <3>1, PartsTaken
  <2>2. CoreInit(c) \/ CreateMemory(c) \/ RegisterAction(c) \/ Created(c)
        => PartsInv' /\ (pc'[c] # "idle" \/ allocated')
    BY PartsTaken
  <2> QED BY <1>2, <2>1, <2>2, PartsKept, PartsGiven DEF GoesOn
<1>3. ASSUME NEW c \in Clients, NoMemory(c) PROVE GoneInv'
  BY <1>3 DEF NoMemory, Fails, PartsInv, GoneInv, action, At
<1>4. ASSUME NEW c \in Clients, Free(c) PROVE GoneInv'
  <2>1. /\ "info" \notin parts /\ parts \cap {"client", "vc", "module", "ports"} \subseteq
                (IF failed = "module" THEN {"vc"} ELSE {})
        /\ ~pf_action /\ "action" \notin parts
    BY <1>4 DEF Free, PartsInv, At
  <2>2. parts \subseteq Range(CreationOrder)
    BY DEF TypeOK
  <2>3. parts' \subseteq {"queue"} \cup (IF failed = "module" THEN {"vc"} ELSE {})
    BY <1>4, <2>1, <2>2, Order DEF Free, CoreDeinit
  <2>4. failed' = failed /\ ~pf_action'
    BY <1>4, <2>1 DEF Free, action
  <2> QED BY <2>3, <2>4 DEF GoneInv
<1>5. ASSUME Trigger \/ ActionThread \/ Finished \/ \E p \in Ports : Complete(p)
      PROVE  PartsInv' /\ GoneInv'
  <2>1. UNCHANGED <<allocated, parts, failed, pf_action>>
    BY <1>5 DEF Trigger, ActionThread, Wake, Run, Deliver, Finished, Complete, life, action, vars
  <2>2. \A c \in Clients : pc'[c] = pc[c]
    BY <1>5, ComponentAssumption DEF Trigger, ActionThread, Wake, Run, Deliver, Finished,
       Complete, Goto,
     TypeOK, Threads, vars, threads
  <2>3. GoneInv'
    BY <2>1, <2>2 DEF GoneInv, At
  <2>4. PartsInv'
    BY <2>1, <2>2 DEF PartsInv, At
  <2> QED BY <2>3, <2>4
<1>6. ASSUME NEW c \in Clients, GoesOn(c) PROVE PartsInv' /\ GoneInv'
  BY <1>2, <1>3, <1>4, <1>6 DEF GoneInv, At
<1> QED BY <1>1, <1>5, <1>6 DEF Next

-----------------------------------------------------------------------------
(* The ports, and the buffers in the component.                            *)

\* A thread is disabling the port, and has come to one of the places.
InDisable(p, places) == \E c \in Clients : pc[c] \in places /\ FirstLeft(c) = p

\* A port that is being disabled is disabled, and those that are released are finished.
LeftToDisable ==
  \A c \in Clients :
    /\ pc[c] \in {"lock", "stop", "drain"} => left[c] # <<>> /\ ~port_enabled[FirstLeft(c)]
    /\ At(c, "final") => left[c] = <<>>

\* A disabled port has buffers in the component only while who disables it waits for them.
DisabledIsEmpty ==
  \A p \in Ports : inside[p] > 0 => port_enabled[p] \/ InDisable(p, {"lock", "stop"})

\* Queued buffers are of ports that are enabled, or whose disable will drain the queue.
QueuedAreServed ==
  \A p \in Range(callback_queue) :
    port_enabled[p] \/ InDisable(p, {"lock", "stop", "drain"})

\* The transport thread is not busy after the last port is disabled.
TriggerForSomePort ==
  At(Transport, "trigger") =>
    \E p \in Ports : port_enabled[p] \/ InDisable(p, {"lock", "stop"})

\* Without references to the component only those ports are enabled that the releaser has
\* yet to disable.
EnabledIsReferenced ==
  (\A c \in Clients : component_refs[c] = 0) =>
    \A p \in Ports : port_enabled[p] => \E c \in releasing : p \in Range(left[c])

PortsInv ==
  /\ LeftToDisable /\ DisabledIsEmpty /\ QueuedAreServed /\ TriggerForSomePort
  /\ EnabledIsReferenced

\* What a sequence holds is its head and what its tail holds.
LEMMA RangeOfTail ==
  ASSUME NEW S, NEW s \in Seq(S), s # <<>>
  PROVE  Range(s) = {Head(s)} \cup Range(Tail(s))
<1>1. /\ DOMAIN s = 1 .. Len(s) /\ Len(s) \in Nat \ {0} /\ Head(s) = s[1]
      /\ DOMAIN Tail(s) = 1 .. (Len(s) - 1) /\ \A i \in 1 .. (Len(s) - 1) : Tail(s)[i] = s[i + 1]
  OBVIOUS
<1>2. \A i \in 2 .. Len(s) : i - 1 \in 1 .. (Len(s) - 1) /\ s[i] = Tail(s)[i - 1]
  BY <1>1
<1>3. ASSUME NEW i \in 1 .. Len(s) PROVE s[i] \in {Head(s)} \cup Range(Tail(s))
  <2>1. i = 1 \/ i \in 2 .. Len(s)
    BY <1>1
  <2> QED BY <1>1, <1>2, <2>1 DEF Range
<1>4. ASSUME NEW i \in 1 .. (Len(s) - 1) PROVE Tail(s)[i] \in Range(s)
  <2>1. i + 1 \in 1 .. Len(s)
    BY <1>1
  <2> QED BY <1>1, <2>1 DEF Range
<1>5. 1 \in 1 .. Len(s)
  BY <1>1
<1> QED BY <1>1, <1>3, <1>4, <1>5 DEF Range

\* Appending adds one element to what a sequence holds.
LEMMA RangeOfAppend ==
  ASSUME NEW S, NEW s \in Seq(S), NEW x \in S
  PROVE  Range(Append(s, x)) = Range(s) \cup {x}
<1>1. /\ DOMAIN s = 1 .. Len(s) /\ Len(s) \in Nat
      /\ DOMAIN Append(s, x) = 1 .. (Len(s) + 1)
      /\ \A i \in 1 .. Len(s) : Append(s, x)[i] = s[i]
      /\ Append(s, x)[Len(s) + 1] = x
  OBVIOUS
<1> QED BY <1>1 DEF Range

\* The ports that are being disabled are the same when only threads move that disable none.
LEMMA InDisableSame ==
  ASSUME NEW c \in Clients,
         \A d \in Clients \ {c} : pc'[d] = pc[d] /\ left'[d] = left[d],
         pc[c] \notin {"lock", "stop", "drain"}, pc'[c] \notin {"lock", "stop", "drain"}
  PROVE  \A p : /\ InDisable(p, {"lock", "stop"})' <=> InDisable(p, {"lock", "stop"})
                /\ InDisable(p, {"lock", "stop", "drain"})' <=> InDisable(p, {"lock", "stop", "drain"})
<1>1. \A d \in Clients \ {c} : FirstLeft(d)' = FirstLeft(d)
  BY DEF FirstLeft
<1> QED BY <1>1 DEF InDisable

\* Steps which leave the ports alone, and disable none.
LEMMA PortsSame ==
  ASSUME TypeOK, PortsInv, NEW c \in Clients,
         UNCHANGED <<port_enabled, inside, callback_queue>>, pc'[Transport] = pc[Transport],
         \A d \in Clients \ {c} : pc'[d] = pc[d] /\ left'[d] = left[d],
         pc[c] \notin {"lock", "stop", "drain"}, pc'[c] \notin {"lock", "stop", "drain"},
         pc'[c] = "final" => left'[c] = <<>>,
         EnabledIsReferenced'
  PROVE  PortsInv'
<1>1. \A p : /\ InDisable(p, {"lock", "stop"})' <=> InDisable(p, {"lock", "stop"})
             /\ InDisable(p, {"lock", "stop", "drain"})' <=> InDisable(p, {"lock", "stop", "drain"})
  BY InDisableSame
<1>2. LeftToDisable'
  BY DEF PortsInv, LeftToDisable, At, FirstLeft
<1>3. DisabledIsEmpty' /\ QueuedAreServed' /\ TriggerForSomePort'
  BY <1>1 DEF PortsInv, DisabledIsEmpty, QueuedAreServed, TriggerForSomePort, At
<1> QED BY <1>2, <1>3 DEF PortsInv

\* A step that changes neither ports nor references.
LEMMA ReferencedSame ==
  ASSUME EnabledIsReferenced, UNCHANGED <<port_enabled, component_refs, releasing, left>>
  PROVE  EnabledIsReferenced'
  BY DEF EnabledIsReferenced

\* Calls that have to do with references or with the component itself.
LEMMA PortsCalls ==
  ASSUME TypeOK, LifeInv, PortsInv, NEW c \in Clients,
         \/ \E p \in Ports : PayloadAlloc(c, p) \/ PayloadFree(c, p)
         \/ AcquirePort(c) \/ ReleasePort(c) \/ DisableEnd(c)
         \/ Destroy(c) \/ Join(c) \/ VcDestroy(c) \/ VcDestroyRefused(c) \/ Free(c)
         \/ NoMemory(c) \/ CreateFailed(c) \/ VcRefuses(c) \/ NoModule(c) \/ ConstructorFailed(c)
         \/ CoreInit(c) \/ CreateMemory(c) \/ RegisterAction(c)
         \/ \E part \in Range(CreationOrder) \ {"core", "memory", "action", "list"} :
              CreatePart(c, part)
  PROVE  PortsInv'
<1> USE DEF At, Goto, Take, Fails, references, ports, threads
<1>1. UNCHANGED <<port_enabled, component_refs, releasing, left, inside, callback_queue>>
  BY DEF PayloadAlloc, PayloadFree, AcquirePort, ReleasePort, DisableEnd, Destroy, Join,
  VcDestroy,
     VcDestroyRefused, Free, NoMemory, CreateFailed, VcRefuses, NoModule, ConstructorFailed,
     CoreInit, CreateMemory, RegisterAction, CreatePart
<1> DEFINE OthersStay ==
             /\ pc'[Transport] = pc[Transport] /\ \A d \in Clients \ {c} : pc'[d] = pc[d]
             /\ pc[c] \notin {"lock", "stop", "drain"}
             /\ pc'[c] \notin {"lock", "stop", "drain"}
<1>2. OthersStay
  <2>1. Transport # Action /\ Transport \notin Clients /\ Action \notin Clients
    BY ComponentAssumption
  <2>2. \A part \in Range(CreationOrder) \ {"list"} : Successor(part) \notin {"lock", "stop", "drain"}
    BY Order, Successors
  <2>3. "core" \in Range(CreationOrder) \ {"list"} /\ "memory" \in Range(CreationOrder) \ {"list"}
          /\ "action" \in Range(CreationOrder) \ {"list"}
    BY Order
  <2>4. ASSUME CoreInit(c) \/ CreateMemory(c) \/ RegisterAction(c)
               \/ \E part \in Range(CreationOrder) \ {"core", "memory", "action", "list"} :
                     CreatePart(c, part)
        PROVE OthersStay
    <3>1. PICK part \in Range(CreationOrder) \ {"list"} : At(c, part) /\ pc'[c] = Successor(part)
            /\ pc'[Transport] = pc[Transport] /\ \A d \in Clients \ {c} : pc'[d] = pc[d]
      BY <2>1, <2>3, <2>4 DEF CoreInit, CreateMemory, RegisterAction, CreatePart, TypeOK, Threads
    <3> QED BY <2>2, <3>1, Order
  <2>5. ASSUME NoMemory(c) \/ CreateFailed(c) \/ VcRefuses(c) \/ NoModule(c) \/ ConstructorFailed(c)
        PROVE OthersStay
    BY <2>1, <2>5 DEF NoMemory, CreateFailed, VcRefuses, NoModule, ConstructorFailed,
       Constructor, TypeOK, Threads
  <2>6. ASSUME \/ \E p \in Ports : PayloadAlloc(c, p) \/ PayloadFree(c, p)
         \/ AcquirePort(c) \/ ReleasePort(c) \/ DisableEnd(c)
         \/ Destroy(c) \/ Join(c) \/ VcDestroy(c) \/ VcDestroyRefused(c) \/ Free(c)
        PROVE OthersStay
    BY <2>1, <2>6 DEF PayloadAlloc, PayloadFree, AcquirePort, ReleasePort, DisableEnd, Destroy,
       Join, VcDestroy,
     VcDestroyRefused, Free, TypeOK, Threads
  <2> QED BY <2>4, <2>5, <2>6
<1>3. pc'[c] = "final" => left'[c] = <<>>
  <2>1. DisableEnd(c) => left[c] = <<>>
    BY DEF DisableEnd
  <2>2. DisableEnd(c) \/ pc'[c] # "final"
    BY Order, Successors DEF PayloadAlloc, PayloadFree, AcquirePort, ReleasePort, DisableEnd,
    Destroy, Join, VcDestroy,
     VcDestroyRefused, Free, NoMemory, CreateFailed, VcRefuses, NoModule, ConstructorFailed,
     CoreInit, CreateMemory, RegisterAction, CreatePart, TypeOK, Threads
  <2> QED BY <1>1, <2>1, <2>2
<1>4. EnabledIsReferenced'
  BY <1>1, ReferencedSame DEF PortsInv
<1> QED BY <1>1, <1>2, <1>3, <1>4, PortsSame

\* Calls after which the thread has a reference to the component.
LEMMA PortsHeld ==
  ASSUME TypeOK, LifeInv, PortsInv, NEW c \in Clients,
         \/ \E d \in Clients : AcquireComponent(c, d)
         \/ Created(c) \/ Enable(c) \/ Disable(c)
         \/ \E p \in Ports : DisablePort(c, p)
         \/ Resume(c) \/ Pause(c) \/ ResumeFailed(c) \/ EnableRefused(c) \/ DisableRefused(c) \/ End(c)
  PROVE  PortsInv'
<1> USE DEF At, Goto, Holder, Take, references, ports, threads
<1>1. UNCHANGED <<port_enabled, inside, callback_queue>>
  BY DEF AcquireComponent, Created, Enable, Disable, Begin, DisablePort, Resume, Pause, SetPaused,
     ResumeFailed, EnableRefused, DisableRefused, Refused, End
<1>2. /\ pc'[Transport] = pc[Transport]
      /\ \A d \in Clients \ {c} : pc'[d] = pc[d] /\ left'[d] = left[d]
      /\ pc[c] \in {"list", "idle", "resume", "pause"}
      /\ pc'[c] \in {"idle", "resume", "pause", "disable"}
  BY ComponentAssumption DEF AcquireComponent, Created, Enable, Disable, Begin, DisablePort,
  Resume, Pause, SetPaused,
     ResumeFailed, EnableRefused, DisableRefused, Refused, End, DropFirst, TypeOK, Threads
<1>3. component_refs'[c] > 0
  <2>1. \A d \in Clients : component_refs[d] \in 0 .. MaxRefs
    BY DEF TypeOK
  <2>2. pc[c] \in {"resume", "pause"} => component_refs[c] > 0
    BY DEF LifeInv, CallsHaveReferences, HasWhatItNeeds
  <2>3. ASSUME NEW d \in Clients, AcquireComponent(c, d) PROVE component_refs'[c] > 0
    <3>1. component_refs'[c] \in {component_refs[c], component_refs[c] + 1}
      BY <2>3 DEF AcquireComponent, TypeOK
    <3> QED BY <2>1, <2>3, <3>1 DEF AcquireComponent
  <2>4. Created(c) => component_refs'[c] = 1
    BY DEF Created, TypeOK
  <2>5. ~Created(c) /\ ~(\E d \in Clients : AcquireComponent(c, d)) =>
           component_refs' = component_refs /\ component_refs[c] > 0
    BY <2>2 DEF Enable, Disable, Begin, DisablePort, Resume, Pause, SetPaused,
     ResumeFailed, EnableRefused, DisableRefused, Refused, End
  <2>6. Created(c) => component_refs'[c] > 0
    BY <2>4
  <2>7. ~Created(c) /\ ~(\E d \in Clients : AcquireComponent(c, d)) => component_refs'[c] > 0
    BY <2>5
  <2> QED BY <2>3, <2>6, <2>7
<1>4. EnabledIsReferenced'
  BY <1>3 DEF EnabledIsReferenced
<1> QED BY <1>1, <1>2, <1>4, PortsSame

\* A reference is dropped: there are others, or the ports will be disabled.
LEMMA PortsRelease ==
  ASSUME TypeOK, LifeInv, PortsInv, NEW c \in Clients,
         ReleaseOne(c) \/ ReleaseLast(c) \/ FinalDelayed(c) \/ FinalDestroy(c)
  PROVE  PortsInv'
<1> USE DEF At, Goto, Holder, references, ports, threads
<1>1. UNCHANGED <<port_enabled, inside, callback_queue>>
  BY DEF ReleaseOne, ReleaseLast, FinalDelayed, FinalDestroy
<1>2. /\ pc'[Transport] = pc[Transport]
      /\ \A d \in Clients \ {c} : pc'[d] = pc[d] /\ left'[d] = left[d]
      /\ pc[c] \in {"idle", "final"}
      /\ pc'[c] \in {"idle", "disable", "destroy"}
  BY ComponentAssumption DEF ReleaseOne, ReleaseLast, FinalDelayed, FinalDestroy, TypeOK, Threads
<1>3. ASSUME ReleaseOne(c) PROVE EnabledIsReferenced'
  <2>1. Used /\ component_refs[c] > 0 /\ component_refs \in [Clients -> 0 .. MaxRefs]
    BY <1>3, UsedOrSole, Zenon DEF ReleaseOne, TypeOK
  <2>2. Cardinality(Tokens(component_refs')) = Cardinality(Tokens(component_refs)) - 1
        /\ component_refs' \in [Clients -> 0 .. MaxRefs]
    BY <1>3, <2>1, OneLess DEF ReleaseOne
  <2>3. refcount = Cardinality(Tokens(component_refs)) /\ refcount > 1 /\ refcount \in Nat
    BY <1>3, <2>1 DEF LifeInv, Whole, ReleaseOne, TypeOK
  <2>4. Cardinality(Tokens(component_refs')) # 0
    BY <2>2, <2>3
  <2>5. ~(\A d \in Clients : component_refs'[d] = 0)
    BY <2>2, <2>4, NoTokens
  <2> QED BY <2>5 DEF EnabledIsReferenced
<1>4. ASSUME ReleaseLast(c) PROVE EnabledIsReferenced'
  <2>1. c \in releasing' /\ left'[c] = PortArray
    BY <1>4 DEF ReleaseLast, TypeOK
  <2>2. \A p \in Ports : p \in Range(PortArray)
    BY DEF Ports, ToSet, Range
  <2> QED BY <2>1, <2>2 DEF EnabledIsReferenced
<1>5. ASSUME FinalDelayed(c) \/ FinalDestroy(c) PROVE EnabledIsReferenced'
  <2>1. c \in releasing /\ left[c] = <<>>
    BY <1>5 DEF FinalDelayed, FinalDestroy, LifeInv, CallsHaveReferences, HasWhatItNeeds,
       PortsInv, LeftToDisable
  <2>2. releasing = {c} /\ \A d \in Clients : component_refs[d] = 0
    BY <2>1 DEF LifeInv, OneReleaser
  <2>3. \A p \in Ports : ~port_enabled[p]
    BY <2>1, <2>2 DEF PortsInv, EnabledIsReferenced, Range
  <2> QED BY <1>1, <2>3 DEF EnabledIsReferenced
<1> QED BY <1>1, <1>2, <1>3, <1>4, <1>5, PortsSame

\* A port is enabled, or takes a buffer.
LEMMA PortsUsed ==
  ASSUME TypeOK, LifeInv, PortsInv, NEW c \in Clients, NEW p \in Ports,
         EnablePort(c, p) \/ Send(c, p)
  PROVE  PortsInv'
<1> USE DEF At, Goto, Holder, references, ports, threads
<1>1. /\ UNCHANGED <<pc, left, callback_queue, component_refs>> /\ component_refs[c] > 0
      /\ \A q \in Ports : port_enabled[q] => port_enabled'[q]
      /\ \A q \in Ports : port_enabled'[q] => port_enabled[q] \/ (q = p /\ Unlocked(p))
      /\ \A q \in Ports : inside'[q] = inside[q] \/ (q = p /\ port_enabled'[p])
  BY DEF EnablePort, Send, Accepts, TypeOK
<1>2. EnabledIsReferenced'
  BY <1>1 DEF EnabledIsReferenced
<1>3. \A q, places : InDisable(q, places)' <=> InDisable(q, places)
  BY <1>1 DEF InDisable, FirstLeft
<1>4. ASSUME NEW d \in Clients, pc[d] \in {"lock", "stop", "drain"}
      PROVE  left[d] # <<>> /\ ~port_enabled'[FirstLeft(d)]
  <2>1. left[d] # <<>> /\ ~port_enabled[FirstLeft(d)] /\ left[d] \in Seq(Ports)
    BY <1>4 DEF PortsInv, LeftToDisable, TypeOK
  <2>2. FirstLeft(d) \in Ports
    BY <2>1 DEF FirstLeft
  <2>3. FirstLeft(d) # p \/ ~Unlocked(p)
    BY <1>4 DEF Unlocked
  <2> QED BY <1>1, <2>1, <2>2, <2>3
<1>5. LeftToDisable'
  BY <1>1, <1>4 DEF PortsInv, LeftToDisable, FirstLeft
<1>6. DisabledIsEmpty'
  BY <1>1, <1>3 DEF PortsInv, DisabledIsEmpty
<1>7. Range(callback_queue) \subseteq Ports
  BY DEF TypeOK, Range
<1>8. QueuedAreServed' /\ TriggerForSomePort'
  BY <1>1, <1>3, <1>7 DEF PortsInv, QueuedAreServed, TriggerForSomePort
<1> QED BY <1>2, <1>5, <1>6, <1>8 DEF PortsInv

\* The first of the ports that are left is disabled: what is left has all the others.
LEMMA ReferencedDropped ==
  ASSUME TypeOK, EnabledIsReferenced, NEW c \in Clients, left[c] # <<>>,
         ~port_enabled[FirstLeft(c)], DropFirst(c),
         UNCHANGED <<port_enabled, component_refs, releasing>>
  PROVE  EnabledIsReferenced'
<1>1. left[c] \in Seq(Ports) /\ left'[c] = Tail(left[c])
      /\ \A d \in Clients \ {c} : left'[d] = left[d]
  BY DEF TypeOK, DropFirst
<1>2. Range(left[c]) = {FirstLeft(c)} \cup Range(Tail(left[c]))
  BY <1>1, RangeOfTail DEF FirstLeft
<1>3. \A d \in releasing, p \in Ports : port_enabled[p] /\ p \in Range(left[d]) => p \in Range(left'[d])
  BY <1>1, <1>2 DEF TypeOK
<1> QED BY <1>3 DEF EnabledIsReferenced

\* A client goes on with the disabling of its next port.
LEMMA PortsSkip ==
  ASSUME TypeOK, PortsInv, NEW c \in Clients, DisableSkip(c)
  PROVE  PortsInv'
<1>1. EnabledIsReferenced'
  BY ReferencedDropped DEF DisableSkip, PortsInv, references, ports, threads
<1>2. /\ UNCHANGED <<port_enabled, inside, callback_queue, pc>>
      /\ \A d \in Clients \ {c} : left'[d] = left[d]
      /\ pc[c] = "disable"
  BY DEF DisableSkip, ports, threads, At, DropFirst, TypeOK
<1> QED BY <1>1, <1>2, PortsSame

\* c goes from one place to the next in the disabling of a port.
LEMMA PortsDisable ==
  ASSUME TypeOK, PortsInv, NEW c \in Clients,
         DisableOff(c) \/ DisableLock(c) \/ DisableStopped(c)
  PROVE  PortsInv'
<1> USE DEF At, Goto, references, ports, threads
<1>1. left[c] # <<>> /\ FirstLeft(c) \in Ports
  <2>1. left[c] # <<>> /\ left[c] \in Seq(Ports)
    BY DEF PortsInv, LeftToDisable, DisableOff, DisableLock, DisableStopped, TypeOK
  <2> QED BY <2>1 DEF FirstLeft
<1>2. PICK p \in Ports : p = FirstLeft(c)
  BY <1>1
<1>3. /\ UNCHANGED <<left, inside, callback_queue, component_refs, releasing>>
      /\ pc'[Transport] = pc[Transport] /\ \A d \in Clients \ {c} : pc'[d] = pc[d]
      /\ ~port_enabled'[p]
      /\ \A q \in Ports \ {p} : port_enabled'[q] = port_enabled[q]
  BY <1>1, <1>2, ComponentAssumption DEF DisableOff, DisableLock, DisableStopped, TypeOK,
     Threads, PortsInv, LeftToDisable
<1>4. \/ pc[c] = "disable" /\ pc'[c] = "lock"
      \/ pc[c] = "lock" /\ pc'[c] = "stop"
      \/ pc[c] = "stop" /\ pc'[c] = "drain" /\ inside[p] = 0 /\ pc[Transport] = "idle"
  BY <1>2 DEF DisableOff, DisableLock, DisableStopped, TypeOK, Threads
<1>5. \A d \in Clients : FirstLeft(d)' = FirstLeft(d)
  BY <1>3 DEF FirstLeft
<1>6. \A d \in Clients : pc[d] \in {"lock", "stop", "drain"} => FirstLeft(d) \in Ports
  BY DEF PortsInv, LeftToDisable, TypeOK, FirstLeft
<1>7. LeftToDisable'
  <2>1. ASSUME NEW d \in Clients, pc'[d] \in {"lock", "stop", "drain"}
        PROVE  left[d] # <<>> /\ ~port_enabled'[FirstLeft(d)]
    BY <1>1, <1>2, <1>3, <1>6, <2>1 DEF PortsInv, LeftToDisable
  <2>2. ASSUME NEW d \in Clients, pc'[d] = "final" PROVE left[d] = <<>>
    BY <1>3, <1>4, <2>2 DEF PortsInv, LeftToDisable
  <2> QED BY <1>3, <1>5, <2>1, <2>2 DEF LeftToDisable
<1>8. InDisable(p, {"lock", "stop", "drain"})'
  BY <1>2, <1>4, <1>5 DEF InDisable
<1>9. pc[c] # "stop" => InDisable(p, {"lock", "stop"})'
  BY <1>2, <1>4, <1>5 DEF InDisable
<1>10. \A q \in Ports \ {p} :
        /\ InDisable(q, {"lock", "stop"}) => InDisable(q, {"lock", "stop"})'
        /\ InDisable(q, {"lock", "stop", "drain"}) => InDisable(q, {"lock", "stop", "drain"})'
  BY <1>2, <1>3, <1>5 DEF InDisable
<1>11. DisabledIsEmpty'
  <2>1. ASSUME NEW q \in Ports, inside[q] > 0
        PROVE  port_enabled'[q] \/ InDisable(q, {"lock", "stop"})'
    <3>1. port_enabled[q] \/ InDisable(q, {"lock", "stop"})
      BY <2>1 DEF PortsInv, DisabledIsEmpty
    <3>2. CASE q = p
      BY <1>4, <1>9, <2>1, <3>2
    <3>3. CASE q # p
      BY <1>3, <1>10, <3>1, <3>3
    <3> QED BY <3>2, <3>3
  <2> QED BY <1>3, <2>1 DEF DisabledIsEmpty
<1>12. QueuedAreServed'
  <2>1. ASSUME NEW q \in Range(callback_queue)
        PROVE  port_enabled'[q] \/ InDisable(q, {"lock", "stop", "drain"})'
    <3>1. port_enabled[q] \/ InDisable(q, {"lock", "stop", "drain"})
      BY DEF PortsInv, QueuedAreServed
    <3>2. q \in Ports
      BY DEF TypeOK, Range
    <3>3. CASE q = p
      BY <1>8, <3>3
    <3>4. CASE q # p
      BY <1>3, <1>10, <3>1, <3>2, <3>4
    <3> QED BY <3>3, <3>4
  <2> QED BY <1>3, <2>1 DEF QueuedAreServed
<1>13. TriggerForSomePort'
  <2>1. ASSUME pc[Transport] = "trigger"
        PROVE  \E q \in Ports : port_enabled'[q] \/ InDisable(q, {"lock", "stop"})'
    <3>1. PICK q \in Ports : port_enabled[q] \/ InDisable(q, {"lock", "stop"})
      BY <2>1 DEF PortsInv, TriggerForSomePort
    <3>2. CASE q = p
      BY <1>2, <1>4, <1>9, <2>1
    <3>3. CASE q # p
      BY <1>3, <1>10, <3>1, <3>3
    <3> QED BY <3>2, <3>3
  <2> QED BY <1>3, <2>1 DEF TriggerForSomePort
<1>14. EnabledIsReferenced'
  <2>1. \A q \in Ports : port_enabled'[q] => port_enabled[q]
    BY <1>3
  <2> QED BY <1>3, <2>1 DEF PortsInv, EnabledIsReferenced
<1> QED BY <1>7, <1>11, <1>12, <1>13, <1>14 DEF PortsInv

\* The queue is empty when the disabling of a port ends.
LEMMA PortsDrained ==
  ASSUME TypeOK, PortsInv, NEW c \in Clients, DisableDrained(c)
  PROVE  PortsInv'
<1> USE DEF At, Goto, references, ports
<1>1. pc[c] = "drain" /\ left[c] # <<>> /\ ~port_enabled[FirstLeft(c)] /\ callback_queue = <<>>
  BY DEF DisableDrained, PortsInv, LeftToDisable
<1>2. /\ UNCHANGED <<port_enabled, inside, callback_queue, component_refs, releasing>>
      /\ pc'[Transport] = pc[Transport]
      /\ \A d \in Clients \ {c} : pc'[d] = pc[d] /\ left'[d] = left[d]
      /\ pc'[c] = "disable"
  BY ComponentAssumption DEF DisableDrained, DropFirst, TypeOK, Threads
<1>3. EnabledIsReferenced'
  BY <1>1, <1>2, ReferencedDropped DEF DisableDrained, PortsInv
<1>4. \A q : InDisable(q, {"lock", "stop"})' <=> InDisable(q, {"lock", "stop"})
  <2>1. \A d \in Clients \ {c} : FirstLeft(d)' = FirstLeft(d)
    BY <1>2 DEF FirstLeft
  <2> QED BY <1>1, <1>2, <2>1 DEF InDisable
<1>5. LeftToDisable'
  BY <1>2 DEF PortsInv, LeftToDisable, FirstLeft
<1>6. DisabledIsEmpty' /\ TriggerForSomePort'
  BY <1>2, <1>4 DEF PortsInv, DisabledIsEmpty, TriggerForSomePort
<1>7. QueuedAreServed'
  BY <1>1, <1>2 DEF QueuedAreServed, Range
<1> QED BY <1>3, <1>5, <1>6, <1>7 DEF PortsInv

\* Steps that only the buffers, the transport and the action thread take part in.
LEMMA PortsBuffers ==
  ASSUME TypeOK, PortsInv,
         UNCHANGED <<left, port_enabled, component_refs, releasing>>,
         \A c \in Clients : pc'[c] = pc[c],
         \A p \in Ports : inside'[p] > 0 => inside[p] > 0 \/ port_enabled[p],
         \/ Range(callback_queue') \subseteq Range(callback_queue)
         \/ \E p \in Ports : inside[p] > 0 /\ Range(callback_queue') = Range(callback_queue) \cup {p},
         pc'[Transport] = "trigger" => pc[Transport] = "trigger" \/ \E p \in Ports : inside[p] > 0
  PROVE  PortsInv'
<1>1. \A p, places : InDisable(p, places)' <=> InDisable(p, places)
  BY DEF InDisable, FirstLeft
<1>2. \A p : InDisable(p, {"lock", "stop"}) => InDisable(p, {"lock", "stop", "drain"})
  BY DEF InDisable
<1>3. LeftToDisable' /\ EnabledIsReferenced'
  BY DEF PortsInv, LeftToDisable, EnabledIsReferenced, At, FirstLeft
<1>4. DisabledIsEmpty'
  BY <1>1 DEF PortsInv, DisabledIsEmpty
<1>5. QueuedAreServed'
  BY <1>1, <1>2 DEF PortsInv, QueuedAreServed, DisabledIsEmpty
<1>6. TriggerForSomePort'
  BY <1>1 DEF PortsInv, TriggerForSomePort, DisabledIsEmpty, At
<1> QED BY <1>3, <1>4, <1>5, <1>6 DEF PortsInv

\* The buffers: the component gives them back, and they are delivered.
LEMMA PortsThreads ==
  ASSUME TypeOK, PortsInv,
         \/ Trigger \/ ActionThread \/ Finished
         \/ \E p \in Ports : Complete(p)
         \/ \E c \in Clients : DisableDrain(c)
  PROVE  PortsInv'
<1> USE DEF At, Goto, references, ports, threads
<1>1. /\ UNCHANGED <<left, port_enabled, component_refs, releasing>>
      /\ \A c \in Clients : pc'[c] = pc[c]
  BY ComponentAssumption DEF Trigger, ActionThread, Wake, Run, Deliver, Finished, Complete,
  DisableDrain,
     TypeOK, Threads, vars
<1>2. ASSUME NEW q \in Ports, Callback(q)
      PROVE  \A p \in Ports : inside'[p] > 0 => inside[p] > 0 \/ port_enabled[p]
  BY <1>2 DEF Callback, Accepts, TypeOK
<1>3. callback_queue # <<>> => /\ Head(callback_queue) \in Ports
                               /\ Range(Tail(callback_queue)) \subseteq Range(callback_queue)
  BY RangeOfTail DEF TypeOK
<1>4. ASSUME NEW p \in Ports, Complete(p) PROVE PortsInv'
  <2>1. /\ \A q \in Ports : inside'[q] > 0 => inside[q] > 0
        /\ inside[p] > 0
    BY <1>4 DEF Complete, TypeOK
  <2>2. Range(callback_queue') = Range(callback_queue) \cup {p}
    BY <1>4, RangeOfAppend DEF Complete, TypeOK
  <2> QED BY <1>1, <2>1, <2>2, PortsBuffers
<1>5. ASSUME NEW c \in Clients, DisableDrain(c) PROVE PortsInv'
  <2>1. pc' = pc /\ callback_queue # <<>> /\ callback_queue' = Tail(callback_queue)
    BY <1>5 DEF DisableDrain
  <2>2. \A p \in Ports : inside'[p] > 0 => inside[p] > 0 \/ port_enabled[p]
    BY <1>2, <1>3, <1>5 DEF DisableDrain
  <2> QED BY <1>1, <1>3, <2>1, <2>2, PortsBuffers
<1>6. ASSUME Run PROVE PortsInv'
  <2>1. inside' = inside /\ pc'[Transport] = pc[Transport]
    BY <1>6, ComponentAssumption DEF Run, TypeOK, Threads
  <2>2. Range(callback_queue') \subseteq Range(callback_queue)
    BY <1>3, <1>6 DEF Run
  <2> QED BY <1>1, <2>1, <2>2, PortsBuffers
<1>7. ASSUME Deliver PROVE PortsInv'
  <2>1. callback_queue' = callback_queue /\ pc'[Transport] = pc[Transport]
    BY <1>7, ComponentAssumption DEF Deliver, TypeOK, Threads
  <2>2. \A p \in Ports : inside'[p] > 0 => inside[p] > 0 \/ port_enabled[p]
    BY <1>2, <1>7 DEF Deliver, TypeOK
  <2> QED BY <1>1, <2>1, <2>2, PortsBuffers
<1>8. ASSUME Trigger \/ Wake \/ Finished PROVE PortsInv'
  <2>1. /\ inside' = inside /\ callback_queue' = callback_queue
        /\ pc'[Transport] = "trigger" => pc[Transport] = "trigger"
    BY <1>8, ComponentAssumption DEF Trigger, Wake, Finished, vars, TypeOK, Threads
  <2> QED BY <1>1, <2>1, PortsBuffers
<1> QED BY <1>4, <1>5, <1>6, <1>7, <1>8 DEF ActionThread

\* Every step keeps the ports as they should be.
LEMMA PortsStep ==
  ASSUME TypeOK, LifeInv, PortsInv, Next
  PROVE  PortsInv'
<1>1. ASSUME NEW c \in Clients, Client(c) PROVE PortsInv'
  BY <1>1, PortsCalls, PortsHeld, PortsRelease, PortsUsed DEF Client
<1>2. ASSUME NEW c \in Clients, GoesOn(c) PROVE PortsInv'
  <2>1. ASSUME CreateControl(c) \/ CreateAtVc(c) \/ CreatePorts(c) \/ CreateInfo(c) \/ CreatePool(c)
        PROVE  PortsInv'
    <3>1. \E part \in Range(CreationOrder) \ {"core", "memory", "action", "list"} : CreatePart(c, part)
      BY <2>1, Order DEF CreateControl, CreateAtVc, CreatePorts, CreateInfo, CreatePool
    <3> QED BY <3>1, PortsCalls
  <2>2. ASSUME \/ CoreInit(c) \/ CreateMemory(c) \/ RegisterAction(c)
               \/ NoMemory(c) \/ CreateFailed(c) \/ VcRefuses(c) \/ NoModule(c) \/ ConstructorFailed(c)
               \/ DisableEnd(c) \/ AcquirePort(c) \/ ReleasePort(c)
               \/ Destroy(c) \/ Join(c) \/ VcDestroy(c) \/ VcDestroyRefused(c) \/ Free(c)
        PROVE  PortsInv'
    BY <2>2, PortsCalls
  <2>3. ASSUME \/ Created(c) \/ Resume(c) \/ ResumeFailed(c) \/ Pause(c) \/ EnableRefused(c)
               \/ DisableRefused(c) \/ End(c)
        PROVE  PortsInv'
    BY <2>3, PortsHeld
  <2>4. FinalDelayed(c) \/ FinalDestroy(c) => PortsInv'
    BY PortsRelease
  <2>5. DisableOff(c) \/ DisableLock(c) \/ DisableStopped(c) => PortsInv'
    BY PortsDisable
  <2> QED BY <1>2, <2>1, <2>2, <2>3, <2>4, <2>5, PortsSkip, PortsDrained, PortsThreads DEF GoesOn
<1> QED BY <1>1, <1>2, PortsThreads DEF Next

\* What nobody uses is quiet.
LEMMA Quiet ==
  ASSUME TypeOK, LifeInv, PortsInv, ~Used
  PROVE  /\ \A p \in Ports : ~port_enabled[p] /\ inside[p] = 0
         /\ callback_queue = <<>> /\ ~At(Transport, "trigger")
<1>1. \A c \in Clients : component_refs[c] = 0
  BY DEF Used, TypeOK
<1>2. \A p \in Ports : ~port_enabled[p]
  BY <1>1 DEF Used, PortsInv, EnabledIsReferenced, TypeOK
<1>3. \A p : ~InDisable(p, {"lock", "stop"}) /\ ~InDisable(p, {"lock", "stop", "drain"})
  BY DEF InDisable, LifeInv, CallsHaveReferences, HasWhatItNeeds, Used
<1>4. Range(callback_queue) = {} /\ callback_queue \in Seq(Ports)
  <2>1. callback_queue \in Seq(Ports) /\ Range(callback_queue) \subseteq Ports
    BY DEF TypeOK, Range
  <2>2. \A p \in Range(callback_queue) : port_enabled[p] \/ InDisable(p, {"lock", "stop", "drain"})
    BY DEF PortsInv, QueuedAreServed
  <2> QED BY <1>2, <1>3, <2>1, <2>2
<1>5. callback_queue = <<>>
  <2>1. Len(callback_queue) = 0
    <3>1. Len(callback_queue) \in Nat /\ (Len(callback_queue) # 0 => 1 \in DOMAIN callback_queue)
      BY <1>4
    <3> QED BY <1>4, <3>1 DEF Range
  <2> QED BY <1>4, <2>1
<1>6. \A p \in Ports : inside[p] = 0
  <2>1. \A p \in Ports : inside[p] \in Nat
    BY DEF TypeOK
  <2>2. \A p \in Ports : ~(inside[p] > 0)
    BY <1>2, <1>3 DEF PortsInv, DisabledIsEmpty
  <2> QED BY <2>1, <2>2
<1>7. ~At(Transport, "trigger")
  BY <1>2, <1>3 DEF PortsInv, TriggerForSomePort
<1> QED BY <1>2, <1>5, <1>6, <1>7

-----------------------------------------------------------------------------
(* The action thread and its semaphore.                                    *)

\* The thread is there while the action is registered, and told to end only by who waits
\* for that.
ActionInv ==
  /\ pc[Action] \in {"idle", "woken", "deliver", "gone"}
  /\ pc[Transport] \in {"idle", "trigger"}
  /\ ~pf_action => At(Action, "gone")
  /\ action_quit => \E c \in Clients : At(c, "join")
  /\ \A c \in Clients : At(c, "join") => pf_action

\* Steps that have nothing to do with the action thread.
LEMMA ActionSame ==
  ASSUME ActionInv, WakeupPending,
         UNCHANGED <<callback_queue, pf_action, action_sema, action_quit>>,
         pc'[Action] = pc[Action], pc'[Transport] = pc[Transport],
         \A c \in Clients : At(c, "join")' <=> At(c, "join")
  PROVE  ActionInv' /\ WakeupPending'
BY DEF ActionInv, WakeupPending, At

\* Every step keeps the action thread as it should be, and a wake-up for each buffer.
LEMMA ActionStep ==
  ASSUME TypeOK, LifeInv, PortsInv, PartsInv, ActionInv, WakeupPending, Next
  PROVE  ActionInv' /\ WakeupPending'
<1> USE ComponentAssumption DEF At, Goto
<1>1. \A c \in Clients : c # Action /\ c # Transport
  OBVIOUS
<1>2. ~Used => callback_queue = <<>> /\ pc[Transport] # "trigger"
  BY Quiet
<1>3. ASSUME NEW c \in Clients, RegisterAction(c) PROVE ActionInv' /\ WakeupPending'
  <2>1. /\ pf_action' /\ pc'[Action] = "idle" /\ pc'[Transport] = pc[Transport]
        /\ pc'[c] = "info" /\ pc[c] = "action" /\ \A d \in Clients \ {c} : pc'[d] = pc[d]
        /\ UNCHANGED <<callback_queue, action_sema, action_quit>>
    BY <1>1, <1>3, Successors DEF RegisterAction, Take, TypeOK, Threads
  <2>2. pc[Action] = "gone"
    BY <1>3, <2>1 DEF PartsInv, ActionInv
  <2> QED BY <2>1, <2>2 DEF ActionInv, WakeupPending
<1>4. ASSUME NEW c \in Clients, Destroy(c) PROVE ActionInv' /\ WakeupPending'
  <2>1. /\ pc'[Action] = pc[Action] /\ pc'[Transport] = pc[Transport] /\ pc[c] = "destroy"
        /\ \A d \in Clients \ {c} : pc'[d] = pc[d]
        /\ callback_queue' = callback_queue /\ (pf_action' <=> pf_action)
    BY <1>1, <1>4 DEF Destroy, TypeOK, Threads
  <2>2. CASE pf_action
    <3>1. action_quit' /\ action_sema' = action_sema + 1 /\ pc'[c] = "join" /\ pf_action'
      BY <1>4, <2>2 DEF Destroy, TypeOK, Threads
    <3>2. Len(callback_queue) \in Nat /\ action_sema \in Nat
      BY DEF TypeOK
    <3>3. ActionInv'
      BY <2>1, <3>1 DEF ActionInv
    <3>4. Len(callback_queue) <= (action_sema + 1) + (IF pc[Action] = "woken" THEN 1 ELSE 0)
                                 + (IF pc[Transport] = "trigger" THEN 1 ELSE 0)
      BY <3>2 DEF WakeupPending
    <3>5. WakeupPending'
      BY <2>1, <3>1, <3>4 DEF WakeupPending
    <3> QED BY <3>3, <3>5
  <2>3. CASE ~pf_action
    <3>1. /\ UNCHANGED <<callback_queue, pf_action, action_sema, action_quit>>
          /\ pc'[c] = "free"
      BY <1>4, <2>1, <2>3 DEF Destroy, TypeOK, Threads
    <3>2. \A d \in Clients : pc'[d] = "join" <=> pc[d] = "join"
      BY <2>1, <3>1
    <3> QED BY <2>1, <3>1, <3>2, ActionSame
  <2> QED BY <2>2, <2>3
<1>5. ASSUME NEW c \in Clients, Join(c) PROVE ActionInv' /\ WakeupPending'
  <2>1. /\ pc'[Action] = pc[Action] /\ pc'[Transport] = pc[Transport]
        /\ pc[c] = "join" /\ pc'[c] = "free" /\ pc[Action] = "gone"
        /\ \A d \in Clients \ {c} : pc'[d] = pc[d]
        /\ UNCHANGED <<callback_queue, action_sema>> /\ ~pf_action' /\ ~action_quit'
    BY <1>1, <1>5 DEF Join, TypeOK, Threads
  <2>2. \A d \in Clients \ {c} : pc[d] # "join"
    BY <2>1 DEF LifeInv, Alone, Sole
  <2> QED BY <2>1, <2>2 DEF ActionInv, WakeupPending
<1>6. ASSUME NEW p \in Ports, Complete(p) PROVE ActionInv' /\ WakeupPending'
  <2>1. /\ pc'[Action] = pc[Action] /\ pc[Transport] = "idle" /\ pc'[Transport] = "trigger"
        /\ \A d \in Clients : pc'[d] = pc[d]
        /\ UNCHANGED <<pf_action, action_sema, action_quit>>
        /\ callback_queue' = Append(callback_queue, p)
    BY <1>1, <1>6 DEF Complete, action, TypeOK, Threads
  <2>2. /\ Len(callback_queue') = Len(callback_queue) + 1
        /\ Len(callback_queue) \in Nat /\ action_sema \in Nat
    BY <2>1 DEF TypeOK
  <2> QED BY <2>1, <2>2 DEF ActionInv, WakeupPending
<1>7. ASSUME Trigger PROVE ActionInv' /\ WakeupPending'
  <2>1. /\ pc'[Action] = pc[Action] /\ pc[Transport] = "trigger" /\ pc'[Transport] = "idle"
        /\ \A d \in Clients : pc'[d] = pc[d]
        /\ UNCHANGED <<pf_action, callback_queue, action_quit>>
    BY <1>1, <1>7 DEF Trigger, TypeOK, Threads
  <2>2. pf_action
    BY <1>2, <2>1 DEF LifeInv, Whole
  <2>3. action_sema' = action_sema + 1 /\ Len(callback_queue) \in Nat /\ action_sema \in Nat
    BY <1>7, <2>2 DEF Trigger, TypeOK
  <2> QED BY <2>1, <2>3 DEF ActionInv, WakeupPending
<1>8. ASSUME Wake PROVE ActionInv' /\ WakeupPending'
  <2>1. /\ pc[Action] = "idle" /\ pc'[Transport] = pc[Transport]
        /\ \A d \in Clients : pc'[d] = pc[d]
        /\ UNCHANGED <<pf_action, callback_queue, action_quit>>
        /\ action_sema' = action_sema - 1 /\ action_sema > 0
        /\ pc'[Action] = IF action_quit THEN "gone" ELSE "woken"
    BY <1>1, <1>8 DEF Wake, TypeOK, Threads
  <2>2. pf_action
    BY <2>1 DEF ActionInv
  <2>3. action_quit => callback_queue = <<>>
    BY <1>2 DEF ActionInv, LifeInv, Alone, Sole
  <2>4. Len(callback_queue) \in Nat /\ action_sema \in Nat /\ Len(<<>>) = 0
    BY DEF TypeOK
  <2>5. ActionInv'
    BY <2>1, <2>2 DEF ActionInv
  <2>6. CASE action_quit
    BY <2>1, <2>3, <2>4, <2>6 DEF WakeupPending, ActionInv
  <2>7. CASE ~action_quit
    BY <2>1, <2>4, <2>7 DEF WakeupPending, ActionInv
  <2> QED BY <2>5, <2>6, <2>7
<1>9. ASSUME Run PROVE ActionInv' /\ WakeupPending'
  <2>1. /\ pc[Action] = "woken" /\ pc'[Action] = "deliver" /\ pc'[Transport] = pc[Transport]
        /\ \A d \in Clients : pc'[d] = pc[d]
        /\ UNCHANGED <<pf_action, action_sema, action_quit>>
    BY <1>1, <1>9 DEF Run, TypeOK, Threads
  <2>2. /\ Len(callback_queue) \in Nat /\ action_sema \in Nat
        /\ IF callback_queue = <<>> THEN Len(callback_queue') = 0
           ELSE Len(callback_queue') = Len(callback_queue) - 1
    BY <1>9 DEF Run, TypeOK
  <2>3. ActionInv'
    BY <2>1 DEF ActionInv
  <2>4. Len(callback_queue') <= action_sema + 0 + (IF pc[Transport] = "trigger" THEN 1 ELSE 0)
    BY <2>1, <2>2 DEF WakeupPending
  <2>5. WakeupPending'
    BY <2>1, <2>4 DEF WakeupPending
  <2> QED BY <2>3, <2>5
<1>10. ASSUME Deliver PROVE ActionInv' /\ WakeupPending'
  <2>1. /\ pc[Action] = "deliver" /\ pc'[Action] = "idle" /\ pc'[Transport] = pc[Transport]
        /\ \A d \in Clients : pc'[d] = pc[d]
        /\ UNCHANGED <<pf_action, action_sema, action_quit, callback_queue>>
    BY <1>1, <1>10 DEF Deliver, TypeOK, Threads
  <2> QED BY <2>1 DEF ActionInv, WakeupPending
<1>11. ASSUME NEW c \in Clients, DisableDrain(c) PROVE ActionInv' /\ WakeupPending'
  <2>1. UNCHANGED <<pf_action, action_sema, action_quit, pc>> /\ callback_queue # <<>>
        /\ callback_queue' = Tail(callback_queue)
    BY <1>11 DEF DisableDrain, action, threads
  <2>2. Len(callback_queue') = Len(callback_queue) - 1 /\ Len(callback_queue) \in Nat /\ action_sema \in Nat
    BY <2>1 DEF TypeOK
  <2>3. Len(callback_queue') <= action_sema + (IF pc[Action] = "woken" THEN 1 ELSE 0)
                                     + (IF pc[Transport] = "trigger" THEN 1 ELSE 0)
    BY <2>2 DEF WakeupPending
  <2> QED BY <2>1, <2>3 DEF ActionInv, WakeupPending
<1> DEFINE Same == /\ UNCHANGED <<callback_queue, pf_action, action_sema, action_quit>>
                   /\ pc'[Action] = pc[Action] /\ pc'[Transport] = pc[Transport]
                   /\ \A c \in Clients : pc'[c] = "join" <=> pc[c] = "join"
<1>12. ASSUME NEW c \in Clients, Client(c) PROVE Same
  BY <1>12 DEF Client, ReleaseOne, ReleaseLast, AcquireComponent, Enable, Disable, Begin, Holder,
     PayloadAlloc, PayloadFree, EnablePort, DisablePort, Send, action, threads, TypeOK, Threads
<1>13. ASSUME NEW c \in Clients, NEW part \in Range(CreationOrder) \ {"action"}, Take(c, part),
              pf_action' = pf_action, NEW l \in Range(CreationOrder) \cup {"idle"}, Goto(c, l)
       PROVE Same
  BY <1>1, <1>13, Order DEF Take, TypeOK, Threads
<1>14. ASSUME NEW c \in Clients, NEW part \in Range(CreationOrder), Fails(c, part),
              NEW l \in {"idle", "destroy"}, Goto(c, l)
       PROVE Same
  BY <1>1, <1>14, Order DEF Fails, action, TypeOK, Threads
<1>15. ASSUME NEW c \in Clients,
              \/ Resume(c) \/ ResumeFailed(c) \/ Pause(c) \/ EnableRefused(c) \/ DisableRefused(c)
              \/ End(c)
              \/ DisableSkip(c) \/ DisableOff(c) \/ DisableLock(c) \/ DisableStopped(c)
              \/ DisableDrained(c) \/ DisableEnd(c)
              \/ AcquirePort(c) \/ ReleasePort(c) \/ FinalDelayed(c) \/ FinalDestroy(c)
              \/ VcDestroy(c) \/ VcDestroyRefused(c) \/ Free(c)
       PROVE Same
  BY <1>1, <1>15 DEF Resume, Pause, SetPaused, ResumeFailed, EnableRefused,
     DisableRefused, Refused, End, 
     DisableSkip, DisableOff, DisableLock, DisableStopped, DisableDrained,
     DisableEnd, AcquirePort, ReleasePort, FinalDelayed, FinalDestroy, VcDestroy,
     VcDestroyRefused, Free, action,
     threads, TypeOK, Threads
<1>16. Finished => Same
  BY DEF Finished, vars, action, threads
<1>17. Same => ActionInv' /\ WakeupPending'
  BY ActionSame
<1> HIDE DEF Same, At, Goto
<1>18. ASSUME NEW c \in Clients, GoesOn(c) PROVE ActionInv' /\ WakeupPending'
  <2>1. ASSUME CreateControl(c) \/ CreateAtVc(c) \/ CreatePorts(c) \/ CreateInfo(c) \/ CreatePool(c)
        PROVE  Same
    <3>1. PICK part \in Range(CreationOrder) \ {"core", "memory", "action", "list"} : CreatePart(c, part)
      BY <2>1, Order DEF CreateControl, CreateAtVc, CreatePorts, CreateInfo, CreatePool
    <3>2. Successor(part) \in Range(CreationOrder)
      BY Order, Successors
    <3> QED BY <1>13, <3>1, <3>2 DEF CreatePart
  <2>2. CoreInit(c) \/ CreateMemory(c) \/ Created(c) => Same
    BY <1>13, Order, Successors DEF CoreInit, CreateMemory, Created
  <2>3. NoMemory(c) \/ CreateFailed(c) \/ VcRefuses(c) \/ NoModule(c) \/ ConstructorFailed(c) => Same
    BY <1>14, Order DEF NoMemory, CreateFailed, VcRefuses, NoModule, ConstructorFailed,
       Constructor
  <2> QED BY <1>3, <1>4, <1>5, <1>11, <1>15, <1>17, <1>18, <2>1, <2>2, <2>3 DEF GoesOn
<1> QED BY <1>6, <1>7, <1>8, <1>9, <1>10, <1>12, <1>16, <1>17, <1>18 DEF Next, ActionThread

-----------------------------------------------------------------------------
(* Enabling and disabling the component, under its lock.                   *)

\* The holder of the lock resumes or pauses the ports: when it resumes them those it has
\* come to run; when it has paused none all of them do.
SectionInv ==
  /\ \A c \in Clients : pc[c] \in {"resume", "pause"} <=> lock = c
  /\ \A c \in Clients : At(c, "resume") =>
       ~is_enabled /\ \A p \in Ports : is_paused[p] => p \in Range(left[c])
  /\ \A c \in Clients : At(c, "pause") =>
       /\ is_enabled /\ Len(left[c]) <= Len(PortArray)
       /\ left[c] = PortArray => \A p \in Ports : ~is_paused[p]
  /\ EnabledRuns

\* Steps outside of the section.
LEMMA SectionSame ==
  ASSUME SectionInv, UNCHANGED <<lock, is_enabled, is_paused>>, NEW c \in Clients,
         \A d \in Clients \ {c} : pc'[d] = pc[d] /\ left'[d] = left[d],
         pc[c] \notin {"resume", "pause"}, pc'[c] \notin {"resume", "pause"}
  PROVE  SectionInv'
BY DEF SectionInv, EnabledRuns, At

\* Every step keeps what the lock protects.
LEMMA SectionStep ==
  ASSUME TypeOK, SectionInv, Next
  PROVE  SectionInv'
<1> USE ComponentAssumption DEF At, Goto
<1>1. \A c \in Clients : c # NoThread /\ c # Action /\ c # Transport
  OBVIOUS
<1>2. \A p \in Ports : p \in Range(PortArray)
  BY DEF Ports, ToSet, Range
<1>3. ASSUME NEW c \in Clients, NEW l \in {"resume", "pause"}, Begin(c, l),
             l = "resume" <=> ~is_enabled
      PROVE  SectionInv'
  <2>1. /\ lock = NoThread /\ lock' = c /\ pc'[c] = l /\ left'[c] = PortArray
        /\ UNCHANGED <<is_enabled, is_paused>>
        /\ \A d \in Clients \ {c} : pc'[d] = pc[d] /\ left'[d] = left[d]
    BY <1>3 DEF Begin, ports, TypeOK, Threads
  <2>2. \A d \in Clients : pc[d] \notin {"resume", "pause"}
    BY <1>1, <2>1 DEF SectionInv
  <2>3. l = "pause" => \A p \in Ports : ~is_paused[p]
    BY <1>3, <2>1 DEF SectionInv, EnabledRuns
  <2>4. Len(PortArray) <= Len(PortArray)
    OBVIOUS
  <2> QED BY <1>1, <1>2, <1>3, <2>1, <2>2, <2>3, <2>4 DEF SectionInv, EnabledRuns
<1>4. ASSUME NEW c \in Clients, NEW l \in {"resume", "pause"}, SetPaused(c, l, l = "pause")
      PROVE  SectionInv'
  <2>1. /\ pc[c] = l /\ left[c] # <<>> /\ left'[c] = Tail(left[c])
        /\ UNCHANGED <<lock, is_enabled, pc>>
        /\ \A d \in Clients \ {c} : left'[d] = left[d]
        /\ is_paused' = [is_paused EXCEPT ![FirstLeft(c)] = l = "pause"]
    BY <1>4 DEF SetPaused, DropFirst, TypeOK
  <2>2. /\ left[c] \in Seq(Ports) /\ FirstLeft(c) \in Ports
        /\ Range(left[c]) = {FirstLeft(c)} \cup Range(Tail(left[c]))
    <3>1. left[c] \in Seq(Ports)
      BY DEF TypeOK
    <3> QED BY <2>1, <3>1, RangeOfTail DEF FirstLeft
  <2>3. lock = c /\ \A d \in Clients \ {c} : pc[d] \notin {"resume", "pause"}
    BY <2>1 DEF SectionInv
  <2>4. CASE l = "resume"
    <3>1. \A p \in Ports : is_paused'[p] => p \in Range(left'[c])
      BY <2>1, <2>2, <2>4 DEF SectionInv, TypeOK
    <3>2. ~is_enabled
      BY <2>1, <2>4 DEF SectionInv
    <3> QED BY <2>1, <2>3, <2>4, <3>1, <3>2 DEF SectionInv, EnabledRuns
  <2>5. CASE l = "pause"
    <3>1. is_enabled /\ Len(left[c]) <= Len(PortArray)
      BY <2>1, <2>5 DEF SectionInv
    <3>2. Len(left'[c]) = Len(left[c]) - 1 /\ Len(left[c]) \in Nat /\ Len(PortArray) \in Nat
      BY <2>1, <2>2
    <3>3. Len(left'[c]) < Len(PortArray)
      BY <3>1, <3>2
    <3>4. left'[c] # PortArray /\ Len(left'[c]) <= Len(PortArray)
      BY <3>2, <3>3
    <3> QED BY <1>1, <2>1, <2>3, <2>5, <3>1, <3>4 DEF SectionInv, EnabledRuns
  <2> QED BY <2>4, <2>5
<1>5. ASSUME NEW c \in Clients, EnableRefused(c) \/ DisableRefused(c) \/ ResumeFailed(c) \/ End(c)
      PROVE  SectionInv'
  <2>1. /\ pc[c] \in {"resume", "pause"} /\ pc'[c] = "idle" /\ lock' = NoThread /\ is_paused' = is_paused
        /\ \A d \in Clients \ {c} : pc'[d] = pc[d] /\ left'[d] = left[d]
    BY <1>5 DEF EnableRefused, DisableRefused, Refused, ResumeFailed, End, ports, TypeOK, Threads
  <2>2. \A d \in Clients \ {c} : pc[d] \notin {"resume", "pause"}
    BY <2>1 DEF SectionInv
  <2>3. EnabledRuns'
    <3>1. ASSUME End(c) PROVE EnabledRuns'
      <4>1. left[c] = <<>> /\ (is_enabled' <=> pc[c] = "resume")
        BY <3>1 DEF End
      <4>2. Range(<<>>) = {}
        BY DEF Range
      <4>3. pc[c] = "resume" => \A p \in Ports : ~is_paused[p]
        BY <4>1, <4>2 DEF SectionInv
      <4> QED BY <2>1, <4>1, <4>3 DEF EnabledRuns
    <3>2. ASSUME DisableRefused(c) PROVE EnabledRuns'
      BY <2>1, <3>2 DEF DisableRefused, Refused, SectionInv, EnabledRuns
    <3>3. ASSUME EnableRefused(c) \/ ResumeFailed(c) PROVE EnabledRuns'
      BY <2>1, <3>3 DEF EnableRefused, Refused, ResumeFailed, SectionInv, EnabledRuns
    <3> QED BY <1>5, <3>1, <3>2, <3>3
  <2> QED BY <1>1, <2>1, <2>2, <2>3 DEF SectionInv
<1>6. ASSUME NEW c \in Clients,
             \/ ReleaseOne(c) \/ ReleaseLast(c)
             \/ \E d \in Clients : AcquireComponent(c, d)
             \/ \E p \in Ports : \/ PayloadAlloc(c, p) \/ PayloadFree(c, p)
                                 \/ EnablePort(c, p) \/ DisablePort(c, p) \/ Send(c, p)
             \/ DisableSkip(c) \/ DisableOff(c) \/ DisableLock(c) \/ DisableStopped(c)
             \/ DisableDrain(c) \/ DisableDrained(c) \/ DisableEnd(c)
             \/ AcquirePort(c) \/ ReleasePort(c) \/ FinalDelayed(c) \/ FinalDestroy(c)
             \/ Destroy(c) \/ Join(c) \/ VcDestroy(c) \/ VcDestroyRefused(c) \/ Free(c)
      PROVE  SectionInv'
  <2>1. /\ UNCHANGED <<lock, is_enabled, is_paused>>
        /\ \A d \in Clients \ {c} : pc'[d] = pc[d] /\ left'[d] = left[d]
        /\ pc[c] \notin {"resume", "pause"} /\ pc'[c] \notin {"resume", "pause"}
    BY <1>6 DEF ReleaseOne, ReleaseLast, AcquireComponent, Holder, PayloadAlloc, PayloadFree,
       EnablePort,
       DisablePort, Send, DisableSkip, DisableOff, DisableLock, DisableStopped, DisableDrain,
       DisableDrained,
       DisableEnd, DropFirst, AcquirePort, ReleasePort, FinalDelayed, FinalDestroy, Destroy,
       Join, VcDestroy,
       VcDestroyRefused, Free, ports, threads, TypeOK, Threads
  <2> QED BY <2>1, SectionSame
<1>7. ASSUME NEW c \in Clients, NEW part \in Range(CreationOrder), NEW l \in Range(CreationOrder) \cup {"idle"},
             Take(c, part), pc'[c] = l, \A d \in Clients \ {c} : pc'[d] = pc[d]
      PROVE SectionInv'
  BY <1>7, Order, SectionSame DEF Take, ports
<1>8. ASSUME NEW c \in Clients, NEW part \in Range(CreationOrder), Fails(c, part),
              NEW l \in {"idle", "destroy"}, Goto(c, l)
       PROVE SectionInv'
  <2>1. /\ pc[c] = part /\ pc'[c] = l /\ \A d \in Clients \ {c} : pc'[d] = pc[d]
        /\ UNCHANGED <<left, lock, is_enabled, is_paused>>
    BY <1>8 DEF Fails, ports, TypeOK, Threads
  <2> QED BY <2>1, Order, SectionSame
<1>9. ASSUME Trigger \/ ActionThread \/ Finished \/ \E p \in Ports : Complete(p) PROVE SectionInv'
  <2>1. UNCHANGED <<left, lock, is_enabled, is_paused>> /\ \A c \in Clients : pc'[c] = pc[c]
    BY <1>1, <1>9 DEF Trigger, ActionThread, Wake, Run, Deliver, Finished, Complete, ports,
       threads, vars, TypeOK, Threads
  <2> QED BY <2>1 DEF SectionInv, EnabledRuns
<1>10. ASSUME NEW c \in Clients, Client(c) PROVE SectionInv'
  BY <1>3, <1>6, <1>10 DEF Client, Enable, Disable
<1>11. ASSUME NEW c \in Clients, NEW part \in Range(CreationOrder) \ {"list"}, Take(c, part), Goto(c, Successor(part))
       PROVE  SectionInv'
  <2>1. Successor(part) \in Range(CreationOrder)
    BY Order, Successors
  <2>2. pc'[c] = Successor(part) /\ \A d \in Clients \ {c} : pc'[d] = pc[d]
    BY <1>11 DEF TypeOK, Threads
  <2> QED BY <1>7, <1>11, <2>1, <2>2
<1>12. ASSUME NEW c \in Clients, GoesOn(c) PROVE SectionInv'
  <2>1. ASSUME CoreInit(c) \/ CreateMemory(c) PROVE SectionInv'
    BY <1>11, <2>1, Order DEF CoreInit, CreateMemory
  <2>2. ASSUME CreateControl(c) \/ CreateAtVc(c) \/ CreatePorts(c) \/ CreateInfo(c) \/ CreatePool(c)
        PROVE  SectionInv'
    <3>1. PICK part \in Range(CreationOrder) \ {"list"} : CreatePart(c, part)
      BY <2>2, Order DEF CreateControl, CreateAtVc, CreatePorts, CreateInfo, CreatePool
    <3> QED BY <1>11, <3>1 DEF CreatePart
  <2>3. ASSUME RegisterAction(c) PROVE SectionInv'
    <3>1. /\ Take(c, "action") /\ pc'[c] = "info" /\ \A d \in Clients \ {c} : pc'[d] = pc[d]
      BY <1>1, <2>3, Successors DEF RegisterAction, TypeOK, Threads
    <3> QED BY <1>7, <3>1, Order
  <2>4. ASSUME Created(c) PROVE SectionInv'
    <3>1. /\ Take(c, "list") /\ pc'[c] = "idle" /\ \A d \in Clients \ {c} : pc'[d] = pc[d]
      BY <2>4 DEF Created, TypeOK, Threads
    <3> QED BY <1>7, <3>1, Order
  <2>5. NoMemory(c) \/ CreateFailed(c) \/ VcRefuses(c) \/ NoModule(c) \/ ConstructorFailed(c) => SectionInv'
    BY <1>8, Order DEF NoMemory, CreateFailed, VcRefuses, NoModule, ConstructorFailed, Constructor
  <2>6. Resume(c) \/ Pause(c) => SectionInv'
    <3>1. ("resume" = "pause") = FALSE /\ ("pause" = "pause") = TRUE
      OBVIOUS
    <3> QED BY <1>4, <3>1 DEF Resume, Pause
  <2> QED BY <1>5, <1>6, <1>12, <2>1, <2>2, <2>3, <2>4, <2>5, <2>6 DEF GoesOn
<1> QED BY <1>9, <1>10, <1>12 DEF Next

-----------------------------------------------------------------------------
(* The theorems.                                                           *)

\* The inductive invariant.
ComponentIInv ==
  /\ TypeOK /\ LifeInv /\ PartsInv /\ GoneInv /\ PortsInv /\ ActionInv /\ WakeupPending
  /\ SectionInv

\* A creation begins with the inductive invariant.
LEMMA ComponentInit == Init => ComponentIInv
<1> SUFFICES ASSUME Init PROVE ComponentIInv
  OBVIOUS
<1> USE ComponentAssumption DEF Init, At
<1>1. PICK c \in Clients : pc = [t \in Threads |-> CASE t = c      -> "core"
                                                     [] t = Action -> "gone"
                                                     [] OTHER      -> "idle"]
  OBVIOUS
<1>2. /\ pc[c] = "core" /\ \A d \in Clients \ {c} : pc[d] = "idle"
      /\ pc[Action] = "gone" /\ pc[Transport] = "idle"
  BY <1>1 DEF Threads
<1>3. TypeOK
  <2>1. pc \in [Threads -> {"core", "gone", "idle"}]
    BY <1>1
  <2>2. pc \in [Threads -> Range(CreationOrder) \cup
                        {"idle", "resume", "pause", "disable", "lock", "stop", "drain",
                         "final", "destroy", "join", "free", "woken", "deliver", "trigger",
                         "acquire", "release", "gone"}]
    BY <2>1, Order
  <2>3. /\ left \in [Clients -> Seq(Ports)] /\ callback_queue \in Seq(Ports)
        /\ inside \in [Ports -> Nat]
        /\ port_enabled \in [Ports -> BOOLEAN] /\ is_paused \in [Ports -> BOOLEAN]
    OBVIOUS
  <2>4. component_refs \in [Clients -> 0 .. MaxRefs] /\ port_refs \in [Clients -> 0 .. MaxRefs]
    OBVIOUS
  <2>5. /\ allocated \in BOOLEAN /\ parts \subseteq Range(CreationOrder)
        /\ failed \in Range(CreationOrder) \cup {"none", "destroy"}
        /\ refcount \in Nat /\ refcount_ports \in Nat /\ destruction_pending \in BOOLEAN
        /\ lock \in Clients \cup {NoThread} /\ is_enabled \in BOOLEAN
        /\ pf_action \in BOOLEAN /\ action_sema \in Nat /\ action_quit \in BOOLEAN
        /\ action_mutex \in Clients \cup {Action, NoThread}
        /\ releasing \subseteq Clients /\ delivering \in Ports \cup {NoPort}
    OBVIOUS
  <2> QED BY <2>2, <2>3, <2>4, <2>5, Zenon DEF TypeOK
<1>4. LifeInv
  <2>1. ~Used
    <3>1. \A d \in Clients : component_refs[d] = 0 /\ port_refs[d] = 0 /\ d \notin releasing
      OBVIOUS
    <3> QED BY <3>1 DEF Used
  <2>2. \A d \in Clients \ {c} : ~Sole(d)
    BY <1>2, Order DEF Sole, Creating
  <2>3. ClientPlaces /\ Alone /\ Exists
    BY <1>2, <2>1, <2>2, Order DEF ClientPlaces, Alone, Exists, Creating, Sole
  <2>4. Whole /\ OneReleaser
    BY <2>1 DEF Whole, OneReleaser
  <2>5. CreatorCounted
    BY <1>2, Order DEF CreatorCounted, Creating
  <2>6. CallsHaveReferences
    BY <1>2 DEF CallsHaveReferences, HasWhatItNeeds
  <2> QED BY <2>3, <2>4, <2>5, <2>6 DEF LifeInv
<1>5. PartsInv /\ GoneInv
  BY <1>2 DEF PartsInv, GoneInv
<1>6. PortsInv
  BY <1>2 DEF PortsInv, LeftToDisable, DisabledIsEmpty, QueuedAreServed, TriggerForSomePort,
     EnabledIsReferenced,
     Range
<1>7. ActionInv /\ WakeupPending
  <2>1. \A d \in Clients : pc[d] # "join"
    BY <1>2
  <2>2. ActionInv
    BY <1>2, <2>1 DEF ActionInv
  <2>3. Len(callback_queue) = 0 /\ action_sema = 0
    OBVIOUS
  <2>4. WakeupPending
    BY <1>2, <2>3 DEF WakeupPending
  <2> QED BY <2>2, <2>4
<1>8. SectionInv
  BY <1>2 DEF SectionInv, EnabledRuns
<1> QED BY <1>3, <1>4, <1>5, <1>6, <1>7, <1>8 DEF ComponentIInv

\* Every step keeps the inductive invariant.
LEMMA ComponentStep == ComponentIInv /\ [Next]_vars => ComponentIInv'
<1> SUFFICES ASSUME ComponentIInv, [Next]_vars PROVE ComponentIInv'
  OBVIOUS
<1> USE DEF ComponentIInv
<1>1. CASE Next
  <2>1. \A c \in Clients : At(c, "list") => pf_action /\ parts = Range(CreationOrder) \ {"list"}
    BY Order DEF PartsInv
  <2>2. LifeInv'
    BY <1>1, <2>1, LifeStep
  <2>3. ASSUME NEW c \in Clients, At(c, "release") PROVE refcount_ports > 0 /\ port_refs[c] > 0
    <3>1. port_refs[c] > 0 /\ port_refs \in [Clients -> 0 .. MaxRefs]
      BY <2>3 DEF LifeInv, CallsHaveReferences, HasWhatItNeeds, At, TypeOK
    <3>2. refcount_ports = Cardinality(Tokens(port_refs))
      BY <3>1, UsedOrSole DEF LifeInv, Whole
    <3>3. refcount_ports # 0 /\ refcount_ports \in Nat
      BY <3>1, <3>2, NoTokens, TokensFinite
    <3> QED BY <3>1, <3>3
  <2>4. TypeOK'
    BY <1>1, <2>3, TypeStep DEF LifeInv, CallsHaveReferences, HasWhatItNeeds, PortsInv,
       LeftToDisable, At
  <2> QED BY <1>1, <2>2, <2>4, PartsStep, PortsStep, ActionStep, SectionStep
<1>2. CASE UNCHANGED vars
  <2> USE <1>2 DEF vars, life, references, ports, action, threads
  <2>1. TypeOK'
    BY DEF TypeOK
  <2>2. LifeInv'
    BY LifeSame DEF lifeVars
  <2>3. PartsInv'
    BY DEF PartsInv, At
  <2>4. GoneInv'
    BY DEF GoneInv, At
  <2>5. PortsInv'
    BY PortsBuffers
  <2>6. ActionInv' /\ WakeupPending'
    BY ActionSame DEF At
  <2>7. SectionInv'
    BY DEF SectionInv, EnabledRuns, At
  <2> QED BY <2>1, <2>2, <2>3, <2>4, <2>5, <2>6, <2>7
<1> QED BY <1>1, <1>2

\* The component is alive while it is used, quiet when it is freed, leaves nothing behind and
\* runs when it is enabled: what makes mmal_component_release() safe to call from any thread.
LEMMA ComponentSafe == ComponentIInv => ComponentInv
<1> SUFFICES ASSUME ComponentIInv PROVE ComponentInv
  OBVIOUS
<1> USE DEF ComponentIInv
<1>1. AliveWhileUsed
  <2>1. ASSUME ~allocated PROVE Unreferenced /\ \A c \in Clients : pc[c] \in {"core", "memory", "idle"}
    <3>1. ~Used
      BY <2>1 DEF LifeInv, Whole
    <3>2. Unreferenced
      BY <3>1 DEF Unreferenced, Used, TypeOK
    <3> QED BY <2>1, <3>2, BusyExists
  <2> QED BY <2>1 DEF AliveWhileUsed
<1>2. QuietWhenFreed
  <2>1. ASSUME ~allocated
        PROVE  /\ \A p \in Ports : ~port_enabled[p] /\ inside[p] = 0
               /\ callback_queue = <<>>
               /\ At(Action, "gone") /\ At(Transport, "idle")
    <3>1. ~Used
      BY <2>1 DEF LifeInv, Whole
    <3>2. ~pf_action
      <4>1. \A c \in Clients : pc[c] \in {"core", "memory", "idle"}
        BY <2>1, BusyExists
      <4>2. CASE \A c \in Clients : At(c, "idle")
        BY <2>1, <4>2 DEF GoneInv
      <4>3. ASSUME NEW c \in Clients, pc[c] \in {"core", "memory"} PROVE ~pf_action
        BY <4>3 DEF PartsInv, At
      <4> QED BY <4>1, <4>2, <4>3 DEF At
    <3>3. At(Action, "gone") /\ pc[Transport] \in {"idle", "trigger"}
      BY <3>2 DEF ActionInv
    <3> QED BY <3>1, <3>3, Quiet DEF At
  <2> QED BY <2>1 DEF QuietWhenFreed
<1>3. NothingLeft
  BY DEF NothingLeft, GoneInv
<1> QED BY <1>1, <1>2, <1>3 DEF ComponentInv, SectionInv

\* The same as a theorem of the specification.
THEOREM ComponentIsSafe == Spec => []ComponentInv
<1>1. Spec => []ComponentIInv
  BY ComponentInit, ComponentStep, PTL DEF Spec
<1> QED BY <1>1, ComponentSafe, PTL

\* No buffer in the queue of callbacks is left without a wake-up of the action thread.
THEOREM WakeupIsPending == Spec => []WakeupPending
<1>1. Spec => []ComponentIInv
  BY ComponentInit, ComponentStep, PTL DEF Spec
<1>2. ComponentIInv => WakeupPending
  BY DEF ComponentIInv
<1> QED BY <1>1, <1>2, PTL

-----------------------------------------------------------------------------
(* The clock.                                                              *)


-----------------------------------------------------------------------------
(* The inductive invariant. *)

Busy == {c \in ClockClients : clock_pc[c] # "idle"}

Posters == {c \in ClockClients : clock_pc[c] \in {"insert", "wake", "stop"}}

\* Each post a client is about to make has its room.
WakeupsBounded == event + Cardinality(Posters) <= MaxPosts

\* The lock is held by the thread, as long as it serves.
Locking == clock_lock = (IF worker = "serve" THEN Worker ELSE NoHolder)

\* Nothing ends before mmal_clock_destroy() is called, and the clock is freed at its end.
Ending ==
  /\ worker = "gone" => stop_thread
  /\ \A c \in ClockClients : clock_pc[c] \in {"stop", "join", "free"} => stop_thread
  /\ (\E c \in ClockClients : clock_pc[c] = "free") \/ ~clock_allocated =>
       stop_thread /\ worker = "gone" /\ list_pending = <<>>

\* Where the slots are.
FreeSlots == Range(list_free)

Hands == {slot[c] : c \in ClockClients} \ {NoSlot}

SlotsApart ==
  /\ IsInjective(list_free) /\ IsInjective(list_pending)
  /\ \A c \in ClockClients : slot[c] # NoSlot <=> clock_pc[c] = "insert"
  /\ \A c, d \in ClockClients : slot[c] = slot[d] /\ slot[c] # NoSlot => c = d
  /\ FreeSlots \cap Pending = {} /\ FreeSlots \cap lost = {} /\ Pending \cap lost = {}
  /\ Hands \cap (FreeSlots \cup Pending \cup lost) = {}
  /\ Slots = FreeSlots \cup Pending \cup lost \cup Hands
  /\ lost # {} => stop_thread

ClockIInv ==
  ClockTypeOK /\ WakeupsBounded /\ Locking /\ Ending /\ SlotsApart /\ WakeupCovers

-----------------------------------------------------------------------------
(* Sequences without repetition. *)

LEMMA RangeOf ==
  ASSUME NEW S, NEW q \in Seq(S)
  PROVE  /\ \A x : x \in Range(q) <=> \E i \in 1 .. Len(q) : q[i] = x
         /\ IsInjective(q) <=> \A i, j \in 1 .. Len(q) : q[i] = q[j] => i = j
         /\ Range(q) \subseteq S /\ (q = <<>> => Range(q) = {})
<1>1. DOMAIN q = 1 .. Len(q) /\ \A i \in 1 .. Len(q) : q[i] \in S
  OBVIOUS
<1>2. q = <<>> => Len(q) = 0
  OBVIOUS
<1> QED BY <1>1, <1>2 DEF Range, IsInjective

LEMMA TailOf ==
  ASSUME NEW S, NEW q \in Seq(S), q # <<>>
  PROVE  /\ Tail(q) \in Seq(S) /\ Head(q) \in Range(q)
         /\ IsInjective(q) => IsInjective(Tail(q)) /\ Range(Tail(q)) = Range(q) \ {Head(q)}
<1> DEFINE t == Tail(q)
<1>1. /\ t \in Seq(S) /\ Len(q) \in Nat \ {0} /\ Len(t) = Len(q) - 1
      /\ \A i \in 1 .. Len(q) - 1 : t[i] = q[i + 1]
      /\ Head(q) = q[1]
  OBVIOUS
<1>2. Head(q) \in Range(q)
  BY <1>1, RangeOf
<1> HIDE DEF t
<1>3. ASSUME IsInjective(q) PROVE IsInjective(t) /\ Range(t) = Range(q) \ {Head(q)}
  <2>1. IsInjective(t)
    <3> SUFFICES ASSUME NEW i \in 1 .. Len(t), NEW j \in 1 .. Len(t), t[i] = t[j]
                 PROVE  i = j
      BY <1>1, RangeOf
    <3>1. i + 1 \in 1 .. Len(q) /\ j + 1 \in 1 .. Len(q) /\ q[i + 1] = q[j + 1]
      BY <1>1
    <3>2. i + 1 = j + 1
      BY <3>1, <1>3, RangeOf
    <3> QED BY <3>2, <1>1
  <2>2. ASSUME NEW x \in Range(t) PROVE x \in Range(q) /\ x # Head(q)
    <3>1. PICK i \in 1 .. Len(t) : t[i] = x
      BY <1>1, RangeOf
    <3>2. i + 1 \in 1 .. Len(q) /\ q[i + 1] = x /\ 1 \in 1 .. Len(q) /\ i + 1 # 1
      BY <3>1, <1>1
    <3>3. q[i + 1] # q[1]
      BY <3>2, <1>3, RangeOf
    <3> QED BY <3>2, <3>3, <1>1, RangeOf
  <2>3. ASSUME NEW x \in Range(q), x # Head(q) PROVE x \in Range(t)
    <3>1. PICK i \in 1 .. Len(q) : q[i] = x
      BY RangeOf
    <3>2. i - 1 \in 1 .. Len(t) /\ t[i - 1] = x
      <4>1. i # 1
        BY <3>1, <2>3, <1>1
      <4>2. i - 1 \in 1 .. Len(q) - 1 /\ (i - 1) + 1 = i
        BY <4>1, <1>1
      <4> QED BY <4>2, <3>1, <1>1
    <3> QED BY <3>2, <1>1, RangeOf
  <2> QED BY <2>1, <2>2, <2>3
<1> QED BY <1>1, <1>2, <1>3 DEF t

LEMMA ConcatOf ==
  ASSUME NEW S, NEW q \in Seq(S), NEW r \in Seq(S)
  PROVE  /\ q \o r \in Seq(S) /\ Range(q \o r) = Range(q) \cup Range(r)
         /\ IsInjective(q) /\ IsInjective(r) /\ Range(q) \cap Range(r) = {} => IsInjective(q \o r)
<1> DEFINE c == q \o r
<1>1. /\ c \in Seq(S) /\ Len(q) \in Nat /\ Len(r) \in Nat /\ Len(c) = Len(q) + Len(r)
      /\ \A i \in 1 .. Len(q) : c[i] = q[i]
      /\ \A i \in 1 .. Len(r) : c[Len(q) + i] = r[i]
  OBVIOUS
<1> HIDE DEF c
<1>2. \A i \in 1 .. Len(c) : i \in 1 .. Len(q) \/ (i - Len(q) \in 1 .. Len(r) /\ c[i] = r[i - Len(q)])
  <2> SUFFICES ASSUME NEW i \in 1 .. Len(c), i \notin 1 .. Len(q)
               PROVE  i - Len(q) \in 1 .. Len(r) /\ c[i] = r[i - Len(q)]
    OBVIOUS
  <2>1. i - Len(q) \in 1 .. Len(r) /\ Len(q) + (i - Len(q)) = i
    BY <1>1
  <2> QED BY <2>1, <1>1
<1>3. Range(c) = Range(q) \cup Range(r)
  <2>1. \A x \in Range(c) : x \in Range(q) \cup Range(r)
    <3> TAKE x \in Range(c)
    <3>1. PICK i \in 1 .. Len(c) : c[i] = x
      BY <1>1, RangeOf
    <3>3. CASE i \in 1 .. Len(q)
      <4>1. q[i] = x
        BY <3>1, <3>3, <1>1
      <4> QED BY <4>1, <3>3, RangeOf
    <3>4. ASSUME i - Len(q) \in 1 .. Len(r), c[i] = r[i - Len(q)]
          PROVE  x \in Range(r)
      <4>1. r[i - Len(q)] = x
        BY <3>1, <3>4
      <4> QED BY <4>1, <3>4, RangeOf
    <3>5. i \in 1 .. Len(c)
      BY <3>1
    <3> QED BY <1>2, <3>3, <3>4, <3>5
  <2>2. \A x \in Range(q) : x \in Range(c)
    <3> TAKE x \in Range(q)
    <3>1. PICK i \in 1 .. Len(q) : q[i] = x
      BY RangeOf
    <3>2. i \in 1 .. Len(c) /\ c[i] = x
      BY <3>1, <1>1
    <3> QED BY <3>2, <1>1, RangeOf
  <2>3. \A x \in Range(r) : x \in Range(c)
    <3> TAKE x \in Range(r)
    <3>1. PICK i \in 1 .. Len(r) : r[i] = x
      BY RangeOf
    <3>2. Len(q) + i \in 1 .. Len(c) /\ c[Len(q) + i] = x
      BY <3>1, <1>1
    <3> QED BY <3>2, <1>1, RangeOf
  <2> QED BY <2>1, <2>2, <2>3
<1>4. ASSUME IsInjective(q), IsInjective(r), Range(q) \cap Range(r) = {}
      PROVE  IsInjective(c)
  <2> SUFFICES ASSUME NEW i \in 1 .. Len(c), NEW j \in 1 .. Len(c),
                      c[i] = c[j]
               PROVE  i = j
    BY <1>1, RangeOf
  <2>1. CASE i \in 1 .. Len(q) /\ j \in 1 .. Len(q)
    BY <2>1, <1>1, <1>4, RangeOf
  <2>2. CASE i \notin 1 .. Len(q) /\ j \notin 1 .. Len(q)
    <3>1. r[i - Len(q)] = r[j - Len(q)] /\ i - Len(q) \in 1 .. Len(r) /\ j - Len(q) \in 1 .. Len(r)
      BY <2>2, <1>2
    <3>2. i - Len(q) = j - Len(q)
      BY <3>1, <1>4, RangeOf
    <3> QED BY <3>2, <1>1
  <2>3. CASE i \in 1 .. Len(q) /\ j \notin 1 .. Len(q)
    <3>1. c[i] \in Range(q) /\ c[j] \in Range(r)
      BY <2>3, <1>1, <1>2, RangeOf
    <3> QED BY <3>1, <1>4
  <2>4. CASE i \notin 1 .. Len(q) /\ j \in 1 .. Len(q)
    <3>1. c[i] \in Range(r) /\ c[j] \in Range(q)
      BY <2>4, <1>1, <1>2, RangeOf
    <3> QED BY <3>1, <1>4
  <2> QED BY <2>1, <2>2, <2>3, <2>4
<1> QED BY <1>1, <1>3, <1>4 DEF c

LEMMA AppendOf ==
  ASSUME NEW S, NEW q \in Seq(S), NEW x \in S
  PROVE  /\ Append(q, x) \in Seq(S) /\ Range(Append(q, x)) = Range(q) \cup {x}
         /\ IsInjective(q) /\ x \notin Range(q) => IsInjective(Append(q, x))
<1>1. Append(q, x) = q \o <<x>> /\ <<x>> \in Seq(S)
  OBVIOUS
<1>2. Range(<<x>>) = {x} /\ IsInjective(<<x>>)
  BY DEF Range, IsInjective
<1>3. x \notin Range(q) => Range(q) \cap {x} = {}
  OBVIOUS
<1> DEFINE r == <<x>>
<1>4. r \in Seq(S) /\ Range(r) = {x} /\ IsInjective(r)
  BY <1>1, <1>2
<1> HIDE DEF r
<1>5. /\ q \o r \in Seq(S) /\ Range(q \o r) = Range(q) \cup {x}
      /\ IsInjective(q) /\ x \notin Range(q) => IsInjective(q \o r)
  BY <1>3, <1>4, ConcatOf
<1> QED BY <1>1, <1>5 DEF r

LEMMA InsertOf ==
  ASSUME NEW S, NEW q \in Seq(S), NEW x \in S, NEW i \in 1 .. Len(q) + 1
  PROVE  /\ InsertAt(q, i, x) \in Seq(S) /\ Len(InsertAt(q, i, x)) = Len(q) + 1
         /\ \A j \in 1 .. Len(q) + 1 :
              InsertAt(q, i, x)[j] = IF j < i THEN q[j] ELSE IF j = i THEN x ELSE q[j - 1]
         /\ Range(InsertAt(q, i, x)) = Range(q) \cup {x}
         /\ IsInjective(q) /\ x \notin Range(q) => IsInjective(InsertAt(q, i, x))
<1> DEFINE a == SubSeq(q, 1, i - 1)
           b == SubSeq(q, i, Len(q))
           n == InsertAt(q, i, x)
<1>1. Len(q) \in Nat /\ i \in Nat \ {0} /\ i <= Len(q) + 1
  OBVIOUS
<1>2. /\ a \in Seq(S) /\ Len(a) = i - 1 /\ \A j \in 1 .. i - 1 : a[j] = q[j]
  <2>1. \A k \in 1 .. i - 1 : q[k] \in S
    BY <1>1
  <2>2. Len(a) = i - 1
    BY <1>1
  <2>3. \A j \in 1 .. i - 1 : a[j] = q[j]
    BY <1>1
  <2> QED BY <2>1, <2>2, <2>3, <1>1, SubSeqProperties
<1>3. /\ b \in Seq(S) /\ Len(b) = Len(q) - i + 1
      /\ \A j \in 1 .. Len(q) - i + 1 : b[j] = q[i + j - 1]
  <2>1. \A k \in i .. Len(q) : q[k] \in S
    BY <1>1
  <2> QED BY <2>1, <1>1, SubSeqProperties
<1>4. n = (a \o <<x>>) \o b /\ <<x>> \in Seq(S)
  BY DEF InsertAt
<1> DEFINE p == a \o <<x>>
<1>5. /\ p \in Seq(S) /\ Len(p) = i
      /\ \A j \in 1 .. i : p[j] = IF j < i THEN q[j] ELSE x
  <2> HIDE DEF a
  <2> QED BY <1>1, <1>2, <1>4
<1> HIDE DEF a, b, n, p
<1>6. n \in Seq(S) /\ Len(n) = Len(q) + 1
  BY <1>1, <1>3, <1>4, <1>5 DEF p
<1>7. \A j \in 1 .. i : n[j] = IF j < i THEN q[j] ELSE x
  BY <1>1, <1>3, <1>4, <1>5 DEF p
<1>8. ASSUME NEW j \in i + 1 .. Len(q) + 1 PROVE n[j] = q[j - 1]
  <2>1. j - i \in 1 .. Len(b) /\ i + (j - i) = j
    BY <1>1, <1>3, <1>8
  <2>2. n[i + (j - i)] = b[j - i]
    BY <2>1, <1>3, <1>4, <1>5 DEF p
  <2>3. b[j - i] = q[i + (j - i) - 1] /\ i + (j - i) - 1 = j - 1
    BY <2>1, <1>1, <1>3
  <2> QED BY <2>1, <2>2, <2>3
<1>9. \A j \in 1 .. Len(q) + 1 : n[j] = IF j < i THEN q[j] ELSE IF j = i THEN x ELSE q[j - 1]
  <2> TAKE j \in 1 .. Len(q) + 1
  <2>1. j \in 1 .. i \/ j \in i + 1 .. Len(q) + 1
    BY <1>1
  <2> QED BY <2>1, <1>1, <1>7, <1>8
<1>10. Range(n) = Range(q) \cup {x}
  <2>1. \A y \in Range(n) : y \in Range(q) \cup {x}
    <3> TAKE y \in Range(n)
    <3>1. PICK j \in 1 .. Len(q) + 1 : n[j] = y
      BY <1>6, RangeOf
    <3>2. CASE j < i
      BY <3>1, <3>2, <1>1, <1>9, RangeOf
    <3>3. CASE j = i
      BY <3>1, <3>3, <1>9
    <3>4. CASE j > i
      <4>1. j - 1 \in 1 .. Len(q) /\ q[j - 1] = y
        BY <3>1, <3>4, <1>1, <1>9
      <4> QED BY <4>1, RangeOf
    <3> QED BY <1>1, <3>2, <3>3, <3>4
  <2>2. ASSUME NEW y \in Range(q) PROVE y \in Range(n)
    <3>1. PICK j \in 1 .. Len(q) : q[j] = y
      BY RangeOf
    <3>2. CASE j < i
      <4>1. j \in 1 .. Len(n) /\ n[j] = y
        BY <3>1, <3>2, <1>1, <1>6, <1>9
      <4> QED BY <4>1, <1>6, RangeOf
    <3>3. CASE j >= i
      <4>1. j + 1 \in 1 .. Len(q) + 1 /\ ~(j + 1 < i) /\ j + 1 # i /\ (j + 1) - 1 = j
        BY <3>3, <1>1
      <4>2. n[j + 1] = y
        BY <4>1, <3>1, <1>9
      <4> QED BY <4>1, <4>2, <1>6, RangeOf
    <3> QED BY <1>1, <3>2, <3>3
  <2>3. x \in Range(n)
    <3>1. i \in 1 .. Len(n) /\ n[i] = x
      BY <1>1, <1>6, <1>9
    <3> QED BY <3>1, <1>6, RangeOf
  <2> QED BY <2>1, <2>2, <2>3
<1>11. ASSUME IsInjective(q), x \notin Range(q) PROVE IsInjective(n)
  <2> SUFFICES ASSUME NEW j \in 1 .. Len(q) + 1, NEW k \in 1 .. Len(q) + 1, n[j] = n[k]
               PROVE  j = k
    BY <1>6, RangeOf
  <2> DEFINE w(l) == IF l < i THEN l ELSE l - 1
  <2>1. \A l \in 1 .. Len(q) + 1 : l # i => w(l) \in 1 .. Len(q) /\ n[l] = q[w(l)]
    BY <1>1, <1>9
  <2>2. \A l \in 1 .. Len(q) : q[l] # x
    BY <1>11, RangeOf
  <2>3. n[i] = x
    BY <1>1, <1>9
  <2>4. CASE j # i /\ k # i
    <3>1. w(j) = w(k)
      BY <2>1, <2>4, <1>11, RangeOf
    <3> QED BY <3>1, <2>4, <1>1
  <2>5. CASE j = i \/ k = i
    BY <2>1, <2>2, <2>3, <2>5
  <2> QED BY <2>4, <2>5
<1> QED BY <1>6, <1>9, <1>10, <1>11 DEF n

-----------------------------------------------------------------------------
(* The semaphore has room for every post that is still to come. *)

LEMMA PostersCounted ==
  ASSUME ClockTypeOK
  PROVE  /\ Cardinality(Posters) \in Nat /\ Cardinality(Busy) \in Nat
         /\ Cardinality(Posters) <= Cardinality(Busy)
         /\ clock_pc' = clock_pc => Cardinality(Posters') = Cardinality(Posters)
<1>1. Posters \subseteq Busy /\ Busy \subseteq ClockClients /\ IsFiniteSet(ClockClients)
  BY ClockAssumption DEF Posters, Busy
<1>2. IsFiniteSet(Busy) /\ IsFiniteSet(Posters)
  BY <1>1, FS_Subset
<1>3. clock_pc' = clock_pc => Posters' = Posters
  BY DEF Posters
<1> QED BY <1>1, <1>2, <1>3, FS_Subset, FS_CardinalityType

LEMMA PostersMove ==
  ASSUME ClockTypeOK, NEW c \in ClockClients, NEW l, ClockGoto(c, l)
  PROVE  Cardinality(Posters') =
           Cardinality(Posters) + (IF l \in {"insert", "wake", "stop"} THEN 1 ELSE 0)
             - (IF clock_pc[c] \in {"insert", "wake", "stop"} THEN 1 ELSE 0)
<1> DEFINE P == {"insert", "wake", "stop"}
<1>1. \A d \in ClockClients : clock_pc'[d] = IF d = c THEN l ELSE clock_pc[d]
  BY DEF ClockTypeOK, ClockGoto
<1>2. IsFiniteSet(Posters) /\ Cardinality(Posters) \in Nat
  <2>1. Posters \subseteq ClockClients
    BY DEF Posters
  <2> QED BY <2>1, ClockAssumption, FS_Subset, FS_CardinalityType
<1>3. Posters' = IF l \in P THEN Posters \cup {c} ELSE Posters \ {c}
  BY <1>1 DEF Posters
<1>4. c \in Posters <=> clock_pc[c] \in P
  BY DEF Posters
<1>5. CASE l \in P
  BY <1>2, <1>3, <1>4, <1>5, FS_AddElement
<1>6. CASE l \notin P
  <2>1. Posters' = Posters \ {c}
    BY <1>3, <1>6
  <2>2. Cardinality(Posters') = IF c \in Posters THEN Cardinality(Posters) - 1 ELSE Cardinality(Posters)
    BY <2>1, <1>2, FS_RemoveElement
  <2> QED BY <2>2, <1>2, <1>4, <1>6
<1> QED BY <1>5, <1>6

LEMMA WakeupsStep ==
  ASSUME ClockTypeOK, WakeupsBounded, [ClockNext]_clockvars
  PROVE  event' \in 0 .. MaxPosts /\ WakeupsBounded'
<1> DEFINE n == Cardinality(Posters)
<1>1. /\ n \in Nat /\ Cardinality(Busy) \in Nat /\ n <= Cardinality(Busy)
      /\ clock_pc' = clock_pc => Cardinality(Posters') = n
      /\ Room <=> event + Cardinality(Busy) < MaxPosts
      /\ event \in Nat /\ MaxPosts \in Nat
  BY PostersCounted, ClockAssumption DEF Room, Busy, ClockTypeOK
<1>2. ASSUME \/ event' = event /\ Cardinality(Posters') \in {n, n - 1}
             \/ event' = event /\ Cardinality(Posters') = n + 1 /\ Room
             \/ event' = event + 1 /\ Cardinality(Posters') = n - 1
             \/ event' = event + 1 /\ Cardinality(Posters') = n /\ Room
             \/ event' = event - 1 /\ event > 0 /\ Cardinality(Posters') = n
      PROVE  event' \in 0 .. MaxPosts /\ WakeupsBounded'
  <2> DEFINE m == Cardinality(Posters')
  <2>1. m \in Nat \/ m = n - 1
    BY <1>1, <1>2
  <2>2. m \in Nat
    <3>1. Posters' \subseteq ClockClients
      BY DEF Posters
    <3> QED BY <3>1, ClockAssumption, FS_Subset, FS_CardinalityType
  <2>3. event' + m <= MaxPosts /\ event' \in Nat
    <3> HIDE DEF m, n
    <3> QED BY <1>1, <1>2, <2>2 DEF WakeupsBounded, m, n
  <2> QED BY <2>2, <2>3, <1>1 DEF WakeupsBounded
<1>3. \A c \in ClockClients : clock_pc[c] \in {"idle", "insert", "wake", "stop", "join", "free"}
  BY DEF ClockTypeOK
<1>4. CASE UNCHANGED clockvars
  BY <1>1, <1>2, <1>4 DEF clockvars, clients
<1>5. ASSUME NEW c \in ClockClients, Begins(c) PROVE event' \in 0 .. MaxPosts /\ WakeupsBounded'
  <2>1. event' = event
    BY <1>5 DEF Begins, Add, SetTime, SetScale, Start, Stop, Flush, ClockDestroy
  <2>2. \/ clock_pc' = clock_pc
        \/ Room /\ clock_pc[c] = "idle" /\ \E l \in {"insert", "wake", "stop"} : ClockGoto(c, l)
    BY <1>5 DEF Begins, Add, SetTime, SetScale, Start, Stop, Flush, ClockDestroy, Idle, clients
  <2>3. clock_pc' # clock_pc => Room /\ Cardinality(Posters') = n + 1
    BY <1>1, <2>2, PostersMove
  <2> QED BY <1>1, <1>2, <2>1, <2>3
<1>6. ASSUME NEW c \in ClockClients, ClockGoesOn(c) PROVE event' \in 0 .. MaxPosts /\ WakeupsBounded'
  <2>1. CASE Insert(c)
    <3>1. event' = event /\ clock_pc[c] = "insert" /\ ClockGoto(c, "wake")
      BY <2>1 DEF Insert
    <3>2. Cardinality(Posters') = n
      BY <3>1, <1>1, PostersMove
    <3> QED BY <3>1, <3>2, <1>2
  <2>2. CASE InsertRefused(c)
    <3>1. event' = event /\ clock_pc[c] = "insert" /\ ClockGoto(c, "idle")
      BY <2>2 DEF InsertRefused
    <3>2. Cardinality(Posters') = n - 1
      BY <3>1, <1>1, PostersMove
    <3> QED BY <3>1, <3>2, <1>2
  <2>3. CASE WakeThread(c)
    <3>1. event' = event + 1 /\ clock_pc[c] = "wake" /\ ClockGoto(c, "idle")
      BY <2>3 DEF WakeThread
    <3>2. Cardinality(Posters') = n - 1
      BY <3>1, <1>1, PostersMove
    <3> QED BY <3>1, <3>2, <1>2
  <2>4. CASE DestroyWake(c)
    <3>1. event' = event + 1 /\ clock_pc[c] = "stop" /\ ClockGoto(c, "join")
      BY <2>4 DEF DestroyWake
    <3>2. Cardinality(Posters') = n - 1
      BY <3>1, <1>1, PostersMove
    <3> QED BY <3>1, <3>2, <1>2
  <2>5. CASE DestroyJoin(c) \/ DestroyFree(c)
    <3>1. event' = event /\ clock_pc[c] \in {"join", "free"} /\ \E l \in {"free", "idle"} : ClockGoto(c, l)
      BY <2>5 DEF DestroyJoin, DestroyFree
    <3>2. Cardinality(Posters') = n
      BY <3>1, <1>1, PostersMove
    <3> QED BY <3>1, <3>2, <1>2
  <2> QED BY <1>6, <2>1, <2>2, <2>3, <2>4, <2>5 DEF ClockGoesOn
<1>7. ASSUME NEW t \in Times, Elapse(t) PROVE event' \in 0 .. MaxPosts /\ WakeupsBounded'
  BY <1>1, <1>2, <1>7 DEF Elapse, clients
<1>8. CASE TimerExpires
  BY <1>1, <1>2, <1>8 DEF TimerExpires, clients
<1>9. CASE WorkerRuns
  <2>1. CASE WorkerWoken
    BY <1>1, <1>2, <2>1 DEF WorkerWoken, clients
  <2>2. CASE ~WorkerWoken
    <3>1. event' = event /\ clock_pc' = clock_pc
      BY <1>9, <2>2 DEF WorkerRuns, NothingToServe, SomethingToServe, BeginServing, Serve, Reschedule,
         AllServed, clients
    <3> QED BY <3>1, <1>1, <1>2
  <2> QED BY <2>1, <2>2
<1>10. CASE ClockFinished
  BY <1>4, <1>10 DEF ClockFinished
<1> QED BY <1>4, <1>5, <1>6, <1>7, <1>8, <1>9, <1>10 DEF ClockNext

-----------------------------------------------------------------------------
(* The thread, the lock and the end of the clock; no wakeup is lost. *)

Control == Locking /\ Ending /\ WakeupCovers

LEMMA ControlStep ==
  ASSUME ClockTypeOK, Control, [ClockNext]_clockvars
  PROVE  Control'
<1> USE DEF Control
<1>1. CASE UNCHANGED clockvars
  BY <1>1 DEF clockvars, clients, lists, Locking, Ending, WakeupCovers
<1>2. ASSUME NEW c \in ClockClients, Begins(c) PROVE Control'
  <2>0. clock_pc[c] = "idle" /\ ~stop_thread
    BY <1>2 DEF Begins, Add, SetTime, SetScale, Start, Stop, Flush, ClockDestroy, Idle
  <2>1. UNCHANGED <<worker, clock_lock, clock_allocated, event, timer>>
    BY <1>2 DEF Begins, Add, SetTime, SetScale, Start, Stop, Flush, ClockDestroy
  <2>2. clock_allocated /\ worker # "gone" /\ \A d \in ClockClients : clock_pc[d] \notin {"stop", "join", "free"}
    BY <2>0 DEF Ending, ClockTypeOK
  <2>3. Locking'
    BY <2>1 DEF Locking
  <2>4. CASE ClockDestroy(c)
    <3>1. stop_thread' /\ clock_pc' = [clock_pc EXCEPT ![c] = "stop"]
      BY <2>4 DEF ClockDestroy, ClockGoto
    <3>2. \A d \in ClockClients : clock_pc'[d] # "free"
      BY <2>2, <3>1 DEF ClockTypeOK
    <3> QED BY <2>1, <2>2, <2>3, <3>1, <3>2 DEF Ending, WakeupCovers
  <2>5. CASE ~ClockDestroy(c)
    <3>1. /\ ~stop_thread' /\ \A d \in ClockClients : clock_pc'[d] \notin {"stop", "join", "free"}
      <4>1. stop_thread' = stop_thread
        BY <1>2, <2>5 DEF Begins, Add, SetTime, SetScale, Start, Stop, Flush
      <4>2. clock_pc' = clock_pc \/ \E l \in {"insert", "wake"} : clock_pc' = [clock_pc EXCEPT ![c] = l]
        BY <1>2, <2>5 DEF Begins, Add, SetTime, SetScale, Start, Stop, Flush, ClockGoto, clients
      <4> QED BY <4>1, <4>2, <2>0, <2>2 DEF ClockTypeOK
    <3>2. Ending'
      BY <2>1, <2>2, <3>1 DEF Ending
    <3>3. WakeupCovers'
      <4>1. CASE Stop(c) \/ Flush(c)
        BY <4>1, <2>1 DEF Stop, Flush, FlushLocked, WakeupCovers, lists, clients
      <4>2. CASE \E t \in Times : Add(c, t)
        <5>1. /\ UNCHANGED <<is_active, list_pending, stop_thread, event, timer, worker>>
              /\ clock_pc[c] = "idle" /\ clock_pc' = [clock_pc EXCEPT ![c] = "insert"]
          BY <4>2 DEF Add, Idle, ClockGoto
        <5>2. \A d \in ClockClients : clock_pc[d] = "wake" => clock_pc'[d] = "wake"
          BY <5>1 DEF ClockTypeOK
        <5> QED BY <5>1, <5>2 DEF WakeupCovers
      <4>3. CASE (\E t \in Times : SetTime(c, t)) \/ (\E s \in Scales : SetScale(c, s)) \/ Start(c)
        <5>1. clock_pc' = [clock_pc EXCEPT ![c] = "wake"]
          BY <4>3 DEF SetTime, SetScale, Start, ClockGoto
        <5>2. clock_pc'[c] = "wake"
          BY <5>1 DEF ClockTypeOK
        <5> QED BY <5>2 DEF WakeupCovers
      <4> QED BY <1>2, <2>5, <4>1, <4>2, <4>3 DEF Begins
    <3> QED BY <2>3, <3>2, <3>3
  <2> QED BY <2>4, <2>5
<1>3. ASSUME NEW c \in ClockClients, ClockGoesOn(c) PROVE Control'
  <2>0. /\ UNCHANGED <<worker, clock_lock, stop_thread, timer, is_active>>
        /\ DOMAIN clock_pc = ClockClients /\ event \in Nat
    BY <1>3 DEF ClockGoesOn, Insert, InsertRefused, WakeThread, DestroyWake, DestroyJoin,
       DestroyFree, ClockTypeOK
  <2>1. Locking'
    BY <2>0 DEF Locking
  <2>2. CASE Insert(c)
    <3>1. /\ ~stop_thread /\ clock_allocated' = clock_allocated
          /\ clock_pc'[c] = "wake" /\ \A d \in ClockClients : clock_pc'[d] \in {clock_pc[d], "wake"}
      BY <2>2, <2>0 DEF Insert, ClockGoto
    <3> QED BY <2>0, <2>1, <3>1 DEF Ending, WakeupCovers
  <2>3. CASE InsertRefused(c)
    <3>1. /\ stop_thread /\ UNCHANGED <<clock_allocated, list_pending>>
          /\ \A d \in ClockClients : clock_pc'[d] \in {clock_pc[d], "idle"}
      BY <2>3, <2>0 DEF InsertRefused, ClockGoto
    <3> QED BY <2>0, <2>1, <3>1 DEF Ending, WakeupCovers
  <2>4. CASE WakeThread(c)
    <3>1. /\ event' = event + 1 /\ UNCHANGED <<clock_allocated, list_pending>>
          /\ \A d \in ClockClients : clock_pc'[d] \in {clock_pc[d], "idle"}
      BY <2>4, <2>0 DEF WakeThread, ClockGoto, lists
    <3> QED BY <2>0, <2>1, <3>1 DEF Ending, WakeupCovers
  <2>5. CASE DestroyWake(c)
    <3>1. /\ stop_thread /\ UNCHANGED <<clock_allocated, list_pending>>
          /\ \A d \in ClockClients : clock_pc'[d] \in {clock_pc[d], "join"}
      BY <2>5, <2>0 DEF DestroyWake, ClockGoto, lists, Ending
    <3> QED BY <2>0, <2>1, <3>1 DEF Ending, WakeupCovers
  <2>6. CASE DestroyJoin(c)
    <3>1. /\ stop_thread /\ worker = "gone" /\ list_pending' = <<>>
      BY <2>6, <2>0 DEF DestroyJoin, FlushLocked, Ending
    <3> QED BY <2>0, <2>1, <3>1 DEF Ending, WakeupCovers
  <2>7. CASE DestroyFree(c)
    <3>1. stop_thread /\ worker = "gone" /\ list_pending = <<>> /\ list_pending' = list_pending
      BY <2>7 DEF DestroyFree, Ending, lists
    <3> QED BY <2>0, <2>1, <3>1 DEF Ending, WakeupCovers
  <2> QED BY <1>3, <2>2, <2>3, <2>4, <2>5, <2>6, <2>7 DEF ClockGoesOn
<1>4. ASSUME NEW t \in Times, Elapse(t) PROVE Control'
  BY <1>4 DEF Elapse, clients, lists, Locking, Ending, WakeupCovers
<1>5. CASE TimerExpires
  BY <1>5 DEF TimerExpires, clients, lists, Locking, Ending, WakeupCovers, ClockTypeOK
<1>6. CASE WorkerRuns
  <2>1. worker # "gone" /\ UNCHANGED <<clock_allocated, stop_thread, clock_pc, is_active>>
    BY <1>6 DEF WorkerRuns, WorkerWoken, NothingToServe, SomethingToServe, BeginServing, Serve,
       Reschedule,
       AllServed, clients
  <2>2. clock_allocated /\ \A c \in ClockClients : clock_pc[c] # "free"
    BY <2>1 DEF Ending
  <2>3. Locking'
    BY <1>6 DEF WorkerRuns, WorkerWoken, NothingToServe, SomethingToServe, BeginServing, Serve,
       Reschedule,
       AllServed, Locking
  <2>4. Ending'
    <3>1. worker' = "gone" => stop_thread
      BY <1>6, <2>1 DEF WorkerRuns, WorkerWoken, NothingToServe, SomethingToServe, BeginServing,
         Serve,
         Reschedule, AllServed
    <3> QED BY <2>1, <2>2, <3>1 DEF Ending
  <2>5. WakeupCovers'
    <3>1. CASE WorkerWoken \/ SomethingToServe \/ BeginServing \/ Serve \/ Reschedule
      BY <2>1, <3>1 DEF WorkerWoken, SomethingToServe, BeginServing, Serve, Reschedule, WakeupCovers
    <3>2. CASE NothingToServe \/ AllServed
      BY <2>1, <3>2 DEF NothingToServe, AllServed, WakeupCovers, lists
    <3> QED BY <1>6, <3>1, <3>2 DEF WorkerRuns
  <2> QED BY <2>3, <2>4, <2>5
<1>7. CASE ClockFinished
  BY <1>1, <1>7 DEF ClockFinished
<1> QED BY <1>1, <1>2, <1>3, <1>4, <1>5, <1>6, <1>7 DEF ClockNext

-----------------------------------------------------------------------------
(* Where the slots are. *)

\* mmal_clock_request_insert() finds a place in the list, behind what is served before.
LEMMA PositionIs ==
  ASSUME ClockTypeOK, NEW s \in Slots
  PROVE  /\ Position(s) \in 1 .. Len(list_pending) + 1
         /\ Position(s) \in 1 .. Len(list_pending) =>
              /\ Before(s, list_pending[Position(s)])
              /\ \A j \in 1 .. Position(s) - 1 : ~Before(s, list_pending[j])
         /\ Position(s) = Len(list_pending) + 1 =>
              list_pending = <<>> \/ ~Before(s, list_pending[Len(list_pending)])
<1> DEFINE q == list_pending
           after == {i \in DOMAIN q : Before(s, q[i])}
<1>1. q \in Seq(Slots) /\ DOMAIN q = 1 .. Len(q) /\ Len(q) \in Nat
  BY DEF ClockTypeOK
<1>2. CASE q = <<>> \/ ~Before(s, q[Len(q)])
  <2>1. Position(s) = Len(q) + 1
    BY <1>2 DEF Position, Last
  <2> QED BY <2>1, <1>1, <1>2
<1>3. CASE q # <<>> /\ Before(s, q[Len(q)])
  <2>1. Len(q) \in DOMAIN q
    BY <1>1, <1>3
  <2>2. Len(q) \in after /\ after \subseteq Nat
    BY <2>1, <1>1, <1>3
  <2>3. \E i \in after : \A j \in after : i <= j
    <3>1. PICK i \in after : \A j \in after : ~(<<j, i>> \in OpToRel(<, Nat))
      BY <2>2, NatLessThanWellFounded, WFMin
    <3>2. \A j \in after : ~(j < i)
      BY <3>1, <2>2 DEF OpToRel
    <3>3. \A j \in after : i <= j
      <4>1. i \in Nat
        BY <2>2
      <4> QED BY <4>1, <3>2, <2>2
    <3> QED BY <3>3
  <2>4. Position(s) = CHOOSE i \in after : \A j \in after : i <= j
    BY <1>3 DEF Position, Last
  <2>5. Position(s) \in after /\ \A j \in after : Position(s) <= j
    BY <2>3, <2>4
  <2>6. Position(s) \in 1 .. Len(q) /\ Before(s, q[Position(s)])
    BY <2>5, <1>1
  <2>7. \A j \in 1 .. Position(s) - 1 : ~Before(s, q[j])
    BY <2>5, <2>6, <1>1
  <2> QED BY <2>6, <2>7, <1>1
<1> QED BY <1>2, <1>3

TakesSlot(c, s) == slot' = [slot EXCEPT ![c] = s]

LEMMA HandsMove ==
  ASSUME ClockTypeOK, NEW c \in ClockClients, NEW s \in Slots \cup {NoSlot}, TakesSlot(c, s),
         \A d, e \in ClockClients : slot[d] = slot[e] /\ slot[d] # NoSlot => d = e,
         s = NoSlot \/ s \notin Hands
  PROVE  /\ Hands' = (Hands \ {slot[c]}) \cup ({s} \ {NoSlot})
         /\ \A d, e \in ClockClients : slot'[d] = slot'[e] /\ slot'[d] # NoSlot => d = e
         /\ \A d \in ClockClients : slot'[d] = IF d = c THEN s ELSE slot[d]
<1>1. \A d \in ClockClients : slot'[d] = IF d = c THEN s ELSE slot[d]
  BY DEF ClockTypeOK, TakesSlot
<1>2. \A d \in ClockClients : slot[d] # NoSlot => slot[d] \in Hands
  BY DEF Hands
<1> QED BY <1>1, <1>2 DEF Hands

LEMMA FlushMoves ==
  ASSUME ClockTypeOK, IsInjective(list_free), IsInjective(list_pending), FreeSlots \cap Pending = {},
         FlushLocked
  PROVE  /\ list_free' \in Seq(Slots) /\ list_pending' \in Seq(Slots)
         /\ IsInjective(list_free') /\ IsInjective(list_pending')
         /\ FreeSlots' = FreeSlots \cup Pending /\ Pending' = {} /\ lost' = lost
         /\ media_time_at_timer' = 0 /\ media_time_adj' = media_time_adj
<1>1. list_free' = list_free \o list_pending /\ list_pending' = <<>> /\ lost' = lost
  BY DEF FlushLocked
<1>2. list_free \in Seq(Slots) /\ list_pending \in Seq(Slots) /\ <<>> \in Seq(Slots)
  BY DEF ClockTypeOK
<1>3. IsInjective(<<>>) /\ Range(<<>>) = {}
  BY DEF IsInjective, Range
<1>4. /\ list_free \o list_pending \in Seq(Slots)
      /\ Range(list_free \o list_pending) = Range(list_free) \cup Range(list_pending)
      /\ IsInjective(list_free \o list_pending)
  BY <1>2, ConcatOf DEF FreeSlots, Pending
<1> QED BY <1>1, <1>2, <1>3, <1>4 DEF FreeSlots, Pending, FlushLocked

\* Where the lists of slots are well formed.
ListsOK ==
  list_free \in Seq(Slots) /\ list_pending \in Seq(Slots) /\ slot \in [ClockClients -> Slots \cup {NoSlot}]
  /\ lost \subseteq Slots

LEMMA SlotsUnmoved ==
  ASSUME ClockTypeOK, SlotsApart, UNCHANGED <<list_free, list_pending, slot, lost>>,
         stop_thread => stop_thread', \A c \in ClockClients : clock_pc'[c] = "insert" <=> clock_pc[c] = "insert"
  PROVE  ListsOK' /\ SlotsApart'
BY DEF ClockTypeOK, SlotsApart, ListsOK, FreeSlots, Pending, Hands

LEMMA SlotsFlushed ==
  ASSUME ClockTypeOK, SlotsApart, FlushLocked, slot' = slot,
         stop_thread => stop_thread', \A c \in ClockClients : clock_pc'[c] = "insert" <=> clock_pc[c] = "insert"
  PROVE  ListsOK' /\ SlotsApart'
<1>1. /\ list_free' \in Seq(Slots) /\ list_pending' \in Seq(Slots)
      /\ IsInjective(list_free') /\ IsInjective(list_pending')
      /\ FreeSlots' = FreeSlots \cup Pending /\ Pending' = {} /\ lost' = lost
  BY FlushMoves DEF SlotsApart
<1>2. Hands' = Hands
  BY DEF Hands
<1> QED BY <1>1, <1>2 DEF ClockTypeOK, SlotsApart, ListsOK

LEMMA SlotsStep ==
  ASSUME ClockTypeOK, SlotsApart, [ClockNext]_clockvars
  PROVE  ListsOK' /\ SlotsApart'
<1>0. /\ list_free \in Seq(Slots) /\ list_pending \in Seq(Slots) /\ DOMAIN clock_pc = ClockClients
      /\ \A c \in ClockClients : slot[c] \in Slots \cup {NoSlot}
      /\ NoSlot \notin Slots
  BY ClockAssumption DEF ClockTypeOK
<1>1. ASSUME UNCHANGED <<lists, slot, stop_thread, clock_pc>> PROVE ListsOK' /\ SlotsApart'
  BY <1>1, SlotsUnmoved DEF lists
<1>2. ASSUME NEW c \in ClockClients, NEW t \in Times, Add(c, t) PROVE ListsOK' /\ SlotsApart'
  <2> DEFINE s == Head(list_free)
  <2>1. /\ slot' = [slot EXCEPT ![c] = s] /\ list_free' = Tail(list_free) /\ list_free # <<>>
        /\ list_pending' = list_pending /\ lost' = lost /\ stop_thread' = stop_thread
        /\ clock_pc[c] = "idle" /\ clock_pc' = [clock_pc EXCEPT ![c] = "insert"]
    BY <1>2 DEF Add, ClockGoto, Idle
  <2>2. /\ list_free' \in Seq(Slots) /\ s \in FreeSlots /\ IsInjective(list_free')
        /\ FreeSlots' = FreeSlots \ {s}
    BY <1>0, <2>1, TailOf DEF FreeSlots, SlotsApart
  <2>3. s \in Slots /\ s \notin Hands /\ slot[c] = NoSlot /\ Pending' = Pending
    BY <2>1, <2>2 DEF SlotsApart, Pending
  <2>4. /\ Hands' = Hands \cup {s}
        /\ \A d, e \in ClockClients : slot'[d] = slot'[e] /\ slot'[d] # NoSlot => d = e
        /\ \A d \in ClockClients : slot'[d] = IF d = c THEN s ELSE slot[d]
    <3>1. NoSlot \notin Hands /\ s # NoSlot
      BY <1>0, <2>3 DEF Hands
    <3>2. /\ Hands' = (Hands \ {slot[c]}) \cup ({s} \ {NoSlot})
          /\ \A d, e \in ClockClients : slot'[d] = slot'[e] /\ slot'[d] # NoSlot => d = e
          /\ \A d \in ClockClients : slot'[d] = IF d = c THEN s ELSE slot[d]
      <4>1. TakesSlot(c, s)
        BY <2>1 DEF TakesSlot
      <4> HIDE DEF s
      <4> QED BY <4>1, <2>3, HandsMove DEF SlotsApart
    <3> QED BY <3>1, <3>2, <2>3
  <2>5. /\ slot' \in [ClockClients -> Slots \cup {NoSlot}]
        /\ \A d \in ClockClients : clock_pc'[d] = IF d = c THEN "insert" ELSE clock_pc[d]
    BY <1>0, <2>1, <2>3 DEF ClockTypeOK
  <2> HIDE DEF s
  <2> QED BY <1>0, <2>1, <2>2, <2>3, <2>4, <2>5 DEF SlotsApart, ListsOK, ClockTypeOK
<1>3. ASSUME NEW c \in ClockClients, Insert(c) \/ InsertRefused(c) PROVE ListsOK' /\ SlotsApart'
  <2> DEFINE s == slot[c]
  <2>1. /\ slot' = [slot EXCEPT ![c] = NoSlot] /\ list_free' = list_free /\ stop_thread' = stop_thread
        /\ clock_pc[c] = "insert" /\ \E l \in {"wake", "idle"} : clock_pc' = [clock_pc EXCEPT ![c] = l]
    BY <1>3 DEF Insert, InsertRefused, ClockGoto
  <2>2. /\ s \in Slots /\ s \in Hands /\ s \notin FreeSlots /\ s \notin Pending /\ s \notin lost
        /\ FreeSlots' = FreeSlots
    <3>1. s \in Slots /\ s \in Hands
      BY <2>1, <1>0 DEF SlotsApart, Hands
    <3> QED BY <3>1, <2>1 DEF SlotsApart, FreeSlots
  <2>3. /\ Hands' = Hands \ {s}
        /\ \A d, e \in ClockClients : slot'[d] = slot'[e] /\ slot'[d] # NoSlot => d = e
        /\ \A d \in ClockClients : slot'[d] = IF d = c THEN NoSlot ELSE slot[d]
    <3>1. TakesSlot(c, NoSlot) /\ NoSlot \in Slots \cup {NoSlot}
      BY <2>1 DEF TakesSlot
    <3>2. Hands' = (Hands \ {s}) \cup ({NoSlot} \ {NoSlot})
      BY <3>1, HandsMove DEF SlotsApart
    <3> QED BY <3>1, <3>2, HandsMove DEF SlotsApart
  <2>4. /\ slot' \in [ClockClients -> Slots \cup {NoSlot}]
        /\ \A d \in ClockClients : clock_pc'[d] = "insert" <=> d # c /\ clock_pc[d] = "insert"
    BY <1>0, <2>1 DEF ClockTypeOK
  <2>5. CASE Insert(c)
    <3>1. list_pending' = InsertAt(list_pending, Position(s), s) /\ lost' = lost
      BY <2>5 DEF Insert
    <3>2. list_pending' \in Seq(Slots) /\ IsInjective(list_pending') /\ Pending' = Pending \cup {s}
      <4>1. Position(s) \in 1 .. Len(list_pending) + 1
        BY <2>2, PositionIs
      <4>2. IsInjective(list_pending) /\ s \notin Range(list_pending) /\ s \in Slots
        BY <2>2 DEF SlotsApart, Pending
      <4> HIDE DEF s
      <4>3. /\ InsertAt(list_pending, Position(s), s) \in Seq(Slots)
            /\ IsInjective(InsertAt(list_pending, Position(s), s))
            /\ Range(InsertAt(list_pending, Position(s), s)) = Range(list_pending) \cup {s}
        BY <4>1, <4>2, <1>0, InsertOf
      <4> QED BY <4>3, <3>1 DEF Pending
    <3> QED BY <1>0, <2>1, <2>2, <2>3, <2>4, <3>1, <3>2 DEF SlotsApart, ListsOK, ClockTypeOK
  <2>6. CASE InsertRefused(c)
    <3>1. list_pending' = list_pending /\ lost' = lost \cup {s} /\ stop_thread /\ Pending' = Pending
      BY <2>6 DEF InsertRefused, Pending
    <3> QED BY <1>0, <2>1, <2>2, <2>3, <2>4, <3>1 DEF SlotsApart, ListsOK, ClockTypeOK
  <2> QED BY <1>3, <2>5, <2>6
<1>4. CASE Serve
  <2> DEFINE s == Head(list_pending)
  <2>1. /\ list_free' = Append(list_free, s) /\ list_pending' = Tail(list_pending) /\ list_pending # <<>>
        /\ UNCHANGED <<lost, stop_thread, slot, clock_pc>>
    BY <1>4 DEF Serve, clients
  <2>2. /\ list_pending' \in Seq(Slots) /\ s \in Pending /\ IsInjective(list_pending')
        /\ Pending' = Pending \ {s}
    BY <1>0, <2>1, TailOf DEF Pending, SlotsApart
  <2>3. s \in Slots /\ s \notin FreeSlots
    BY <2>2 DEF SlotsApart
  <2>4. list_free' \in Seq(Slots) /\ IsInjective(list_free') /\ FreeSlots' = FreeSlots \cup {s}
    <3> HIDE DEF s
    <3> QED BY <1>0, <2>1, <2>3, AppendOf DEF FreeSlots, SlotsApart
  <2>5. Hands' = Hands
    BY <2>1 DEF Hands
  <2> HIDE DEF s
  <2> QED BY <1>0, <2>1, <2>2, <2>3, <2>4, <2>5 DEF SlotsApart, ListsOK, ClockTypeOK
<1>5. ASSUME NEW c \in ClockClients, Begins(c) PROVE ListsOK' /\ SlotsApart'
  <2>1. CASE Flush(c)
    BY <2>1, SlotsFlushed DEF Flush, clients
  <2>2. CASE ~Flush(c) /\ ~\E t \in Times : Add(c, t)
    <3>1. UNCHANGED <<list_free, list_pending, slot, lost>> /\ (stop_thread => stop_thread')
      BY <1>5, <2>2 DEF Begins, SetTime, SetScale, Start, Stop, ClockDestroy, lists, clients
    <3>2. clock_pc' = clock_pc \/ (clock_pc[c] = "idle" /\ \E l \in {"wake", "stop"} : clock_pc' = [clock_pc EXCEPT ![c] = l])
      BY <1>5, <2>2 DEF Begins, SetTime, SetScale, Start, Stop, ClockDestroy, Idle, ClockGoto, clients
    <3>3. \A d \in ClockClients : clock_pc'[d] = "insert" <=> clock_pc[d] = "insert"
      BY <3>2, <1>0
    <3> QED BY <3>1, <3>3, SlotsUnmoved
  <2> QED BY <1>2, <1>5, <2>1, <2>2
<1>6. ASSUME NEW c \in ClockClients, ClockGoesOn(c) PROVE ListsOK' /\ SlotsApart'
  <2>1. CASE DestroyJoin(c)
    <3>1. FlushLocked /\ UNCHANGED <<slot, stop_thread>> /\ clock_pc[c] = "join" /\ clock_pc' = [clock_pc EXCEPT ![c] = "free"]
      BY <2>1 DEF DestroyJoin, ClockGoto
    <3>2. \A d \in ClockClients : clock_pc'[d] = "insert" <=> clock_pc[d] = "insert"
      BY <3>1, <1>0
    <3> QED BY <3>1, <3>2, SlotsFlushed
  <2>2. CASE WakeThread(c) \/ DestroyWake(c) \/ DestroyFree(c)
    <3>1. /\ UNCHANGED <<list_free, list_pending, slot, lost, stop_thread>>
          /\ clock_pc[c] # "insert" /\ \E l \in {"idle", "join"} : clock_pc' = [clock_pc EXCEPT ![c] = l]
      BY <2>2 DEF WakeThread, DestroyWake, DestroyFree, ClockGoto, lists
    <3>2. \A d \in ClockClients : clock_pc'[d] = "insert" <=> clock_pc[d] = "insert"
      BY <3>1, <1>0
    <3> QED BY <3>1, <3>2, SlotsUnmoved
  <2> QED BY <1>3, <1>6, <2>1, <2>2 DEF ClockGoesOn
<1>7. CASE BeginServing
  <2>1. CASE Discontinuity
    <3>1. FlushLocked /\ UNCHANGED <<slot, stop_thread, clock_pc>>
      BY <1>7, <2>1 DEF BeginServing, clients
    <3> QED BY <3>1, SlotsFlushed
  <2>2. CASE ~Discontinuity
    BY <1>1, <1>7, <2>2 DEF BeginServing, clients
  <2> QED BY <2>1, <2>2
<1>8. CASE WorkerWoken \/ NothingToServe \/ SomethingToServe \/ Reschedule \/ AllServed
  BY <1>1, <1>8 DEF WorkerWoken, NothingToServe, SomethingToServe, Reschedule, AllServed, clients
<1>9. CASE UNCHANGED clockvars \/ TimerExpires \/ \E t \in Times : Elapse(t)
  BY <1>1, <1>9 DEF TimerExpires, Elapse, clockvars, clients
<1> QED BY <1>4, <1>5, <1>6, <1>7, <1>8, <1>9 DEF ClockNext, WorkerRuns, ClockFinished

-----------------------------------------------------------------------------
(* Types. *)

LEMMA ClockTypes ==
  ASSUME ClockTypeOK, WakeupsBounded, SlotsApart, [ClockNext]_clockvars
  PROVE  ClockTypeOK'
<1>1. event' \in 0 .. MaxPosts
  BY WakeupsStep
<1>2. ListsOK'
  BY SlotsStep
<1> DEFINE Rest == /\ clock_allocated \in BOOLEAN /\ is_active \in BOOLEAN /\ stop_thread \in BOOLEAN
                   /\ clock_lock \in {Worker, NoHolder} /\ timer \in BOOLEAN /\ scale \in Scales \cup {1}
                   /\ media_time \in Times /\ media_time_at_timer \in Times \cup {0}
                   /\ discont_start \in Times \cup {0}
                   /\ worker \in {"wait", "check", "lock", "serve", "gone"}
           Local == /\ media_time_adj \in [Slots -> Times]
                    /\ clock_pc \in [ClockClients -> {"idle", "insert", "wake", "stop", "join", "free"}]
<1>3. Rest'
  <2> USE DEF ClockTypeOK, lists, times, clients
  <2>1. ASSUME NEW c \in ClockClients, Begins(c) PROVE Rest'
    BY <2>1 DEF Begins, Add, SetTime, SetScale, Start, Stop, Flush, FlushLocked, ClockDestroy
  <2>2. ASSUME NEW c \in ClockClients, ClockGoesOn(c) PROVE Rest'
    BY <2>2 DEF ClockGoesOn, Insert, InsertRefused, WakeThread, DestroyWake, DestroyJoin,
       DestroyFree, FlushLocked
  <2>3. CASE WorkerRuns
    BY <2>3 DEF WorkerRuns, WorkerWoken, NothingToServe, SomethingToServe, BeginServing, Serve,
       Reschedule,
       AllServed, FlushLocked
  <2>4. CASE TimerExpires \/ \E t \in Times : Elapse(t)
    BY <2>4 DEF TimerExpires, Elapse
  <2>5. CASE UNCHANGED clockvars
    BY <2>5 DEF clockvars
  <2> QED BY <2>1, <2>2, <2>3, <2>4, <2>5 DEF ClockNext, ClockFinished
<1>4. Local'
  <2>1. ASSUME NEW c \in ClockClients, Begins(c) PROVE Local'
    <3>1. /\ \/ media_time_adj' = media_time_adj
             \/ \E t \in Times : media_time_adj' = [media_time_adj EXCEPT ![Head(list_free)] = t]
          /\ clock_pc' = clock_pc \/ \E l \in {"insert", "wake", "stop"} : clock_pc' = [clock_pc EXCEPT ![c] = l]
      BY <2>1 DEF Begins, Add, SetTime, SetScale, Start, Stop, Flush, FlushLocked, ClockDestroy,
         ClockGoto, lists, clients
    <3> QED BY <3>1 DEF ClockTypeOK
  <2>2. ASSUME NEW c \in ClockClients, ClockGoesOn(c) PROVE Local'
    <3>1. /\ media_time_adj' = media_time_adj
          /\ \E l \in {"idle", "wake", "join", "free"} : clock_pc' = [clock_pc EXCEPT ![c] = l]
      BY <2>2 DEF ClockGoesOn, Insert, InsertRefused, WakeThread, DestroyWake, DestroyJoin,
         DestroyFree, FlushLocked, ClockGoto, lists
    <3> QED BY <3>1 DEF ClockTypeOK
  <2>3. CASE WorkerRuns \/ TimerExpires \/ (\E t \in Times : Elapse(t)) \/ UNCHANGED clockvars
    <3>1. media_time_adj' = media_time_adj /\ clock_pc' = clock_pc
      BY <2>3 DEF WorkerRuns, WorkerWoken, NothingToServe, SomethingToServe, BeginServing, Serve,
         Reschedule,
         AllServed, FlushLocked, TimerExpires, Elapse, clockvars, lists, clients
    <3> QED BY <3>1 DEF ClockTypeOK
  <2> QED BY <2>1, <2>2, <2>3 DEF ClockNext, ClockFinished
<1> QED BY <1>1, <1>2, <1>3, <1>4 DEF ClockTypeOK, ListsOK

-----------------------------------------------------------------------------
(* The order of the requests, while the media time runs one way. *)

LEMMA InsertSorted ==
  ASSUME ClockTypeOK, PendingSorted, NEW s \in Slots, scale >= 0,
         list_pending' = InsertAt(list_pending, Position(s), s), media_time_adj' = media_time_adj
  PROVE  PendingSorted'
<1> DEFINE q == list_pending
           k == Position(s)
           m(i) == media_time_adj[i]
           n == list_pending'
<1>1. /\ q \in Seq(Slots) /\ Len(q) \in Nat /\ \A i \in 1 .. Len(q) : q[i] \in Slots /\ m(q[i]) \in Nat
      /\ m(s) \in Nat
  <2>1. q \in Seq(Slots)
    BY DEF ClockTypeOK
  <2>2. \A r \in Slots : media_time_adj[r] \in Nat
    BY ClockAssumption DEF ClockTypeOK
  <2>3. Len(q) \in Nat /\ \A i \in 1 .. Len(q) : q[i] \in Slots
    BY <2>1
  <2> QED BY <2>1, <2>2, <2>3
<1>2. /\ k \in 1 .. Len(q) + 1
      /\ n \in Seq(Slots) /\ Len(n) = Len(q) + 1
      /\ \A j \in 1 .. Len(q) + 1 : n[j] = IF j < k THEN q[j] ELSE IF j = k THEN s ELSE q[j - 1]
  <2>1. k \in 1 .. Len(q) + 1
    BY PositionIs
  <2>2. n = InsertAt(q, k, s)
    OBVIOUS
  <2> HIDE DEF k, n
  <2>3. /\ InsertAt(q, k, s) \in Seq(Slots) /\ Len(InsertAt(q, k, s)) = Len(q) + 1
        /\ \A j \in 1 .. Len(q) + 1 :
             InsertAt(q, k, s)[j] = IF j < k THEN q[j] ELSE IF j = k THEN s ELSE q[j - 1]
    <3>1. list_pending \in Seq(Slots)
      BY <1>1
    <3>2. InsertAt(list_pending, k, s) \in Seq(Slots)
      BY <2>1, <3>1, InsertOf
    <3>3. Len(InsertAt(list_pending, k, s)) = Len(list_pending) + 1
      BY <2>1, <3>1, InsertOf
    <3>4. ASSUME NEW j \in 1 .. Len(list_pending) + 1
          PROVE  InsertAt(list_pending, k, s)[j] =
                   IF j < k THEN list_pending[j] ELSE IF j = k THEN s ELSE list_pending[j - 1]
      BY <2>1, <3>1, InsertOf
    <3> QED BY <3>2, <3>3, <3>4
  <2> QED BY <2>1, <2>2, <2>3
<1>3. \A i, j \in 1 .. Len(q) : i <= j => m(q[i]) <= m(q[j])
  <2>1. \A i, j \in 1 .. Len(q) : i < j => m(q[i]) <= m(q[j])
    BY <1>1 DEF PendingSorted
  <2> QED BY <2>1, <1>1
<1>4. \A i \in 1 .. Len(q) : Before(s, q[i]) <=> m(s) < m(q[i])
  BY DEF Before
<1>5. \A i \in 1 .. Len(q) : i < k => m(q[i]) <= m(s)
  <2> TAKE i \in 1 .. Len(q)
  <2>1. CASE k <= Len(q)
    <3>1. i < k => ~Before(s, q[i])
      BY <2>1, <1>1, <1>2, PositionIs
    <3> QED BY <3>1, <1>1, <1>4
  <2>2. CASE k = Len(q) + 1
    <3>1. Len(q) \in 1 .. Len(q) /\ q # <<>>
      BY <1>1
    <3>2. ~Before(s, q[Len(q)])
      BY <2>2, <3>1, PositionIs
    <3>3. m(q[Len(q)]) <= m(s) /\ m(q[i]) <= m(q[Len(q)])
      BY <3>1, <3>2, <1>1, <1>3, <1>4
    <3> QED BY <3>1, <3>3, <1>1
  <2> QED BY <2>1, <2>2, <1>1, <1>2
<1>6. \A i \in 1 .. Len(q) : i >= k => m(s) <= m(q[i])
  <2> SUFFICES ASSUME NEW i \in 1 .. Len(q), i >= k PROVE m(s) <= m(q[i])
    OBVIOUS
  <2>1. k \in 1 .. Len(q)
    BY <1>1, <1>2
  <2>2. m(s) < m(q[k])
    BY <2>1, <1>4, PositionIs
  <2>3. m(q[k]) <= m(q[i])
    BY <2>1, <1>3
  <2> QED BY <2>1, <2>2, <2>3, <1>1
<1> HIDE DEF q, k, n, m
<1>7. ASSUME NEW i \in 1 .. Len(n), NEW j \in 1 .. Len(n), i < j
      PROVE  m(n[i]) <= m(n[j])
  <2>1. CASE j < k
    <3>1. i \in 1 .. Len(q) /\ j \in 1 .. Len(q) /\ n[i] = q[i] /\ n[j] = q[j]
      BY <2>1, <1>1, <1>2, <1>7
    <3> QED BY <3>1, <1>3, <1>7
  <2>2. CASE j = k
    BY <2>2, <1>1, <1>2, <1>5, <1>7
  <2>3. CASE j > k
    <3>1. n[j] = q[j - 1] /\ j - 1 \in 1 .. Len(q) /\ j - 1 >= k
      BY <2>3, <1>1, <1>2, <1>7
    <3>2. CASE i < k
      <4>1. n[i] = q[i] /\ i \in 1 .. Len(q) /\ i <= j - 1
        BY <3>1, <3>2, <1>1, <1>2, <1>7
      <4> QED BY <3>1, <4>1, <1>3
    <3>3. CASE i = k
      BY <3>1, <3>3, <1>2, <1>6
    <3>4. CASE i > k
      <4>1. n[i] = q[i - 1] /\ i - 1 \in 1 .. Len(q) /\ i - 1 <= j - 1
        BY <3>1, <3>4, <1>1, <1>2, <1>7
      <4> QED BY <3>1, <4>1, <1>3
    <3> QED BY <3>2, <3>3, <3>4, <1>1, <1>2
  <2> QED BY <2>1, <2>2, <2>3, <1>1, <1>2
<1>8. DOMAIN n = 1 .. Len(n)
  BY <1>2
<1> QED BY <1>7, <1>8 DEF PendingSorted, m, n

LEMMA SortedStep ==
  ASSUME -1 \notin Scales, ClockTypeOK, SlotsApart, PendingSorted, [ClockNext]_clockvars
  PROVE  PendingSorted'
<1>0. list_pending \in Seq(Slots) /\ scale >= 0
  BY ClockAssumption DEF ClockTypeOK
<1>1. ASSUME UNCHANGED <<list_pending, media_time_adj>> PROVE PendingSorted'
  BY <1>1 DEF PendingSorted
<1>2. ASSUME FlushLocked PROVE PendingSorted'
  BY <1>2 DEF FlushLocked, PendingSorted
<1>3. ASSUME NEW c \in ClockClients, Begins(c) PROVE PendingSorted'
  <2>1. ASSUME NEW t \in Times, Add(c, t) PROVE PendingSorted'
    <3>1. /\ list_pending' = list_pending
          /\ media_time_adj' = [media_time_adj EXCEPT ![Head(list_free)] = t]
      BY <2>1 DEF Add
    <3>2. Head(list_free) \in FreeSlots
      BY <2>1, TailOf DEF Add, ClockTypeOK, FreeSlots
    <3>3. Head(list_free) \notin Pending
      BY <3>2 DEF SlotsApart
    <3>4. \A i \in DOMAIN list_pending : list_pending[i] \in Slots /\ list_pending[i] # Head(list_free)
      BY <3>3, <1>0 DEF Pending, Range
    <3>5. \A i \in DOMAIN list_pending : media_time_adj'[list_pending[i]] = media_time_adj[list_pending[i]]
      BY <3>1, <3>4 DEF ClockTypeOK
    <3> QED BY <3>1, <3>5 DEF PendingSorted
  <2>2. CASE ~\E t \in Times : Add(c, t)
    BY <1>1, <1>2, <1>3, <2>2 DEF Begins, SetTime, SetScale, Start, Stop, Flush, ClockDestroy, lists
  <2> QED BY <2>1, <2>2
<1>4. ASSUME NEW c \in ClockClients, ClockGoesOn(c) PROVE PendingSorted'
  <2>1. CASE Insert(c)
    <3>1. slot[c] \in Slots
      BY <2>1 DEF Insert, SlotsApart, ClockTypeOK
    <3>2. /\ list_pending' = InsertAt(list_pending, Position(slot[c]), slot[c])
          /\ media_time_adj' = media_time_adj
      BY <2>1 DEF Insert
    <3> DEFINE s == slot[c]
    <3>3. s \in Slots /\ list_pending' = InsertAt(list_pending, Position(s), s)
      BY <3>1, <3>2
    <3> HIDE DEF s
    <3> QED BY <3>2, <3>3, <1>0, InsertSorted
  <2>2. CASE ~Insert(c)
    BY <1>1, <1>2, <1>4, <2>2 DEF ClockGoesOn, InsertRefused, WakeThread, DestroyWake,
       DestroyJoin, DestroyFree, lists
  <2> QED BY <2>1, <2>2
<1>5. CASE Serve
  <2>1. /\ list_pending' = Tail(list_pending) /\ list_pending # <<>> /\ media_time_adj' = media_time_adj
    BY <1>5 DEF Serve
  <2> DEFINE t == Tail(list_pending)
  <2>2. /\ DOMAIN t = 1 .. Len(list_pending) - 1 /\ DOMAIN list_pending = 1 .. Len(list_pending)
        /\ Len(list_pending) \in Nat /\ \A i \in 1 .. Len(list_pending) - 1 : t[i] = list_pending[i + 1]
    BY <1>0, <2>1
  <2>3. \A i \in 1 .. Len(list_pending) - 1 : i + 1 \in 1 .. Len(list_pending)
    BY <2>2
  <2>4. t = list_pending'
    BY <2>1
  <2> HIDE DEF t
  <2> SUFFICES ASSUME NEW i \in DOMAIN t, NEW j \in DOMAIN t, i < j
               PROVE  media_time_adj[t[i]] <= media_time_adj[t[j]]
    BY <2>1, <2>4 DEF PendingSorted
  <2>5. i + 1 < j + 1 /\ i + 1 \in DOMAIN list_pending /\ j + 1 \in DOMAIN list_pending
    BY <2>2, <2>3
  <2> QED BY <2>2, <2>5 DEF PendingSorted
<1>6. CASE WorkerWoken \/ NothingToServe \/ SomethingToServe \/ BeginServing \/ Reschedule \/ AllServed
  BY <1>1, <1>2, <1>6 DEF WorkerWoken, NothingToServe, SomethingToServe, BeginServing, Reschedule,
     AllServed, lists
<1>7. CASE UNCHANGED clockvars \/ TimerExpires \/ \E t \in Times : Elapse(t)
  BY <1>1, <1>7 DEF TimerExpires, Elapse, clockvars, lists
<1> QED BY <1>3, <1>4, <1>5, <1>6, <1>7 DEF ClockNext, WorkerRuns, ClockFinished

-----------------------------------------------------------------------------
(* The initial states, and the theorems. *)

LEMMA ClockStarts == ClockInit => ClockIInv /\ PendingSorted
<1> SUFFICES ASSUME ClockInit PROVE ClockIInv /\ PendingSorted
  OBVIOUS
<1> USE DEF ClockInit
<1>1. /\ list_free \in Seq(Slots) /\ IsInjective(list_free) /\ FreeSlots = Slots
  <2> DEFINE n == Cardinality(Slots)
  <2>1. IsFiniteSet(Slots) /\ n \in Nat /\ ExistsBijection(1 .. n, Slots)
    BY ClockAssumption, FS_CardinalityType
  <2>2. \E f \in [1 .. n -> Slots] : IsInjective(f)
    BY <2>1 DEF ExistsBijection, Bijection, Injection
  <2>3. list_free \in [1 .. n -> Slots] /\ IsInjective(list_free)
    BY <2>2 DEF SetToSeq
  <2>4. list_free \in Injection(1 .. n, Slots)
    BY <2>3 DEF Injection
  <2>5. Cardinality(1 .. n) = n
    BY <2>1, FS_Interval
  <2>6. list_free \in Surjection(1 .. n, Slots)
    BY <2>1, <2>4, <2>5, FS_Injection
  <2>7. list_free \in Seq(Slots)
    BY <2>1, <2>3
  <2>8. FreeSlots = Slots
    BY <2>3, <2>6 DEF FreeSlots, Range, Surjection
  <2> QED BY <2>3, <2>7, <2>8
<1>2. /\ list_pending \in Seq(Slots) /\ IsInjective(list_pending) /\ Pending = {}
  BY DEF IsInjective, Pending, Range
<1>3. Hands = {} /\ slot \in [ClockClients -> Slots \cup {NoSlot}]
  BY DEF Hands
<1>4. SlotsApart
  BY <1>1, <1>2, <1>3 DEF SlotsApart
<1>5. Posters = {}
  BY DEF Posters
<1>6. WakeupsBounded
  BY <1>5, FS_EmptySet, ClockAssumption DEF WakeupsBounded
<1>7. ClockTypeOK
  <2>1. media_time_adj \in [Slots -> Times] /\ event \in 0 .. MaxPosts
    BY ClockAssumption
  <2>2. clock_pc \in [ClockClients -> {"idle", "insert", "wake", "stop", "join", "free"}]
    OBVIOUS
  <2>3. /\ list_free \in Seq(Slots) /\ list_pending \in Seq(Slots) /\ lost \subseteq Slots
        /\ slot \in [ClockClients -> Slots \cup {NoSlot}]
    BY <1>1, <1>2, <1>3
  <2>4. /\ media_time \in Times /\ media_time_at_timer \in Times \cup {0}
        /\ discont_start \in Times \cup {0} /\ scale \in Scales \cup {1}
        /\ clock_lock \in {Worker, NoHolder} /\ worker \in {"wait", "check", "lock", "serve", "gone"}
        /\ clock_allocated \in BOOLEAN /\ is_active \in BOOLEAN /\ stop_thread \in BOOLEAN
        /\ timer \in BOOLEAN
    OBVIOUS
  <2> HIDE DEF ClockInit
  <2> QED BY <2>1, <2>2, <2>3, <2>4 DEF ClockTypeOK
<1>8. Locking /\ Ending /\ WakeupCovers
  BY DEF Locking, Ending, WakeupCovers
<1>9. PendingSorted
  BY DEF PendingSorted
<1> QED BY <1>4, <1>6, <1>7, <1>8, <1>9 DEF ClockIInv

LEMMA ClockStep ==
  ASSUME ClockIInv, [ClockNext]_clockvars
  PROVE  ClockIInv'
<1>1. ClockTypeOK /\ WakeupsBounded /\ SlotsApart /\ Control
  BY DEF ClockIInv, Control
<1> QED BY <1>1, ClockTypes, WakeupsStep, SlotsStep, ControlStep DEF ClockIInv, Control

\* What SlotsConserved counts.
Places == {<<"free">>, <<"pending">>, <<"lost">>} \cup {<<"client", c>> : c \in ClockClients}

Has(x, s) == \/ x = <<"free">> /\ s \in Range(list_free)
             \/ x = <<"pending">> /\ s \in Pending
             \/ x = <<"lost">> /\ s \in lost
             \/ x[1] = "client" /\ slot[x[2]] = s

LEMMA SlotsCounted ==
  ASSUME ClockIInv
  PROVE  SlotsConserved /\ NonePendingWhenFreed
<1> USE DEF ClockIInv
<1>1. IsInjective(list_free \o list_pending)
  BY ConcatOf DEF SlotsApart, ClockTypeOK, FreeSlots, Pending
<1>2. ASSUME NEW s \in Slots PROVE Cardinality({x \in Places : Has(x, s)}) = 1
  <2>1. \A c \in ClockClients : slot[c] = s => s \in Hands
    BY ClockAssumption DEF Hands
  <2>2. s \in Hands => \E c \in ClockClients : slot[c] = s
    BY DEF Hands
  <2>3. NoSlot \notin Slots
    BY ClockAssumption
  <2>4. \E x : {y \in Places : Has(y, s)} = {x}
    <3>1. \A c \in ClockClients : Has(<<"client", c>>, s) <=> slot[c] = s
      BY DEF Has
    <3>2. /\ Has(<<"free">>, s) <=> s \in FreeSlots
          /\ Has(<<"pending">>, s) <=> s \in Pending
          /\ Has(<<"lost">>, s) <=> s \in lost
      BY DEF Has, FreeSlots
    <3>3. CASE s \in FreeSlots
      <4>1. \A y \in Places : Has(y, s) <=> y = <<"free">>
        BY <3>1, <3>2, <3>3, <2>1 DEF SlotsApart, Places
      <4> QED BY <4>1 DEF Places
    <3>4. CASE s \in Pending
      <4>1. \A y \in Places : Has(y, s) <=> y = <<"pending">>
        BY <3>1, <3>2, <3>4, <2>1 DEF SlotsApart, Places
      <4> QED BY <4>1 DEF Places
    <3>5. CASE s \in lost
      <4>1. \A y \in Places : Has(y, s) <=> y = <<"lost">>
        BY <3>1, <3>2, <3>5, <2>1 DEF SlotsApart, Places
      <4> QED BY <4>1 DEF Places
    <3>6. CASE s \in Hands
      <4>1. PICK c \in ClockClients : slot[c] = s
        BY <3>6, <2>2
      <4>2. \A d \in ClockClients : slot[d] = s => d = c
        BY <4>1, <2>3 DEF SlotsApart
      <4>3. \A y \in Places : Has(y, s) <=> y = <<"client", c>>
        BY <3>1, <3>2, <3>6, <4>1, <4>2 DEF SlotsApart, Places
      <4> QED BY <4>3 DEF Places
    <3> QED BY <3>3, <3>4, <3>5, <3>6 DEF SlotsApart
  <2> QED BY <2>4, FS_Singleton
<1>3. NonePendingWhenFreed
  BY DEF NonePendingWhenFreed, Ending
<1> QED BY <1>1, <1>2, <1>3 DEF SlotsConserved, SlotsApart, Places, Has

\* Whichever way the media time runs, every slot is in one place, none is lost before the
\* clock is destroyed, the thread of an active clock never sleeps through a request, and
\* mmal_clock_destroy() frees the clock when its thread has ended and nothing is pending.
THEOREM ClockIsCovered ==
  ClockSpec => [](ClockTypeOK /\ SlotsConserved /\ WakeupCovers /\ NonePendingWhenFreed)
<1>1. ClockIInv /\ [ClockNext]_clockvars => ClockIInv'
  BY ClockStep
<1>2. ClockIInv => ClockTypeOK /\ SlotsConserved /\ WakeupCovers /\ NonePendingWhenFreed
  BY SlotsCounted DEF ClockIInv
<1>3. ClockInit => ClockIInv
  BY ClockStarts
<1> QED BY <1>1, <1>2, <1>3, PTL DEF ClockSpec

\* As long as no client sets a negative scale (mmal_clock_scale_set()), the clock is sound
\* and its requests stay in the order of their times.  A list that was built while the time
\* ran one way is out of order once it runs the other way, so the theorem needs this.
THEOREM ClockIsSound == -1 \notin Scales /\ ClockSpec => []ClockInv
<1> SUFFICES ASSUME -1 \notin Scales PROVE ClockSpec => []ClockInv
  OBVIOUS
<1>1. ClockIInv /\ PendingSorted /\ [ClockNext]_clockvars => ClockIInv' /\ PendingSorted'
  BY ClockStep, SortedStep DEF ClockIInv
<1>2. ClockIInv /\ PendingSorted => ClockInv
  BY SlotsCounted DEF ClockIInv, ClockInv
<1>3. ClockInit => ClockIInv /\ PendingSorted
  BY ClockStarts
<1> QED BY <1>1, <1>2, <1>3, PTL DEF ClockSpec
=============================================================================
