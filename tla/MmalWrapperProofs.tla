------------------------- MODULE MmalWrapperProofs -------------------------
(***************************************************************************)
(* Theorems about MmalWrapper, for any ports, headers and semaphore limit, *)
(* and about the other clients of MMAL, the Raspicam tools of CameraApps.  *)
(***************************************************************************)
EXTENDS MmalWrapper, CameraApps, TLAPS

-----------------------------------------------------------------------------
(* The inductive invariant. *)

\* A get that has read a good status will not miss an error reported since.
Wakes ==
  /\ NoLostWakeup
  /\ pc = "take" /\ status = "error" => sema > 0 \/ Posting

\* Where the headers of a disabled port may be while a call is clearing it.
Clearing(b) ==
  \/ where[b] \in {"nowhere", "pool", "client", "lost"}
  \/ pc \in {"drain", "destroydrain"} /\ call.port = PortOf[b]
  \/ pc \in {"flush", "flushpost"} /\ call.port = PortOf[b] /\ where[b] = "queue"
  \/ pc \in Destroying /\ where[b] = "queue"

Whole ==
  \A b \in Headers :
    /\ where[b] # "component"
    /\ where[b] = "queue" => PortOf[b] \in Outputs
    /\ ~enabled[PortOf[b]] => Clearing(b)

Quiet ==
  /\ pc = "join" => \A p \in Ports : ~enabled[p]
  /\ ~alive =>
       /\ pc = "idle" /\ control = "idle"
       /\ \A p \in Ports : ~enabled[p] /\ callback[p] = "idle"
       /\ \A b \in Buffers : where[b] = "nowhere"

IInv == TypeOK /\ Wakes /\ Whole /\ Quiet

-----------------------------------------------------------------------------
(* Every step preserves it, conjunct by conjunct. *)

\* A post leaves the semaphore above zero, also when it is refused.
LEMMA PostCounts ==
  ASSUME TypeOK, Post
  PROVE  sema' \in 0 .. MaxPosts /\ sema' > 0
BY WrapperAssumption DEF TypeOK, Post

LEMMA TypeStep ==
  ASSUME TypeOK, [Next]_vars
  PROVE  TypeOK'
<1>1. CASE UNCHANGED vars
  BY <1>1 DEF vars, Client, TypeOK, Labels, Calls, Places
<1>2. CASE Create
  BY <1>2, WrapperAssumption DEF Create, Client, TypeOK, Labels, Calls,
     Places, Buffers
<1>3. ASSUME NEW b \in Headers, InputCallback(b)
      PROVE  TypeOK'
  BY <1>3, WrapperAssumption DEF InputCallback, Client, TypeOK, Labels, Calls,
     Places, Buffers
<1>4. ASSUME NEW b \in Headers, OutputCallback(b)
      PROVE  TypeOK'
  BY <1>4, WrapperAssumption DEF OutputCallback, Client, TypeOK, Labels,
     Calls, Places, Buffers
<1>5. ASSUME NEW e \in Events, NEW p \in Outputs, RaiseEvent(e,p)
      PROVE  TypeOK'
  BY <1>5, WrapperAssumption DEF RaiseEvent, Client, TypeOK, Labels, Calls,
     Places, Buffers, Ports
<1>6. ASSUME NEW p \in Ports, CallbackPost(p)
      PROVE  TypeOK'
  BY <1>6, WrapperAssumption, PostCounts DEF CallbackPost, Client, TypeOK,
     Labels, Calls, Places
<1>7. ASSUME NEW p \in Ports, CallbackDone(p)
      PROVE  TypeOK'
  BY <1>7, WrapperAssumption DEF CallbackDone, Client, TypeOK, Labels, Calls,
     Places
<1>8. CASE ControlError
  BY <1>8, WrapperAssumption DEF ControlError, Client, AfterError, TypeOK,
     Labels, Calls, Places
<1>9. CASE ControlPost
  BY <1>9, WrapperAssumption, PostCounts DEF ControlPost, Client, TypeOK,
     Labels, Calls, Places
<1>10. CASE Get
  BY <1>10, WrapperAssumption DEF Get, TypeOK, Labels, Calls, Places
<1>11. CASE GetCheck
  BY <1>11, WrapperAssumption DEF GetCheck, GoTo, TypeOK, Labels, Calls,
     Places
<1>12. CASE GetTake
  BY <1>12, WrapperAssumption DEF GetTake, Queue, Pool, OutputQueue, Buffers,
     TypeOK, Labels, Calls, Places
<1>13. CASE GetNothing
  BY <1>13, WrapperAssumption DEF GetNothing, GoTo, Queue, Pool, OutputQueue,
     TypeOK, Labels, Calls, Places
<1>14. CASE GetWakes
  BY <1>14, WrapperAssumption DEF GetWakes, GoTo, TypeOK, Labels, Calls,
     Places
<1>15. CASE GetResult
  BY <1>15, WrapperAssumption DEF GetResult, TypeOK, Labels, Calls, Places
<1>16. ASSUME NEW b \in Buffers, SendBuffer(b)
      PROVE  TypeOK'
  BY <1>16, WrapperAssumption DEF SendBuffer, Client, TypeOK, Labels, Calls,
     Places, Buffers
<1>17. ASSUME NEW b \in Buffers, ReleaseBuffer(b)
      PROVE  TypeOK'
  BY <1>17, WrapperAssumption DEF ReleaseBuffer, Released, TypeOK, Labels,
     Calls, Places, Buffers
<1>18. CASE ReleasePost
  BY <1>18, WrapperAssumption, PostCounts DEF ReleasePost, GoTo, TypeOK,
     Labels, Calls, Places
<1>19. ASSUME NEW p \in Ports, PortEnable(p)
      PROVE  TypeOK'
  BY <1>19, WrapperAssumption DEF PortEnable, Client, HomeOf, TypeOK, Labels,
     Calls, Places
<1>20. ASSUME NEW p \in Ports, PortDisable(p)
      PROVE  TypeOK'
  BY <1>20, WrapperAssumption DEF PortDisable, Call, TypeOK, Labels, Calls,
     Places
<1>21. CASE DisableRefused
  BY <1>21, WrapperAssumption DEF DisableRefused, GoTo, TypeOK, Labels, Calls,
     Places
<1>22. CASE DisableDrained
  BY <1>22, WrapperAssumption DEF DisableDrained, GoTo, Drained, AfterDrain,
     TypeOK, Labels, Calls, Places
<1>23. CASE Flush
  BY <1>23, WrapperAssumption DEF Flush, OutputQueue, Released, HomeOf,
     TypeOK, Labels, Calls, Places
<1>24. CASE FlushPost
  BY <1>24, WrapperAssumption, PostCounts DEF FlushPost, GoTo, TypeOK, Labels,
     Calls, Places
<1>25. CASE Flushed
  BY <1>25, WrapperAssumption DEF Flushed, GoTo, OutputQueue, HomeOf, TypeOK,
     Labels, Calls, Places
<1>26. CASE Verify
  BY <1>26, WrapperAssumption DEF Verify, GoTo, TypeOK, Labels, Calls, Places
<1>27. CASE Destroy
  BY <1>27, WrapperAssumption DEF Destroy, GoTo, TypeOK, Labels, Calls, Places
<1>28. ASSUME NEW p \in Ports, DestroyDisable(p)
      PROVE  TypeOK'
  BY <1>28, WrapperAssumption DEF DestroyDisable, Call, TypeOK, Labels, Calls,
     Places
<1>29. CASE DestroyDrained
  BY <1>29, WrapperAssumption DEF DestroyDrained, GoTo, Drained, TypeOK,
     Labels, Calls, Places
<1>30. CASE DestroyControl
  BY <1>30, WrapperAssumption DEF DestroyControl, GoTo, TypeOK, Labels, Calls,
     Places
<1>31. CASE Free
  <2>1. where' \in [Buffers -> Places]
    BY <1>31 DEF Free, Places
  <2>2. sema' \in 0 .. MaxPosts
    BY <1>31, WrapperAssumption DEF Free
  <2> QED
    BY <1>31, <2>1, <2>2 DEF Free, GoTo, TypeOK, Labels
<1> QED
  BY <1>1, <1>2, <1>3, <1>4, <1>5, <1>6, <1>7, <1>8, <1>9, <1>10, <1>11,
     <1>12, <1>13, <1>14, <1>15, <1>16, <1>17, <1>18, <1>19, <1>20, <1>21,
     <1>22, <1>23, <1>24, <1>25, <1>26, <1>27, <1>28, <1>29, <1>30, <1>31
     DEF Next, Starts, GetGoesOn, DisableGoesOn, DestroyGoesOn, Component,
     Returned

LEMMA WakesStep ==
  ASSUME TypeOK, Wakes, [Next]_vars
  PROVE  Wakes'
<1>1. CASE UNCHANGED vars
  BY <1>1 DEF vars, Client, TypeOK, Wakes, NoLostWakeup, Available, Posting, Queue, Pool, OutputQueue, HomeOf
<1>2. CASE Create
  BY <1>2, WrapperAssumption DEF Create, Client, TypeOK, Wakes, NoLostWakeup,
     Available, Posting, Queue, Pool, OutputQueue, HomeOf
<1>3. ASSUME NEW b \in Headers, InputCallback(b)
      PROVE  Wakes'
  BY <1>3, WrapperAssumption DEF InputCallback, Client, TypeOK, Wakes,
     NoLostWakeup, Available, Posting
<1>4. ASSUME NEW b \in Headers, OutputCallback(b)
      PROVE  Wakes'
  BY <1>4, WrapperAssumption DEF OutputCallback, Client, TypeOK, Wakes,
     NoLostWakeup, Available, Posting
<1>5. ASSUME NEW e \in Events, NEW p \in Outputs, RaiseEvent(e,p)
      PROVE  Wakes'
  BY <1>5, WrapperAssumption DEF RaiseEvent, Client, TypeOK, Wakes,
     NoLostWakeup, Available, Posting, Ports
<1>6. ASSUME NEW p \in Ports, CallbackPost(p)
      PROVE  Wakes'
  BY <1>6, WrapperAssumption, PostCounts DEF CallbackPost, Client, TypeOK,
     Wakes, NoLostWakeup, Available, Posting, Queue, Pool, OutputQueue, HomeOf
<1>7. ASSUME NEW p \in Ports, CallbackDone(p)
      PROVE  Wakes'
  BY <1>7, WrapperAssumption DEF CallbackDone, Client, TypeOK, Wakes,
     NoLostWakeup, Available, Posting, Queue, Pool, OutputQueue, HomeOf
<1>8. CASE ControlError
  BY <1>8, WrapperAssumption DEF ControlError, Client, AfterError, TypeOK,
     Wakes, NoLostWakeup, Available, Posting, Queue, Pool, OutputQueue, HomeOf
<1>9. CASE ControlPost
  BY <1>9, WrapperAssumption, PostCounts DEF ControlPost, Client, TypeOK,
     Wakes, NoLostWakeup, Available, Posting, Queue, Pool, OutputQueue, HomeOf
<1>10. CASE Get
  BY <1>10, WrapperAssumption DEF Get, TypeOK, Wakes, NoLostWakeup, Available,
     Posting
<1>11. CASE GetCheck
  BY <1>11, WrapperAssumption DEF GetCheck, GoTo, TypeOK, Wakes, NoLostWakeup,
     Available, Posting
<1>12. CASE GetTake
  BY <1>12, WrapperAssumption DEF GetTake, Queue, Pool, OutputQueue, Buffers,
     TypeOK, Wakes, NoLostWakeup, Available, Posting
<1>13. CASE GetNothing
  BY <1>13, WrapperAssumption DEF GetNothing, GoTo, Queue, Pool, OutputQueue,
     TypeOK, Wakes, NoLostWakeup, Available, Posting, HomeOf
<1>14. CASE GetWakes
  BY <1>14, WrapperAssumption DEF GetWakes, GoTo, TypeOK, Wakes, NoLostWakeup,
     Available, Posting
<1>15. CASE GetResult
  BY <1>15, WrapperAssumption DEF GetResult, TypeOK, Wakes, NoLostWakeup,
     Available, Posting
<1>16. ASSUME NEW b \in Buffers, SendBuffer(b)
      PROVE  Wakes'
  BY <1>16, WrapperAssumption DEF SendBuffer, Client, TypeOK, Wakes,
     NoLostWakeup, Available, Posting
<1>17. ASSUME NEW b \in Buffers, ReleaseBuffer(b)
      PROVE  Wakes'
  BY <1>17, WrapperAssumption DEF ReleaseBuffer, Released, TypeOK, Wakes,
     NoLostWakeup, Available, Posting
<1>18. CASE ReleasePost
  BY <1>18, WrapperAssumption, PostCounts DEF ReleasePost, GoTo, TypeOK,
     Wakes, NoLostWakeup, Available, Posting
<1>19. ASSUME NEW p \in Ports, PortEnable(p)
      PROVE  Wakes'
  BY <1>19, WrapperAssumption DEF PortEnable, Client, HomeOf, TypeOK, Wakes,
     NoLostWakeup, Available, Posting
<1>20. ASSUME NEW p \in Ports, PortDisable(p)
      PROVE  Wakes'
  BY <1>20, WrapperAssumption DEF PortDisable, Call, TypeOK, Wakes,
     NoLostWakeup, Available, Posting
<1>21. CASE DisableRefused
  BY <1>21, WrapperAssumption DEF DisableRefused, GoTo, TypeOK, Wakes,
     NoLostWakeup, Available, Posting
<1>22. CASE DisableDrained
  BY <1>22, WrapperAssumption DEF DisableDrained, GoTo, Drained, AfterDrain,
     TypeOK, Wakes, NoLostWakeup, Available, Posting
<1>23. CASE Flush
  BY <1>23, WrapperAssumption DEF Flush, OutputQueue, Released, HomeOf,
     TypeOK, Wakes, NoLostWakeup, Available, Posting
<1>24. CASE FlushPost
  BY <1>24, WrapperAssumption, PostCounts DEF FlushPost, GoTo, TypeOK, Wakes,
     NoLostWakeup, Available, Posting
<1>25. CASE Flushed
  BY <1>25, WrapperAssumption DEF Flushed, GoTo, OutputQueue, HomeOf, TypeOK,
     Wakes, NoLostWakeup, Available, Posting
<1>26. CASE Verify
  BY <1>26, WrapperAssumption DEF Verify, GoTo, TypeOK, Wakes, NoLostWakeup,
     Available, Posting
<1>27. CASE Destroy
  BY <1>27, WrapperAssumption DEF Destroy, GoTo, TypeOK, Wakes, NoLostWakeup,
     Available, Posting
<1>28. ASSUME NEW p \in Ports, DestroyDisable(p)
      PROVE  Wakes'
  BY <1>28, WrapperAssumption DEF DestroyDisable, Call, TypeOK, Wakes,
     NoLostWakeup, Available, Posting
<1>29. CASE DestroyDrained
  BY <1>29, WrapperAssumption DEF DestroyDrained, GoTo, Drained, TypeOK,
     Wakes, NoLostWakeup, Available, Posting
<1>30. CASE DestroyControl
  BY <1>30, WrapperAssumption DEF DestroyControl, GoTo, TypeOK, Wakes,
     NoLostWakeup, Available, Posting
<1>31. CASE Free
  BY <1>31, WrapperAssumption DEF Free, GoTo, TypeOK, Wakes, NoLostWakeup,
     Available, Posting
<1> QED
  BY <1>1, <1>2, <1>3, <1>4, <1>5, <1>6, <1>7, <1>8, <1>9, <1>10, <1>11,
     <1>12, <1>13, <1>14, <1>15, <1>16, <1>17, <1>18, <1>19, <1>20, <1>21,
     <1>22, <1>23, <1>24, <1>25, <1>26, <1>27, <1>28, <1>29, <1>30, <1>31
     DEF Next, Starts, GetGoesOn, DisableGoesOn, DestroyGoesOn, Component,
     Returned

LEMMA WholeStep ==
  ASSUME TypeOK, Whole, [Next]_vars
  PROVE  Whole'
<1>1. CASE UNCHANGED vars
  BY <1>1 DEF vars, Client, TypeOK, Whole, Clearing, Destroying, Buffers
<1>2. CASE Create
  BY <1>2, WrapperAssumption DEF Create, Client, TypeOK, Whole, Clearing,
     Destroying, Buffers
<1>3. ASSUME NEW b \in Headers, InputCallback(b)
      PROVE  Whole'
  BY <1>3, WrapperAssumption DEF InputCallback, Client, TypeOK, Whole,
     Clearing, Destroying, Buffers
<1>4. ASSUME NEW b \in Headers, OutputCallback(b)
      PROVE  Whole'
  BY <1>4, WrapperAssumption DEF OutputCallback, Client, TypeOK, Whole,
     Clearing, Destroying, Buffers
<1>5. ASSUME NEW e \in Events, NEW p \in Outputs, RaiseEvent(e,p)
      PROVE  Whole'
  BY <1>5, WrapperAssumption DEF RaiseEvent, Client, TypeOK, Whole, Clearing,
     Destroying, Buffers
<1>6. ASSUME NEW p \in Ports, CallbackPost(p)
      PROVE  Whole'
  BY <1>6, WrapperAssumption, PostCounts DEF CallbackPost, Client, TypeOK,
     Whole, Clearing, Destroying, Buffers
<1>7. ASSUME NEW p \in Ports, CallbackDone(p)
      PROVE  Whole'
  BY <1>7, WrapperAssumption DEF CallbackDone, Client, TypeOK, Whole,
     Clearing, Destroying, Buffers
<1>8. CASE ControlError
  BY <1>8, WrapperAssumption DEF ControlError, Client, AfterError, TypeOK,
     Whole, Clearing, Destroying, Buffers
<1>9. CASE ControlPost
  BY <1>9, WrapperAssumption, PostCounts DEF ControlPost, Client, TypeOK,
     Whole, Clearing, Destroying, Buffers
<1>10. CASE Get
  BY <1>10, WrapperAssumption DEF Get, TypeOK, Whole, Clearing, Destroying,
     Buffers
<1>11. CASE GetCheck
  BY <1>11, WrapperAssumption DEF GetCheck, GoTo, TypeOK, Whole, Clearing,
     Destroying, Buffers
<1>12. CASE GetTake
  BY <1>12, WrapperAssumption DEF GetTake, Queue, Pool, OutputQueue, Buffers,
     TypeOK, Whole, Clearing, Destroying
<1>13. CASE GetNothing
  BY <1>13, WrapperAssumption DEF GetNothing, GoTo, Queue, Pool, OutputQueue,
     TypeOK, Whole, Clearing, Destroying, Buffers
<1>14. CASE GetWakes
  BY <1>14, WrapperAssumption DEF GetWakes, GoTo, TypeOK, Whole, Clearing,
     Destroying, Buffers
<1>15. CASE GetResult
  BY <1>15, WrapperAssumption DEF GetResult, TypeOK, Whole, Clearing,
     Destroying, Buffers
<1>16. ASSUME NEW b \in Buffers, SendBuffer(b)
      PROVE  Whole'
  BY <1>16, WrapperAssumption DEF SendBuffer, Client, TypeOK, Whole, Clearing,
     Destroying, Buffers
<1>17. ASSUME NEW b \in Buffers, ReleaseBuffer(b)
      PROVE  Whole'
  BY <1>17, WrapperAssumption DEF ReleaseBuffer, Released, TypeOK, Whole,
     Clearing, Destroying, Buffers
<1>18. CASE ReleasePost
  BY <1>18, WrapperAssumption, PostCounts DEF ReleasePost, GoTo, TypeOK,
     Whole, Clearing, Destroying, Buffers
<1>19. ASSUME NEW p \in Ports, PortEnable(p)
      PROVE  Whole'
  BY <1>19, WrapperAssumption DEF PortEnable, Client, HomeOf, TypeOK, Whole,
     Clearing, Destroying, Buffers
<1>20. ASSUME NEW p \in Ports, PortDisable(p)
      PROVE  Whole'
  BY <1>20, WrapperAssumption DEF PortDisable, Call, TypeOK, Whole, Clearing,
     Destroying, Buffers
<1>21. CASE DisableRefused
  BY <1>21, WrapperAssumption DEF DisableRefused, GoTo, TypeOK, Whole,
     Clearing, Destroying, Buffers
<1>22. CASE DisableDrained
  BY <1>22, WrapperAssumption DEF DisableDrained, GoTo, Drained, AfterDrain,
     TypeOK, Whole, Clearing, Destroying, Buffers, Places
<1>23. CASE Flush
  BY <1>23, WrapperAssumption DEF Flush, OutputQueue, Released, HomeOf,
     TypeOK, Whole, Clearing, Destroying, Buffers
<1>24. CASE FlushPost
  BY <1>24, WrapperAssumption, PostCounts DEF FlushPost, GoTo, TypeOK, Whole,
     Clearing, Destroying, Buffers
<1>25. CASE Flushed
  BY <1>25, WrapperAssumption DEF Flushed, GoTo, OutputQueue, HomeOf, TypeOK,
     Whole, Clearing, Destroying, Buffers
<1>26. CASE Verify
  BY <1>26, WrapperAssumption DEF Verify, GoTo, TypeOK, Whole, Clearing,
     Destroying, Buffers
<1>27. CASE Destroy
  BY <1>27, WrapperAssumption DEF Destroy, GoTo, TypeOK, Whole, Clearing,
     Destroying, Buffers
<1>28. ASSUME NEW p \in Ports, DestroyDisable(p)
      PROVE  Whole'
  BY <1>28, WrapperAssumption DEF DestroyDisable, Call, TypeOK, Whole,
     Clearing, Destroying, Buffers
<1>29. CASE DestroyDrained
  BY <1>29, WrapperAssumption DEF DestroyDrained, GoTo, Drained, TypeOK,
     Whole, Clearing, Destroying, Buffers, Places
<1>30. CASE DestroyControl
  BY <1>30, WrapperAssumption DEF DestroyControl, GoTo, TypeOK, Whole,
     Clearing, Destroying, Buffers
<1>31. CASE Free
  BY <1>31, WrapperAssumption DEF Free, GoTo, TypeOK, Whole, Clearing,
     Destroying, Buffers
<1> QED
  BY <1>1, <1>2, <1>3, <1>4, <1>5, <1>6, <1>7, <1>8, <1>9, <1>10, <1>11,
     <1>12, <1>13, <1>14, <1>15, <1>16, <1>17, <1>18, <1>19, <1>20, <1>21,
     <1>22, <1>23, <1>24, <1>25, <1>26, <1>27, <1>28, <1>29, <1>30, <1>31
     DEF Next, Starts, GetGoesOn, DisableGoesOn, DestroyGoesOn, Component,
     Returned

LEMMA QuietStep ==
  ASSUME TypeOK, Quiet, [Next]_vars
  PROVE  Quiet'
<1>1. CASE UNCHANGED vars
  BY <1>1 DEF vars, Client, TypeOK, Quiet, Buffers
<1>2. CASE Create
  BY <1>2, WrapperAssumption DEF Create, Client, TypeOK, Quiet, Buffers
<1>3. ASSUME NEW b \in Headers, InputCallback(b)
      PROVE  Quiet'
  BY <1>3, WrapperAssumption DEF InputCallback, Client, TypeOK, Quiet, Buffers
<1>4. ASSUME NEW b \in Headers, OutputCallback(b)
      PROVE  Quiet'
  BY <1>4, WrapperAssumption DEF OutputCallback, Client, TypeOK, Quiet,
     Buffers
<1>5. ASSUME NEW e \in Events, NEW p \in Outputs, RaiseEvent(e,p)
      PROVE  Quiet'
  BY <1>5, WrapperAssumption DEF RaiseEvent, Client, TypeOK, Quiet, Buffers,
     Ports
<1>6. ASSUME NEW p \in Ports, CallbackPost(p)
      PROVE  Quiet'
  BY <1>6, WrapperAssumption, PostCounts DEF CallbackPost, Client, TypeOK,
     Quiet, Buffers
<1>7. ASSUME NEW p \in Ports, CallbackDone(p)
      PROVE  Quiet'
  BY <1>7, WrapperAssumption DEF CallbackDone, Client, TypeOK, Quiet, Buffers
<1>8. CASE ControlError
  BY <1>8, WrapperAssumption DEF ControlError, Client, AfterError, TypeOK,
     Quiet, Buffers
<1>9. CASE ControlPost
  BY <1>9, WrapperAssumption, PostCounts DEF ControlPost, Client, TypeOK,
     Quiet, Buffers
<1>10. CASE Get
  BY <1>10, WrapperAssumption DEF Get, TypeOK, Quiet, Buffers
<1>11. CASE GetCheck
  BY <1>11, WrapperAssumption DEF GetCheck, GoTo, TypeOK, Quiet, Buffers
<1>12. CASE GetTake
  BY <1>12, WrapperAssumption DEF GetTake, Queue, Pool, OutputQueue, Buffers,
     TypeOK, Quiet
<1>13. CASE GetNothing
  BY <1>13, WrapperAssumption DEF GetNothing, GoTo, Queue, Pool, OutputQueue,
     TypeOK, Quiet, Buffers
<1>14. CASE GetWakes
  BY <1>14, WrapperAssumption DEF GetWakes, GoTo, TypeOK, Quiet, Buffers
<1>15. CASE GetResult
  BY <1>15, WrapperAssumption DEF GetResult, TypeOK, Quiet, Buffers
<1>16. ASSUME NEW b \in Buffers, SendBuffer(b)
      PROVE  Quiet'
  BY <1>16, WrapperAssumption DEF SendBuffer, Client, TypeOK, Quiet, Buffers
<1>17. ASSUME NEW b \in Buffers, ReleaseBuffer(b)
      PROVE  Quiet'
  BY <1>17, WrapperAssumption DEF ReleaseBuffer, Released, TypeOK, Quiet,
     Buffers
<1>18. CASE ReleasePost
  BY <1>18, WrapperAssumption, PostCounts DEF ReleasePost, GoTo, TypeOK,
     Quiet, Buffers
<1>19. ASSUME NEW p \in Ports, PortEnable(p)
      PROVE  Quiet'
  BY <1>19, WrapperAssumption DEF PortEnable, Client, HomeOf, TypeOK, Quiet,
     Buffers
<1>20. ASSUME NEW p \in Ports, PortDisable(p)
      PROVE  Quiet'
  BY <1>20, WrapperAssumption DEF PortDisable, Call, TypeOK, Quiet, Buffers
<1>21. CASE DisableRefused
  BY <1>21, WrapperAssumption DEF DisableRefused, GoTo, TypeOK, Quiet, Buffers
<1>22. CASE DisableDrained
  BY <1>22, WrapperAssumption DEF DisableDrained, GoTo, Drained, AfterDrain,
     TypeOK, Quiet, Buffers
<1>23. CASE Flush
  BY <1>23, WrapperAssumption DEF Flush, OutputQueue, Released, HomeOf,
     TypeOK, Quiet, Buffers
<1>24. CASE FlushPost
  BY <1>24, WrapperAssumption, PostCounts DEF FlushPost, GoTo, TypeOK, Quiet,
     Buffers
<1>25. CASE Flushed
  BY <1>25, WrapperAssumption DEF Flushed, GoTo, OutputQueue, HomeOf, TypeOK,
     Quiet, Buffers
<1>26. CASE Verify
  BY <1>26, WrapperAssumption DEF Verify, GoTo, TypeOK, Quiet, Buffers
<1>27. CASE Destroy
  BY <1>27, WrapperAssumption DEF Destroy, GoTo, TypeOK, Quiet, Buffers
<1>28. ASSUME NEW p \in Ports, DestroyDisable(p)
      PROVE  Quiet'
  BY <1>28, WrapperAssumption DEF DestroyDisable, Call, TypeOK, Quiet, Buffers
<1>29. CASE DestroyDrained
  BY <1>29, WrapperAssumption DEF DestroyDrained, GoTo, Drained, TypeOK,
     Quiet, Buffers
<1>30. CASE DestroyControl
  BY <1>30, WrapperAssumption DEF DestroyControl, GoTo, TypeOK, Quiet, Buffers
<1>31. CASE Free
  BY <1>31, WrapperAssumption DEF Free, GoTo, TypeOK, Quiet, Buffers, Joined
<1> QED
  BY <1>1, <1>2, <1>3, <1>4, <1>5, <1>6, <1>7, <1>8, <1>9, <1>10, <1>11,
     <1>12, <1>13, <1>14, <1>15, <1>16, <1>17, <1>18, <1>19, <1>20, <1>21,
     <1>22, <1>23, <1>24, <1>25, <1>26, <1>27, <1>28, <1>29, <1>30, <1>31
     DEF Next, Starts, GetGoesOn, DisableGoesOn, DestroyGoesOn, Component,
     Returned

-----------------------------------------------------------------------------
(* The theorems. *)

LEMMA IInvInit == Init => IInv
<1> SUFFICES ASSUME Init PROVE IInv
  OBVIOUS
<1>1. TypeOK
  <2>1. PICK p \in Ports : call = Call(p)
    BY DEF Init
  <2>2. call \in Calls
    BY <2>1 DEF Call, Calls
  <2>3. queuedOn \in [Events -> Ports]
    BY DEF Init, Ports
  <2>4. sema \in 0 .. MaxPosts
    BY WrapperAssumption DEF Init
  <2>5. where \in [Buffers -> Places]
    BY DEF Init, Places
  <2> QED
    BY <2>2, <2>3, <2>4, <2>5 DEF Init, TypeOK, Labels
<1>2. Wakes /\ Whole
  BY DEF Init, Wakes, NoLostWakeup, Whole, Clearing, Buffers
<1>3. Quiet
  BY DEF Init, Quiet
<1> QED BY <1>1, <1>2, <1>3 DEF IInv

LEMMA IInvStep == IInv /\ [Next]_vars => IInv'
BY TypeStep, WakesStep, WholeStep, QuietStep DEF IInv

LEMMA Invariant == Spec => []IInv
BY IInvInit, IInvStep, PTL DEF Spec

\* The variables keep their types: the semaphore never passes its limit.  Once
\* the component's thread is joined nothing is left to touch what is freed.
THEOREM WrapperCorrect == Spec => []WrapperInv
<1>1. IInv => WrapperInv
  BY WrapperAssumption DEF IInv, TypeOK, WrapperInv, FreedQuiet, Whole, Clearing, Quiet, Destroying
<1> QED BY <1>1, Invariant, PTL

\* No wakeup is lost: a get that waits while there is a header in its queue, or
\* an error, has a post to wake it.
THEOREM WakeupCorrect == Spec => []NoLostWakeup
<1>1. IInv => NoLostWakeup
  BY DEF IInv, Wakes
<1> QED BY <1>1, Invariant, PTL

\* A port that is disabled has left every header in its pool, but for those the
\* client took.
THEOREM PoolCorrect == Spec => []PoolWhole
<1>1. IInv => PoolWhole
  BY DEF IInv, Whole, Clearing, PoolWhole, Destroying
<1> QED BY <1>1, Invariant, PTL

-----------------------------------------------------------------------------
(* The Raspicam tools: the inductive invariant of CameraApps, for any      *)
(* command lines, refused settings, size of the pool, number of frames     *)
(* and of calls that fail.                                                 *)

\* The types of what main() and the callback keep, but for their counters.
MainTypes ==
  /\ prog \in Programs
  /\ comp \in [Components -> {"none", "enabled", "disabled", "destroyed"}]
  /\ conn \in [Connections -> {"null", "live", "dangling"}]
  /\ file \in {"none", "open", "stdout", "closed"}
  /\ is_enabled \in BOOLEAN
  /\ complete \in BOOLEAN /\ cbuf \in [data : BOOLEAN, end : BOOLEAN]
  /\ cpc \in {"idle", "write", "release", "get", "send", "post"}

\* The labels of main() by program.
MainLabels ==
  [vid   |-> {"parse", "camera", "preview", "encoder", "connect_preview", "connect_encoder", "open",
              "enable", "demo", "capture", "length", "send", "wait", "sleep", "error", "disable_port",
              "unconnect_preview", "unconnect_encoder", "close", "disable", "free_encoder",
              "free_preview", "free_camera"} \cup Finished,
   still |-> {"parse", "camera", "preview", "connect_preview", "open", "enable", "length", "send",
              "sleep", "capture", "await", "delete", "error", "close", "disable_video",
              "unconnect_preview", "disable", "free_preview", "free_camera"} \cup Finished]

\* The components: made in their order, destroyed in the reverse one.
Life ==
  /\ mpc \in MainLabels[prog]
  /\ mpc \in {"parse", "camera"} => \A c \in Components : comp[c] = "none"
  /\ mpc = "preview" => comp["preview"] = "none" /\ comp["encoder"] = "none"
  /\ prog = "still" \/ mpc = "encoder" => comp["encoder"] = "none"
  /\ mpc \in {"free_preview", "free_camera", "done", "end"} =>
       comp["encoder"] \in {"none", "destroyed"}
  /\ mpc \in {"free_camera", "done", "end"} => comp["preview"] \in {"none", "destroyed"}
  /\ mpc \in {"done", "end"} => comp["camera"] \in {"none", "destroyed"}

\* The labels at which a connection, the file, the port are gone.
AfterUnconnectPreview == {"unconnect_encoder", "disable", "free_encoder", "free_preview",
                          "free_camera", "done"}

\* A connection is live only between the calls that create and destroy it.
Links ==
  /\ mpc \in {"parse", "camera", "preview", "encoder", "connect_preview", "end"} =>
       \A c \in Connections : conn[c] # "live"
  /\ prog = "still" \/ mpc = "connect_encoder" => conn["encoder"] # "live"
  /\ conn["preview"] = "live" => opts.preview
  /\ mpc \in AfterUnconnectPreview \/ (prog = "vid" /\ mpc = "close") => conn["preview"] # "live"
  /\ prog = "vid" /\ mpc \in (AfterUnconnectPreview \cup {"close"}) \ {"unconnect_encoder"} =>
       conn["encoder"] # "live"

\* The file is opened once, and no longer open when the components go.
File ==
  /\ mpc \in {"parse", "camera", "preview", "encoder", "connect_preview", "connect_encoder",
              "open", "end"} => file = "none"
  /\ mpc = "enable" => file # "closed"
  /\ mpc \in {"disable_video", "disable", "free_encoder", "free_preview", "free_camera", "done"} =>
       file # "open"
  /\ prog = "still" /\ mpc = "unconnect_preview" => file # "open"

\* Before the data port is enabled, and the ends that are reached from there.
Early == {"parse", "camera", "preview", "encoder", "connect_preview", "connect_encoder", "open",
          "enable", "end", "exit"}

\* The data port is enabled only between EnablePort and its disabling.
Enabled ==
  /\ mpc \in Early => ~is_enabled
  /\ mpc = "done" => ~is_enabled
  /\ prog = "vid" /\ mpc \in {"unconnect_preview", "unconnect_encoder", "close", "disable",
                              "free_encoder", "free_preview", "free_camera"} => ~is_enabled

\* Before the first buffer is sent, and, for RaspiVid, after the data port is disabled.
Unused ==
  \/ mpc \in Early \cup {"demo", "length"}
  \/ prog = "vid" /\ mpc \in {"capture", "sleep", "unconnect_preview", "unconnect_encoder", "close",
                              "disable", "free_encoder", "free_preview", "free_camera", "done"}

\* The buffers the callback has in its hands; a pool that does not exist has none.
Hands == IF cpc \in {"write", "release", "send"} THEN 1 ELSE 0
Nat0(n) == IF n = -1 THEN 0 ELSE n

\* Every buffer is in one place only, and the pool still has those main() is to send:
\* the callback takes one only after it has put one back.
Account ==
  /\ pool \in Nat \cup {-1} /\ at_port \in Nat /\ lost \in Nat /\ tosend \in Nat
  /\ Nat0(pool) + at_port + lost + Hands <= buffer_num
  /\ mpc \in Early => lost = 0
  /\ mpc \in {"parse", "camera"} => pool = -1
  /\ prog = "vid" /\ mpc \in {"preview", "encoder"} => pool = -1
  /\ Unused => at_port = 0 /\ cpc = "idle"
  /\ mpc = "send" => pool >= tosend + (IF cpc = "get" THEN 1 ELSE 0)

\* Nothing of RaspiVid's port is outstanding before the file and the pool exist.
Live ==
  prog = "vid" =>
    /\ at_port > 0 \/ cpc # "idle" => file \in {"open", "stdout"} /\ pool # -1
    /\ mpc \in {"capture", "length", "send", "wait"} => file \in {"open", "stdout"}
    /\ mpc \in {"send", "wait"} => pool # -1

\* The semaphore is posted at most once for each buffer that came back with data.
Posts ==
  /\ frames \in 0 .. MaxFrames /\ complete_semaphore \in Int /\ complete_semaphore >= -1
  /\ cpc = "idle" => ~complete /\ ~cbuf.data /\ ~cbuf.end
  /\ cpc = "write" => ~complete
  /\ complete => cbuf.data
  /\ cbuf.end => cbuf.data
  /\ complete_semaphore + (IF complete \/ (cpc = "write" /\ cbuf.data) THEN 1 ELSE 0) <= frames

\* From the creation of the camera to the end of the demo.
Settled == {"preview", "encoder", "connect_preview", "connect_encoder", "open", "enable", "demo"}

\* The settings in force; at the flips of the demo the rotation is back.
Camera ==
  /\ CamTypeOK
  /\ mpc \in {"parse", "camera"} =>
       camera = Defaults /\ parameter = 0 /\ parameter_option = parameter_reset
  /\ mpc \in Settled /\ opts.params = Defaults =>
       /\ OneSettingAtATime
       /\ parameter = 9 /\ parameter_option \notin {parameter_reset, 1, 2, 3}
          /\ "rotation" \notin refused => camera.rotation = 0

AppsIInv == MainTypes /\ Life /\ Links /\ File /\ Enabled /\ Account /\ Live /\ Posts /\ Camera

-----------------------------------------------------------------------------
(* The steps of the teardown, one after another. *)

LEMMA NextStepIs ==
  ASSUME prog \in Programs, NextStep
  PROVE  /\ prog = "vid" =>
              /\ mpc = "error" => mpc' = "disable_port"
              /\ mpc = "disable_port" => mpc' = "unconnect_preview"
              /\ mpc = "unconnect_preview" => mpc' = "unconnect_encoder"
              /\ mpc = "unconnect_encoder" => mpc' = "close"
              /\ mpc = "close" => mpc' = "disable"
              /\ mpc = "disable" => mpc' = "free_encoder"
              /\ mpc = "free_encoder" => mpc' = "free_preview"
              /\ mpc = "free_preview" => mpc' = "free_camera"
              /\ mpc = "free_camera" => mpc' = "done"
         /\ prog = "still" =>
              /\ mpc = "error" => mpc' = "close"
              /\ mpc = "close" => mpc' = "disable_video"
              /\ mpc = "disable_video" => mpc' = "unconnect_preview"
              /\ mpc = "unconnect_preview" => mpc' = "disable"
              /\ mpc = "disable" => mpc' = "free_preview"
              /\ mpc = "free_preview" => mpc' = "free_camera"
              /\ mpc = "free_camera" => mpc' = "done"
<1> DEFINE steps == Teardown[prog]
           here  == CHOOSE i \in 1 .. Len(steps) : steps[i] = mpc
<1>1. mpc' = steps[here + 1]
  BY DEF NextStep
<1>2. CASE prog = "vid"
  <2>1. steps = <<"error", "disable_port", "unconnect_preview", "unconnect_encoder", "close",
                  "disable", "free_encoder", "free_preview", "free_camera", "done">>
    BY <1>2 DEF Teardown
  <2> HIDE DEF steps
  <2>2. \A i \in 1 .. Len(steps) : \A j \in 1 .. Len(steps) : steps[i] = steps[j] => i = j
    BY <2>1
  <2>3. ASSUME NEW i \in 1 .. Len(steps), steps[i] = mpc PROVE here = i
    BY <2>2, <2>3
  <2> HIDE DEF here
  <2> QED BY <1>1, <1>2, <2>1, <2>3
<1>3. CASE prog = "still"
  <2>1. steps = <<"error", "close", "disable_video", "unconnect_preview", "disable",
                  "free_preview", "free_camera", "done">>
    BY <1>3 DEF Teardown
  <2> HIDE DEF steps
  <2>2. \A i \in 1 .. Len(steps) : \A j \in 1 .. Len(steps) : steps[i] = steps[j] => i = j
    BY <2>1
  <2>3. ASSUME NEW i \in 1 .. Len(steps), steps[i] = mpc PROVE here = i
    BY <2>2, <2>3
  <2> HIDE DEF here
  <2> QED BY <1>1, <1>3, <2>1, <2>3
<1> QED BY <1>2, <1>3 DEF Programs

\* parse_cmdline() changes what is asked for, and nothing else.
LEMMA ParseIs ==
  ASSUME ParseOption \/ Parsed
  PROVE  /\ mpc = "parse" /\ mpc' \in {"parse", "exit", "camera"}
         /\ UNCHANGED <<prog, argv, setup, complete_semaphore, is_enabled, capturing, buffers,
                        tosend, callbackvars, faults, camvars>>
<1>1. CASE ParseOption
  BY <1>1 DEF ParseOption
<1>2. CASE Parsed
  BY <1>2 DEF Parsed, started
<1> QED BY <1>1, <1>2

-----------------------------------------------------------------------------
(* Every step preserves each part of the invariant. *)

LEMMA TypesStep ==
  ASSUME MainTypes, [AppsNext]_appsvars
  PROVE  MainTypes'
<1> USE DEF MainTypes
<1>1. CASE UNCHANGED appsvars
  BY <1>1 DEF appsvars, started, setup, callbackvars
<1>2. CASE ParseOption \/ Parsed
  BY <1>2, ParseIs DEF setup, callbackvars
<1>3. CASE CreateCamera \/ CreatePreview \/ CreateEncoder
  BY <1>3 DEF CreateCamera, CreatePreview, CreateEncoder, CreateComponent, Unwound, started,
     callbackvars
<1>4. CASE ConnectPreview \/ ConnectEncoder
  BY <1>4 DEF ConnectPreview, ConnectEncoder, ConnectPorts, started, callbackvars, Connections
<1>5. CASE OpenFile \/ EnablePort
  BY <1>5 DEF OpenFile, EnablePort, started, setup, callbackvars
<1>6. CASE Demo \/ DemoEnds \/ QueueLength \/ SendFirst \/ Capture \/ Wait \/ Sleep \/ AwaitComplete
           \/ DeleteSemaphore
           \/ DisablePort \/ Sigint
  BY <1>6 DEF Demo, DemoEnds, QueueLength, SendFirst, Capture, Wait, Sleep, AwaitComplete,
     DeleteSemaphore, DisablePort, Sigint, started, setup, callbackvars
<1>7. CASE PortDisabled \/ Pass \/ CloseFile \/ DisableComponents
  BY <1>7 DEF PortDisabled, Pass, CloseFile, DisableComponents, started, setup, callbackvars
<1>8. ASSUME NEW c \in Connections, Unconnect(c) PROVE MainTypes'
  BY <1>8 DEF Unconnect, started, callbackvars
<1>9. ASSUME NEW c \in Components, FreeComponent(c) PROVE MainTypes'
  BY <1>9 DEF FreeComponent, started, callbackvars
<1>10. ASSUME NEW data \in BOOLEAN, NEW end \in BOOLEAN, Return(data, end) PROVE MainTypes'
  <2>1. cbuf' \in [data : BOOLEAN, end : BOOLEAN]
    BY <1>10 DEF Return
  <2> QED BY <2>1, <1>10 DEF Return, started, setup
<1>11. CASE ReturnData \/ ReturnEmpty
  BY <1>10, <1>11 DEF ReturnData, ReturnEmpty
<1>12. CASE Write
  <2>1. complete' \in BOOLEAN
    BY <1>12 DEF Write, IsComplete
  <2> QED BY <2>1, <1>12 DEF Write, started, setup
<1>13. CASE Release \/ GetBuffer \/ Send
  BY <1>13 DEF Release, GetBuffer, Send, started, setup
<1>14. CASE PostComplete
  BY <1>14 DEF PostComplete, NoData, started, setup
<1> QED
  BY <1>1, <1>2, <1>3, <1>4, <1>5, <1>6, <1>7, <1>8, <1>9, <1>11, <1>12, <1>13, <1>14 DEF
     AppsNext, Main, Firmware, Callback

\* The components are made and destroyed in their order.
LEMMA LifeStep ==
  ASSUME MainTypes, Life, [AppsNext]_appsvars
  PROVE  Life'
<1> USE DEF MainTypes, Life, MainLabels, Programs, Components
<1>1. CASE UNCHANGED appsvars
  BY <1>1 DEF appsvars, started, setup
<1>2. CASE ParseOption \/ Parsed
  BY <1>2, ParseIs DEF setup, Finished
<1>3. CASE CreateCamera
  BY <1>3 DEF CreateCamera, CreateComponent, Unwound, started, Finished
<1>4. CASE CreatePreview
  <2>1. \/ /\ comp' = [comp EXCEPT !["preview"] = "enabled"]
           /\ mpc' = IF prog = "vid" THEN "encoder" ELSE "connect_preview"
        \/ mpc' = "end" /\ \A c \in Components : comp'[c] \in {"none", "destroyed"}
    BY <1>4 DEF CreatePreview, CreateComponent, Unwound
  <2>2. mpc = "preview" /\ prog' = prog
    BY <1>4 DEF CreatePreview, CreateComponent, started
  <2>3. prog = "still" => comp'["encoder"] = "none"
    BY <1>4 DEF CreatePreview, CreateComponent, Unwound
  <2> QED BY <2>1, <2>2, <2>3 DEF Finished
<1>5. CASE CreateEncoder
  <2>1. \/ mpc' = "connect_preview"
        \/ mpc' = "end" /\ \A c \in Components : comp'[c] \in {"none", "destroyed"}
    BY <1>5 DEF CreateEncoder, CreateComponent, Unwound
  <2>2. mpc = "encoder" /\ prog' = prog /\ prog = "vid"
    BY <1>5 DEF CreateEncoder, CreateComponent, started, Finished
  <2> QED BY <2>1, <2>2 DEF Finished
<1>6. CASE ConnectPreview \/ ConnectEncoder \/ OpenFile \/ EnablePort
  BY <1>6 DEF ConnectPreview, ConnectEncoder, ConnectPorts, AfterPreview, OpenFile, EnablePort,
     started, setup, Finished
<1>7. CASE Demo \/ DemoEnds \/ QueueLength \/ SendFirst \/ Capture \/ Wait \/ Sleep \/ AwaitComplete
           \/ DeleteSemaphore
           \/ DisablePort \/ Sigint
  BY <1>7 DEF Demo, DemoEnds, QueueLength, SendFirst, Capture, Wait, Sleep, AwaitComplete,
     DeleteSemaphore, DisablePort, Sigint, started, setup, Finished
<1>8. CASE PortDisabled \/ Pass \/ CloseFile
  BY <1>8, NextStepIs DEF PortDisabled, Pass, CloseFile, started, setup, Finished
<1>9. CASE DisableComponents
  BY <1>9, NextStepIs DEF DisableComponents, started, Finished
<1>10. ASSUME NEW c \in Connections, Unconnect(c) PROVE Life'
  BY <1>10, NextStepIs DEF Unconnect, started, Connections, Finished
<1>11. ASSUME NEW c \in Components, FreeComponent(c) PROVE Life'
  BY <1>11, NextStepIs DEF FreeComponent, started, Finished
<1>12. CASE Firmware \/ Callback
  BY <1>12 DEF Firmware, Callback, ReturnData, ReturnEmpty, Return, Write, Release, GetBuffer,
     Send, PostComplete, started, setup
<1> QED
  BY <1>1, <1>2, <1>3, <1>4, <1>5, <1>6, <1>7, <1>8, <1>9, <1>10, <1>11, <1>12 DEF AppsNext, Main

\* A connection is live between its creation and its destruction.
LEMMA LinksStep ==
  ASSUME MainTypes, Life, Links, [AppsNext]_appsvars
  PROVE  Links'
<1> USE DEF MainTypes, Life, MainLabels, Programs, Links, Connections, AfterUnconnectPreview
<1>1. CASE UNCHANGED appsvars
  BY <1>1 DEF appsvars, started, setup
<1>2. CASE ParseOption \/ Parsed
  BY <1>2, ParseIs DEF setup
<1>3. CASE CreateCamera \/ CreatePreview \/ CreateEncoder
  BY <1>3 DEF CreateCamera, CreatePreview, CreateEncoder, CreateComponent, started
<1>4. CASE ConnectPreview
  BY <1>4 DEF ConnectPreview, ConnectPorts, AfterPreview, started
<1>5. CASE ConnectEncoder
  <2>1. /\ conn'["preview"] = conn["preview"] /\ mpc' \in {"open", "error"}
        /\ mpc = "connect_encoder" /\ UNCHANGED <<prog, opts>>
    BY <1>5 DEF ConnectEncoder, ConnectPorts, started
  <2>2. prog = "vid"
    BY <2>1 DEF Finished
  <2> QED BY <2>1, <2>2
<1>6. CASE OpenFile \/ EnablePort
  BY <1>6 DEF OpenFile, EnablePort, started, setup
<1>7. CASE Demo \/ DemoEnds \/ QueueLength \/ SendFirst \/ Capture \/ Wait \/ Sleep \/ AwaitComplete
           \/ DeleteSemaphore
           \/ DisablePort \/ Sigint
  BY <1>7 DEF Demo, DemoEnds, QueueLength, SendFirst, Capture, Wait, Sleep, AwaitComplete,
     DeleteSemaphore, DisablePort, Sigint, started, setup
<1>8. CASE PortDisabled \/ Pass \/ CloseFile \/ DisableComponents
  <2>1. conn' = conn /\ opts' = opts /\ prog' = prog /\ NextStep
    BY <1>8 DEF PortDisabled, Pass, CloseFile, DisableComponents, started, setup
  <2>2. mpc \in {"disable_port", "error", "disable_video", "close", "disable"}
    BY <1>8 DEF PortDisabled, Pass, CloseFile, DisableComponents
  <2>3. CASE prog = "vid"
    BY <2>1, <2>2, <2>3, NextStepIs DEF Finished
  <2>4. CASE prog = "still"
    BY <2>1, <2>2, <2>4, NextStepIs DEF Finished
  <2> QED BY <2>3, <2>4
<1>9. ASSUME NEW c \in Connections, Unconnect(c) PROVE Links'
  BY <1>9, NextStepIs DEF Unconnect, started
<1>10. ASSUME NEW c \in Components, FreeComponent(c) PROVE Links'
  BY <1>10, NextStepIs DEF FreeComponent, started, Components
<1>11. CASE Firmware \/ Callback
  BY <1>11 DEF Firmware, Callback, ReturnData, ReturnEmpty, Return, Write, Release, GetBuffer,
     Send, PostComplete, started, setup
<1> QED
  BY <1>1, <1>2, <1>3, <1>4, <1>5, <1>6, <1>7, <1>8, <1>9, <1>10, <1>11 DEF AppsNext, Main

\* The file is closed, or was never opened, once the components are torn down.
LEMMA FileStep ==
  ASSUME MainTypes, Life, File, [AppsNext]_appsvars
  PROVE  File'
<1> USE DEF MainTypes, Life, MainLabels, Programs, File
<1>1. CASE UNCHANGED appsvars
  BY <1>1 DEF appsvars, started, setup
<1>2. CASE ParseOption \/ Parsed
  BY <1>2, ParseIs DEF setup
<1>3. CASE CreateCamera \/ CreatePreview \/ CreateEncoder
  BY <1>3 DEF CreateCamera, CreatePreview, CreateEncoder, CreateComponent, started
<1>4. CASE ConnectPreview \/ ConnectEncoder \/ OpenFile \/ EnablePort
  BY <1>4 DEF ConnectPreview, ConnectEncoder, ConnectPorts, AfterPreview, OpenFile, EnablePort,
     started, setup
<1>5. CASE Demo \/ DemoEnds \/ QueueLength \/ SendFirst \/ Capture \/ Wait \/ Sleep \/ AwaitComplete
           \/ DeleteSemaphore
           \/ DisablePort \/ Sigint
  BY <1>5 DEF Demo, DemoEnds, QueueLength, SendFirst, Capture, Wait, Sleep, AwaitComplete,
     DeleteSemaphore, DisablePort, Sigint, started, setup
<1>6. CASE PortDisabled \/ Pass \/ DisableComponents \/ CloseFile
  <2>1. /\ file' = (IF mpc = "close" /\ file = "open" THEN "closed" ELSE file)
        /\ prog' = prog /\ NextStep
        /\ mpc \in {"disable_port", "error", "disable_video", "close", "disable"}
    BY <1>6 DEF PortDisabled, Pass, CloseFile, DisableComponents, started, setup
  <2>2. CASE prog = "vid"
    BY <2>1, <2>2, NextStepIs DEF Finished
  <2>3. CASE prog = "still"
    BY <2>1, <2>3, NextStepIs DEF Finished
  <2> QED BY <2>2, <2>3
<1>7. ASSUME NEW c \in Connections, Unconnect(c) PROVE File'
  <2>1. /\ UNCHANGED <<file, prog>> /\ (mpc' = "crashed" \/ NextStep)
        /\ mpc \in {"unconnect_preview", "unconnect_encoder"}
    BY <1>7 DEF Unconnect, started
  <2>2. CASE prog = "vid"
    BY <2>1, <2>2, NextStepIs DEF Finished
  <2>3. CASE prog = "still"
    BY <2>1, <2>3, NextStepIs DEF Finished
  <2> QED BY <2>2, <2>3
<1>8. ASSUME NEW c \in Components, FreeComponent(c) PROVE File'
  <2>1. /\ UNCHANGED <<file, prog>> /\ NextStep
        /\ mpc \in {"free_encoder", "free_preview", "free_camera"}
    BY <1>8 DEF FreeComponent, started
  <2>2. CASE prog = "vid"
    BY <2>1, <2>2, NextStepIs DEF Finished
  <2>3. CASE prog = "still"
    BY <2>1, <2>3, NextStepIs DEF Finished
  <2> QED BY <2>2, <2>3
<1>9. CASE Firmware \/ Callback
  BY <1>9 DEF Firmware, Callback, ReturnData, ReturnEmpty, Return, Write, Release, GetBuffer,
     Send, PostComplete, started, setup
<1> QED
  BY <1>1, <1>2, <1>3, <1>4, <1>5, <1>6, <1>7, <1>8, <1>9 DEF AppsNext, Main

\* The data port is enabled only while main() may use it.
LEMMA EnabledStep ==
  ASSUME MainTypes, Life, Enabled, [AppsNext]_appsvars
  PROVE  Enabled'
<1> USE DEF MainTypes, Life, MainLabels, Programs, Enabled, Early
<1>1. CASE UNCHANGED appsvars
  BY <1>1 DEF appsvars, started
<1>2. CASE ParseOption \/ Parsed
  BY <1>2, ParseIs
<1>3. CASE CreateCamera \/ CreatePreview \/ CreateEncoder
  BY <1>3 DEF CreateCamera, CreatePreview, CreateEncoder, CreateComponent, started
<1>4. CASE ConnectPreview \/ ConnectEncoder \/ OpenFile \/ EnablePort
  BY <1>4 DEF ConnectPreview, ConnectEncoder, ConnectPorts, AfterPreview, OpenFile, EnablePort,
     started
<1>5. CASE Demo \/ DemoEnds \/ QueueLength \/ SendFirst \/ Capture \/ Wait \/ Sleep \/ AwaitComplete
           \/ DeleteSemaphore
           \/ DisablePort \/ Sigint
  BY <1>5 DEF Demo, DemoEnds, QueueLength, SendFirst, Capture, Wait, Sleep, AwaitComplete,
     DeleteSemaphore, DisablePort, Sigint, started
<1>6. CASE PortDisabled \/ Pass \/ DisableComponents \/ CloseFile
  <2>1. /\ is_enabled' = is_enabled /\ prog' = prog /\ NextStep
        /\ mpc \in {"disable_port", "error", "disable_video", "close", "disable"}
        /\ mpc = "disable_port" => ~is_enabled
    BY <1>6 DEF PortDisabled, PortDrained, Pass, CloseFile, DisableComponents, started
  <2>2. CASE prog = "vid"
    BY <2>1, <2>2, NextStepIs DEF Finished
  <2>3. CASE prog = "still"
    BY <2>1, <2>3, NextStepIs DEF Finished
  <2> QED BY <2>2, <2>3
<1>7. ASSUME NEW c \in Connections, Unconnect(c) PROVE Enabled'
  <2>1. /\ UNCHANGED <<is_enabled, prog>> /\ (mpc' = "crashed" \/ NextStep)
        /\ mpc \in {"unconnect_preview", "unconnect_encoder"}
    BY <1>7 DEF Unconnect, started
  <2>2. CASE prog = "vid"
    BY <2>1, <2>2, NextStepIs DEF Finished
  <2>3. CASE prog = "still"
    BY <2>1, <2>3, NextStepIs DEF Finished
  <2> QED BY <2>2, <2>3
<1>8. ASSUME NEW c \in Components, FreeComponent(c) PROVE Enabled'
  <2>1. /\ UNCHANGED <<is_enabled, prog>> /\ NextStep
        /\ mpc \in {"free_encoder", "free_preview", "free_camera"}
        /\ mpc = "free_camera" /\ prog = "still" => ~is_enabled
    BY <1>8 DEF FreeComponent, PortDrained, started, Components
  <2>2. CASE prog = "vid"
    BY <2>1, <2>2, NextStepIs DEF Finished
  <2>3. CASE prog = "still"
    BY <2>1, <2>3, NextStepIs DEF Finished
  <2> QED BY <2>2, <2>3
<1>9. CASE Firmware \/ Callback
  <2>1. UNCHANGED <<mpc, prog, is_enabled>>
    BY <1>9 DEF Firmware, Callback, ReturnData, ReturnEmpty, Return, Write, Release, GetBuffer,
       Send, PostComplete, started
  <2> QED BY <2>1
<1> QED
  BY <1>1, <1>2, <1>3, <1>4, <1>5, <1>6, <1>7, <1>8, <1>9 DEF AppsNext, Main

\* No buffer is counted twice, and those main() is to send are there.
LEMMA AccountStep ==
  ASSUME MainTypes, Life, Enabled, Account, [AppsNext]_appsvars
  PROVE  Account'
<1> USE AppsAssumption DEF MainTypes, Life, MainLabels, Programs, Account, Unused, Early, Hands,
   Nat0
<1>1. CASE UNCHANGED appsvars
  BY <1>1 DEF appsvars, started, buffers, callbackvars
<1>2. CASE ParseOption \/ Parsed
  BY <1>2, ParseIs DEF buffers, callbackvars
<1>3. CASE CreateCamera \/ CreatePreview \/ CreateEncoder
  BY <1>3 DEF CreateCamera, CreatePreview, CreateEncoder, CreateComponent, PoolMade, started,
     callbackvars
<1>4. CASE ConnectPreview \/ ConnectEncoder \/ OpenFile
  BY <1>4 DEF ConnectPreview, ConnectEncoder, ConnectPorts, AfterPreview, OpenFile, started,
     buffers, callbackvars
<1>5. CASE EnablePort
  BY <1>5 DEF EnablePort, started, buffers, callbackvars
<1>6. CASE Demo \/ DemoEnds \/ Capture \/ Wait \/ Sleep \/ AwaitComplete \/ DeleteSemaphore
           \/ DisablePort \/ Sigint
  <2>1. /\ UNCHANGED <<pool, at_port, lost, tosend, cpc, prog>>
        /\ \/ mpc' = mpc
           \/ mpc' \in {"error", "killed"}
           \/ mpc = "capture" /\ prog = "vid" /\ mpc' = "length"
           \/ prog = "still" /\ mpc' \in {"capture", "await", "delete"}
    <3>1. CASE Demo \/ DemoEnds \/ Wait \/ AwaitComplete \/ DeleteSemaphore \/ DisablePort \/ Sigint
      BY <3>1 DEF Demo, DemoEnds, Wait, AwaitComplete, DeleteSemaphore, DisablePort, Sigint,
         started, buffers, callbackvars, Finished
    <3>2. CASE Capture
      BY <3>2 DEF Capture, started, buffers, callbackvars
    <3>3. CASE Sleep
      BY <3>3 DEF Sleep, started, buffers, callbackvars
    <3> QED BY <1>6, <3>1, <3>2, <3>3
  <2> QED BY <2>1
<1>7. CASE QueueLength
  BY <1>7 DEF QueueLength, BuffersToSend, started, buffers, callbackvars
<1>8. CASE SendFirst
  BY <1>8 DEF SendFirst, started, buffers, callbackvars
<1>9. CASE PortDisabled \/ Pass \/ DisableComponents \/ CloseFile
  <2>1. /\ UNCHANGED <<pool, at_port, lost, tosend, cpc, prog>> /\ NextStep
        /\ mpc \in {"disable_port", "error", "disable_video", "close", "disable"}
        /\ mpc = "disable_port" => at_port = 0 /\ cpc = "idle"
    BY <1>9 DEF PortDisabled, PortDrained, Pass, CloseFile, DisableComponents, started, buffers,
       callbackvars
  <2>2. CASE prog = "vid"
    BY <2>1, <2>2, NextStepIs DEF Finished
  <2>3. CASE prog = "still"
    BY <2>1, <2>3, NextStepIs DEF Finished
  <2> QED BY <2>2, <2>3
<1>10. ASSUME NEW c \in Connections, Unconnect(c) PROVE Account'
  <2>1. /\ UNCHANGED <<pool, at_port, lost, tosend, cpc, prog>>
        /\ mpc' = "crashed" \/ NextStep
        /\ mpc \in {"unconnect_preview", "unconnect_encoder"}
    BY <1>10 DEF Unconnect, started, buffers, callbackvars
  <2>2. CASE prog = "vid"
    BY <2>1, <2>2, NextStepIs DEF Finished
  <2>3. CASE prog = "still"
    BY <2>1, <2>3, NextStepIs DEF Finished
  <2> QED BY <2>2, <2>3
<1>11. ASSUME NEW c \in Components, FreeComponent(c) PROVE Account'
  <2>1. /\ UNCHANGED <<at_port, lost, tosend, cpc, prog>> /\ pool' \in {pool, -1} /\ NextStep
        /\ mpc \in {"free_encoder", "free_preview", "free_camera"}
    BY <1>11 DEF FreeComponent, started, callbackvars
  <2>2. CASE prog = "vid"
    BY <2>1, <2>2, NextStepIs DEF Finished
  <2>3. CASE prog = "still"
    <3>1. mpc' \in {"free_camera", "done"}
      BY <2>1, <2>3, NextStepIs DEF Finished
    <3>2. ~Unused'
      BY <2>1, <2>3, <3>1
    <3>3. pool' \in Nat \cup {-1} /\ at_port' \in Nat /\ lost' \in Nat /\ tosend' \in Nat
      BY <2>1
    <3>4. Hands' = Hands
      BY <2>1
    <3>5. (Nat0(pool) + at_port + lost + Hands <= buffer_num)'
      <4>1. CASE pool' = pool
        BY <2>1, <3>4, <4>1
      <4>2. CASE pool' = -1
        BY <2>1, <3>4, <4>2
      <4> QED BY <2>1, <4>1, <4>2
    <3>6. prog' = "still" /\ mpc' \notin Early \cup {"send"}
      BY <2>1, <2>3, <3>1
    <3> QED BY <3>2, <3>3, <3>5, <3>6
  <2> QED BY <2>2, <2>3
<1>12. CASE ReturnData \/ ReturnEmpty
  <2>1. /\ at_port > 0 /\ cpc = "idle" /\ at_port' = at_port - 1 /\ cpc' = "write"
        /\ UNCHANGED <<pool, lost, tosend, prog, mpc>>
    BY <1>12 DEF ReturnData, ReturnEmpty, Return, started
  <2> QED BY <2>1
<1>13. CASE Write \/ PostComplete
  BY <1>13 DEF Write, PostComplete, started, buffers
<1>14. CASE Release
  BY <1>14 DEF Release, started
<1>15. CASE GetBuffer
  BY <1>15 DEF GetBuffer, started
<1>16. CASE Send
  BY <1>16 DEF Send, started
<1> QED
  BY <1>1, <1>2, <1>3, <1>4, <1>5, <1>6, <1>7, <1>8, <1>9, <1>10, <1>11, <1>12, <1>13, <1>14,
     <1>15, <1>16 DEF AppsNext, Main, Firmware, Callback

\* What the callback of RaspiVid uses outlives it.
LEMMA LiveStep ==
  ASSUME MainTypes, Life, File, Account, Live, [AppsNext]_appsvars
  PROVE  Live'
<1> SUFFICES ASSUME prog = "vid", prog' = prog PROVE Live'
  <2>1. prog' = prog
    <3>1. CASE ParseOption \/ Parsed
      BY <3>1, ParseIs
    <3>2. CASE ~(ParseOption \/ Parsed)
      BY <3>2 DEF AppsNext, Main, Firmware, Callback, ReturnData, ReturnEmpty, Return, Write,
         Release, GetBuffer, Send, PostComplete, CreateCamera, CreatePreview, CreateEncoder,
         CreateComponent, ConnectPreview, ConnectEncoder, OpenFile, EnablePort, Demo, DemoEnds,
         QueueLength, SendFirst, Capture, Wait, Sleep, AwaitComplete, DeleteSemaphore,
         DisablePort, PortDisabled, Pass, CloseFile, DisableComponents, Unconnect, FreeComponent,
         Sigint, started, appsvars
    <3> QED BY <3>1, <3>2
  <2> QED BY <2>1 DEF Live
<1> USE DEF MainTypes, Life, MainLabels, File, Account, Unused, Early, Live
<1>1. CASE UNCHANGED appsvars
  BY <1>1 DEF appsvars, setup, buffers, callbackvars
<1>2. CASE ParseOption \/ Parsed
  BY <1>2, ParseIs DEF setup, buffers, callbackvars
<1>3. CASE CreateCamera \/ CreatePreview \/ CreateEncoder
  BY <1>3 DEF CreateCamera, CreatePreview, CreateEncoder, CreateComponent, callbackvars
<1>4. CASE ConnectPreview \/ ConnectEncoder \/ OpenFile
  BY <1>4 DEF ConnectPreview, ConnectEncoder, ConnectPorts, AfterPreview, OpenFile, buffers,
     callbackvars
<1>5. CASE EnablePort
  <2>1. UNCHANGED <<file, pool, at_port, cpc>> /\ mpc = "enable"
    BY <1>5 DEF EnablePort, setup, buffers, callbackvars
  <2>2. mpc' = "capture" => file # "none"
    BY <1>5 DEF EnablePort
  <2>3. mpc' \in {"demo", "capture", "sleep", "error", "length"} /\ mpc' # "length"
    BY <1>5 DEF EnablePort
  <2> QED BY <2>1, <2>2, <2>3
<1>6. CASE Demo \/ DemoEnds \/ Capture \/ Wait \/ Sleep \/ AwaitComplete \/ DeleteSemaphore
           \/ DisablePort \/ Sigint
  BY <1>6 DEF Demo, DemoEnds, Capture, Wait, Sleep, AwaitComplete, DeleteSemaphore, DisablePort,
     Sigint, setup, buffers, callbackvars
<1>7. CASE QueueLength
  BY <1>7 DEF QueueLength, BuffersToSend, setup, buffers, callbackvars
<1>8. CASE SendFirst
  BY <1>8 DEF SendFirst, setup, buffers, callbackvars
<1>9. CASE PortDisabled \/ Pass \/ DisableComponents \/ CloseFile
  <2>1. /\ UNCHANGED <<pool, at_port, cpc>> /\ NextStep
        /\ mpc \in {"disable_port", "error", "disable_video", "close", "disable"}
        /\ mpc = "close" \/ file' = file
    BY <1>9 DEF PortDisabled, Pass, CloseFile, DisableComponents, setup, buffers, callbackvars
  <2> QED BY <2>1, NextStepIs DEF Programs, Finished
<1>10. ASSUME NEW c \in Connections, Unconnect(c) PROVE Live'
  <2>1. /\ UNCHANGED <<pool, at_port, cpc, file>>
        /\ mpc' = "crashed" \/ NextStep
        /\ mpc \in {"unconnect_preview", "unconnect_encoder"}
    BY <1>10 DEF Unconnect, buffers, callbackvars
  <2> QED BY <2>1, NextStepIs DEF Programs, Finished
<1>11. ASSUME NEW c \in Components, FreeComponent(c) PROVE Live'
  <2>1. /\ UNCHANGED <<at_port, cpc>> /\ NextStep
        /\ mpc \in {"free_encoder", "free_preview", "free_camera"}
    BY <1>11 DEF FreeComponent, callbackvars
  <2> QED BY <2>1, NextStepIs DEF Programs, Finished
<1>12. CASE ReturnData \/ ReturnEmpty
  BY <1>12 DEF ReturnData, ReturnEmpty, Return, setup
<1>13. CASE Write \/ PostComplete
  BY <1>13 DEF Write, PostComplete, setup, buffers
<1>14. CASE Release
  BY <1>14 DEF Release, setup
<1>15. CASE GetBuffer
  BY <1>15 DEF GetBuffer, setup
<1>16. CASE Send
  BY <1>16 DEF Send, setup
<1> QED
  BY <1>1, <1>2, <1>3, <1>4, <1>5, <1>6, <1>7, <1>8, <1>9, <1>10, <1>11, <1>12, <1>13, <1>14,
     <1>15, <1>16 DEF AppsNext, Main, Firmware, Callback

\* RaspiStillYUV's semaphore is posted at most once for a buffer with data.
LEMMA PostsStep ==
  ASSUME MainTypes, Account, Posts, [AppsNext]_appsvars
  PROVE  Posts'
<1> USE AppsAssumption DEF MainTypes, Posts
<1>1. CASE UNCHANGED appsvars
  BY <1>1 DEF appsvars, callbackvars
<1>2. CASE ParseOption \/ Parsed
  BY <1>2, ParseIs DEF callbackvars
<1>3. CASE CreateCamera \/ CreatePreview \/ CreateEncoder \/ ConnectPreview \/ ConnectEncoder
           \/ EnablePort
  BY <1>3 DEF CreateCamera, CreatePreview, CreateEncoder, CreateComponent, ConnectPreview,
     ConnectEncoder, EnablePort, callbackvars
<1>4. CASE OpenFile
  BY <1>4 DEF OpenFile, Account, Unused, Early, callbackvars
<1>5. CASE Demo \/ DemoEnds \/ QueueLength \/ SendFirst \/ Capture \/ Wait \/ Sleep
           \/ DisablePort \/ Sigint
  BY <1>5 DEF Demo, DemoEnds, QueueLength, SendFirst, Capture, Wait, Sleep, DisablePort, Sigint,
     callbackvars
<1>6. CASE AwaitComplete
  BY <1>6 DEF AwaitComplete, callbackvars
<1>7. CASE DeleteSemaphore
  BY <1>7 DEF DeleteSemaphore, callbackvars
<1>8. CASE PortDisabled \/ Pass \/ CloseFile \/ DisableComponents
  BY <1>8 DEF PortDisabled, Pass, CloseFile, DisableComponents, callbackvars
<1>9. ASSUME NEW c \in Connections, Unconnect(c) PROVE Posts'
  BY <1>9 DEF Unconnect, callbackvars
<1>10. ASSUME NEW c \in Components, FreeComponent(c) PROVE Posts'
  BY <1>10 DEF FreeComponent, callbackvars
<1>11. CASE ReturnData
  BY <1>11 DEF ReturnData, Return
<1>12. CASE ReturnEmpty
  BY <1>12 DEF ReturnEmpty, Return
<1>13. CASE Write
  <2>1. /\ cpc = "write" /\ cpc' = "release" /\ UNCHANGED <<cbuf, frames, complete_semaphore>>
        /\ complete' \in BOOLEAN /\ (complete' => cbuf.data \/ cbuf.end)
    BY <1>13 DEF Write, IsComplete
  <2> QED BY <2>1
<1>14. CASE Release \/ GetBuffer \/ Send
  BY <1>14 DEF Release, GetBuffer, Send
<1>15. CASE PostComplete
  BY <1>15 DEF PostComplete, NoData
<1> QED
  BY <1>1, <1>2, <1>3, <1>4, <1>5, <1>6, <1>7, <1>8, <1>9, <1>10, <1>11, <1>12, <1>13, <1>14,
     <1>15 DEF AppsNext, Main, Firmware, Callback

-----------------------------------------------------------------------------
(* The demo. *)

\* A state of the demo in which only the setting that is shown may differ.
IsNeutral(key, value) == IF key = "colourfx" THEN value.enable = 0 ELSE value = Defaults[key]

\* The demo has gone past the setting, or not reached it.
Aside(key, par) == par = 10 \/ key \notin Demoed[par + 1]

Turned(par, opt) == par = 9 /\ opt \notin {parameter_reset, 1, 2, 3} /\ "rotation" \notin refused

Shows(s) ==
  /\ s = [par |-> s.par, opt |-> s.opt, cam |-> s.cam]
  /\ s.par \in 0 .. 10 /\ DOMAIN s.cam = Settings
  /\ \A key \in Settings \ refused : Aside(key, s.par) => IsNeutral(key, s.cam[key])
  /\ Turned(s.par, s.opt) => s.cam["rotation"] = 0

LEMMA DefaultsAre ==
  /\ Settings = {"saturation", "sharpness", "contrast", "brightness", "vstab", "ev", "exposure",
                 "metering", "awb", "imagefx", "colourfx", "rotation", "flips"}
  /\ Defaults["sharpness"] = 0 /\ Defaults["contrast"] = 0 /\ Defaults["brightness"] = 50
  /\ Defaults["saturation"] = 0 /\ Defaults["ev"] = 0 /\ Defaults["exposure"] = AutoMode
  /\ Defaults["awb"] = AutoMode /\ Defaults["imagefx"] = None /\ Defaults["rotation"] = 0
  /\ Defaults["flips"] = [h |-> FALSE, v |-> FALSE] /\ Defaults["colourfx"].enable = 0
  /\ DOMAIN Defaults = Settings
BY DEF Settings, Defaults

\* A setter changes its own setting, or nothing.
LEMMA SetIs ==
  ASSUME NEW cam, DOMAIN cam = Settings, NEW key \in Settings, NEW value
  PROVE  /\ DOMAIN Set(cam, key, value) = Settings
         /\ \A k \in Settings : k # key => Set(cam, key, value)[k] = cam[k]
         /\ InRange(key, value) /\ key \notin refused =>
              Set(cam, key, value)[key] = Sent(key, value)
BY DEF Set

\* What the settings are put back to is in their range, and sent as it is.
LEMMA NeutralValues ==
  /\ \A key \in {"sharpness", "contrast", "saturation", "ev"} : InRange(key, 0) /\ Sent(key, 0) = 0
  /\ InRange("brightness", 50) /\ Sent("brightness", 50) = 50
  /\ \A value : \A key \in {"exposure", "awb", "imagefx", "colourfx", "flips", "rotation"} :
       InRange(key, value)
  /\ \A value : \A key \in {"exposure", "awb", "imagefx", "colourfx", "flips"} :
       Sent(key, value) = value
  /\ Sent("rotation", 0) = 0
BY DEF InRange, Range4, Sent, QuarterTurn, Quo, Rem

LEMMA DemoedIs ==
  /\ Demoed[1] = {"sharpness"} /\ Demoed[2] = {"contrast"} /\ Demoed[3] = {"brightness"}
  /\ Demoed[4] = {"saturation"} /\ Demoed[5] = {"ev"} /\ Demoed[6] = {"exposure"}
  /\ Demoed[7] = {"awb"} /\ Demoed[8] = {"imagefx"} /\ Demoed[9] = {"colourfx"}
  /\ Demoed[10] = {"rotation", "flips"}
BY DEF Demoed

\* One set of a setting, on the way to the state p, o of the demo.
LEMMA ShowsSet ==
  ASSUME NEW cam, DOMAIN cam = Settings, NEW key \in Settings, NEW value, NEW p \in 0 .. 10, NEW o,
         InRange(key, value),
         \A k \in Settings \ refused : k # key /\ Aside(k, p) => IsNeutral(k, cam[k]),
         Aside(key, p) => IsNeutral(key, Sent(key, value)),
         Turned(p, o) => IF key = "rotation" THEN Sent(key, value) = 0 ELSE cam["rotation"] = 0
  PROVE  Shows([par |-> p, opt |-> o, cam |-> Set(cam, key, value)])
<1> DEFINE r == [par |-> p, opt |-> o, cam |-> Set(cam, key, value)]
<1> SUFFICES Shows(r)
  OBVIOUS
<1>1. r = [par |-> r.par, opt |-> r.opt, cam |-> r.cam] /\ r.par = p /\ r.opt = o
      /\ r.cam = Set(cam, key, value)
  OBVIOUS
<1> HIDE DEF r
<1>2. DOMAIN r.cam = Settings /\ \A k \in Settings : k # key => r.cam[k] = cam[k]
  BY <1>1, SetIs
<1>3. key \notin refused => r.cam[key] = Sent(key, value)
  BY <1>1, SetIs
<1>4. \A k \in Settings \ refused : Aside(k, p) => IsNeutral(k, r.cam[k])
  BY <1>2, <1>3
<1>5. Turned(p, o) => r.cam["rotation"] = 0
  BY <1>2, <1>3, DefaultsAre DEF Turned
<1> QED BY <1>1, <1>2, <1>4, <1>5 DEF Shows

\* A set that is refused for its value changes nothing.
LEMMA ShowsNoSet ==
  ASSUME NEW s, Shows(s), s.par # 9, NEW key, NEW value, ~InRange(key, value), NEW o
  PROVE  Shows([par |-> s.par, opt |-> o, cam |-> Set(s.cam, key, value)])
<1>1. Set(s.cam, key, value) = s.cam
  BY DEF Set
<1> QED BY <1>1 DEF Shows, Turned

\* A cycle shows its setting, and puts it back before the next begins.
LEMMA CycledShows ==
  ASSUME NEW s, Shows(s), s.par \in 0 .. 7,
         NEW key \in Settings, key \notin {"colourfx", "rotation"}, Demoed[s.par + 1] = {key},
         NEW neutral, neutral = Defaults[key], InRange(key, neutral), Sent(key, neutral) = neutral,
         NEW min, NEW max, NEW inc, NEW size
  PROVE  Shows(Cycled(s, key, min, max, inc, size, neutral))
<1> DEFINE o == NextOption(s.opt, min, max, inc)
           r == Cycled(s, key, min, max, inc, size, neutral)
           value == Entry(size, o)
<1> SUFFICES Shows(r)
  OBVIOUS
<1>1. /\ DOMAIN s.cam = Settings /\ s.par + 1 \in 0 .. 10 /\ s.par + 1 # 9
      /\ \A k \in Settings \ refused : k # key => IsNeutral(k, s.cam[k])
  BY DEF Shows, Aside
<1>2. CASE o = parameter_reset
  <2>1. r = [par |-> s.par + 1, opt |-> parameter_reset, cam |-> Set(s.cam, key, neutral)]
    BY <1>2 DEF Cycled, Ended
  <2> HIDE DEF r, o
  <2>2. IsNeutral(key, Sent(key, neutral)) /\ ~Turned(s.par + 1, parameter_reset)
    BY <1>1 DEF IsNeutral, Turned
  <2> QED BY <1>1, <2>1, <2>2, ShowsSet
<1>3. CASE o # parameter_reset
  <2>1. r = [par |-> s.par, opt |-> o, cam |-> Set(s.cam, key, value)]
    BY <1>3 DEF Cycled
  <2>2. ~Aside(key, s.par) /\ ~Turned(s.par, o) /\ s.par \in 0 .. 10
    BY DEF Aside, Turned
  <2> HIDE DEF r, o, value
  <2>3. CASE InRange(key, value)
    BY <1>1, <2>1, <2>2, <2>3, ShowsSet
  <2>4. CASE ~InRange(key, value)
    <3>1. s.par # 9
      OBVIOUS
    <3> QED BY <2>1, <2>4, <3>1, ShowsNoSet
  <2> QED BY <2>3, <2>4
<1> QED BY <1>2, <1>3

LEMMA NumbersShow ==
  ASSUME NEW s, Shows(s)
  PROVE  Shows(CycleNumbers(s))
<1> USE DefaultsAre, NeutralValues, DemoedIs
<1>1. CASE s.par = 0
  BY <1>1, CycledShows DEF CycleNumbers
<1>2. CASE s.par = 1
  BY <1>2, CycledShows DEF CycleNumbers
<1>3. CASE s.par = 2
  BY <1>3, CycledShows DEF CycleNumbers
<1>4. CASE s.par = 3
  BY <1>4, CycledShows DEF CycleNumbers
<1>5. CASE s.par = 4
  BY <1>5, CycledShows DEF CycleNumbers
<1>6. CASE s.par = 5
  BY <1>6, CycledShows DEF CycleNumbers
<1>7. CASE s.par = 6
  BY <1>7, CycledShows DEF CycleNumbers
<1>8. CASE s.par \notin 0 .. 6
  BY <1>8 DEF CycleNumbers
<1> QED BY <1>1, <1>2, <1>3, <1>4, <1>5, <1>6, <1>7, <1>8

LEMMA ImageFxShows ==
  ASSUME NEW s, Shows(s)
  PROVE  Shows(CycleImageFx(s))
<1>1. CASE s.par = 7
  BY <1>1, CycledShows, DefaultsAre, NeutralValues, DemoedIs DEF CycleImageFx
<1> QED BY <1>1 DEF CycleImageFx

LEMMA RecordSet ==
  ASSUME NEW s, s = [par |-> s.par, opt |-> s.opt, cam |-> s.cam], NEW o, NEW c
  PROVE  [s EXCEPT !.opt = o, !.cam = c] = [par |-> s.par, opt |-> o, cam |-> c]
<1> DEFINE u == [s EXCEPT !.opt = o, !.cam = c]
           r == [par |-> s.par, opt |-> o, cam |-> c]
<1>1. DOMAIN s = {"par", "opt", "cam"} /\ DOMAIN r = {"par", "opt", "cam"}
  OBVIOUS
<1>2. DOMAIN u = DOMAIN r
  BY <1>1
<1>3. u.par = r.par /\ u.opt = r.opt /\ u.cam = r.cam
  BY <1>1
<1>4. u = [x \in DOMAIN u |-> u[x]] /\ r = [x \in DOMAIN r |-> r[x]]
  OBVIOUS
<1> SUFFICES u = r
  OBVIOUS
<1> HIDE DEF u, r
<1>5. [x \in DOMAIN r |-> u[x]] = [x \in DOMAIN r |-> r[x]]
  <2>1. \A x \in DOMAIN r : u[x] = r[x]
    BY <1>1, <1>3
  <2> QED BY <2>1
<1> QED BY <1>2, <1>4, <1>5

LEMMA ColourShows ==
  ASSUME NEW s, Shows(s)
  PROVE  Shows(CycleColour(s))
<1> DEFINE fx(u, v) == [enable |-> 0, u |-> u, v |-> v]
           r == CycleColour(s)
<1> SUFFICES ASSUME s.par = 8 PROVE Shows(r)
  BY DEF CycleColour
<1>1. /\ s = [par |-> 8, opt |-> s.opt, cam |-> s.cam] /\ DOMAIN s.cam = Settings
      /\ \A k \in Settings \ refused : k # "colourfx" => IsNeutral(k, s.cam[k])
  BY DemoedIs DEF Shows, Aside
<1>2. ASSUME NEW u, NEW v PROVE IsNeutral("colourfx", Sent("colourfx", fx(u, v)))
  BY NeutralValues DEF IsNeutral
<1>3. ASSUME NEW u, NEW v, NEW o
      PROVE  Shows([par |-> 8, opt |-> o, cam |-> Set(s.cam, "colourfx", fx(u, v))])
  <2>1. ~Turned(8, o)
    BY DEF Turned
  <2>2. "colourfx" \in Settings /\ InRange("colourfx", fx(u, v)) /\ 8 \in 0 .. 10
    BY DefaultsAre, NeutralValues
  <2>3. \A k \in Settings \ refused : k # "colourfx" /\ Aside(k, 8) => IsNeutral(k, s.cam[k])
    BY <1>1
  <2>4. IsNeutral("colourfx", Sent("colourfx", fx(u, v)))
    BY <1>2
  <2> HIDE DEF fx
  <2> QED BY <1>1, <2>1, <2>2, <2>3, <2>4, ShowsSet
<1>4. ASSUME NEW u, NEW v
      PROVE  Shows([par |-> 9, opt |-> parameter_reset, cam |-> Set(s.cam, "colourfx", fx(u, v))])
  <2>1. ~Turned(9, parameter_reset)
    BY DEF Turned
  <2>2. "colourfx" \in Settings /\ InRange("colourfx", fx(u, v)) /\ 9 \in 0 .. 10
    BY DefaultsAre, NeutralValues
  <2>3. \A k \in Settings \ refused : k # "colourfx" /\ Aside(k, 9) => IsNeutral(k, s.cam[k])
    BY <1>1
  <2>4. IsNeutral("colourfx", Sent("colourfx", fx(u, v)))
    BY <1>2
  <2> HIDE DEF fx
  <2> QED BY <1>1, <2>1, <2>2, <2>3, <2>4, ShowsSet
<1>5. CASE s.opt = parameter_reset
  <2>1. r = [par |-> 8, opt |-> 1, cam |-> Set(s.cam, "colourfx", fx(128, 128))]
    <3>1. r = [s EXCEPT !.opt = 1, !.cam = Set(s.cam, "colourfx", fx(128, 128))]
      BY <1>5 DEF CycleColour
    <3> HIDE DEF r, fx
    <3> QED BY <1>1, <3>1, RecordSet
  <2> HIDE DEF r, fx
  <2> QED BY <2>1, <1>3
<1>6. CASE s.opt # parameter_reset /\ s.opt = 1
  <2>1. r = [par |-> 8, opt |-> 2, cam |-> Set(s.cam, "colourfx", fx(100, 200))]
    <3>1. r = [s EXCEPT !.opt = 2, !.cam = Set(s.cam, "colourfx", fx(100, 200))]
      BY <1>6 DEF CycleColour
    <3> HIDE DEF r, fx
    <3> QED BY <1>1, <3>1, RecordSet
  <2> HIDE DEF r, fx
  <2> QED BY <2>1, <1>3
<1>7. CASE s.opt # parameter_reset /\ s.opt # 1
  <2>1. r = [par |-> 9, opt |-> parameter_reset, cam |-> Set(s.cam, "colourfx", fx(0, 0))]
    BY <1>7 DEF CycleColour
  <2> HIDE DEF r, fx
  <2> QED BY <2>1, <1>4
<1> QED BY <1>5, <1>6, <1>7

\* The turns come first and the flips after them: each is put back by its own last step.
LEMMA OrientationShows ==
  ASSUME NEW s, Shows(s)
  PROVE  Shows(CycleOrientation(s))
<1> DEFINE r == CycleOrientation(s)
           turn(angle) == Set(s.cam, "rotation", angle)
           flips(i) == [h |-> Flips[i][1], v |-> Flips[i][2]]
<1> SUFFICES ASSUME s.par = 9 PROVE Shows(r)
  BY DEF CycleOrientation
<1>1. /\ s = [par |-> 9, opt |-> s.opt, cam |-> s.cam] /\ DOMAIN s.cam = Settings
      /\ \A k \in Settings \ refused : k \notin {"rotation", "flips"} => IsNeutral(k, s.cam[k])
      /\ Turned(9, s.opt) => s.cam["rotation"] = 0
  BY DemoedIs DEF Shows, Aside
<1>2. ~Aside("rotation", 9) /\ ~Aside("flips", 9) /\ {"rotation", "flips"} \subseteq Settings
  BY DemoedIs, DefaultsAre DEF Aside
<1>3. \A value : InRange("rotation", value) /\ InRange("flips", value)
  BY NeutralValues
<1>4. ASSUME NEW angle, NEW o, ~Turned(9, o)
      PROVE  Shows([par |-> 9, opt |-> o, cam |-> turn(angle)])
  BY <1>1, <1>2, <1>3, <1>4, ShowsSet
<1>5. ASSUME NEW cam, DOMAIN cam = Settings, NEW value, NEW o,
             \A k \in Settings \ refused : k \notin {"rotation", "flips"} => IsNeutral(k, cam[k]),
             "rotation" \notin refused => cam["rotation"] = 0
      PROVE  Shows([par |-> 9, opt |-> o, cam |-> Set(cam, "flips", value)])
  <2>1. Turned(9, o) => cam["rotation"] = 0
    BY <1>5 DEF Turned
  <2> QED BY <1>2, <1>3, <1>5, <2>1, ShowsSet
<1>6. CASE s.opt = parameter_reset
  <2>1. r = [par |-> 9, opt |-> 1, cam |-> turn(90)]
    <3>1. r = [s EXCEPT !.opt = 1, !.cam = turn(90)]
      BY <1>6 DEF CycleOrientation
    <3> HIDE DEF r, turn
    <3> QED BY <1>1, <3>1, RecordSet
  <2>2. ~Turned(9, 1)
    BY DEF Turned
  <2> HIDE DEF r, turn
  <2> QED BY <1>4, <2>1, <2>2
<1>7. CASE s.opt \in {1, 2}
  <2>1. r = [par |-> 9, opt |-> s.opt + 1, cam |-> turn(90 * (s.opt + 1))]
    <3>1. r = [s EXCEPT !.opt = s.opt + 1, !.cam = turn(90 * (s.opt + 1))]
      BY <1>7 DEF CycleOrientation, parameter_reset
    <3> HIDE DEF r, turn
    <3> QED BY <1>1, <3>1, RecordSet
  <2>2. ~Turned(9, s.opt + 1)
    BY <1>7 DEF Turned
  <2> HIDE DEF r, turn
  <2> QED BY <1>4, <2>1, <2>2
<1>8. CASE s.opt = 3
  <2>1. r = [par |-> 9, opt |-> 4, cam |-> Set(turn(0), "flips", flips(1))]
    <3>1. r = [s EXCEPT !.opt = 4, !.cam = Set(turn(0), "flips", flips(1))]
      BY <1>8 DEF CycleOrientation, parameter_reset
    <3> HIDE DEF r, turn, flips
    <3> QED BY <1>1, <3>1, RecordSet
  <2>2. DOMAIN turn(0) = Settings
    BY <1>1, <1>2, SetIs
  <2>3. \A k \in Settings : k # "rotation" => turn(0)[k] = s.cam[k]
    BY <1>1, <1>2, SetIs
  <2>4. "rotation" \notin refused => turn(0)["rotation"] = 0
    BY <1>1, <1>2, <1>3, SetIs, NeutralValues
  <2> HIDE DEF turn, flips, r
  <2> QED BY <1>1, <1>5, <2>1, <2>2, <2>3, <2>4
<1>9. CASE s.opt \in {4, 5}
  <2>1. r = [par |-> 9, opt |-> s.opt + 1, cam |-> Set(s.cam, "flips", flips(s.opt - 2))]
    <3>1. r = [s EXCEPT !.opt = s.opt + 1, !.cam = Set(s.cam, "flips", flips(s.opt - 2))]
      BY <1>9 DEF CycleOrientation, parameter_reset
    <3> HIDE DEF r, flips
    <3> QED BY <1>1, <3>1, RecordSet
  <2>2. "rotation" \notin refused => s.cam["rotation"] = 0
    BY <1>1, <1>9 DEF Turned, parameter_reset
  <2> HIDE DEF flips, r
  <2> QED BY <1>1, <1>5, <2>1, <2>2
<1>10. CASE s.opt \notin {parameter_reset, 1, 2, 3, 4, 5}
  <2>1. r = [par |-> 10, opt |-> parameter_reset, cam |-> Set(s.cam, "flips", flips(4))]
    BY <1>10 DEF CycleOrientation
  <2>2. "rotation" \notin refused => s.cam["rotation"] = 0
    BY <1>1, <1>10 DEF Turned
  <2>3. flips(4) = [h |-> FALSE, v |-> FALSE]
    BY DEF Flips
  <2>4. IsNeutral("flips", Sent("flips", flips(4))) /\ ~Turned(10, parameter_reset)
    BY <2>3, NeutralValues, DefaultsAre DEF IsNeutral, Turned
  <2>5. \A k \in Settings \ refused : k # "flips" => IsNeutral(k, s.cam[k])
    BY <1>1, <2>2, DefaultsAre DEF IsNeutral
  <2> HIDE DEF flips, r
  <2> QED BY <1>1, <1>2, <1>3, <2>1, <2>4, <2>5, ShowsSet
<1> QED BY <1>6, <1>7, <1>8, <1>9, <1>10

\* What Camera says of the demo, while it runs.
Demonstrated ==
  /\ CamTypeOK /\ OneSettingAtATime
  /\ parameter = 9 /\ parameter_option \notin {parameter_reset, 1, 2, 3}
     /\ "rotation" \notin refused => camera.rotation = 0

LEMMA CycleShows ==
  ASSUME Demonstrated, CycleTest
  PROVE  Demonstrated'
<1> DEFINE s == [par |-> parameter, opt |-> parameter_option, cam |-> camera]
           t == CycleNumbers(s)
           u == CycleImageFx(t)
           v == CycleColour(u)
           r == CycleOrientation(v)
<1>1. Shows(s)
  BY DEF Shows, Aside, IsNeutral, Turned, Demonstrated, CamTypeOK, OneSettingAtATime, Neutral
<1>2. /\ camera' = r.cam /\ parameter' = Wrapped(r.par)
      /\ parameter_option' = r.opt /\ refused' = refused
  BY DEF CycleTest
<1> HIDE DEF s, t, u, v, r
<1>3. Shows(r)
  <2>1. Shows(t)
    BY <1>1, NumbersShow DEF t
  <2>2. Shows(u)
    BY <2>1, ImageFxShows DEF u
  <2>3. Shows(v)
    BY <2>2, ColourShows DEF v
  <2> QED BY <2>3, OrientationShows DEF r
<1>4. DOMAIN camera' = Settings /\ parameter' \in 0 .. 9 /\ refused' \subseteq Settings
  BY <1>2, <1>3 DEF Shows, Wrapped, Demonstrated, CamTypeOK
<1>5. \A key \in Settings \ refused :
        (r.par = 10 \/ key \notin Demoed[r.par + 1]) =>
          IF key = "colourfx" THEN camera'[key].enable = 0 ELSE camera'[key] = Defaults[key]
  BY <1>2, <1>3 DEF Shows, Aside, IsNeutral
<1>6. \A key \in Settings \ refused : key \notin Demoed[parameter' + 1] =>
          IF key = "colourfx" THEN camera'[key].enable = 0 ELSE camera'[key] = Defaults[key]
  BY <1>2, <1>5, <1>3 DEF Wrapped, Shows
<1>7. OneSettingAtATime'
  BY <1>2, <1>6 DEF OneSettingAtATime, Neutral
<1>8. parameter' = 9 /\ parameter_option' \notin {parameter_reset, 1, 2, 3}
        /\ "rotation" \notin refused => camera'["rotation"] = 0
  BY <1>2, <1>3 DEF Wrapped, Shows, Turned
<1> QED BY <1>2, <1>4, <1>7, <1>8 DEF Demonstrated, CamTypeOK

\* The demo keeps to the settings of the camera, whatever the user has set.
Keeps(s) ==
  s = [par |-> s.par, opt |-> s.opt, cam |-> s.cam] /\ s.par \in 0 .. 10 /\ DOMAIN s.cam = Settings

LEMMA CycledKeeps ==
  ASSUME NEW s, Keeps(s), s.par \in 0 .. 9, NEW key \in Settings, NEW neutral,
         NEW min, NEW max, NEW inc, NEW size
  PROVE  Keeps(Cycled(s, key, min, max, inc, size, neutral))
BY SetIs DEF Keeps, Cycled, Ended

LEMMA NumbersKeep ==
  ASSUME NEW s, Keeps(s)
  PROVE  Keeps(CycleNumbers(s)) /\ Keeps(CycleImageFx(s))
<1> USE DefaultsAre
<1>1. CASE s.par \in 0 .. 3
  BY <1>1, CycledKeeps DEF CycleNumbers, CycleImageFx
<1>2. CASE s.par \in 4 .. 7
  BY <1>2, CycledKeeps DEF CycleNumbers, CycleImageFx
<1>3. CASE s.par \notin 0 .. 7
  BY <1>3 DEF CycleNumbers, CycleImageFx
<1> QED BY <1>1, <1>2, <1>3

LEMMA ColourKeeps ==
  ASSUME NEW s, Keeps(s)
  PROVE  Keeps(CycleColour(s))
<1> DEFINE fx(u, v) == [enable |-> 0, u |-> u, v |-> v]
           set(u, v) == Set(s.cam, "colourfx", fx(u, v))
           r == CycleColour(s)
<1> SUFFICES ASSUME s.par = 8 PROVE Keeps(r)
  BY DEF CycleColour
<1>1. s = [par |-> 8, opt |-> s.opt, cam |-> s.cam] /\ DOMAIN s.cam = Settings
  BY DEF Keeps
<1>2. ASSUME NEW u, NEW v PROVE DOMAIN set(u, v) = Settings
  BY <1>1, SetIs, DefaultsAre
<1>3. CASE s.opt = parameter_reset
  <2>1. r = [par |-> 8, opt |-> 1, cam |-> set(128, 128)]
    <3>1. r = [s EXCEPT !.opt = 1, !.cam = set(128, 128)]
      BY <1>3 DEF CycleColour
    <3> HIDE DEF r, set
    <3> QED BY <1>1, <3>1, RecordSet
  <2> HIDE DEF r, set
  <2> QED BY <2>1, <1>2 DEF Keeps
<1>4. CASE s.opt # parameter_reset /\ s.opt = 1
  <2>1. r = [par |-> 8, opt |-> 2, cam |-> set(100, 200)]
    <3>1. r = [s EXCEPT !.opt = 2, !.cam = set(100, 200)]
      BY <1>4 DEF CycleColour
    <3> HIDE DEF r, set
    <3> QED BY <1>1, <3>1, RecordSet
  <2> HIDE DEF r, set
  <2> QED BY <2>1, <1>2 DEF Keeps
<1>5. CASE s.opt # parameter_reset /\ s.opt # 1
  <2>1. r = [par |-> 9, opt |-> parameter_reset, cam |-> set(0, 0)]
    BY <1>5 DEF CycleColour
  <2> HIDE DEF r, set
  <2> QED BY <2>1, <1>2 DEF Keeps
<1> QED BY <1>3, <1>4, <1>5

LEMMA OrientationKeeps ==
  ASSUME NEW s, Keeps(s)
  PROVE  Keeps(CycleOrientation(s))
<1> DEFINE turn(angle) == Set(s.cam, "rotation", angle)
           mirror(cam, i) == Set(cam, "flips", [h |-> Flips[i][1], v |-> Flips[i][2]])
           r == CycleOrientation(s)
<1> SUFFICES ASSUME s.par = 9 PROVE Keeps(r)
  BY DEF CycleOrientation
<1>1. s = [par |-> 9, opt |-> s.opt, cam |-> s.cam] /\ DOMAIN s.cam = Settings
  BY DEF Keeps
<1>2. ASSUME NEW angle PROVE DOMAIN turn(angle) = Settings
  BY <1>1, SetIs, DefaultsAre
<1>3. ASSUME NEW cam, DOMAIN cam = Settings, NEW i PROVE DOMAIN mirror(cam, i) = Settings
  BY <1>3, SetIs, DefaultsAre
<1>4. CASE s.opt = parameter_reset
  <2>1. r = [par |-> 9, opt |-> 1, cam |-> turn(90)]
    <3>1. r = [s EXCEPT !.opt = 1, !.cam = turn(90)]
      BY <1>4 DEF CycleOrientation
    <3> HIDE DEF r, turn, mirror
    <3> QED BY <1>1, <3>1, RecordSet
  <2> HIDE DEF r, turn, mirror
  <2> QED BY <2>1, <1>2 DEF Keeps
<1>5. CASE s.opt \in {1, 2}
  <2>1. r = [par |-> 9, opt |-> s.opt + 1, cam |-> turn(90 * (s.opt + 1))]
    <3>1. r = [s EXCEPT !.opt = s.opt + 1, !.cam = turn(90 * (s.opt + 1))]
      BY <1>5 DEF CycleOrientation, parameter_reset
    <3> HIDE DEF r, turn, mirror
    <3> QED BY <1>1, <3>1, RecordSet
  <2> HIDE DEF r, turn, mirror
  <2> QED BY <2>1, <1>2 DEF Keeps
<1>6. CASE s.opt = 3
  <2>1. r = [par |-> 9, opt |-> 4, cam |-> mirror(turn(0), 1)]
    <3>1. r = [s EXCEPT !.opt = 4, !.cam = mirror(turn(0), 1)]
      BY <1>6 DEF CycleOrientation, parameter_reset
    <3> HIDE DEF r, turn, mirror
    <3> QED BY <1>1, <3>1, RecordSet
  <2> HIDE DEF r, turn, mirror
  <2> QED BY <2>1, <1>2, <1>3 DEF Keeps
<1>7. CASE s.opt \in {4, 5}
  <2>1. r = [par |-> 9, opt |-> s.opt + 1, cam |-> mirror(s.cam, s.opt - 2)]
    <3>1. r = [s EXCEPT !.opt = s.opt + 1, !.cam = mirror(s.cam, s.opt - 2)]
      BY <1>7 DEF CycleOrientation, parameter_reset
    <3> HIDE DEF r, turn, mirror
    <3> QED BY <1>1, <3>1, RecordSet
  <2> HIDE DEF r, turn, mirror
  <2> QED BY <2>1, <1>1, <1>3 DEF Keeps
<1>8. CASE s.opt \notin {parameter_reset, 1, 2, 3, 4, 5}
  <2>1. r = [par |-> 10, opt |-> parameter_reset, cam |-> mirror(s.cam, 4)]
    BY <1>8 DEF CycleOrientation
  <2> HIDE DEF r, turn, mirror
  <2> QED BY <2>1, <1>1, <1>3 DEF Keeps
<1> QED BY <1>4, <1>5, <1>6, <1>7, <1>8

LEMMA CycleKeepsDomain ==
  ASSUME CamTypeOK, CycleTest
  PROVE  CamTypeOK'
<1> DEFINE s == [par |-> parameter, opt |-> parameter_option, cam |-> camera]
           t == CycleNumbers(s)
           u == CycleImageFx(t)
           v == CycleColour(u)
           r == CycleOrientation(v)
<1>1. Keeps(s)
  BY DEF Keeps, CamTypeOK
<1>2. camera' = r.cam /\ parameter' = Wrapped(r.par) /\ refused' = refused
  BY DEF CycleTest
<1> HIDE DEF s, t, u, v, r
<1>3. Keeps(t)
  BY <1>1, NumbersKeep DEF t
<1>4. Keeps(u)
  BY <1>3, NumbersKeep DEF u
<1>5. Keeps(v)
  BY <1>4, ColourKeeps DEF v
<1>6. Keeps(r)
  BY <1>5, OrientationKeeps DEF r
<1> QED BY <1>2, <1>6 DEF CamTypeOK, Keeps, Wrapped

\* raspicamcontrol_set_all_parameters() with the defaults leaves a camera with the defaults.
LEMMA DefaultsStay ==
  /\ DOMAIN SetAll(Defaults, Defaults) = Settings
  /\ \A k \in Settings : SetAll(Defaults, Defaults)[k] = Defaults[k]
<1>1. \A k \in Settings : Sent(k, Defaults[k]) = Defaults[k]
  BY NeutralValues, DefaultsAre DEF Sent
<1>2. ASSUME NEW k \in Settings PROVE Set(Defaults, k, Defaults[k])[k] = Defaults[k]
  BY <1>1, SetIs, DefaultsAre DEF Set
<1> QED BY <1>2 DEF SetAll

\* Only the creation of the camera and the demo set anything.
LEMMA CameraQuiet ==
  ASSUME MainTypes, Life, [AppsNext]_appsvars, ~CreateCamera, ~Demo, ~ParseOption, ~Parsed
  PROVE  /\ UNCHANGED camvars /\ UNCHANGED opts
         /\ mpc' \in Settled => mpc \in Settled
         /\ mpc' \in {"parse", "camera"} => mpc' = mpc
<1> USE DEF MainTypes, Settled
<1>1. CASE UNCHANGED appsvars
  BY <1>1 DEF appsvars
<1>2. CASE CreatePreview \/ CreateEncoder
  BY <1>2 DEF CreatePreview, CreateEncoder, CreateComponent
<1>3. CASE ConnectPreview \/ ConnectEncoder \/ OpenFile \/ EnablePort
  BY <1>3 DEF ConnectPreview, ConnectEncoder, ConnectPorts, AfterPreview, OpenFile, EnablePort
<1>4. CASE DemoEnds \/ QueueLength \/ SendFirst \/ Capture \/ Wait \/ Sleep \/ AwaitComplete
           \/ DeleteSemaphore
           \/ DisablePort \/ Sigint
  BY <1>4 DEF DemoEnds, QueueLength, SendFirst, Capture, Wait, Sleep, AwaitComplete,
     DeleteSemaphore, DisablePort, Sigint
<1>5. CASE PortDisabled \/ Pass \/ CloseFile \/ DisableComponents
  <2>1. UNCHANGED camvars /\ opts' = opts /\ NextStep
        /\ mpc \in {"disable_port", "error", "disable_video", "close", "disable"}
    BY <1>5 DEF PortDisabled, Pass, CloseFile, DisableComponents
  <2>2. CASE prog = "vid"
    BY <2>1, <2>2, NextStepIs DEF Life, MainLabels, Finished
  <2>3. CASE prog = "still"
    BY <2>1, <2>3, NextStepIs DEF Life, MainLabels, Finished
  <2> QED BY <2>1, <2>2, <2>3 DEF Programs
<1>6. ASSUME NEW c \in Connections, Unconnect(c)
      PROVE  UNCHANGED camvars /\ opts' = opts /\ mpc' \notin Settled \cup {"parse", "camera"}
  <2>1. /\ UNCHANGED camvars /\ opts' = opts /\ (mpc' = "crashed" \/ NextStep)
        /\ mpc \in {"unconnect_preview", "unconnect_encoder"}
    BY <1>6 DEF Unconnect
  <2>2. CASE prog = "vid"
    BY <2>1, <2>2, NextStepIs
  <2>3. CASE prog = "still"
    BY <2>1, <2>3, NextStepIs DEF Life, MainLabels, Finished
  <2> QED BY <2>2, <2>3 DEF Programs
<1>7. ASSUME NEW c \in Components, FreeComponent(c)
      PROVE  UNCHANGED camvars /\ opts' = opts /\ mpc' \notin Settled \cup {"parse", "camera"}
  <2>1. /\ UNCHANGED camvars /\ opts' = opts /\ NextStep
        /\ mpc \in {"free_encoder", "free_preview", "free_camera"}
    BY <1>7 DEF FreeComponent
  <2>2. CASE prog = "vid"
    BY <2>1, <2>2, NextStepIs
  <2>3. CASE prog = "still"
    BY <2>1, <2>3, NextStepIs DEF Life, MainLabels, Finished
  <2> QED BY <2>2, <2>3 DEF Programs
<1>8. CASE Firmware \/ Callback
  BY <1>8 DEF Firmware, Callback, ReturnData, ReturnEmpty, Return, Write, Release, GetBuffer,
     Send, PostComplete
<1> QED
  BY <1>1, <1>2, <1>3, <1>4, <1>5, <1>6, <1>7, <1>8 DEF AppsNext, Main

\* The settings are those main() and the demo have sent.
LEMMA CameraStep ==
  ASSUME MainTypes, Life, Camera, [AppsNext]_appsvars
  PROVE  Camera'
<1> USE DEF Camera
<1>1. CASE ParseOption \/ Parsed
  BY <1>1, ParseIs DEF camvars, Settled, CamTypeOK
<1>2. CASE CreateCamera
  <2>1. /\ mpc = "camera" /\ mpc' \in {"preview", "end"} /\ UNCHANGED <<opts, refused, parameter>>
        /\ camera' = IF mpc' = "preview" THEN SetAll(camera, opts.params) ELSE camera
    BY <1>2 DEF CreateCamera, CreateComponent
  <2>2. camera = Defaults /\ parameter = 0
    BY <2>1
  <2>3. CamTypeOK'
    BY <2>1, <2>2 DEF CamTypeOK, SetAll
  <2>4. ASSUME mpc' = "preview", opts.params = Defaults PROVE OneSettingAtATime'
    <3>1. \A k \in Settings : camera'[k] = Defaults[k]
      BY <2>1, <2>2, <2>4, DefaultsStay
    <3> QED BY <3>1, <2>1, DefaultsAre DEF OneSettingAtATime, Neutral
  <2> QED BY <2>1, <2>2, <2>3, <2>4 DEF Settled
<1>3. CASE Demo
  <2>1. mpc = "demo" /\ UNCHANGED <<mpc, opts>> /\ CycleTest
    BY <1>3 DEF Demo
  <2>2. CamTypeOK'
    BY <2>1, CycleKeepsDomain
  <2>3. opts.params = Defaults => Demonstrated'
    BY <2>1, CycleShows DEF Demonstrated, Settled
  <2> QED BY <2>1, <2>2, <2>3 DEF Demonstrated
<1>4. CASE ~CreateCamera /\ ~Demo /\ ~ParseOption /\ ~Parsed
  <2>1. UNCHANGED <<camera, refused, parameter, parameter_option, opts>>
    BY <1>4, CameraQuiet DEF camvars
  <2>2. CamTypeOK' /\ (OneSettingAtATime => OneSettingAtATime')
    BY <2>1 DEF CamTypeOK, OneSettingAtATime, Neutral
  <2> QED BY <1>4, <2>1, <2>2, CameraQuiet
<1> QED BY <1>1, <1>2, <1>3, <1>4

-----------------------------------------------------------------------------
(* The invariant holds, and gives the properties of the Raspicam tools.    *)

LEMMA AppsInitOK == AppsInit => AppsIInv
<1> SUFFICES ASSUME AppsInit PROVE AppsIInv
  OBVIOUS
<1> USE AppsAssumption DEF AppsInit, CamInit
<1>1. MainTypes
  BY DEF MainTypes, NoData
<1>2. Life
  BY DEF Life, MainLabels, Programs, Finished, Components
<1>3. Links /\ File /\ Enabled
  BY DEF Links, File, Enabled, Early, Connections, AfterUnconnectPreview
<1>4. Account /\ Live /\ Posts
  BY DEF Account, Live, Posts, Unused, Early, Hands, Nat0, NoData
<1>5. Camera
  BY CamAssumption DEF Camera, CamTypeOK, Settled, Settings
<1> QED BY <1>1, <1>2, <1>3, <1>4, <1>5 DEF AppsIInv

LEMMA AppsStep == AppsIInv /\ [AppsNext]_appsvars => AppsIInv'
BY TypesStep, LifeStep, LinksStep, FileStep, EnabledStep, AccountStep, LiveStep, PostsStep,
   CameraStep DEF AppsIInv

LEMMA AppsInvariant == AppsSpec => []AppsIInv
BY AppsInitOK, AppsStep, PTL DEF AppsSpec

LEMMA AppsIInvGives == AppsIInv => AppsInv /\ CallbackUsesLive
<1> SUFFICES ASSUME AppsIInv PROVE AppsInv /\ CallbackUsesLive
  OBVIOUS
<1> USE AppsAssumption DEF AppsIInv
<1>1. AppsTypeOK
  BY DEF AppsTypeOK, MainTypes, Account, Hands, Nat0, Posts, Camera
<1>2. SendsRealBuffers
  BY DEF SendsRealBuffers, Account
<1>3. Unwinds
  BY DEF Unwinds, MainTypes, Life, MainLabels, Links, File, Enabled, Early, Components,
     Connections, Programs, AfterUnconnectPreview
<1>4. DemoRestores
  BY DEF DemoRestores, Camera, Settled
<1>5. CallbackUsesLive
  BY DEF CallbackUsesLive, Live
<1> QED BY <1>1, <1>2, <1>3, <1>4, <1>5 DEF AppsInv

\* RaspiVid and RaspiStillYUV, whatever the command lines, the size of the pool, the number
\* of frames and the calls that fail: every path out of main() destroys what it made, main()
\* sends only buffers that the pool has, and the demo shows one setting at a time.
THEOREM AppsAreSound == AppsSpec => []AppsInv
BY AppsInvariant, AppsIInvGives, PTL

\* The buffer callback of RaspiVid writes only to a file that is open and uses only a pool
\* that exists, however main() ends (the order of the teardown at "error:", RaspiVid.c).
THEOREM CallbackIsSafe == AppsSpec => []CallbackUsesLive
BY AppsInvariant, AppsIInvGives, PTL
=============================================================================
