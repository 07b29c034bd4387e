--------------------------- MODULE ThreadQueueProof ---------------------------
(***************************************************************************)
(* The thread queue handler preserves WaitInv, and on a uniprocessor also  *)
(* TimerInv.  One lemma per step of the handler, so that the proof of an   *)
(* object built on it only has to look at the object's own operations.     *)
(***************************************************************************)
EXTENDS ThreadQueue, TLAPS

\* The initial state of the handler satisfies the invariant.
LEMMA TQInitInv == TQInit => WaitInv
<1> SUFFICES ASSUME TQInit PROVE WaitInv
  OBVIOUS
<1>1. TQTypeOK
  BY Zenon, ThreadQueueAssumption
  DEF TQInit, TQTypeOK, Location, WaitFlags, Status, Blocking
<1>2. LocationInv /\ ClockInv /\ FlagsMatchQueue
  BY ThreadQueueAssumption
  DEF TQInit, LocationInv, ClockInv, FlagsMatchQueue, HasWork, Context
<1>3. NoLostWakeup /\ NoStrayWakeup
  BY DEF TQInit, NoLostWakeup, NoStrayWakeup, Wakers
<1> QED BY <1>1, <1>2, <1>3 DEF WaitInv

\* A running thread enqueues itself: _Thread_queue_Enqueue() up to the release
\* of the queue lock preserves the invariant.
LEMMA EnqueueInv ==
  ASSUME WaitInv, NEW t \in Thread, NEW q \in Queue,
         CanCall(t), Enqueue(q, t)
  PROVE  WaitInv'
<1> USE DEF WaitInv
<1>1. pc[t] = "run" /\ waitFlags[t] \in {"INITIAL", "READY_AGAIN"} /\ ~blocked[t]
  BY DEF CanCall, LocationInv
<1>2. q # None
  BY ThreadQueueAssumption
<1>3. TQTypeOK'
  BY DEF TQTypeOK, Enqueue, AheadAfterEnqueue, Waiters, Location, Blocking,
         WaitFlags, Status
<1>4. LocationInv'
  BY <1>1 DEF LocationInv, Enqueue, TQTypeOK
<1>5. ClockInv'
  BY DEF ClockInv, Enqueue, TQTypeOK, HasWork
<1>6. FlagsMatchQueue'
  BY <1>1, <1>2 DEF FlagsMatchQueue, Enqueue, TQTypeOK
<1>7. NoLostWakeup'
  BY <1>1 DEF NoLostWakeup, Wakers, Enqueue, TQTypeOK
<1>8. NoStrayWakeup'
  BY <1>1 DEF NoStrayWakeup, Wakers, Enqueue, TQTypeOK
<1> QED BY <1>3, <1>4, <1>5, <1>6, <1>7, <1>8

\* Context c takes the threads S off a queue: _Thread_queue_Extract_critical()
\* and _Thread_queue_Flush_critical() preserve the invariant.
LEMMA ExtractInv ==
  ASSUME WaitInv, NEW c \in Context, NEW S \in SUBSET Thread,
         \A t \in S : waitQueue[t] # None,
         CanCall(c), Extract(c, S), returnCode' \in [Thread -> Status]
  PROVE  WaitInv'
<1> USE DEF WaitInv
<1>1. cleanup[c] = {} /\ wake[c] = {}
  BY DEF CanCall, Serving, HasWork
<1>2. \A t \in S : waitFlags[t] \in {"INTEND_TO_BLOCK", "BLOCKED"}
  BY DEF FlagsMatchQueue
<1>3. \A t \in S, d \in Context : t \notin cleanup[d] /\ t \notin wake[d]
  BY DEF NoStrayWakeup, Wakers
<1>4. TQTypeOK'
  BY DEF TQTypeOK, Extract, LeaveQueue, AheadAfterExtract, MustUnblock,
         WaitFlags
<1>5. LocationInv'
  BY <1>2 DEF LocationInv, Extract, LeaveQueue, TQTypeOK
<1>6. ClockInv'
  <2>1. c \in Clock => firing[c] = None
    BY DEF CanCall, Serving
  <2> QED BY <2>1 DEF ClockInv, Extract, LeaveQueue, HasWork, TQTypeOK, Context
<1>7. FlagsMatchQueue'
  BY <1>2 DEF FlagsMatchQueue, Extract, LeaveQueue, TQTypeOK
<1>8. NoLostWakeup'
  BY <1>1, <1>2 DEF NoLostWakeup, Wakers, Extract, LeaveQueue, MustUnblock,
         LocationInv, TQTypeOK
<1>9. NoStrayWakeup'
  <2> SUFFICES ASSUME NEW t \in Thread, NEW d \in Context, d \in Wakers(t)'
               PROVE  /\ pc'[t] = "dispatch" /\ blocked'[t] /\ waitQueue'[t] = None
                      /\ Wakers(t)' = {d}
                      /\ t \notin cleanup'[d] \cap wake'[d]
    BY DEF NoStrayWakeup, Wakers
  <2>1. CASE t \in S
    <3>1. d = c /\ waitFlags[t] = "BLOCKED" /\ t \notin wake'[d]
      BY <2>1, <1>1, <1>2, <1>3 DEF Wakers, Extract, MustUnblock, TQTypeOK
    <3>2. Wakers(t)' = {c}
      BY <2>1, <3>1, <1>3 DEF Wakers, Extract, MustUnblock, TQTypeOK
    <3> QED BY <2>1, <3>1, <3>2 DEF Extract, LeaveQueue, FlagsMatchQueue, TQTypeOK
  <2>2. CASE t \notin S
    <3>1. Wakers(t)' = Wakers(t) /\ d # c
      BY <2>2, <1>1 DEF Wakers, Extract, MustUnblock, TQTypeOK
    <3> QED BY <2>2, <3>1 DEF Extract, LeaveQueue, NoStrayWakeup, TQTypeOK
  <2> QED BY <2>1, <2>2
<1> QED BY <1>4, <1>5, <1>6, <1>7, <1>8, <1>9

\* The steps of the blocking thread after the release of the queue lock
\* preserve the invariant.
LEMMA EnqueueStepInv ==
  ASSUME WaitInv, NEW t \in Thread, EnqueueStep(t)
  PROVE  WaitInv'
<1> USE DEF WaitInv
<1>1. CASE CalloutNoTimeout(t)
  BY <1>1 DEF CalloutNoTimeout, CanStep, TQTypeOK, LocationInv, ClockInv,
     FlagsMatchQueue, NoLostWakeup, NoStrayWakeup, Wakers, HasWork, Location,
     Blocking
<1>2. ASSUME NEW k \in Clock, CalloutInsert(t, k) PROVE WaitInv'
  <2>1. pc[t] = "callout" /\ waitFlags[t] \in {"INTEND_TO_BLOCK", "READY_AGAIN"}
    BY <1>2 DEF CalloutInsert, CanStep, LocationInv
  <2>2. TQTypeOK'
    <3>1. CASE timer[t] = None
      BY <1>2, <3>1 DEF CalloutInsert, TQTypeOK, Location, Blocking
    <3>2. CASE timer[t] # None
      BY <1>2, <3>2 DEF CalloutInsert, TQTypeOK
    <3> QED BY <3>1, <3>2
  <2>3. LocationInv' /\ ClockInv'
    BY <1>2, <2>1 DEF CalloutInsert, TQTypeOK, LocationInv, ClockInv, HasWork
  <2>4. FlagsMatchQueue' /\ NoLostWakeup' /\ NoStrayWakeup'
    BY <1>2, <2>1 DEF CalloutInsert, TQTypeOK, FlagsMatchQueue, NoLostWakeup,
       NoStrayWakeup, Wakers
  <2> QED BY <2>2, <2>3, <2>4
<1>3. ASSUME NEW s \in Status, CalloutExpired(t, s) PROVE WaitInv'
  <2>1. pc[t] = "callout" /\ waitFlags[t] \in {"INTEND_TO_BLOCK", "READY_AGAIN"}
    BY <1>3 DEF CalloutExpired, CanStep, LocationInv
  <2>2. TQTypeOK'
    BY <1>3 DEF CalloutExpired, LeaveQueue, AheadAfterExtract, SetReturnCode,
       TQTypeOK, Location, Blocking, WaitFlags
  <2>3. LocationInv' /\ ClockInv'
    BY <1>3, <2>1 DEF CalloutExpired, LeaveQueue, TQTypeOK, LocationInv,
       ClockInv, HasWork
  <2>4. FlagsMatchQueue' /\ NoLostWakeup' /\ NoStrayWakeup'
    BY <1>3, <2>1 DEF CalloutExpired, LeaveQueue, TQTypeOK, FlagsMatchQueue,
       NoLostWakeup, NoStrayWakeup, Wakers
  <2> QED BY <2>2, <2>3, <2>4
<1>4. CASE SetState(t)
  BY <1>4 DEF SetState, CanStep, TQTypeOK, LocationInv, ClockInv,
     FlagsMatchQueue, NoLostWakeup, NoStrayWakeup, Wakers, HasWork, Location,
     Blocking
<1>5. CASE TryBlock(t)
  <2>1. TQTypeOK' /\ LocationInv' /\ ClockInv'
    BY <1>5 DEF TryBlock, CanStep, TQTypeOK, LocationInv, ClockInv, HasWork,
       Location, Blocking, WaitFlags
  <2>2. FlagsMatchQueue' /\ NoLostWakeup' /\ NoStrayWakeup'
    BY <1>5 DEF TryBlock, CanStep, TQTypeOK, LocationInv, FlagsMatchQueue,
       NoLostWakeup, NoStrayWakeup, Wakers
  <2> QED BY <2>1, <2>2
<1>6. CASE RemoveOwnTimer(t)
  BY <1>6, ThreadQueueAssumption DEF RemoveOwnTimer, CanStep, TQTypeOK,
     LocationInv, ClockInv, FlagsMatchQueue, NoLostWakeup, NoStrayWakeup,
     Wakers, HasWork, Location, Blocking
<1>7. CASE UnblockSelf(t)
  BY <1>7 DEF UnblockSelf, CanStep, TQTypeOK, LocationInv, ClockInv,
     FlagsMatchQueue, NoLostWakeup, NoStrayWakeup, Wakers, HasWork, Location,
     Blocking
<1>8. CASE Return(t)
  BY <1>8 DEF Return, CanStep, TQTypeOK, LocationInv, ClockInv,
     FlagsMatchQueue, NoLostWakeup, NoStrayWakeup, Wakers, HasWork, Location,
     Blocking
<1> QED BY <1>1, <1>2, <1>3, <1>4, <1>5, <1>6, <1>7, <1>8 DEF EnqueueStep

\* _Thread_Remove_timer_and_unblock() by the extracting context preserves the
\* invariant.
LEMMA WakeStepInv ==
  ASSUME WaitInv, NEW c \in Context, WakeStep(c)
  PROVE  WaitInv'
<1> USE DEF WaitInv
<1> PICK t \in Thread : RemoveTimer(c, t) \/ Unblock(c, t)
  BY DEF WakeStep
<1>1. c \in Wakers(t)
  BY DEF RemoveTimer, Unblock, Wakers
<1>2. /\ pc[t] = "dispatch" /\ blocked[t] /\ waitQueue[t] = None
      /\ \A d \in Context : d # c => t \notin cleanup[d] \cup wake[d]
      /\ t \notin cleanup[c] \cap wake[c]
  BY <1>1 DEF NoStrayWakeup, Wakers
<1>3. CASE RemoveTimer(c, t)
  <2>1. \A u \in Thread : Wakers(u)' = Wakers(u)
    BY <1>3 DEF RemoveTimer, Wakers, TQTypeOK
  <2>2. TQTypeOK'
    BY <1>3 DEF RemoveTimer, TQTypeOK
  <2>3. LocationInv' /\ FlagsMatchQueue' /\ NoLostWakeup'
    BY <1>3, <2>1 DEF RemoveTimer, LocationInv, FlagsMatchQueue, NoLostWakeup
  <2>4. ClockInv'
    BY <1>3 DEF RemoveTimer, ClockInv, HasWork, TQTypeOK
  <2>5. NoStrayWakeup'
    BY <1>3, <1>2, <2>1 DEF RemoveTimer, NoStrayWakeup, Wakers, TQTypeOK
  <2> QED BY <2>2, <2>3, <2>4, <2>5
<1>4. CASE Unblock(c, t)
  <2>1. \A u \in Thread : Wakers(u)' = IF u = t THEN {} ELSE Wakers(u)
    BY <1>4, <1>2 DEF Unblock, Wakers, TQTypeOK
  <2>2. TQTypeOK'
    BY <1>4 DEF Unblock, TQTypeOK
  <2>3. waitFlags[t] = "READY_AGAIN"
    BY <1>2 DEF LocationInv, FlagsMatchQueue, TQTypeOK
  <2>4. LocationInv' /\ FlagsMatchQueue'
    BY <1>4, <1>2, <2>3 DEF Unblock, LocationInv, FlagsMatchQueue, TQTypeOK
  <2>5. NoLostWakeup'
    BY <1>4, <2>1 DEF Unblock, NoLostWakeup, TQTypeOK
  <2>6. ClockInv'
    BY <1>4 DEF Unblock, ClockInv, HasWork, TQTypeOK
  <2>7. NoStrayWakeup'
    BY <1>4, <1>2, <2>1 DEF Unblock, NoStrayWakeup, TQTypeOK, Wakers
  <2> QED BY <2>2, <2>4, <2>5, <2>6, <2>7
<1> QED BY <1>3, <1>4

\* The clock tick with _Watchdog_Do_tickle() and _Thread_Timeout() preserves
\* the invariant.
LEMMA ClockStepInv ==
  ASSUME WaitInv, NEW k \in Clock, ClockStep(k)
  PROVE  WaitInv'
<1> USE DEF WaitInv
<1>1. ASSUME NEW t \in Thread, Expire(k, t) PROVE WaitInv'
  <2>1. timer[t] = k /\ k # None
    BY <1>1, ThreadQueueAssumption DEF Expire
  <2>2. TQTypeOK'
    BY <1>1 DEF Expire, TQTypeOK
  <2>3. LocationInv' /\ FlagsMatchQueue' /\ NoLostWakeup' /\ NoStrayWakeup'
    <3>1. UNCHANGED <<pc, waitQueue, waitFlags, blocked, cleanup, wake>>
      BY <1>1 DEF Expire
    <3>2. LocationInv' /\ FlagsMatchQueue'
      BY <3>1 DEF LocationInv, FlagsMatchQueue
    <3>3. NoLostWakeup' /\ NoStrayWakeup'
      BY <3>1 DEF NoLostWakeup, NoStrayWakeup, Wakers
    <3> QED BY <3>2, <3>3
  <2>4. ClockInv'
    BY <1>1, <2>1 DEF Expire, ClockInv, HasWork, Serving, TQTypeOK
  <2> QED BY <2>2, <2>3, <2>4
<1>2. CASE Timeout(k)
  <2> PICK t \in Thread : t = firing[k]
    BY <1>2 DEF Timeout, TQTypeOK
  <2>1. cleanup[k] = {} /\ wake[k] = {} /\ t # None
    BY <1>2 DEF Timeout, ClockInv, HasWork
  <2>2. CASE waitFlags[t] = "READY_AGAIN"
    <3>1. UNCHANGED <<pc, waitQueue, ahead, waitFlags, returnCode, blocked,
                      timer, cleanup, wake, fatal>>
      BY <1>2, <2>2 DEF Timeout
    <3>2. firing' = [firing EXCEPT ![k] = None]
      BY <1>2 DEF Timeout
    <3>3. TQTypeOK' /\ ClockInv'
      BY <3>1, <3>2, ThreadQueueAssumption DEF TQTypeOK, ClockInv, HasWork
    <3>4. LocationInv' /\ FlagsMatchQueue' /\ NoLostWakeup' /\ NoStrayWakeup'
      BY <3>1 DEF LocationInv, FlagsMatchQueue, NoLostWakeup, NoStrayWakeup,
         Wakers
    <3> QED BY <3>3, <3>4
  <2>3. CASE waitFlags[t] # "READY_AGAIN"
    <3>1. /\ LeaveQueue({t})
          /\ SetReturnCode({t}, "TIMEOUT")
          /\ wake' = [wake EXCEPT ![k] = MustUnblock({t})]
          /\ firing' = [firing EXCEPT ![k] = None]
          /\ UNCHANGED <<pc, blocked, timer, cleanup, fatal>>
      BY <1>2, <2>3 DEF Timeout
    <3>2. waitFlags[t] \in {"INTEND_TO_BLOCK", "BLOCKED"} /\ waitQueue[t] # None
      BY <2>1, <2>3 DEF ClockInv, TQTypeOK, WaitFlags, FlagsMatchQueue
    <3>3. \A d \in Context : t \notin cleanup[d] /\ t \notin wake[d]
      BY <2>1, <3>2 DEF NoStrayWakeup, Wakers
    <3>4. TQTypeOK'
      BY Zenon, <2>1, <3>1 DEF TQTypeOK, LeaveQueue, AheadAfterExtract, SetReturnCode,
         MustUnblock, WaitFlags, Status
    <3>5. LocationInv' /\ FlagsMatchQueue'
      BY <2>1, <3>1, <3>2 DEF LocationInv, FlagsMatchQueue, LeaveQueue, TQTypeOK
    <3>6. ClockInv'
      BY <2>1, <3>1, ThreadQueueAssumption DEF ClockInv, LeaveQueue, HasWork,
         TQTypeOK, Context
    <3>7. \A u \in Thread : u # t => Wakers(u)' = Wakers(u)
      BY <2>1, <3>1 DEF Wakers, MustUnblock, TQTypeOK
    <3>8. Wakers(t)' = IF waitFlags[t] = "BLOCKED" THEN {k} ELSE {}
      BY <2>1, <3>1, <3>2, <3>3 DEF Wakers, MustUnblock, TQTypeOK, Context
    <3>9. NoLostWakeup'
      BY Zenon, <2>1, <3>1, <3>2, <3>7, <3>8 DEF NoLostWakeup, LeaveQueue, LocationInv,
         TQTypeOK
    <3>10. NoStrayWakeup'
      BY <2>1, <3>1, <3>2, <3>3, <3>7, <3>8 DEF NoStrayWakeup, LeaveQueue,
         FlagsMatchQueue, Wakers, MustUnblock, TQTypeOK
    <3> QED BY <3>4, <3>5, <3>6, <3>9, <3>10
  <2> QED BY <2>2, <2>3
<1> QED BY <1>1, <1>2 DEF ClockStep

\* Every step of the handler that is not a call to an object preserves the
\* invariant.
LEMMA TQStepInv == WaitInv /\ TQStep => WaitInv'
  BY EnqueueStepInv, WakeStepInv, ClockStepInv DEF TQStep

\* A step that does not touch the handler's state preserves the invariant.
LEMMA TQStutterInv == WaitInv /\ UNCHANGED tqVars => WaitInv'
  BY DEF tqVars, WaitInv, TQTypeOK, LocationInv, ClockInv, FlagsMatchQueue,
         NoLostWakeup, NoStrayWakeup, Wakers, HasWork

------------------------------------------------------------------------------
(***************************************************************************)
(* The timer on a uniprocessor.                                            *)
(***************************************************************************)
UniInv == WaitInv /\ TimerInv /\ WatchdogInactiveAtInsert

\* Initially no timer is in use.
LEMMA UniInitInv == TQInit => UniInv
  BY TQInitInv, ThreadQueueAssumption
  DEF UniInv, TQInit, TimerInv, WatchdogInactiveAtInsert

\* An enqueue finds the timer of the executing thread stopped: no interrupt is
\* being served while a thread runs.
LEMMA UniEnqueueInv ==
  ASSUME ~Smp, UniInv, NEW t \in Thread, NEW q \in Queue,
         CanCall(t), Enqueue(q, t)
  PROVE  UniInv'
<1>1. WaitInv'
  BY EnqueueInv DEF UniInv
<1>2. \A k \in Clock : firing[k] = None
  BY ThreadQueueAssumption DEF CanCall, HasProcessor, Serving
<1>3. TimerInv'
  BY <1>2, ThreadQueueAssumption
  DEF UniInv, TimerInv, Enqueue, WaitInv, TQTypeOK, CanCall
<1> QED BY <1>1, <1>3 DEF UniInv, WatchdogInactiveAtInsert, Enqueue

\* An extraction does not touch timers; who extracts a blocked thread stops its
\* timer before it unblocks the thread.
LEMMA UniExtractInv ==
  ASSUME ~Smp, UniInv, NEW c \in Context, NEW S \in SUBSET Thread,
         \A t \in S : waitQueue[t] # None,
         CanCall(c), Extract(c, S), returnCode' \in [Thread -> Status]
  PROVE  UniInv'
<1>1. WaitInv'
  BY ExtractInv DEF UniInv
<1>2. TimerInv'
  BY DEF UniInv, TimerInv, Extract
<1> QED BY <1>1, <1>2 DEF UniInv, WatchdogInactiveAtInsert, Extract

\* The steps of the blocking thread: it arms a stopped timer, and stops it
\* before it unblocks itself.
LEMMA UniEnqueueStepInv ==
  ASSUME ~Smp, UniInv, NEW t \in Thread, EnqueueStep(t)
  PROVE  UniInv'
<1> USE DEF UniInv, WatchdogInactiveAtInsert
<1>0. /\ pc \in [Thread -> Location] /\ blocked \in [Thread -> BOOLEAN]
      /\ timer \in [Thread -> Clock \cup {None}]
      /\ firing \in [Clock -> Thread \cup {None}]
      /\ wake \in [Context -> SUBSET Thread]
  BY DEF WaitInv, TQTypeOK
<1>1. WaitInv'
  BY Zenon, EnqueueStepInv
<1>2. \A k \in Clock : firing[k] = None
  BY Zenon, ThreadQueueAssumption
  DEF EnqueueStep, CalloutNoTimeout, CalloutInsert, CalloutExpired, SetState,
      TryBlock, RemoveOwnTimer, UnblockSelf, Return, CanStep, HasProcessor,
      Serving
<1>11. blocked[t] \/ pc[t] # "try_block"
  BY DEF WaitInv, LocationInv
<1>3. CASE CalloutNoTimeout(t)
  BY <1>0, <1>1, <1>2, <1>3, ThreadQueueAssumption
  DEF CalloutNoTimeout, CanStep, TimerInv
<1>4. ASSUME NEW k \in Clock, CalloutInsert(t, k) PROVE UniInv'
  <2>1. timer[t] = None /\ t \notin UNION {wake[c] : c \in Context}
    BY <1>4 DEF CalloutInsert, CanStep, TimerInv, WaitInv, NoStrayWakeup, Wakers
  <2>2. TimerInv' /\ ~fatal'
    BY <1>0, <1>4, <1>2, <2>1, ThreadQueueAssumption
    DEF CalloutInsert, CanStep, TimerInv
  <2> QED BY Zenon, <1>0, <1>1, <2>2
<1>5. ASSUME NEW s \in Status, CalloutExpired(t, s) PROVE UniInv'
  BY <1>0, <1>1, <1>2, <1>5, ThreadQueueAssumption
  DEF CalloutExpired, CanStep, TimerInv
<1>6. CASE SetState(t)
  BY <1>0, <1>1, <1>2, <1>6, ThreadQueueAssumption
  DEF SetState, CanStep, TimerInv
<1>7. CASE TryBlock(t)
  BY <1>0, <1>1, <1>2, <1>7, <1>11, ThreadQueueAssumption
  DEF TryBlock, CanStep, TimerInv
<1>8. CASE RemoveOwnTimer(t)
  BY <1>0, <1>1, <1>2, <1>8, ThreadQueueAssumption
  DEF RemoveOwnTimer, CanStep, TimerInv
<1>9. CASE UnblockSelf(t)
  BY <1>0, <1>1, <1>2, <1>9, ThreadQueueAssumption
  DEF UnblockSelf, CanStep, TimerInv
<1>10. CASE Return(t)
  BY <1>0, <1>1, <1>2, <1>10, ThreadQueueAssumption
  DEF Return, CanStep, TimerInv
<1> QED BY <1>3, <1>4, <1>5, <1>6, <1>7, <1>8, <1>9, <1>10 DEF EnqueueStep

\* The timer is stopped before the thread is unblocked.
LEMMA UniWakeStepInv ==
  ASSUME ~Smp, UniInv, NEW c \in Context, WakeStep(c)
  PROVE  UniInv'
<1> USE DEF UniInv, WatchdogInactiveAtInsert
<1>0. /\ pc \in [Thread -> Location] /\ blocked \in [Thread -> BOOLEAN]
      /\ timer \in [Thread -> Clock \cup {None}]
      /\ firing \in [Clock -> Thread \cup {None}]
      /\ wake \in [Context -> SUBSET Thread]
  BY DEF WaitInv, TQTypeOK
<1>1. WaitInv'
  BY WakeStepInv
<1> PICK t \in Thread : RemoveTimer(c, t) \/ Unblock(c, t)
  BY DEF WakeStep
<1>2. TimerInv'
  BY <1>0 DEF RemoveTimer, Unblock, TimerInv
<1> QED BY <1>0, <1>1, <1>2 DEF RemoveTimer, Unblock

\* A watchdog that expires is the one of the wait the thread is in.
LEMMA UniClockStepInv ==
  ASSUME ~Smp, UniInv, NEW k \in Clock, ClockStep(k)
  PROVE  UniInv'
<1> USE DEF UniInv, WatchdogInactiveAtInsert
<1>0. /\ pc \in [Thread -> Location] /\ blocked \in [Thread -> BOOLEAN]
      /\ timer \in [Thread -> Clock \cup {None}]
      /\ firing \in [Clock -> Thread \cup {None}]
      /\ wake \in [Context -> SUBSET Thread]
  BY DEF WaitInv, TQTypeOK
<1>1. WaitInv'
  BY ClockStepInv
<1>2. ASSUME NEW t \in Thread, Expire(k, t) PROVE UniInv'
  BY <1>0, <1>1, <1>2, ThreadQueueAssumption
  DEF Expire, TimerInv
<1>3. CASE Timeout(k)
  <2> PICK t \in Thread : t = firing[k]
    BY <1>0, <1>3 DEF Timeout
  <2>1. timer[t] = None
    BY DEF TimerInv
  <2>2. TimerInv'
    BY <1>0, <1>3, <2>1, ThreadQueueAssumption
    DEF Timeout, TimerInv, MustUnblock
  <2> QED BY <1>0, <1>1, <1>3, <2>2 DEF Timeout
<1> QED BY <1>2, <1>3 DEF ClockStep

\* Every step of the handler preserves the uniprocessor invariant.
LEMMA UniStepInv == ~Smp /\ UniInv /\ TQStep => UniInv'
  BY UniEnqueueStepInv, UniWakeStepInv, UniClockStepInv DEF TQStep

\* So does a step that does not touch the handler's state.
LEMMA UniStutterInv == UniInv /\ UNCHANGED tqVars => UniInv'
  BY TQStutterInv DEF tqVars, UniInv, TimerInv, WatchdogInactiveAtInsert

\* The inductive invariant implies that a timeout only hits its own wait.
LEMMA UniInvImplies == UniInv => TimerBelongsToWait
  BY DEF UniInv, TimerInv, TimerBelongsToWait

------------------------------------------------------------------------------
(***************************************************************************)
(* The order of the queues.                                                *)
(***************************************************************************)
OrderInv == WaitInv /\ LinearOrder

\* A thread is inserted behind those of the same or a higher priority, in front
\* of the others.
LEMMA OrderEnqueue ==
  ASSUME OrderInv, NEW t \in Thread, NEW q \in Queue,
         CanCall(t), Enqueue(q, t)
  PROVE  LinearOrder'
<1> USE DEF OrderInv
<1>1. waitQueue[t] = None /\ q # None
  BY ThreadQueueAssumption
  DEF CanCall, WaitInv, LocationInv, FlagsMatchQueue, TQTypeOK
<1>2. \A x \in Thread : ahead[x] \subseteq Thread /\ ahead'[x] \subseteq Thread
  BY DEF WaitInv, TQTypeOK, Enqueue, AheadAfterEnqueue, Waiters
<1>3. \A x \in Thread : waitQueue'[x] = IF x = t THEN q ELSE waitQueue[x]
  BY Zenon DEF Enqueue, WaitInv, TQTypeOK
<1>4. \A x, u \in Thread :
        u \in ahead'[x] <=>
          IF x = t THEN waitQueue[u] = q /\ StaysAhead(u, t)
          ELSE u \in ahead[x] \/ (u = t /\ waitQueue[x] = q /\ ~StaysAhead(x, t))
  BY DEF Enqueue, AheadAfterEnqueue, Waiters
<1>5. \A u, w \in Thread : StaysAhead(u, w) \/ StaysAhead(w, u)
  BY ThreadQueueAssumption DEF StaysAhead
<1>6. \A u, v, w \in Thread :
        StaysAhead(u, v) /\ StaysAhead(v, w) => StaysAhead(u, w)
  BY ThreadQueueAssumption DEF StaysAhead
<1>7. /\ \A x \in Thread : x \notin ahead[x]
      /\ \A x, u \in Thread : u \in ahead[x] =>
           waitQueue[u] = waitQueue[x] /\ waitQueue[x] # None /\ StaysAhead(u, x)
      /\ \A x, u, w \in Thread :
           u \in ahead[x] /\ w \in ahead[u] => w \in ahead[x]
      /\ \A x, u \in Thread :
           x # u /\ waitQueue[x] # None /\ waitQueue[u] = waitQueue[x]
             => (u \in ahead[x] <=> x \notin ahead[u])
  BY DEF LinearOrder
<1>8. \A x \in Thread : x \notin ahead'[x]
  BY <1>1, <1>4, <1>7
<1>9. \A x, u \in Thread : u \in ahead'[x] =>
        waitQueue'[u] = waitQueue'[x] /\ waitQueue'[x] # None /\ StaysAhead(u, x)
  BY <1>1, <1>3, <1>4, <1>5, <1>7
<1>10. ASSUME NEW x \in Thread, NEW u \in Thread, NEW w \in Thread,
              u \in ahead'[x], w \in ahead'[u]
       PROVE  w \in ahead'[x]
  <2>1. CASE x = t
    BY <1>1, <1>4, <1>6, <1>7, <1>10, <2>1
  <2>2. CASE u = t
    <3>1. waitQueue[x] = q /\ ~StaysAhead(x, t) /\ x # t
      BY <1>1, <1>4, <1>7, <1>10, <2>2
    <3>2. waitQueue[w] = q /\ StaysAhead(w, t) /\ w # x
      BY <1>4, <1>10, <2>2, <3>1
    <3>3. x \notin ahead[w]
      BY <3>1, <3>2, <1>6, <1>7
    <3> QED BY <1>1, <1>4, <1>7, <3>1, <3>2, <3>3
  <2>3. CASE x # t /\ u # t /\ w = t
    <3>1. u \in ahead[x] /\ waitQueue[u] = q /\ ~StaysAhead(u, t)
      BY <1>1, <1>4, <1>7, <1>10, <2>3
    <3> QED BY <1>4, <1>6, <1>7, <2>3, <3>1
  <2>4. CASE x # t /\ u # t /\ w # t
    BY <1>4, <1>7, <1>10, <2>4
  <2> QED BY <2>1, <2>2, <2>3, <2>4
<1>11. \A x, u \in Thread :
         x # u /\ waitQueue'[x] # None /\ waitQueue'[u] = waitQueue'[x]
           => (u \in ahead'[x] <=> x \notin ahead'[u])
  BY <1>1, <1>3, <1>4, <1>7
<1>12. ASSUME NEW x \in Thread, NEW u \in ahead'[x]
       PROVE  /\ u \in Thread
              /\ waitQueue'[u] = waitQueue'[x] /\ waitQueue'[x] # None
              /\ StaysAhead(u, x)
              /\ ahead'[u] \subseteq ahead'[x]
  BY <1>2, <1>9, <1>10, <1>12
<1> QED BY <1>8, <1>11, <1>12 DEF LinearOrder, StaysAhead

\* Threads are extracted from any position.
LEMMA OrderLeave ==
  ASSUME OrderInv, NEW S \in SUBSET Thread, LeaveQueue(S)
  PROVE  LinearOrder'
<1>1. \A x \in Thread :
        /\ waitQueue'[x] = IF x \in S THEN None ELSE waitQueue[x]
        /\ ahead'[x] = IF x \in S THEN {} ELSE ahead[x] \ S
        /\ ahead[x] \subseteq Thread
  BY DEF LeaveQueue, AheadAfterExtract, OrderInv, WaitInv, TQTypeOK
<1>2. ASSUME NEW x \in Thread
      PROVE  /\ x \notin ahead'[x]
             /\ \A u \in Thread \ {x} :
                  waitQueue'[x] # None /\ waitQueue'[u] = waitQueue'[x]
                    => (u \in ahead'[x] <=> x \notin ahead'[u])
  <2>1. x \notin ahead'[x]
    <3>1. x \notin ahead[x]
      BY DEF OrderInv, LinearOrder
    <3> QED BY Zenon, <1>1, <3>1
  <2>2. ASSUME NEW u \in Thread \ {x},
               waitQueue'[x] # None, waitQueue'[u] = waitQueue'[x]
        PROVE  u \in ahead'[x] <=> x \notin ahead'[u]
    <3>1. /\ x \notin S /\ u \notin S
          /\ waitQueue[x] # None /\ waitQueue[u] = waitQueue[x]
      BY Zenon, <1>1, <2>2
    <3>2. u \in ahead[x] <=> x \notin ahead[u]
      BY <3>1 DEF OrderInv, LinearOrder
    <3>3. ahead'[x] = ahead[x] \ S /\ ahead'[u] = ahead[u] \ S
      BY Zenon, <1>1, <3>1
    <3> QED BY <3>1, <3>2, <3>3
  <2> QED BY <2>1, <2>2
<1>3. ASSUME NEW x \in Thread, NEW u \in ahead'[x]
      PROVE  /\ waitQueue'[u] = waitQueue'[x] /\ waitQueue'[x] # None
             /\ StaysAhead(u, x)
             /\ ahead'[u] \subseteq ahead'[x]
  <2>1. x \notin S /\ u \notin S /\ u \in ahead[x] /\ u \in Thread
    BY Zenon, <1>1, <1>3
  <2>2. /\ waitQueue[u] = waitQueue[x] /\ waitQueue[x] # None
        /\ StaysAhead(u, x) /\ ahead[u] \subseteq ahead[x]
    BY <2>1 DEF OrderInv, LinearOrder
  <2> QED BY Zenon, <1>1, <2>1, <2>2
<1> QED BY <1>2, <1>3 DEF LinearOrder, StaysAhead

\* Every step of the handler preserves the order.
LEMMA OrderStep == OrderInv /\ TQStep => LinearOrder'
<1> SUFFICES ASSUME OrderInv, TQStep PROVE LinearOrder'
  OBVIOUS
<1>1. (\E S \in SUBSET Thread : LeaveQueue(S)) \/ UNCHANGED <<waitQueue, ahead>>
  <2>1. ASSUME NEW t \in Thread, EnqueueStep(t)
        PROVE  LeaveQueue({t}) \/ UNCHANGED <<waitQueue, ahead>>
    BY <2>1 DEF EnqueueStep, CalloutNoTimeout, CalloutInsert, CalloutExpired,
       SetState, TryBlock, RemoveOwnTimer, UnblockSelf, Return
  <2>2. ASSUME NEW c \in Context, WakeStep(c)
        PROVE  UNCHANGED <<waitQueue, ahead>>
    BY <2>2 DEF WakeStep, RemoveTimer, Unblock
  <2>3. ASSUME NEW k \in Clock, ClockStep(k)
        PROVE  \/ LeaveQueue({firing[k]}) /\ firing[k] \in Thread
               \/ UNCHANGED <<waitQueue, ahead>>
    BY Zenon, <2>3 DEF ClockStep, Expire, Timeout, OrderInv, WaitInv, TQTypeOK
  <2> QED BY Zenon, <2>1, <2>2, <2>3 DEF TQStep
<1>2. UNCHANGED <<waitQueue, ahead>> => LinearOrder'
  BY DEF OrderInv, LinearOrder, StaysAhead
<1> QED BY <1>1, <1>2, OrderLeave

------------------------------------------------------------------------------
(***************************************************************************)
(* What the steps do to the set of waiting threads.                        *)
(***************************************************************************)

\* A thread on a queue is inside of _Thread_queue_Enqueue().
LEMMA WaitingNotRunning ==
  WaitInv => \A t \in Thread : waitQueue[t] # None => pc[t] # "run"
  BY DEF WaitInv, LocationInv, FlagsMatchQueue

\* The handler only takes threads off queues.
LEMMA TQStepWaiters ==
  ASSUME WaitInv, TQStep, NEW q \in Queue
  PROVE  Waiters(q)' \subseteq Waiters(q)
<1>1. \A S : LeaveQueue(S) => Waiters(q)' \subseteq Waiters(q)
  BY ThreadQueueAssumption DEF LeaveQueue, Waiters
<1>2. UNCHANGED waitQueue => Waiters(q)' \subseteq Waiters(q)
  BY Zenon DEF Waiters
<1>3. ASSUME NEW t \in Thread, EnqueueStep(t)
      PROVE  Waiters(q)' \subseteq Waiters(q)
  BY <1>1, <1>2, <1>3
  DEF EnqueueStep, CalloutNoTimeout, CalloutInsert, CalloutExpired, SetState,
      TryBlock, RemoveOwnTimer, UnblockSelf, Return
<1>4. ASSUME NEW c \in Context, WakeStep(c)
      PROVE  Waiters(q)' \subseteq Waiters(q)
  BY <1>2, <1>4 DEF WakeStep, RemoveTimer, Unblock
<1>5. ASSUME NEW k \in Clock, ClockStep(k)
      PROVE  Waiters(q)' \subseteq Waiters(q)
  BY <1>1, <1>2, <1>5 DEF ClockStep, Expire, Timeout
<1> QED BY <1>3, <1>4, <1>5 DEF TQStep

\* Extracting threads takes them off every queue.
LEMMA LeaveQueueWaiters ==
  ASSUME NEW S, LeaveQueue(S), NEW q \in Queue
  PROVE  Waiters(q)' = Waiters(q) \ S
  BY ThreadQueueAssumption DEF LeaveQueue, Waiters

\* An enqueue puts one thread on one queue.
LEMMA EnqueueWaiters ==
  ASSUME WaitInv, NEW t \in Thread, NEW q \in Queue, CanCall(t), Enqueue(q, t)
  PROVE  /\ t \notin Waiters(q)
         /\ Waiters(q)' = Waiters(q) \cup {t}
         /\ \A r \in Queue \ {q} : Waiters(r)' = Waiters(r)
<1>1. waitQueue[t] = None
  BY DEF CanCall, WaitInv, LocationInv, FlagsMatchQueue
<1>2. \A u \in Thread : waitQueue'[u] = IF u = t THEN q ELSE waitQueue[u]
  BY Zenon DEF Enqueue, WaitInv, TQTypeOK
<1> QED BY <1>1, <1>2, ThreadQueueAssumption DEF Waiters

\* The thread's wait is ended without success, by itself in the enqueue callout
\* or by its timeout.
EndsWait(t) ==
  /\ waitQueue[t] # None
  /\ pc[t] = "callout" \/ \E k \in Clock : firing[k] = t
  /\ waitQueue' = [waitQueue EXCEPT ![t] = None]
  /\ \E s \in Status \ {"SUCCESSFUL"} :
       returnCode' = [returnCode EXCEPT ![t] = s]

\* The handler's own steps start no wait, and end one without success.
LEMMA HandlerEnds ==
  ASSUME WaitInv, TQStep
  PROVE  UNCHANGED <<waitQueue, returnCode>> \/ \E t \in Thread : EndsWait(t)
<1>1. ASSUME NEW t \in Thread, waitFlags[t] \notin {"READY_AGAIN", "INITIAL"},
             pc[t] = "callout" \/ \E k \in Clock : firing[k] = t,
             LeaveQueue({t}), NEW s \in Status \ {"SUCCESSFUL"},
             SetReturnCode({t}, s)
      PROVE  EndsWait(t)
  <2>1. waitQueue[t] # None
    BY <1>1 DEF WaitInv, FlagsMatchQueue, TQTypeOK, WaitFlags
  <2> QED BY Zenon, <1>1, <2>1
      DEF EndsWait, LeaveQueue, SetReturnCode, WaitInv, TQTypeOK
<1>2. ASSUME NEW t \in Thread, EnqueueStep(t)
      PROVE  UNCHANGED <<waitQueue, returnCode>> \/ EndsWait(t)
  <2>1. ASSUME NEW s \in Status, CalloutExpired(t, s)
        PROVE  UNCHANGED <<waitQueue, returnCode>> \/ EndsWait(t)
    <3>1. waitFlags[t] # "INITIAL" /\ pc[t] = "callout"
      BY <2>1 DEF CalloutExpired, CanStep, WaitInv, LocationInv
    <3>2. s # "SUCCESSFUL"
      BY <2>1 DEF CalloutExpired
    <3> QED BY <1>1, <2>1, <3>1, <3>2 DEF CalloutExpired
  <2> QED BY <1>2, <2>1
      DEF EnqueueStep, CalloutNoTimeout, CalloutInsert, SetState, TryBlock,
          RemoveOwnTimer, UnblockSelf, Return
<1>3. ASSUME NEW c \in Context, WakeStep(c)
      PROVE  UNCHANGED <<waitQueue, returnCode>>
  BY <1>3 DEF WakeStep, RemoveTimer, Unblock
<1>4. ASSUME NEW k \in Clock, ClockStep(k)
      PROVE  UNCHANGED <<waitQueue, returnCode>> \/ \E t \in Thread : EndsWait(t)
  <2>1. CASE \E t \in Thread : Expire(k, t)
    BY <2>1 DEF Expire
  <2>2. CASE Timeout(k)
    <3>1. PICK t \in Thread : t = firing[k]
      BY <2>2 DEF Timeout, WaitInv, TQTypeOK
    <3>2. waitFlags[t] # "INITIAL"
      BY <3>1 DEF WaitInv, ClockInv
    <3>3. "TIMEOUT" \in Status \ {"SUCCESSFUL"}
      BY DEF Status
    <3> QED BY <1>1, <2>2, <3>1, <3>2, <3>3 DEF Timeout
  <2> QED BY <1>4, <2>1, <2>2 DEF ClockStep
<1> QED BY <1>2, <1>3, <1>4 DEF TQStep

\* The handler's own steps start no call, and let one return that does not wait.
LEMMA HandlerReturns ==
  ASSUME WaitInv, TQStep, NEW t \in Thread
  PROVE  /\ pc[t] = "run" => pc'[t] = "run" /\ waitQueue'[t] = waitQueue[t]
         /\ pc'[t] = "run" => waitQueue[t] = None
<1>0. waitQueue[t] # None => pc[t] # "run" /\ ~(pc[t] = "dispatch" /\ ~blocked[t])
  BY Zenon DEF WaitInv, LocationInv, FlagsMatchQueue, TQTypeOK, WaitFlags
<1>1. /\ pc[t] = "run" => pc'[t] = "run"
      /\ pc'[t] = "run" => pc[t] = "run" \/ (pc[t] = "dispatch" /\ ~blocked[t])
  <2>1. ASSUME NEW u \in Thread, EnqueueStep(u)
        PROVE  /\ pc[t] = "run" => pc'[t] = "run"
               /\ pc'[t] = "run" => pc[t] = "run" \/ (pc[t] = "dispatch" /\ ~blocked[t])
    BY <2>1 DEF EnqueueStep, CalloutNoTimeout, CalloutInsert, CalloutExpired,
       SetState, TryBlock, RemoveOwnTimer, UnblockSelf, Return, CanStep, WaitInv,
       TQTypeOK
  <2>2. ASSUME NEW c \in Context, WakeStep(c) PROVE UNCHANGED pc
    BY <2>2 DEF WakeStep, RemoveTimer, Unblock
  <2>3. ASSUME NEW k \in Clock, ClockStep(k) PROVE UNCHANGED pc
    BY <2>3 DEF ClockStep, Timeout, Expire
  <2> QED BY Zenon, <2>1, <2>2, <2>3 DEF TQStep
<1>2. pc[t] = "run" => waitQueue'[t] = waitQueue[t]
  BY <1>0, HandlerEnds DEF EndsWait, WaitInv, TQTypeOK
<1> QED BY <1>0, <1>1, <1>2

\* The handler's own steps let one call return at a time.
LEMMA HandlerReturnsOne ==
  ASSUME WaitInv, TQStep, NEW t \in Thread, NEW u \in Thread,
         pc[t] # "run", pc'[t] = "run", pc[u] # "run", pc'[u] = "run"
  PROVE  t = u
<1>1. ASSUME NEW w \in Thread, EnqueueStep(w) PROVE t = u
  <2>1. \A x \in Thread \ {w} : pc'[x] = pc[x]
    BY <1>1 DEF EnqueueStep, CalloutNoTimeout, CalloutInsert, CalloutExpired,
       SetState, TryBlock, RemoveOwnTimer, UnblockSelf, Return, WaitInv, TQTypeOK
  <2> QED BY Zenon, <2>1
<1>2. ASSUME NEW c \in Context, WakeStep(c) PROVE UNCHANGED pc
  BY <1>2 DEF WakeStep, RemoveTimer, Unblock
<1>3. ASSUME NEW k \in Clock, ClockStep(k) PROVE UNCHANGED pc
  BY Zenon, <1>3 DEF ClockStep, Timeout, Expire
<1> QED BY <1>1, <1>2, <1>3 DEF TQStep

\* There is one first thread.
LEMMA FirstUnique ==
  ASSUME OrderInv, NEW q \in Queue, NEW t \in Thread, NEW u \in Thread,
         IsFirst(q, t), IsFirst(q, u)
  PROVE  t = u
  BY ThreadQueueAssumption DEF OrderInv, LinearOrder, IsFirst
==============================================================================
