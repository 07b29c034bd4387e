-------------------------- MODULE CoreSemaphoreProof --------------------------
(***************************************************************************)
(* The counting semaphore is correct for every number of threads,          *)
(* interrupts, clocks and semaphores and for every maximum count.          *)
(***************************************************************************)
EXTENDS CoreSemaphore, ThreadQueueProof

\* What a step of the semaphore is to the thread queue handler.
LEMMA StepKinds ==
  ASSUME WaitInv, Next
  PROVE  \/ UNCHANGED tqVars
         \/ TQStep
         \/ \E t \in Thread, q \in Queue : CanCall(t) /\ Enqueue(q, t)
         \/ \E c \in Context, S \in SUBSET Thread :
              /\ CanCall(c)
              /\ \A t \in S : waitQueue[t] # None
              /\ Extract(c, S)
              /\ returnCode' \in [Thread -> Status]
<1>1. \A q \in Queue : /\ Waiters(q) \in SUBSET Thread
                       /\ \A t \in Waiters(q) : waitQueue[t] # None
  BY ThreadQueueAssumption DEF Waiters
<1>2. \A S \in SUBSET Thread, s \in Status :
        SetReturnCode(S, s) => returnCode' \in [Thread -> Status]
  BY DEF SetReturnCode, WaitInv, TQTypeOK
<1>3. {"UNAVAILABLE", "OBJECT_WAS_DELETED"} \subseteq Status
  BY DEF Status
<1>4. CASE \E q \in Queue, v \in 0 .. MaximumCount : Initialize(q, v)
  BY <1>4 DEF Initialize
<1>5. CASE \E t \in Thread, q \in Queue : SeizeNow(t, q)
  BY <1>5 DEF SeizeNow
<1>6. CASE \E t \in Thread, q \in Queue : SeizeWait(t, q)
  BY <1>6 DEF SeizeWait
<1>7. ASSUME NEW c \in Thread \cup Isr, NEW q \in Queue, NEW t \in Thread,
             SurrenderHandOver(c, q, t)
      PROVE  /\ CanCall(c) /\ Extract(c, {t})
             /\ \A u \in {t} : waitQueue[u] # None
             /\ returnCode' \in [Thread -> Status]
  BY <1>7, ThreadQueueAssumption
  DEF SurrenderHandOver, IsFirst, WaitInv, TQTypeOK
<1>8. CASE \E c \in Thread \cup Isr, q \in Queue : Surrender(c, q)
  BY Zenon, <1>7, <1>8 DEF Surrender, SurrenderCount, Context
<1>9. CASE \E c \in Thread \cup Isr, q \in Queue : Flush(c, q)
  BY <1>1, <1>2, <1>3, <1>9 DEF Flush, Context
<1>10. CASE \E t \in Thread, q \in Queue : Destroy(t, q)
  BY <1>1, <1>2, <1>3, <1>10 DEF Destroy, Context
<1>11. CASE \E t \in Thread : SeizeReturn(t)
  BY <1>11, Zenon DEF SeizeReturn, TQStep, EnqueueStep
<1>12. CASE HandlerStep
  BY <1>12, Zenon DEF HandlerStep
<1> QED
  BY <1>4, <1>5, <1>6, <1>8, <1>9, <1>10, <1>11, <1>12, Zenon DEF Next

\* Every semaphore operation keeps the invariant of the wait protocol.
LEMMA WaitInvStep == WaitInv /\ [Next]_vars => WaitInv'
<1> SUFFICES ASSUME WaitInv, [Next]_vars PROVE WaitInv'
  OBVIOUS
<1>1. CASE Next
  BY <1>1, StepKinds, TQStutterInv, TQStepInv, EnqueueInv, ExtractInv
<1>2. CASE UNCHANGED vars
  BY <1>2, TQStutterInv DEF vars
<1> QED BY <1>1, <1>2

\* No wake-up is lost, and the wait flags always agree with the queue: the
\* two-step blocking of _Thread_queue_Enqueue() is safe against surrender, flush,
\* deletion and timeout from any context.
THEOREM WaitProtocol == Spec => [](NoLostWakeup /\ FlagsMatchQueue)
<1>1. Init => WaitInv
  BY TQInitInv DEF Init
<1>2. WaitInv => NoLostWakeup /\ FlagsMatchQueue
  BY DEF WaitInv
<1> QED BY <1>1, <1>2, WaitInvStep, PTL DEF Spec

\* A thread is unblocked at most once per wait, by one context, and only when it
\* is blocked and off its queue.
THEOREM OneWakeup == Spec => []NoStrayWakeup
<1>1. Init => WaitInv
  BY TQInitInv DEF Init
<1>2. WaitInv => NoStrayWakeup
  BY DEF WaitInv
<1> QED BY <1>1, <1>2, WaitInvStep, PTL DEF Spec

\* The queue of a semaphore is always totally ordered, first in first out or
\* sorted by priority, so _Thread_queue_First_locked() is well defined.
THEOREM QueueOrder == Spec => []LinearOrder
<1>1. Init => OrderInv
  BY TQInitInv DEF Init, OrderInv, TQInit, LinearOrder
<1>2. OrderInv /\ [Next]_vars => OrderInv'
  <2> SUFFICES ASSUME OrderInv, [Next]_vars PROVE LinearOrder'
    BY WaitInvStep DEF OrderInv
  <2>1. UNCHANGED tqVars => LinearOrder'
    BY DEF tqVars, OrderInv, LinearOrder, StaysAhead
  <2>2. CASE Next
    BY <2>1, <2>2, StepKinds, OrderStep, OrderEnqueue, OrderLeave
    DEF OrderInv, Extract
  <2>3. CASE UNCHANGED vars
    BY <2>1, <2>3 DEF vars
  <2> QED BY <2>2, <2>3
<1>3. OrderInv => LinearOrder
  BY DEF OrderInv
<1> QED BY <1>1, <1>2, <1>3, PTL DEF Spec

\* On a uniprocessor a timeout can only hit the wait its timer was started for,
\* and _Watchdog_Insert() never finds the watchdog scheduled.
THEOREM UniprocessorTimeout ==
  ~Smp => (Spec => [](TimerBelongsToWait /\ WatchdogInactiveAtInsert))
<1> SUFFICES ASSUME ~Smp
             PROVE  Spec => [](TimerBelongsToWait /\ WatchdogInactiveAtInsert)
  OBVIOUS
<1>1. Init => UniInv
  BY UniInitInv DEF Init
<1>2. UniInv /\ [Next]_vars => UniInv'
  <2> SUFFICES ASSUME UniInv, [Next]_vars PROVE UniInv'
    OBVIOUS
  <2>1. WaitInv
    BY DEF UniInv
  <2>2. CASE Next
    BY <2>1, <2>2, StepKinds, UniStutterInv, UniStepInv, UniEnqueueInv,
       UniExtractInv
  <2>3. CASE UNCHANGED vars
    BY <2>3, UniStutterInv DEF vars
  <2> QED BY <2>2, <2>3
<1>3. UniInv => TimerBelongsToWait /\ WatchdogInactiveAtInsert
  BY UniInvImplies DEF UniInv
<1> QED BY <1>1, <1>2, <1>3, PTL DEF Spec

------------------------------------------------------------------------------
(***************************************************************************)
(* The count.  Only threads of an open semaphore without a unit wait.      *)
(***************************************************************************)
SemInv == WaitInv /\ TypeOK /\ NoUnitWhileWaiting

\* No semaphore exists and nobody waits in the initial states.
LEMMA SemInvInit == Init => SemInv
  BY TQInitInv, CoreSemaphoreAssumption, ThreadQueueAssumption
  DEF Init, SemInv, TypeOK, WaitInv, NoUnitWhileWaiting, Waiters, TQInit

\* Every step keeps the types and leaves no unit on a semaphore with waiters.
LEMMA SemInvStep == SemInv /\ [Next]_vars => SemInv'
<1> SUFFICES ASSUME SemInv, [Next]_vars PROVE TypeOK' /\ NoUnitWhileWaiting'
  BY WaitInvStep DEF SemInv
<1>1. TQTypeOK'
  BY WaitInvStep DEF SemInv, WaitInv
<1> USE DEF SemInv, TypeOK, NoUnitWhileWaiting, Book
<1>2. CASE \E q \in Queue, v \in 0 .. MaximumCount : Initialize(q, v)
  BY <1>1, <1>2 DEF Initialize, Waiters, tqVars
<1>3. CASE \E t \in Thread, q \in Queue : SeizeNow(t, q)
  BY <1>1, <1>3, CoreSemaphoreAssumption DEF SeizeNow, Waiters, tqVars
<1>4. CASE \E t \in Thread, q \in Queue : SeizeWait(t, q)
  BY <1>1, <1>4 DEF SeizeWait, Waiters, Enqueue, TQTypeOK
<1>5. ASSUME NEW S, LeaveQueue(S), NEW q \in Queue
      PROVE  Waiters(q)' = Waiters(q) \ S
  BY <1>5, ThreadQueueAssumption DEF LeaveQueue, Waiters
<1>6. CASE \E c \in Thread \cup Isr, q \in Queue : Surrender(c, q)
  <2>1. PICK c \in Thread \cup Isr, q \in Queue : Surrender(c, q)
    BY <1>6
  <2>2. CASE \E t \in Thread : SurrenderHandOver(c, q, t)
    BY <1>1, <1>5, <2>2 DEF SurrenderHandOver, Extract
  <2>3. CASE SurrenderCount(c, q)
    BY <1>1, <2>3, CoreSemaphoreAssumption DEF SurrenderCount, Waiters, tqVars
  <2> QED BY <2>1, <2>2, <2>3 DEF Surrender
<1>7. CASE \E c \in Thread \cup Isr, q \in Queue : Flush(c, q)
  BY <1>1, <1>5, <1>7 DEF Flush, Extract, semVars
<1>8. CASE \E t \in Thread, q \in Queue : Destroy(t, q)
  BY <1>1, <1>5, <1>8 DEF Destroy, Extract
<1>9. CASE \E t \in Thread : SeizeReturn(t)
  BY <1>1, <1>9 DEF SeizeReturn, Return, Waiters
<1>10. CASE HandlerStep
  BY <1>1, <1>10, TQStepWaiters DEF HandlerStep, semVars
<1>11. CASE UNCHANGED vars
  BY <1>1, <1>11 DEF vars, semVars, tqVars, Waiters
<1> QED
  BY <1>2, <1>3, <1>4, <1>6, <1>7, <1>8, <1>9, <1>10, <1>11, Zenon DEF Next

\* The count stays within 0 .. MaximumCount, and every variable in its type.
THEOREM TypeCorrect == Spec => []TypeOK
<1>1. SemInv => TypeOK
  BY DEF SemInv
<1> QED BY <1>1, SemInvInit, SemInvStep, PTL DEF Spec

\* No unit is left in the count while a thread waits for it.
THEOREM NoIdleUnit == Spec => []NoUnitWhileWaiting
<1>1. SemInv => NoUnitWhileWaiting
  BY DEF SemInv
<1> QED BY <1>1, SemInvInit, SemInvStep, PTL DEF Spec

------------------------------------------------------------------------------
(***************************************************************************)
(* The semaphore implements CountingSemaphore.                             *)
(***************************************************************************)

\* A waiting thread has the return code it will report if it gets the unit.
WaitingCode ==
  \A t \in Thread : waitQueue[t] # None => returnCode[t] = "SUCCESSFUL"

RefInv == SemInv /\ WaitingCode

\* The status of a waiting thread is still the one its call started with.
LEMMA WaitingCodeStep == RefInv /\ [Next]_vars => WaitingCode'
<1> SUFFICES ASSUME RefInv, [Next]_vars PROVE WaitingCode'
  OBVIOUS
<1>1. UNCHANGED <<waitQueue, returnCode>> => WaitingCode'
  BY DEF RefInv, WaitingCode
<1>2. ASSUME NEW S, NEW s, LeaveQueue(S), SetReturnCode(S, s)
      PROVE  WaitingCode'
  BY <1>2 DEF RefInv, WaitingCode, LeaveQueue, SetReturnCode
<1>3. ASSUME NEW S, LeaveQueue(S), UNCHANGED returnCode
      PROVE  WaitingCode'
  BY <1>3 DEF RefInv, WaitingCode, LeaveQueue
<1>4. ASSUME NEW t \in Thread, NEW q \in Queue, Enqueue(q, t)
      PROVE  WaitingCode'
  BY <1>4 DEF RefInv, WaitingCode, Enqueue, SemInv, TypeOK, TQTypeOK
<1>5. CASE TQStep
  <2>1. ASSUME NEW t \in Thread, EnqueueStep(t)
        PROVE  WaitingCode'
    BY <1>1, <1>2, <2>1
    DEF EnqueueStep, CalloutNoTimeout, CalloutInsert, CalloutExpired, SetState,
        TryBlock, RemoveOwnTimer, UnblockSelf, Return
  <2>2. ASSUME NEW c \in Context, WakeStep(c)
        PROVE  WaitingCode'
    BY <1>1, <2>2 DEF WakeStep, RemoveTimer, Unblock
  <2>3. ASSUME NEW k \in Clock, ClockStep(k)
        PROVE  WaitingCode'
    BY <1>1, <1>2, <2>3 DEF ClockStep, Expire, Timeout
  <2> QED BY <1>5, <2>1, <2>2, <2>3 DEF TQStep
<1>6. CASE \E q \in Queue, v \in 0 .. MaximumCount : Initialize(q, v)
  BY <1>1, <1>6 DEF Initialize, tqVars
<1>7. CASE \E t \in Thread, q \in Queue : SeizeNow(t, q) \/ SeizeWait(t, q)
  BY <1>1, <1>4, <1>7 DEF SeizeNow, SeizeWait, tqVars
<1>8. CASE \E c \in Thread \cup Isr, q \in Queue : Surrender(c, q)
  BY Zenon, <1>1, <1>3, <1>8
  DEF Surrender, SurrenderHandOver, SurrenderCount, Extract, tqVars
<1>9. CASE \E c \in Thread \cup Isr, q \in Queue : Flush(c, q) \/ Destroy(c, q)
  BY <1>2, <1>9 DEF Flush, Destroy, Extract
<1>10. CASE \E t \in Thread : SeizeReturn(t)
  BY <1>1, <1>10, Zenon DEF SeizeReturn, Return
<1>11. CASE HandlerStep
  BY <1>5, <1>11, Zenon DEF HandlerStep
<1>12. CASE UNCHANGED vars
  BY <1>1, <1>12 DEF vars, tqVars
<1> QED BY <1>6, <1>7, <1>8, <1>9, <1>10, <1>11, <1>12, Zenon DEF Next

\* What the refinement mapping needs holds in every reachable state.
LEMMA RefInvAlways == Spec => []RefInv
<1>1. Init => WaitingCode
  BY DEF Init, TQInit, WaitingCode
<1> QED BY <1>1, SemInvInit, SemInvStep, WaitingCodeStep, PTL DEF Spec, RefInv

\* Taking threads off a queue ends their waits with one outcome.
LEMMA LeaveQueueEndsWaits ==
  ASSUME RefInv, NEW S \in SUBSET Thread,
         \A t \in S : waitQueue[t] # None,
         LeaveQueue(S),
         \A t \in Thread : pc'[t] = "run" <=> pc[t] = "run",
         NEW s, SetReturnCode(S, s)
  PROVE  Abs!EndWaits(S, IF s = "SUCCESSFUL" THEN "granted" ELSE "failed")
<1>1. \A t \in S : pc'[t] # "run"
  BY WaitingNotRunning DEF RefInv, SemInv
<1> QED BY <1>1 DEF Abs!EndWaits, LeaveQueue, SetReturnCode, Outcome

\* A step that leaves the queues, the return codes and who runs alone is
\* invisible in the abstract specification.
LEMMA InvisibleStep ==
  ASSUME UNCHANGED <<semVars, waitQueue, returnCode>>,
         \A t \in Thread : pc'[t] = "run" <=> pc[t] = "run"
  PROVE  UNCHANGED Abs!semVars
  BY DEF semVars, Abs!semVars, Outcome

\* A call that returns takes the unit, if its thread was given one.
LEMMA ReturnRefines ==
  ASSUME RefInv, NEW t \in Thread, SeizeReturn(t)
  PROVE  Abs!Finish(t)
<1>1. pc[t] = "dispatch" /\ waitQueue[t] = None /\ t \in Thread
  BY DEF SeizeReturn, Return, CanStep, RefInv, SemInv, WaitInv, LocationInv,
         FlagsMatchQueue
<1>2. /\ UNCHANGED <<waitQueue, returnCode>>
      /\ pc' = [pc EXCEPT ![t] = "run"]
      /\ pc \in [Thread -> Location]
  BY Zenon DEF SeizeReturn, Return, RefInv, SemInv, WaitInv, TQTypeOK
<1>3. Outcome(t) = IF returnCode[t] = "SUCCESSFUL" THEN "granted" ELSE "failed"
  BY <1>1 DEF Outcome
<1>4. \A u \in Thread : Outcome(u)' = IF u = t THEN "none" ELSE Outcome(u)
  BY <1>1, <1>2 DEF Outcome
<1>5. [u \in Thread |-> Outcome(u)]'
        = [[u \in Thread |-> Outcome(u)] EXCEPT ![t] = "none"]
  BY <1>4
<1>6. [u \in Thread |-> Outcome(u)][t] = Outcome(t)
  OBVIOUS
<1>7. /\ asked' = [asked EXCEPT ![t] = None]
      /\ IF returnCode[t] = "SUCCESSFUL"
           THEN balance' = [balance EXCEPT ![asked[t]] = @ + -1]
           ELSE balance' = balance
      /\ count' = count /\ open' = open
  BY DEF SeizeReturn, Book
<1> QED BY <1>2, <1>3, <1>5, <1>6, <1>7 DEF Abs!Finish, Abs!Booked

\* A step of the handler ends one wait without a unit, or is invisible.
LEMMA HandlerRefines ==
  ASSUME RefInv, HandlerStep
  PROVE  (\E t \in Thread : Abs!Fail(t)) \/ UNCHANGED Abs!semVars
<1> USE DEF semVars
<1>0. /\ TQStep /\ UNCHANGED semVars
      /\ \A t \in Thread : pc[t] # "run" => pc'[t] # "run"
  BY Zenon DEF HandlerStep
<1>1. ASSUME NEW t \in Thread, waitQueue[t] # None, LeaveQueue({t}),
             \A u \in Thread : pc'[u] = "run" <=> pc[u] = "run",
             NEW s, s # "SUCCESSFUL", SetReturnCode({t}, s)
      PROVE  Abs!Fail(t)
  <2>1. Abs!EndWaits({t}, "failed")
    BY <1>1, LeaveQueueEndsWaits
  <2> QED BY <1>0, <1>1, <2>1 DEF Abs!Fail
<1>2. \A t \in Thread : waitFlags[t] # "READY_AGAIN" /\ waitFlags[t] # "INITIAL"
                          => waitQueue[t] # None
  BY DEF RefInv, SemInv, WaitInv, FlagsMatchQueue, TQTypeOK, WaitFlags
<1>3. ASSUME NEW t \in Thread, EnqueueStep(t)
      PROVE  Abs!Fail(t) \/ UNCHANGED Abs!semVars
  <2> USE DEF CanStep
  <2>1. CASE \E s \in Status : CalloutExpired(t, s)
    <3>1. PICK s \in Status : CalloutExpired(t, s)
      BY <2>1
    <3>2. \A u \in Thread : pc'[u] = "run" <=> pc[u] = "run"
      BY <3>1 DEF CalloutExpired, RefInv, SemInv, WaitInv, TQTypeOK
    <3>3. waitFlags[t] # "INITIAL"
      BY <3>1 DEF CalloutExpired, RefInv, SemInv, WaitInv, LocationInv
    <3> QED BY <1>0, <1>1, <1>2, <3>1, <3>2, <3>3, InvisibleStep
        DEF CalloutExpired
  <2>2. ~Return(t)
    BY <1>0 DEF Return, RefInv, SemInv, WaitInv, TQTypeOK
  <2>3. CASE ~\E s \in Status : CalloutExpired(t, s)
    <3>1. /\ UNCHANGED <<waitQueue, returnCode>>
          /\ \A u \in Thread : pc'[u] = "run" <=> pc[u] = "run"
      BY <1>3, <2>2, <2>3
      DEF EnqueueStep, CalloutNoTimeout, CalloutInsert, SetState, TryBlock,
          RemoveOwnTimer, UnblockSelf, RefInv, SemInv, WaitInv, TQTypeOK
    <3> QED BY <1>0, <3>1, InvisibleStep
  <2> QED BY <2>1, <2>3
<1>4. ASSUME NEW c \in Context, WakeStep(c)
      PROVE  UNCHANGED Abs!semVars
  BY <1>0, <1>4, InvisibleStep DEF WakeStep, RemoveTimer, Unblock
<1>5. ASSUME NEW k \in Clock, ClockStep(k)
      PROVE  (\E t \in Thread : Abs!Fail(t)) \/ UNCHANGED Abs!semVars
  <2>1. CASE \E t \in Thread : Expire(k, t)
    BY <1>0, <2>1, InvisibleStep DEF Expire
  <2>2. CASE Timeout(k)
    <3>1. PICK t \in Thread : t = firing[k]
      BY <2>2 DEF Timeout, RefInv, SemInv, WaitInv, TQTypeOK
    <3>2. waitFlags[t] # "INITIAL"
      BY <3>1, ThreadQueueAssumption DEF RefInv, SemInv, WaitInv, ClockInv
    <3> QED BY <1>0, <1>1, <1>2, <2>2, <3>1, <3>2, InvisibleStep DEF Timeout
  <2> QED BY <1>5, <2>1, <2>2 DEF ClockStep
<1> QED BY <1>0, <1>3, <1>4, <1>5 DEF TQStep

\* Every step of the semaphore is a step of the abstract one.
LEMMA StepRefines ==
  ASSUME RefInv, [Next]_vars
  PROVE  [Abs!AbsNext]_(Abs!semVars)
<1> USE DEF Book, Abs!Booked
<1>1. UNCHANGED tqVars =>
        UNCHANGED <<waitQueue, [t \in Thread |-> Outcome(t)]>>
  BY DEF tqVars, Outcome
<1>2. ASSUME NEW q \in Queue, NEW v \in 0 .. MaximumCount, Initialize(q, v)
      PROVE  Abs!Create(q, v)
  BY <1>1, <1>2 DEF Initialize, Abs!Create
<1>3. ASSUME NEW t \in Thread, NEW q \in Queue, SeizeNow(t, q)
      PROVE  Abs!Take(q)
  <2>1. count[q] > 0
    BY <1>3, CoreSemaphoreAssumption DEF SeizeNow, RefInv, SemInv, TypeOK
  <2> QED BY <1>1, <1>3, <2>1 DEF SeizeNow, Abs!Take
<1>4. ASSUME NEW t \in Thread, NEW q \in Queue, SeizeWait(t, q)
      PROVE  Abs!Wait(t, q)
  <2>1. pc[t] = "run" /\ waitQueue[t] = None
    BY <1>4, WaitingNotRunning DEF SeizeWait, CanCall, RefInv, SemInv
  <2>2. \A u \in Thread : Outcome(u)' = Outcome(u)
    BY <1>4, <2>1, ThreadQueueAssumption
    DEF SeizeWait, Enqueue, Outcome, RefInv, SemInv, TypeOK, TQTypeOK
  <2>3. Outcome(t) = "none"
    BY <2>1 DEF Outcome
  <2> QED BY <1>4, <2>1, <2>2, <2>3 DEF SeizeWait, Enqueue, Abs!Wait, Abs!Idle
<1>5. ASSUME NEW c, NEW q \in Queue, NEW t \in Thread, SurrenderHandOver(c, q, t)
      PROVE  Abs!Grant(t, q)
  <2>1. waitQueue[t] # None
    BY <1>5, ThreadQueueAssumption DEF SurrenderHandOver, IsFirst
  <2>2. SetReturnCode({t}, "SUCCESSFUL")
    BY <1>5, <2>1 DEF SurrenderHandOver, SetReturnCode, RefInv, WaitingCode,
       SemInv, TypeOK, TQTypeOK
  <2>3. Abs!EndWaits({t}, "granted")
    BY <1>5, <2>1, <2>2, LeaveQueueEndsWaits DEF SurrenderHandOver, Extract
  <2> QED BY <1>5, <2>1, <2>3 DEF SurrenderHandOver, IsFirst, Abs!Grant
<1>6. ASSUME NEW c, NEW q \in Queue, SurrenderCount(c, q)
      PROVE  Abs!Give(q)
  BY <1>1, <1>6 DEF SurrenderCount, Waiters, Abs!Give, Abs!WaitersOf
<1>7. ASSUME NEW q \in Queue, LeaveQueue(Waiters(q)), UNCHANGED pc,
             NEW s, s # "SUCCESSFUL", SetReturnCode(Waiters(q), s)
      PROVE  Abs!EndWaits(Abs!WaitersOf(q), "failed")
  <2>1. Waiters(q) = Abs!WaitersOf(q)
    BY DEF Waiters, Abs!WaitersOf
  <2>2. Waiters(q) \in SUBSET Thread /\ \A t \in Waiters(q) : waitQueue[t] # None
    BY ThreadQueueAssumption DEF Waiters
  <2>3. Abs!EndWaits(Waiters(q), "failed")
    BY <1>7, <2>2, LeaveQueueEndsWaits
  <2> QED BY <2>1, <2>3
<1>8. ASSUME NEW c, NEW q \in Queue, Flush(c, q)
      PROVE  Abs!FailAll(q)
  BY <1>7, <1>8 DEF Flush, Extract, semVars, Abs!FailAll
<1>9. ASSUME NEW t, NEW q \in Queue, Destroy(t, q)
      PROVE  Abs!Delete(q)
  BY <1>7, <1>9 DEF Destroy, Extract, Abs!Delete
<1>10. CASE UNCHANGED vars
  BY <1>1, <1>10 DEF vars, semVars, Abs!semVars
<1>11. CASE Next
  BY <1>2, <1>3, <1>4, <1>5, <1>6, <1>8, <1>9, <1>11, ReturnRefines,
     HandlerRefines, Zenon
  DEF Next, Surrender, Abs!AbsNext
<1> QED BY <1>10, <1>11

\* The semaphore implements CountingSemaphore: a unit is neither lost, invented
\* nor handed out twice, whatever timeout, flush or deletion races with the
\* surrender.
THEOREM Refinement == Spec => ImplementsCountingSemaphore
<1>1. Init => Abs!AbsInit
  BY DEF Init, TQInit, Abs!AbsInit, Outcome
<1>2. RefInv /\ [Next]_vars => [Abs!AbsNext]_(Abs!semVars)
  BY StepRefines
<1> QED BY <1>1, <1>2, RefInvAlways, PTL
    DEF Spec, ImplementsCountingSemaphore, Abs!AbsSpec
==============================================================================
