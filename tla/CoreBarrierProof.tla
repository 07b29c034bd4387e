--------------------------- MODULE CoreBarrierProof ---------------------------
(***************************************************************************)
(* Barriers open in time, and are not destroyed under their waiting        *)
(* threads, for every number of threads, interrupts, clocks and barriers.  *)
(***************************************************************************)
EXTENDS CoreBarrier, ThreadQueueProof, FiniteSetTheorems

(***************************************************************************)
(* The counter is an upper bound of the threads on the queue: a timeout    *)
(* takes a thread off the queue and leaves the counter alone.  A closed    *)
(* barrier has nobody on its queue, so that its next counter starts right. *)
(***************************************************************************)
CountInv ==
  \A q \in Queue :
    /\ Cardinality(Waiters(q)) <= number[q]
    /\ limit[q] # 0 => number[q] < limit[q]

BarrierInv == WaitInv /\ TypeOK /\ NoOrphanedWaiter /\ CountInv

\* Before the first barrier exists nobody waits and nobody counts.
LEMMA BarrierInvInit == Init => BarrierInv
<1> SUFFICES ASSUME Init PROVE BarrierInv
  OBVIOUS
<1>1. \A q \in Queue : Waiters(q) = {}
  BY ThreadQueueAssumption DEF Init, TQInit, Waiters
<1>2. WaitInv
  BY TQInitInv DEF Init
<1> QED BY <1>1, <1>2, FS_EmptySet, CoreBarrierAssumption
    DEF Init, BarrierInv, TypeOK, WaitInv, NoOrphanedWaiter, CountInv

\* What a step of the barrier is to the thread queue handler.
LEMMA StepKinds ==
  ASSUME WaitInv, Next
  PROVE  \/ UNCHANGED tqVars
         \/ TQStep
         \/ \E t \in Thread, q \in Queue : CanCall(t) /\ Enqueue(q, t)
         \/ \E c \in Context, S \in SUBSET Thread :
              /\ CanCall(c)
              /\ \A t \in S : waitQueue[t] # None
              /\ Extract(c, S)
              /\ returnCode' \in [Thread -> Status]
<1>1. \A q \in Queue : /\ Waiters(q) \in SUBSET Thread
                       /\ \A t \in Waiters(q) : waitQueue[t] # None
  BY ThreadQueueAssumption DEF Waiters
<1>2. \A q \in Queue, s \in Status :
        SetReturnCode(Waiters(q), s) => returnCode' \in [Thread -> Status]
  BY DEF SetReturnCode, WaitInv, TQTypeOK
<1>3. "OBJECT_WAS_DELETED" \in Status
  BY DEF Status
<1>4. CASE \E q \in Queue, n \in 0 .. MaximumCount : Initialize(q, n)
  BY <1>4 DEF Initialize
<1>5. CASE \E t \in Thread, q \in Queue : SeizeLast(t, q)
  BY <1>1, <1>5 DEF SeizeLast, OpenBarrier, Context, WaitInv, TQTypeOK
<1>6. CASE \E t \in Thread, q \in Queue : SeizeWait(t, q)
  BY <1>6 DEF SeizeWait
<1>7. CASE \E c \in Thread \cup Isr, q \in Queue : Surrender(c, q)
  BY <1>1, <1>7 DEF Surrender, OpenBarrier, Context, WaitInv, TQTypeOK
<1>8. CASE \E t \in Thread, q \in Queue : Delete(t, q)
  BY <1>1, <1>2, <1>3, <1>8 DEF Delete, OpenBarrier, Context
<1>9. CASE \E t \in Thread, q \in Queue : Destroy(t, q)
  BY <1>9 DEF Destroy
<1>10. CASE HandlerStep
  BY <1>10 DEF HandlerStep
<1> QED BY <1>4, <1>5, <1>6, <1>7, <1>8, <1>9, <1>10 DEF Next

\* Every barrier operation keeps the invariant of the wait protocol.
LEMMA WaitInvStep == WaitInv /\ [Next]_vars => WaitInv'
<1> SUFFICES ASSUME WaitInv, [Next]_vars PROVE WaitInv'
  OBVIOUS
<1>1. CASE Next
  BY <1>1, StepKinds, TQStutterInv, TQStepInv, EnqueueInv, ExtractInv
<1>2. CASE UNCHANGED vars
  BY <1>2, TQStutterInv DEF vars
<1> QED BY <1>1, <1>2

\* A queue holds finitely many threads.
LEMMA WaitersFinite ==
  ASSUME NEW q \in Queue
  PROVE  IsFiniteSet(Waiters(q)) /\ Cardinality(Waiters(q)) \in Nat
<1>1. Waiters(q) \in SUBSET Thread
  BY DEF Waiters
<1> QED BY <1>1, FS_Subset, FS_CardinalityType, ThreadQueueAssumption

\* The handler's own steps take threads off the queue of a barrier and leave
\* the barrier alone.
LEMMA HandlerCount ==
  ASSUME BarrierInv, UNCHANGED <<number, limit, open>>,
         \A q \in Queue : Waiters(q)' \subseteq Waiters(q)
  PROVE  NoOrphanedWaiter' /\ CountInv'
<1>1. \A q \in Queue : Cardinality(Waiters(q)') <= Cardinality(Waiters(q))
  BY WaitersFinite, FS_Subset
<1>2. \A q \in Queue : Cardinality(Waiters(q)') \in Nat
  BY WaitersFinite, FS_Subset, FS_CardinalityType
<1> QED BY <1>1, <1>2, WaitersFinite, CoreBarrierAssumption
    DEF BarrierInv, TypeOK, NoOrphanedWaiter, CountInv

\* Opening a barrier empties its queue and resets its counter.
LEMMA OpenCount ==
  ASSUME BarrierInv, NEW c, NEW q \in Queue, OpenBarrier(c, q), UNCHANGED limit,
         \A r \in Queue \ {q} : open'[r] = open[r]
  PROVE  NoOrphanedWaiter' /\ CountInv'
<1>1. Waiters(q)' = {}
  BY LeaveQueueWaiters DEF OpenBarrier, Extract
<1>2. \A r \in Queue \ {q} : Waiters(r)' = Waiters(r)
  <2> SUFFICES ASSUME NEW r \in Queue \ {q} PROVE Waiters(r)' = Waiters(r)
    OBVIOUS
  <2>1. Waiters(r)' = Waiters(r) \ Waiters(q)
    BY LeaveQueueWaiters DEF OpenBarrier, Extract
  <2> QED BY <2>1 DEF Waiters
<1>3. number'[q] = 0 /\ \A r \in Queue \ {q} : number'[r] = number[r]
  BY DEF OpenBarrier, BarrierInv, TypeOK
<1>4. NoOrphanedWaiter'
  BY <1>1, <1>2 DEF BarrierInv, NoOrphanedWaiter
<1>5. Cardinality(Waiters(q)') = 0 /\ limit[q] \in Nat
  BY <1>1, FS_EmptySet, CoreBarrierAssumption DEF BarrierInv, TypeOK
<1>6. CountInv'
  BY <1>2, <1>3, <1>5 DEF BarrierInv, CountInv
<1> QED BY <1>4, <1>6

\* Every step keeps the invariant: the counter is at least the number of
\* waiting threads, and below the maximum on an automatic barrier.
LEMMA BarrierInvStep == BarrierInv /\ [Next]_vars => BarrierInv'
<1> SUFFICES ASSUME BarrierInv, [Next]_vars
             PROVE  TypeOK' /\ NoOrphanedWaiter' /\ CountInv'
  BY WaitInvStep DEF BarrierInv
<1>1. TQTypeOK' /\ WaitInv
  BY WaitInvStep DEF BarrierInv, WaitInv
<1>2. TypeOK /\ NoOrphanedWaiter /\ CountInv
  BY DEF BarrierInv
<1>3. CASE \E q \in Queue, n \in 0 .. MaximumCount : Initialize(q, n)
  <2>1. PICK q \in Queue, n \in 0 .. MaximumCount : Initialize(q, n)
    BY <1>3
  <2>2. \A r \in Queue : Waiters(r)' = Waiters(r)
    BY <2>1 DEF Initialize, tqVars, Waiters
  <2>3. Waiters(q) = {}
    BY <1>2, <2>1 DEF Initialize, NoOrphanedWaiter
  <2>4. TypeOK'
    BY <1>1, <1>2, <2>1, CoreBarrierAssumption DEF Initialize, TypeOK
  <2>5. NoOrphanedWaiter'
    BY <1>2, <2>1, <2>2, <2>3 DEF Initialize, TypeOK, NoOrphanedWaiter
  <2>6. Cardinality(Waiters(q)') = 0
    BY <2>2, <2>3, FS_EmptySet
  <2>7. /\ number'[q] = 0 /\ limit'[q] = n
        /\ \A r \in Queue \ {q} : number'[r] = number[r] /\ limit'[r] = limit[r]
    BY <1>2, <2>1 DEF Initialize, TypeOK
  <2>8. CountInv'
    BY <1>2, <2>2, <2>6, <2>7 DEF CountInv
  <2> QED BY <2>4, <2>5, <2>8
<1>4. CASE \E t \in Thread, q \in Queue : SeizeLast(t, q)
  <2>1. PICK t \in Thread, q \in Queue : SeizeLast(t, q)
    BY <1>4
  <2>2. TypeOK'
    BY <1>1, <1>2, <2>1, CoreBarrierAssumption DEF SeizeLast, OpenBarrier, TypeOK
  <2>3. UNCHANGED limit /\ OpenBarrier(t, q) /\ \A r \in Queue \ {q} : open'[r] = open[r]
    BY <1>2, <2>1 DEF SeizeLast, TypeOK
  <2> QED BY <2>2, <2>3, OpenCount
<1>5. CASE \E t \in Thread, q \in Queue : SeizeWait(t, q)
  <2>1. PICK t \in Thread, q \in Queue : SeizeWait(t, q)
    BY <1>5
  <2>2. /\ Waiters(q)' = Waiters(q) \cup {t} /\ t \notin Waiters(q)
        /\ \A r \in Queue \ {q} : Waiters(r)' = Waiters(r)
    BY <1>1, <2>1, EnqueueWaiters DEF SeizeWait
  <2>3. Cardinality(Waiters(q)') = Cardinality(Waiters(q)) + 1
    BY Zenon, <2>2, WaitersFinite, FS_AddElement
  <2>4. TypeOK'
    BY <1>1, <1>2, <2>1, CoreBarrierAssumption DEF SeizeWait, TypeOK
  <2>5. NoOrphanedWaiter'
    BY <1>2, <2>1, <2>2 DEF SeizeWait, NoOrphanedWaiter
  <2>6. /\ number'[q] = number[q] + 1 /\ UNCHANGED limit
        /\ \A r \in Queue \ {q} : number'[r] = number[r]
        /\ limit[q] # 0 => number[q] + 1 # limit[q]
    BY <1>2, <2>1 DEF SeizeWait, IsLast, TypeOK
  <2>7. number[q] \in Nat /\ limit[q] \in Nat /\ Cardinality(Waiters(q)) \in Nat
    BY <1>2, WaitersFinite, CoreBarrierAssumption DEF TypeOK
  <2>8. /\ Cardinality(Waiters(q)') <= number'[q]
        /\ limit'[q] # 0 => number'[q] < limit'[q]
    BY <1>2, <2>3, <2>6, <2>7 DEF CountInv
  <2>9. \A r \in Queue \ {q} :
          /\ Cardinality(Waiters(r)') <= number'[r]
          /\ limit'[r] # 0 => number'[r] < limit'[r]
    BY <1>2, <2>2, <2>6 DEF CountInv
  <2>10. CountInv'
    BY <2>8, <2>9 DEF CountInv
  <2> QED BY <2>4, <2>5, <2>10
<1>6. CASE \E c \in Thread \cup Isr, q \in Queue : Surrender(c, q)
  <2>1. PICK c \in Thread \cup Isr, q \in Queue : Surrender(c, q)
    BY <1>6
  <2>2. TypeOK'
    BY <1>1, <1>2, <2>1, CoreBarrierAssumption DEF Surrender, OpenBarrier, TypeOK
  <2>3. UNCHANGED limit /\ OpenBarrier(c, q) /\ \A r \in Queue \ {q} : open'[r] = open[r]
    BY <1>2, <2>1 DEF Surrender, TypeOK
  <2> QED BY <2>2, <2>3, OpenCount
<1>7. CASE \E t \in Thread, q \in Queue : Delete(t, q)
  <2>1. PICK t \in Thread, q \in Queue : Delete(t, q)
    BY <1>7
  <2>2. TypeOK'
    BY <1>1, <1>2, <2>1, CoreBarrierAssumption DEF Delete, OpenBarrier, TypeOK
  <2>3. UNCHANGED limit /\ OpenBarrier(t, q) /\ \A r \in Queue \ {q} : open'[r] = open[r]
    BY <1>2, <2>1 DEF Delete, TypeOK
  <2> QED BY <2>2, <2>3, OpenCount
<1>8. CASE \E t \in Thread, q \in Queue : Destroy(t, q)
  <2>1. PICK t \in Thread, q \in Queue : Destroy(t, q)
    BY <1>8
  <2>2. \A r \in Queue : Waiters(r)' = Waiters(r)
    BY <2>1 DEF Destroy, tqVars, Waiters
  <2>3. Waiters(q) = {}
    <3>1. Cardinality(Waiters(q)) = 0
      BY <1>2, <2>1, WaitersFinite DEF Destroy, CountInv
    <3> QED BY <3>1, WaitersFinite, FS_EmptySet
  <2> QED BY <1>1, <1>2, <2>1, <2>2, <2>3
      DEF Destroy, TypeOK, NoOrphanedWaiter, CountInv
<1>9. CASE HandlerStep
  <2>1. \A q \in Queue : Waiters(q)' \subseteq Waiters(q)
    BY <1>1, <1>9, TQStepWaiters DEF HandlerStep
  <2>2. TypeOK'
    BY <1>1, <1>2, <1>9 DEF HandlerStep, TypeOK
  <2> QED BY <1>9, <2>1, <2>2, HandlerCount DEF HandlerStep
<1>10. CASE UNCHANGED vars
  BY <1>1, <1>2, <1>10
  DEF vars, barrierVars, tqVars, Waiters, TypeOK, NoOrphanedWaiter, CountInv
<1> QED BY <1>3, <1>4, <1>5, <1>6, <1>7, <1>8, <1>9, <1>10 DEF Next

\* An automatic barrier never has as many threads on its queue as it was
\* created for: _CORE_barrier_Seize() opens it in time, although nobody takes
\* a thread that timed out off the counter.
THEOREM BarrierOpensInTime == Spec => []OpensInTime
<1>1. BarrierInv => OpensInTime
  BY WaitersFinite, CoreBarrierAssumption
  DEF BarrierInv, TypeOK, CountInv, OpensInTime
<1> QED BY <1>1, BarrierInvInit, BarrierInvStep, PTL DEF Spec

\* No thread is left on the queue of a barrier that was deleted or destroyed:
\* the count pthread_barrier_destroy() looks at is 0 only if nobody waits.
THEOREM NobodyOrphaned == Spec => []NoOrphanedWaiter
<1>1. BarrierInv => NoOrphanedWaiter
  BY DEF BarrierInv
<1> QED BY <1>1, BarrierInvInit, BarrierInvStep, PTL DEF Spec
===============================================================================
