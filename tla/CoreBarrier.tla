----------------------------- MODULE CoreBarrier -----------------------------
(***************************************************************************)
(* Barriers on top of the thread queue handler: the classic barriers       *)
(* (CORE_barrier_Control, automatic or manual release, waits with a        *)
(* timeout in ticks) and the POSIX barriers (pthread_barrier_t, automatic  *)
(* release, no timeout, a destroy that refuses if threads wait).           *)
(***************************************************************************)
EXTENDS ThreadQueue, BarrierBounds

VARIABLES
  number,  \* number_of_waiting_threads, waiting_threads
  limit,   \* Attributes.maximum_count, 0 for a manual release barrier
  open,    \* the barrier exists
  posix,   \* it is a POSIX barrier, not a classic one
  untimed  \* the threads inside of pthread_barrier_wait()

barrierVars == <<number, limit, open, posix, untimed>>

vars == <<barrierVars, tqVars>>

TypeOK ==
  /\ TQTypeOK
  /\ number \in [Queue -> 0 .. WaitBound]
  /\ limit \in [Queue -> 0 .. MaximumCount]
  /\ open \in [Queue -> BOOLEAN]
  /\ posix \in [Queue -> BOOLEAN]
  /\ untimed \subseteq Thread

Init ==
  /\ TQInit
  /\ number = [q \in Queue |-> 0]
  /\ limit = [q \in Queue |-> 0]
  /\ open = [q \in Queue |-> FALSE]
  /\ posix \in [Queue -> BOOLEAN]
  /\ untimed = {}

\* _CORE_barrier_Initialize(), pthread_barrier_init()
Initialize(q, n) ==
  /\ ~fatal
  /\ ~open[q]
  /\ posix[q] => n # 0
  /\ open' = [open EXCEPT ![q] = TRUE]
  /\ limit' = [limit EXCEPT ![q] = n]
  /\ number' = [number EXCEPT ![q] = 0]
  /\ UNCHANGED <<posix, untimed, tqVars>>

\* Mutant: the executing thread is not counted.
IsLastOffByOne(q) == limit[q] # 0 /\ number[q] = limit[q]

\* This arrival trips the automatic release.
IsLast(q) == limit[q] # 0 /\ number[q] + 1 = limit[q]

\* _CORE_barrier_Do_flush()
OpenBarrier(c, q) ==
  /\ number' = [number EXCEPT ![q] = 0]
  /\ Extract(c, Waiters(q))

\* _CORE_barrier_Seize(), pthread_barrier_wait(): the last thread to arrive
SeizeLast(t, q) ==
  /\ CanCall(t)
  /\ open[q]
  /\ IsLast(q)
  /\ OpenBarrier(t, q)
  /\ UNCHANGED <<returnCode, limit, open, posix, untimed>>

\* _CORE_barrier_Seize(), pthread_barrier_wait(): another thread
SeizeWait(t, q) ==
  /\ CanCall(t)
  /\ open[q]
  /\ ~IsLast(q)
  /\ number[q] < WaitBound
  /\ number' = [number EXCEPT ![q] = @ + 1]
  /\ untimed' = IF posix[q] THEN untimed \cup {t} ELSE untimed
  /\ Enqueue(q, t)
  /\ UNCHANGED <<limit, open, posix>>

\* _CORE_barrier_Surrender(), rtems_barrier_release()
Surrender(c, q) ==
  /\ CanCall(c)
  /\ open[q]
  /\ ~posix[q]
  /\ OpenBarrier(c, q)
  /\ UNCHANGED <<returnCode, limit, open, posix, untimed>>

\* _CORE_barrier_Flush(), rtems_barrier_delete()
Delete(t, q) ==
  /\ CanCall(t)
  /\ open[q]
  /\ ~posix[q]
  /\ open' = [open EXCEPT ![q] = FALSE]
  /\ OpenBarrier(t, q)
  /\ SetReturnCode(Waiters(q), "OBJECT_WAS_DELETED")
  /\ UNCHANGED <<limit, posix, untimed>>

\* Mutant: the waiting threads are not looked at.
DestroyBlindly(t, q) ==
  /\ CanCall(t)
  /\ open[q]
  /\ posix[q]
  /\ open' = [open EXCEPT ![q] = FALSE]
  /\ UNCHANGED <<number, limit, posix, untimed, tqVars>>

\* pthread_barrier_destroy(), EBUSY if a thread waits
Destroy(t, q) ==
  /\ CanCall(t)
  /\ open[q]
  /\ posix[q]
  /\ number[q] = 0
  /\ open' = [open EXCEPT ![q] = FALSE]
  /\ UNCHANGED <<number, limit, posix, untimed, tqVars>>

\* A step of the handler.  A POSIX barrier wait starts no timer.
HandlerStep ==
  /\ TQStep
  /\ \A t \in untimed :
       pc[t] = "callout" => CalloutNoTimeout(t) \/ (pc'[t] = pc[t] /\ ~fatal')
  /\ untimed' = {t \in untimed : pc'[t] # "run"}
  /\ UNCHANGED <<number, limit, open, posix>>

Next ==
  \/ \E q \in Queue, n \in 0 .. MaximumCount : Initialize(q, n)
  \/ \E t \in Thread, q \in Queue : SeizeLast(t, q)
  \/ \E t \in Thread, q \in Queue : SeizeWait(t, q)
  \/ \E c \in Thread \cup Isr, q \in Queue : Surrender(c, q)
  \/ \E t \in Thread, q \in Queue : Delete(t, q)
  \/ \E t \in Thread, q \in Queue : Destroy(t, q)
  \/ HandlerStep

Spec == Init /\ [][Next]_vars

------------------------------------------------------------------------------
\* An automatic barrier opens in time: there are never as many threads on its
\* queue as it was created for, and each of them is counted.
OpensInTime ==
  \A q \in Queue :
    /\ Cardinality(Waiters(q)) <= number[q]
    /\ limit[q] # 0 => Cardinality(Waiters(q)) < limit[q]

\* No thread waits at a barrier that was deleted or destroyed.
NoOrphanedWaiter ==
  \A q \in Queue : ~open[q] => Waiters(q) = {}
==============================================================================
