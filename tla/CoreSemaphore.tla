---------------------------- MODULE CoreSemaphore ----------------------------
(***************************************************************************)
(* Counting semaphores (CORE_semaphore_Control) on top of the thread queue *)
(* handler.  Each semaphore is one thread queue plus a count.              *)
(*                                                                         *)
(* A seize that does not want to wait and finds no unit returns            *)
(* STATUS_UNSATISFIED and changes nothing, so it is no action here; the    *)
(* same holds for a surrender at the maximum count, which returns          *)
(* STATUS_MAXIMUM_COUNT_EXCEEDED.                                          *)
(*                                                                         *)
(* The history variable balance is the account of the callers: the initial *)
(* value, plus the surrenders that reported success, minus the seizes that *)
(* reported success.                                                       *)
(***************************************************************************)
EXTENDS ThreadQueue, Integers

CONSTANT MaximumCount   \* 1 for a binary semaphore, UINT32_MAX in the API

ASSUME CoreSemaphoreAssumption == MaximumCount \in Nat \ {0}

VARIABLES
  count,   \* the_semaphore->count
  open,    \* the semaphore is initialized and was not deleted
  asked,   \* the_semaphore of the seize a thread waits in, or None
  balance  \* history: the units the callers of each semaphore may still seize

semVars == <<count, open, asked, balance>>
vars == <<semVars, tqVars>>

TypeOK ==
  /\ TQTypeOK
  /\ count \in [Queue -> 0 .. MaximumCount]
  /\ open \in [Queue -> BOOLEAN]
  /\ asked \in [Thread -> Queue \cup {None}]
  /\ balance \in [Queue -> Int]

Init ==
  /\ TQInit
  /\ count = [q \in Queue |-> 0]
  /\ open = [q \in Queue |-> FALSE]
  /\ asked = [t \in Thread |-> None]
  /\ balance = [q \in Queue |-> 0]

Book(q, units) == balance' = [balance EXCEPT ![q] = @ + units]

\* _CORE_semaphore_Initialize()
Initialize(q, value) ==
  /\ ~fatal
  /\ ~open[q]
  /\ open' = [open EXCEPT ![q] = TRUE]
  /\ count' = [count EXCEPT ![q] = value]
  /\ Book(q, value)
  /\ UNCHANGED <<asked, tqVars>>

\* _CORE_semaphore_Seize(), a unit is available
SeizeNow(t, q) ==
  /\ CanCall(t)
  /\ open[q]
  /\ count[q] # 0
  /\ count' = [count EXCEPT ![q] = @ - 1]
  /\ Book(q, -1)
  /\ UNCHANGED <<open, asked, tqVars>>

\* _CORE_semaphore_Seize(), willing to wait
SeizeWait(t, q) ==
  /\ CanCall(t)
  /\ open[q]
  /\ count[q] = 0
  /\ Enqueue(q, t)
  /\ asked' = [asked EXCEPT ![t] = q]
  /\ UNCHANGED <<count, open, balance>>

\* _CORE_semaphore_Seize() returns after a wait, with Wait.return_code
SeizeReturn(t) ==
  /\ Return(t)
  /\ asked' = [asked EXCEPT ![t] = None]
  /\ IF returnCode[t] = "SUCCESSFUL" THEN Book(asked[t], -1)
                                     ELSE UNCHANGED balance
  /\ UNCHANGED <<count, open>>

\* _CORE_semaphore_Surrender(), the unit goes to the first waiting thread
SurrenderHandOver(c, q, t) ==
  /\ CanCall(c)
  /\ open[q]
  /\ IsFirst(q, t)
  /\ Extract(c, {t})
  /\ Book(q, 1)
  /\ UNCHANGED <<returnCode, count, open, asked>>

\* Mutant: the queue is not looked at.
SurrenderCountBlindly(c, q) ==
  /\ CanCall(c)
  /\ open[q]
  /\ count[q] < MaximumCount
  /\ count' = [count EXCEPT ![q] = @ + 1]
  /\ Book(q, 1)
  /\ UNCHANGED <<open, asked, tqVars>>

\* _CORE_semaphore_Surrender(), no thread waits
SurrenderCount(c, q) ==
  /\ CanCall(c)
  /\ open[q]
  /\ Waiters(q) = {}
  /\ count[q] < MaximumCount
  /\ count' = [count EXCEPT ![q] = @ + 1]
  /\ Book(q, 1)
  /\ UNCHANGED <<open, asked, tqVars>>

\* rtems_semaphore_flush(): _Thread_queue_Flush_status_unavailable
Flush(c, q) ==
  /\ CanCall(c)
  /\ open[q]
  /\ Extract(c, Waiters(q))
  /\ SetReturnCode(Waiters(q), "UNAVAILABLE")
  /\ UNCHANGED semVars

\* _CORE_semaphore_Destroy(), called by threads only; the units in the count
\* are gone
Destroy(t, q) ==
  /\ CanCall(t)
  /\ open[q]
  /\ open' = [open EXCEPT ![q] = FALSE]
  /\ Extract(t, Waiters(q))
  /\ SetReturnCode(Waiters(q), "OBJECT_WAS_DELETED")
  /\ Book(q, -count[q])
  /\ UNCHANGED <<count, asked>>

Surrender(c, q) ==
  \/ \E t \in Thread : SurrenderHandOver(c, q, t)
  \/ SurrenderCount(c, q)

\* A step of the thread queue handler that is not the return of a call.
HandlerStep ==
  /\ TQStep
  /\ \A t \in Thread : pc[t] # "run" => pc'[t] # "run"
  /\ UNCHANGED semVars

Next ==
  \/ \E q \in Queue, v \in 0 .. MaximumCount : Initialize(q, v)
  \/ \E t \in Thread, q \in Queue : SeizeNow(t, q)
  \/ \E t \in Thread, q \in Queue : SeizeWait(t, q)
  \/ \E c \in Thread \cup Isr, q \in Queue : Surrender(c, q)
  \/ \E c \in Thread \cup Isr, q \in Queue : Flush(c, q)
  \/ \E t \in Thread, q \in Queue : Destroy(t, q)
  \/ \E t \in Thread : SeizeReturn(t)
  \/ HandlerStep

Spec == Init /\ [][Next]_vars

------------------------------------------------------------------------------
\* A unit is never left in the count while a thread waits for it, and a
\* deleted semaphore leaves no thread behind on its queue: surrender hands the
\* unit over, and destroy flushes, before a seize can come in between.
NoUnitWhileWaiting ==
  \A q \in Queue : Waiters(q) # {} => open[q] /\ count[q] = 0

(***************************************************************************)
(* The semaphore implements its abstract specification.  A wait is over    *)
(* when the thread leaves the queue; its outcome is the return code.       *)
(***************************************************************************)
Outcome(t) ==
  IF pc[t] = "run" \/ waitQueue[t] # None THEN "none"
  ELSE IF returnCode[t] = "SUCCESSFUL" THEN "granted" ELSE "failed"

Abs == INSTANCE CountingSemaphore
         WITH Semaphore <- Queue,
              waitingFor <- waitQueue,
              outcome <- [t \in Thread |-> Outcome(t)]

\* A unit is neither lost, invented nor handed out twice, also when a timeout,
\* a flush or the deletion races with the surrender: every surrender that
\* reports success adds one unit to the count or ends exactly one wait with
\* success, and no wait ends with success without one.
ImplementsCountingSemaphore == Abs!AbsSpec
==============================================================================
