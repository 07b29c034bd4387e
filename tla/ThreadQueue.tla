----------------------------- MODULE ThreadQueue -----------------------------
(***************************************************************************)
(* The thread queue handler of the SuperCore: how a thread blocks on a     *)
(* synchronization object and how it is made ready again.                  *)
(*                                                                         *)
(* _Thread_queue_Enqueue() puts the executing thread on the queue under    *)
(* the queue lock, releases the lock, and only then starts the timeout     *)
(* watchdog, sets the blocking thread state and commits with a compare and *)
(* swap of the thread wait flags.  In that window an interrupt, another    *)
(* processor or the clock tick may already end the wait; the wait flags    *)
(* decide who undoes what.  One action below is one critical section (or   *)
(* one atomic operation) of the code; everything between two of them can   *)
(* interleave with every other context.                                    *)
(*                                                                         *)
(* A context is a thread, a device interrupt, or the clock tick interrupt  *)
(* of a processor.  The synchronization objects (CoreSemaphore,            *)
(* CoreBarrier, ...) extend this module: they add the object's own state   *)
(* and use Enqueue, Extract and the steps defined here.                    *)
(***************************************************************************)
EXTENDS Naturals, FiniteSets

CONSTANTS
  Thread,     \* the threads (Thread_Control)
  Isr,        \* device interrupts: they may surrender and flush, never wait
  Clock,      \* clock tick interrupts, one per processor: _Watchdog_Tick()
  Queue,      \* the thread queues (Thread_queue_Queue), one per object
  None,       \* NULL
  Smp,        \* TRUE if RTEMS_SMP is defined
  Timespec,   \* TRUE if waits may have absolute timeouts (struct timespec)
  Fifo,       \* TRUE: _Thread_queue_Operations_FIFO, FALSE: ..._priority
  Priority    \* the (constant) priority of a thread, smaller is more urgent

ASSUME ThreadQueueAssumption ==
  /\ IsFiniteSet(Thread)
  /\ Thread \cap (Isr \cup Clock) = {}
  /\ Isr \cap Clock = {}
  /\ None \notin Thread \cup Isr \cup Clock \cup Queue
  /\ Smp \in BOOLEAN
  /\ Fifo \in BOOLEAN
  /\ Timespec \in BOOLEAN
  /\ Priority \in [Thread -> Nat]

Context == Thread \cup Isr \cup Clock

VARIABLES
  pc,          \* where each thread is in _Thread_queue_Enqueue()
  waitQueue,   \* Wait.queue: the queue the thread is enqueued on, or None
  ahead,       \* the threads in front of it on that queue
  waitFlags,   \* Wait.flags, the THREAD_WAIT_STATE_* part
  returnCode,  \* Wait.return_code
  blocked,     \* current_state has the blocking state set
  timer,       \* Timer.Watchdog: the clock that has it scheduled, or None
  firing,      \* for each clock, the thread whose _Thread_Timeout() it will
               \* call: the watchdog is extracted and the lock released
  cleanup,     \* threads a context has still to remove the timer of ...
  wake,        \* ... and to unblock after that
  fatal        \* an _Assert() of a RTEMS_DEBUG build failed

tqVars == <<pc, waitQueue, ahead, waitFlags, returnCode, blocked, timer,
            firing, cleanup, wake, fatal>>

(***************************************************************************)
(* Locations of a thread.  At "run" it executes outside of                 *)
(* _Thread_queue_Enqueue(); at "dispatch" it is in                         *)
(* _Thread_Dispatch_direct() and returns once it is not blocked any more;  *)
(* in between thread dispatching is disabled and it keeps its processor.   *)
(***************************************************************************)
Blocking == {"callout", "set_state", "try_block", "remove_timer", "unblock"}
Location == {"run", "dispatch"} \cup Blocking

\* THREAD_WAIT_FLAGS_INITIAL is "INITIAL"
WaitFlags == {"INITIAL", "INTEND_TO_BLOCK", "BLOCKED", "READY_AGAIN"}

Status == {"SUCCESSFUL", "TIMEOUT", "INVALID_NUMBER", "UNAVAILABLE",
           "OBJECT_WAS_DELETED"}

TQTypeOK ==
  /\ pc \in [Thread -> Location]
  /\ waitQueue \in [Thread -> Queue \cup {None}]
  /\ ahead \in [Thread -> SUBSET Thread]
  /\ waitFlags \in [Thread -> WaitFlags]
  /\ returnCode \in [Thread -> Status]
  /\ blocked \in [Thread -> BOOLEAN]
  /\ timer \in [Thread -> Clock \cup {None}]
  /\ firing \in [Clock -> Thread \cup {None}]
  /\ cleanup \in [Context -> SUBSET Thread]
  /\ wake \in [Context -> SUBSET Thread]
  /\ fatal \in BOOLEAN

TQInit ==
  /\ pc = [t \in Thread |-> "run"]
  /\ waitQueue = [t \in Thread |-> None]
  /\ ahead = [t \in Thread |-> {}]
  /\ waitFlags = [t \in Thread |-> "INITIAL"]
  /\ returnCode = [t \in Thread |-> "SUCCESSFUL"]
  /\ blocked = [t \in Thread |-> FALSE]
  /\ timer = [t \in Thread |-> None]
  /\ firing = [k \in Clock |-> None]
  /\ cleanup = [c \in Context |-> {}]
  /\ wake = [c \in Context |-> {}]
  /\ fatal = FALSE

(***************************************************************************)
(* Who can execute.  On an SMP configuration contexts execute in parallel. *)
(* On a uniprocessor no thread executes while an interrupt is served or    *)
(* while another thread has thread dispatching disabled.                   *)
(***************************************************************************)
HasWork(c) == cleanup[c] \cup wake[c] # {}

Serving(c) == HasWork(c) \/ (c \in Clock /\ firing[c] # None)

DispatchDisabled(t) == pc[t] \in Blocking \/ HasWork(t)

HasProcessor(c) ==
  \/ Smp
  \/ c \notin Thread
  \/ /\ \A i \in Isr \cup Clock : ~Serving(i)
     /\ \A u \in Thread \ {c} : ~DispatchDisabled(u)

\* The context may start an operation on an object.
CanCall(c) ==
  /\ ~fatal
  /\ HasProcessor(c)
  /\ ~Serving(c)
  /\ c \in Thread => pc[c] = "run"

\* The thread may do its next step inside of _Thread_queue_Enqueue().
CanStep(t, location) ==
  /\ ~fatal
  /\ HasProcessor(t)
  /\ pc[t] = location

------------------------------------------------------------------------------
(***************************************************************************)
(* The queue discipline.  The chain or tree of waiting threads is the      *)
(* relation ahead.                                                         *)
(***************************************************************************)
Waiters(q) == {t \in Thread : waitQueue[t] = q}

\* An enqueued thread u stays in front of a newly enqueued thread t.
StaysAhead(u, t) == Fifo \/ Priority[u] <= Priority[t]

IsFirst(q, t) == waitQueue[t] = q /\ ahead[t] = {}

AheadAfterEnqueue(q, t) ==
  [u \in Thread |->
     IF u = t THEN {w \in Waiters(q) : StaysAhead(w, t)}
     ELSE IF waitQueue[u] = q /\ ~StaysAhead(u, t) THEN ahead[u] \cup {t}
     ELSE ahead[u]]

\* Mutant: the extracted threads stay in front of the others.
AheadAfterExtractKept(S) ==
  [u \in Thread |-> IF u \in S THEN {} ELSE ahead[u]]

AheadAfterExtract(S) ==
  [u \in Thread |-> IF u \in S THEN {} ELSE ahead[u] \ S]

(***************************************************************************)
(* _Thread_queue_Enqueue() up to the release of the queue lock.            *)
(***************************************************************************)
Enqueue(q, t) ==
  /\ waitQueue' = [waitQueue EXCEPT ![t] = q]
  /\ ahead' = AheadAfterEnqueue(q, t)
  /\ returnCode' = [returnCode EXCEPT ![t] = "SUCCESSFUL"]
  /\ waitFlags' = [waitFlags EXCEPT ![t] = "INTEND_TO_BLOCK"]
  /\ pc' = [pc EXCEPT ![t] = "callout"]
  /\ UNCHANGED <<blocked, timer, firing, cleanup, wake, fatal>>

(***************************************************************************)
(* The threads S leave their queue under the queue lock, with the wait     *)
(* flags changed by _Thread_queue_Make_ready_again() or                    *)
(* _Thread_Continue().  A thread that did not commit yet undoes its        *)
(* blocking itself.                                                        *)
(***************************************************************************)
LeaveQueue(S) ==
  /\ waitQueue' = [t \in Thread |-> IF t \in S THEN None ELSE waitQueue[t]]
  /\ ahead' = AheadAfterExtract(S)
  /\ waitFlags' = [t \in Thread |-> IF t \in S THEN "READY_AGAIN"
                                               ELSE waitFlags[t]]

MustUnblock(S) == {t \in S : waitFlags[t] # "INTEND_TO_BLOCK"}

(***************************************************************************)
(* Context c extracts the threads S: _Thread_queue_Extract_critical() for  *)
(* one thread, _Thread_queue_Flush_critical() for several.  The filter of  *)
(* a flush may set the return code.  The threads that already blocked are  *)
(* left to _Thread_Remove_timer_and_unblock() after the lock release.      *)
(***************************************************************************)
Extract(c, S) ==
  /\ LeaveQueue(S)
  /\ cleanup' = [cleanup EXCEPT ![c] = MustUnblock(S)]
  /\ UNCHANGED <<pc, blocked, timer, firing, wake, fatal>>

SetReturnCode(S, status) ==
  returnCode' = [t \in Thread |-> IF t \in S THEN status ELSE returnCode[t]]

------------------------------------------------------------------------------
(***************************************************************************)
(* The rest of _Thread_queue_Enqueue(), without the queue lock.            *)
(***************************************************************************)

\* WATCHDOG_NO_TIMEOUT, or _Thread_queue_Enqueue_do_nothing_extra()
CalloutNoTimeout(t) ==
  /\ CanStep(t, "callout")
  /\ pc' = [pc EXCEPT ![t] = "set_state"]
  /\ UNCHANGED <<waitQueue, ahead, waitFlags, returnCode, blocked, timer,
                 firing, cleanup, wake, fatal>>

\* The timeout lies in the future: insert the watchdog.  _Watchdog_Insert()
\* asserts that it is inactive.
CalloutInsert(t, k) ==
  /\ CanStep(t, "callout")
  /\ IF timer[t] = None
       THEN /\ timer' = [timer EXCEPT ![t] = k]
            /\ pc' = [pc EXCEPT ![t] = "set_state"]
            /\ UNCHANGED fatal
       ELSE /\ fatal' = TRUE
            /\ UNCHANGED <<timer, pc>>
  /\ UNCHANGED <<waitQueue, ahead, waitFlags, returnCode, blocked, firing,
                 cleanup, wake>>

\* An absolute timeout in the past or invalid: the thread calls
\* _Thread_Continue() on itself.  It finds the wait flags in the intend to
\* block state, or the wait already ended.
CalloutExpired(t, status) ==
  /\ CanStep(t, "callout")
  /\ status \in {"TIMEOUT", "INVALID_NUMBER"}
  /\ pc' = [pc EXCEPT ![t] = "set_state"]
  /\ IF waitFlags[t] # "READY_AGAIN"
       THEN LeaveQueue({t}) /\ SetReturnCode({t}, status)
       ELSE UNCHANGED <<waitQueue, ahead, waitFlags, returnCode>>
  /\ UNCHANGED <<blocked, timer, firing, cleanup, wake, fatal>>

\* _Thread_Set_state( the_thread, queue_context->thread_state )
SetState(t) ==
  /\ CanStep(t, "set_state")
  /\ blocked' = [blocked EXCEPT ![t] = TRUE]
  /\ pc' = [pc EXCEPT ![t] = "try_block"]
  /\ UNCHANGED <<waitQueue, ahead, waitFlags, returnCode, timer, firing,
                 cleanup, wake, fatal>>

\* Mutant: a store instead of the compare and swap.
TryBlockStore(t) ==
  /\ CanStep(t, "try_block")
  /\ waitFlags' = [waitFlags EXCEPT ![t] = "BLOCKED"]
  /\ pc' = [pc EXCEPT ![t] = "dispatch"]
  /\ UNCHANGED <<waitQueue, ahead, returnCode, blocked, timer, firing,
                 cleanup, wake, fatal>>

\* _Thread_Wait_flags_try_change_acquire( INTEND_TO_BLOCK, BLOCKED )
TryBlock(t) ==
  /\ CanStep(t, "try_block")
  /\ IF waitFlags[t] = "INTEND_TO_BLOCK"
       THEN /\ waitFlags' = [waitFlags EXCEPT ![t] = "BLOCKED"]
            /\ pc' = [pc EXCEPT ![t] = "dispatch"]
       ELSE /\ pc' = [pc EXCEPT ![t] = "remove_timer"]
            /\ UNCHANGED waitFlags
  /\ UNCHANGED <<waitQueue, ahead, returnCode, blocked, timer, firing,
                 cleanup, wake, fatal>>

\* Mutant: _Thread_Unblock() only.
RemoveOwnTimerForgotten(t) ==
  /\ CanStep(t, "remove_timer")
  /\ pc' = [pc EXCEPT ![t] = "unblock"]
  /\ UNCHANGED <<waitQueue, ahead, waitFlags, returnCode, blocked, timer,
                 firing, cleanup, wake, fatal>>

\* _Thread_Remove_timer_and_unblock( the_thread, queue ) on itself
RemoveOwnTimer(t) ==
  /\ CanStep(t, "remove_timer")
  /\ timer' = [timer EXCEPT ![t] = None]
  /\ pc' = [pc EXCEPT ![t] = "unblock"]
  /\ UNCHANGED <<waitQueue, ahead, waitFlags, returnCode, blocked, firing,
                 cleanup, wake, fatal>>

UnblockSelf(t) ==
  /\ CanStep(t, "unblock")
  /\ blocked' = [blocked EXCEPT ![t] = FALSE]
  /\ pc' = [pc EXCEPT ![t] = "dispatch"]
  /\ UNCHANGED <<waitQueue, ahead, waitFlags, returnCode, timer, firing,
                 cleanup, wake, fatal>>

\* _Thread_Dispatch_direct() returns when the scheduler gave the thread a
\* processor again, and the operation returns Wait.return_code.
Return(t) ==
  /\ CanStep(t, "dispatch")
  /\ ~blocked[t]
  /\ pc' = [pc EXCEPT ![t] = "run"]
  /\ UNCHANGED <<waitQueue, ahead, waitFlags, returnCode, blocked, timer,
                 firing, cleanup, wake, fatal>>

EnqueueStep(t) ==
  \/ CalloutNoTimeout(t)
  \/ \E k \in Clock : CalloutInsert(t, k)
  \/ Timespec /\ \E s \in Status : CalloutExpired(t, s)
  \/ SetState(t)
  \/ TryBlock(t)
  \/ RemoveOwnTimer(t)
  \/ UnblockSelf(t)
  \/ Return(t)

------------------------------------------------------------------------------
(***************************************************************************)
(* _Thread_Remove_timer_and_unblock( t ) by the context that extracted t.  *)
(***************************************************************************)
RemoveTimer(c, t) ==
  /\ ~fatal
  /\ HasProcessor(c)
  /\ t \in cleanup[c]
  /\ wake[c] = {}
  /\ timer' = [timer EXCEPT ![t] = None]
  /\ cleanup' = [cleanup EXCEPT ![c] = @ \ {t}]
  /\ wake' = [wake EXCEPT ![c] = {t}]
  /\ UNCHANGED <<pc, waitQueue, ahead, waitFlags, returnCode, blocked, firing,
                 fatal>>

\* _Thread_Unblock( t )
Unblock(c, t) ==
  /\ ~fatal
  /\ HasProcessor(c)
  /\ t \in wake[c]
  /\ blocked' = [blocked EXCEPT ![t] = FALSE]
  /\ wake' = [wake EXCEPT ![c] = @ \ {t}]
  /\ UNCHANGED <<pc, waitQueue, ahead, waitFlags, returnCode, timer, firing,
                 cleanup, fatal>>

WakeStep(c) == \E t \in Thread : RemoveTimer(c, t) \/ Unblock(c, t)

------------------------------------------------------------------------------
(***************************************************************************)
(* The clock tick: _Watchdog_Do_tickle() extracts an expired watchdog,     *)
(* releases the watchdog lock, and calls the routine.                      *)
(***************************************************************************)
Expire(k, t) ==
  /\ ~fatal
  /\ ~Serving(k)
  /\ timer[t] = k
  /\ timer' = [timer EXCEPT ![t] = None]
  /\ firing' = [firing EXCEPT ![k] = t]
  /\ UNCHANGED <<pc, waitQueue, ahead, waitFlags, returnCode, blocked, cleanup,
                 wake, fatal>>

\* Mutant: the wait flags are not looked at.
TimeoutUnconditional(k) ==
  LET t == firing[k] IN
  /\ ~fatal
  /\ t # None
  /\ firing' = [firing EXCEPT ![k] = None]
  /\ LeaveQueue({t})
  /\ SetReturnCode({t}, "TIMEOUT")
  /\ wake' = [wake EXCEPT ![k] = MustUnblock({t})]
  /\ UNCHANGED <<pc, blocked, timer, cleanup, fatal>>

\* Mutant: the return code is set although the wait already ended.
TimeoutSetsCode(k) ==
  LET t == firing[k] IN
  /\ ~fatal
  /\ t # None
  /\ firing' = [firing EXCEPT ![k] = None]
  /\ SetReturnCode({t}, "TIMEOUT")
  /\ IF waitFlags[t] # "READY_AGAIN"
       THEN LeaveQueue({t}) /\ wake' = [wake EXCEPT ![k] = MustUnblock({t})]
       ELSE UNCHANGED <<waitQueue, ahead, waitFlags, wake>>
  /\ UNCHANGED <<pc, blocked, timer, cleanup, fatal>>

\* Mutant: the return code is left as the enqueue set it.
TimeoutWithoutCode(k) ==
  LET t == firing[k] IN
  /\ ~fatal
  /\ t # None
  /\ firing' = [firing EXCEPT ![k] = None]
  /\ IF waitFlags[t] # "READY_AGAIN"
       THEN LeaveQueue({t}) /\ wake' = [wake EXCEPT ![k] = MustUnblock({t})]
       ELSE UNCHANGED <<waitQueue, ahead, waitFlags, wake>>
  /\ UNCHANGED <<pc, returnCode, blocked, timer, cleanup, fatal>>

\* Mutant: only a thread that already blocked is continued.
TimeoutOnlyBlocked(k) ==
  LET t == firing[k] IN
  /\ ~fatal
  /\ t # None
  /\ firing' = [firing EXCEPT ![k] = None]
  /\ IF waitFlags[t] = "BLOCKED"
       THEN /\ LeaveQueue({t})
            /\ SetReturnCode({t}, "TIMEOUT")
            /\ wake' = [wake EXCEPT ![k] = {t}]
       ELSE UNCHANGED <<waitQueue, ahead, waitFlags, returnCode, wake>>
  /\ UNCHANGED <<pc, blocked, timer, cleanup, fatal>>

\* _Thread_Timeout(): _Thread_Continue( the_thread, STATUS_TIMEOUT ).  It
\* does not touch the timer, which just expired.
Timeout(k) ==
  LET t == firing[k] IN
  /\ ~fatal
  /\ t # None
  /\ firing' = [firing EXCEPT ![k] = None]
  /\ IF waitFlags[t] # "READY_AGAIN"
       THEN /\ LeaveQueue({t})
            /\ SetReturnCode({t}, "TIMEOUT")
            /\ wake' = [wake EXCEPT ![k] = MustUnblock({t})]
       ELSE UNCHANGED <<waitQueue, ahead, waitFlags, returnCode, wake>>
  /\ UNCHANGED <<pc, blocked, timer, cleanup, fatal>>

ClockStep(k) == Timeout(k) \/ \E t \in Thread : Expire(k, t)

TQStep ==
  \/ \E t \in Thread : EnqueueStep(t)
  \/ \E c \in Context : WakeStep(c)
  \/ \E k \in Clock : ClockStep(k)
------------------------------------------------------------------------------
(***************************************************************************)
(* Properties of the protocol.                                             *)
(***************************************************************************)

\* The contexts that still have to make t ready.
Wakers(t) == {c \in Context : t \in cleanup[c] \cup wake[c]}

\* No lost wake-up, whatever the interleaving of the blocking thread with the
\* parties that end its wait: a thread that has committed its blocking and was
\* taken off its queue is known to a context that will unblock it
\* (_Thread_queue_Unblock_critical(), _Thread_queue_Flush_critical(),
\* _Thread_Continue()).
NoLostWakeup ==
  \A t \in Thread :
    pc[t] = "dispatch" /\ blocked[t] /\ waitQueue[t] = None => Wakers(t) # {}

\* No stray wake-up: whoever is about to call _Thread_Unblock() for t is the
\* only one, and t still is in the blocked state of the wait that was ended;
\* it can neither have returned nor have started another wait.
NoStrayWakeup ==
  \A t \in Thread : \A c \in Wakers(t) :
    /\ pc[t] = "dispatch" /\ blocked[t] /\ waitQueue[t] = None
    /\ Wakers(t) = {c}
    /\ t \notin cleanup[c] \cap wake[c]

\* The wait flags agree with the queue: _Thread_queue_Make_ready_again() and
\* _Thread_Continue() find a thread they take off a queue in the intend to
\* block or in the blocked state (their _Assert()), and only a thread on a
\* queue ever commits to be blocked.
FlagsMatchQueue ==
  \A t \in Thread :
    /\ waitQueue[t] # None <=> waitFlags[t] \in {"INTEND_TO_BLOCK", "BLOCKED"}
    /\ waitFlags[t] = "BLOCKED" => pc[t] = "dispatch" /\ blocked[t]

\* The waiting threads of a queue stay in a strict linear order, sorted by
\* priority if the discipline says so, through enqueues and extractions at any
\* position (_Thread_queue_FIFO_do_enqueue(), _Thread_queue_Priority_do_enqueue()
\* and the extract operations).
LinearOrder ==
  \A t \in Thread :
    /\ t \notin ahead[t]
    /\ \A u \in ahead[t] :
         /\ waitQueue[u] = waitQueue[t] /\ waitQueue[t] # None
         /\ StaysAhead(u, t)
         /\ ahead[u] \subseteq ahead[t]
    /\ \A u \in Thread \ {t} :
         waitQueue[t] # None /\ waitQueue[u] = waitQueue[t]
           => (u \in ahead[t] <=> t \notin ahead[u])

\* While a thread executes application code, and until the callout of a new wait
\* starts it, its timer is neither scheduled nor about to be delivered: a timeout
\* can only hit the wait it was started for.  Holds on a uniprocessor.
TimerBelongsToWait ==
  \A t \in Thread :
    timer[t] # None \/ (\E k \in Clock : firing[k] = t)
      => pc[t] \notin {"run", "callout"}

\* _Watchdog_Insert() never finds the watchdog scheduled: its
\* _Assert( _Watchdog_Get_state( the_watchdog ) == WATCHDOG_INACTIVE ).
WatchdogInactiveAtInsert == ~fatal

\* Every wait with a timeout ends even if nobody else ends it, also when the
\* clock tick comes before the thread has blocked (_Thread_Timeout()).
TimedWaitEnds ==
  \A t \in Thread : timer[t] # None ~> waitQueue[t] = None
------------------------------------------------------------------------------
(***************************************************************************)
(* The inductive invariant behind NoLostWakeup, NoStrayWakeup and          *)
(* FlagsMatchQueue.                                                        *)
(***************************************************************************)

\* What the wait flags and the blocking state are at each location.
LocationInv ==
  \A t \in Thread :
    /\ pc[t] = "run" =>
         ~blocked[t] /\ waitFlags[t] \in {"INITIAL", "READY_AGAIN"}
    /\ pc[t] \in {"callout", "set_state"} =>
         ~blocked[t] /\ waitFlags[t] \in {"INTEND_TO_BLOCK", "READY_AGAIN"}
    /\ pc[t] = "try_block" =>
         blocked[t] /\ waitFlags[t] \in {"INTEND_TO_BLOCK", "READY_AGAIN"}
    /\ pc[t] \in {"remove_timer", "unblock"} =>
         blocked[t] /\ waitFlags[t] = "READY_AGAIN"
    /\ pc[t] = "dispatch" =>
         \/ waitFlags[t] = "READY_AGAIN"
         \/ waitFlags[t] = "BLOCKED" /\ blocked[t]

\* A clock that is about to call a timeout routine has nothing else to do,
\* and only a thread that waited before has its timer in use.
ClockInv ==
  /\ \A k \in Clock : firing[k] # None => ~HasWork(k)
  /\ \A t \in Thread :
       timer[t] # None \/ (\E k \in Clock : firing[k] = t)
         => waitFlags[t] # "INITIAL"

WaitInv ==
  /\ TQTypeOK
  /\ LocationInv
  /\ ClockInv
  /\ FlagsMatchQueue
  /\ NoLostWakeup
  /\ NoStrayWakeup

\* The same for the timer on a uniprocessor: a ready thread has its timer
\* stopped, and a thread whose timeout is being delivered is still in the
\* wait that started the timer.
TimerInv ==
  \A t \in Thread :
    /\ pc[t] \in {"run", "callout", "unblock"} => timer[t] = None
    /\ pc[t] = "dispatch" /\ ~blocked[t] => timer[t] = None
    /\ \A c \in Context : t \in wake[c] => timer[t] = None
    /\ \A k \in Clock : firing[k] = t =>
         timer[t] = None /\ pc[t] \notin {"run", "callout"}
==============================================================================
