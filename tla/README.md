# Verification of RTEMS: waiting, waking up, priorities, scheduling, the buffer cache

TLA+ models of the synchronization core of RTEMS (`src/cpukit/score`, with the Classic and POSIX
objects on top of it), of the SMP scheduler framework and of the block device buffer cache
(`src/cpukit/libblock/src/bdbuf.c`), TLC runs that check them on small instances, and TLAPS proofs
for every value of the constants. `PROJECT.json` holds the line-by-line correspondence (`map`), the
runs, the mutants, the findings, the hazards and the list of theorems.

Contents: 1 the system, 2 modules and correspondence, 3 runs, 4 bounds and fairness,
5 what is proved, 6 disagreements and observations, 7 what is not modelled, 8 plan.

## 1. The system

### Inventory

| Part | State | Operations | What makes it hard |
|---|---|---|---|
| Thread queue handler (`threadqenqueue.c`, `threadqops.c`, `threadqflush.c`, `threadtimeout.c`) | queue of waiting threads, wait flags, timer and status of each thread | enqueue, extract, surrender, flush, timeout | the queue lock is released before the thread has blocked; three parties may end one wait |
| Counting semaphores (`coresemimpl.h`) | count, queue | seize, surrender, flush, destroy | a unit goes to the count or to one waiting thread |
| Mutexes (`coremuteximpl.h`, `threadchangepriority.c`) | owner, nesting, priority aggregations, pending scheduler updates | seize, surrender, set priority, set ceiling | priorities propagate along chains of owners; the scheduler is told later, without the lock |
| Message queues (`coremsg*.c`) | pending and inactive buffers, one queue for senders and receivers | submit, seize, broadcast, flush, close, notify | hand-over of messages and of buffers; broadcast releases the lock in the middle |
| Barriers (`corebarrier*.c`, `pbarrier*.c`) | number of waiting threads, limit | wait, release, delete, destroy | a count kept beside the queue |
| Read-write locks (`corerwlock*.c`) | state, number of readers | lock, unlock, destroy | an unlock decides for threads that have not run yet |
| Events (`eventseize.c`, `eventsurrender.c`), rate monotonic periods (`ratemon*.c`) | pending events, period state, postponed jobs, a watchdog per period | receive, send, period, cancel, delete, timeout | the blocking race without a queue; several kinds of waits share one thread |
| Thread wait locks and paths on SMP (`threadimpl.h`, `threadqenqueue.c`) | default locks, requests, gates, registry of links | acquire, restore the default, tranquilize, path acquire and release | the lock that protects a wait moves; every processor may spin for another one |
| SMP schedulers (`schedulersmpimpl.h`, `schedulersimplesmp.c`, `threaddispatch.c`) | scheduled and ready chains, heirs, processors | block, unblock, yield, update, ask for help, release | several instances with locks of their own act on one thread |
| Buffer cache (`bdbuf.c`) | buffers in groups, tree, LRU, modified and sync lists | get, read, release, sync, purge, swap out, read ahead | a task sleeps in the middle of a search and another one recycles what it looked at |
| Watchdogs, timers | tree of active watchdogs | insert, remove, tickle | the lock is released before a routine runs |
| Thread life cycle, signals | life states, pending signals | restart, delete, join, cancel | requests that reach a waiting thread |
| Objects, heap, workspace | tables, free lists | allocate, free, extend, look up | lookup races with deletion |
| File systems, network, shell, MPCI, ports | | | outside of the kernel core |

All blocking objects use the thread queue handler: an object operation acquires the lock of the
object's thread queue, looks at its state, and either changes it and returns, or calls
`_Thread_queue_Enqueue()`, or takes threads off the queue and unblocks them after the lock is
released. Events and periods have the same blocking steps without a queue. The clock tick ends
waits through `_Thread_Continue()`. On SMP the queue lock is found through the wait lock protocol,
and an unblocked or changed thread goes to the scheduler instances.

### What correctness means here

* A thread taken off its queue is unblocked, by exactly one party, and nobody unblocks a thread
  that waits.
* The status a call returns is what happened to the object (a unit, the mutex, a message, events
  were given, or not).
* A timeout ends the wait it was started for, and only that one.
* What the object keeps beside the queue (counts, owner, buffers, reader count) agrees with the
  queue and with what callers hold.
* The priority of a thread is the one the protocols define, the scheduler uses it, and a ready
  thread does not wait while a less urgent one runs where it could run.
* Waiting ends where it must: no lost wake-up, no circle of owners or of spinning processors.
* A buffer of the cache has one user, never serves stale data, and a modified one is written.

## 2. Modules and correspondence

| Module | Models |
|---|---|
| `ThreadQueue` | the wait protocol: enqueue, extract, timeout, the steps between lock release and blocking |
| `CoreSemaphore` | counting semaphores on `ThreadQueue` |
| `CountingSemaphore` | what a counting semaphore promises (abstract specification) |
| `CoreBarrier`, `BarrierBounds` | Classic and POSIX barriers on `ThreadQueue`, and the constants of the barriers |
| `CoreMessageQueue` | Classic and POSIX message queues on `ThreadQueue` |
| `CoreRWLock` | read-write locks on `ThreadQueue` |
| `EventManager`, `RateMonotonic` | events and periods: the blocking steps of `ThreadQueue` without a queue |
| `ClassicTask` | the composition: tasks that wait for events, system events and periods |
| `CoreMutex` | mutexes, priority inheritance and ceiling, scheduler updates |
| `WaitLock` | the wait locks and the path of thread queues on SMP, one lock acquisition per step |
| `SchedulerSmp` | the SMP scheduler framework, helping, sticky nodes, dispatch |
| `Bdbuf` | the block device buffer cache with its swap-out and read-ahead tasks |
| `ThreadQueueProof`, `CoreSemaphoreProof`, `CoreBarrierProof`, `ClassicTaskProof`, `CoreMessageQueueProof`, `CoreRWLockProof`, `CoreMutexSteps`, `CoreMutexProof` | lemmas and theorems (section 5) |
| `MCSemaphore`, `MCBarrierRWLock`, `MCMessageQueue`, `MCMutex`, `MCClassicTask`, `MCWaitLock`, `MCSchedulerSmp`, `MCBdbuf` | constants and symmetry for TLC; three of them put two instances into one run |

**Granularity.** A critical section under a queue lock is one step; everything after the release
of the lock is a sequence of further steps, each one an atomic operation or a critical section of
another lock. `Smp = FALSE` is a uniprocessor: while a thread has dispatching disabled, only
interrupts and the clock run (`HasProcessor`). `Smp = TRUE` lets every context run at any time.

**ThreadQueue.** Contexts are threads, interrupts (`Isr`) and clocks (`Clock`, one per processor
that drives watchdogs). The variable `pc` is the place inside of `_Thread_queue_Enqueue()`:
`callout` (the lock is released, the timeout is to be started), `set_state`, `try_block` (the
compare-and-exchange from INTEND_TO_BLOCK to BLOCKED), `remove_timer` and `unblock` (the wait was
over already) and `dispatch`. `waitFlags`, `waitQueue`, `returnCode`, `timer` and `blocked` are
the members of the thread control block; `ahead` is the order of a queue as a relation; `cleanup`
and `wake` hold the threads a context has still to remove the timer of and to unblock; `firing` is
the thread whose timeout a clock is about to deliver with the watchdog lock already released;
`fatal` stops the model where a watchdog would be inserted while it is active. `Extract` is the
common part of extract, flush and surrender and of the objects on top: the threads leave the
queue, and those that were BLOCKED already have to be unblocked by the caller
(`_Thread_queue_Make_ready_again()`), the others unblock themselves.

**CoreSemaphore.** `SeizeNow`, `SeizeWait`, `SeizeReturn`, `SurrenderHandOver`, `SurrenderCount`,
`Flush`, `Destroy`. The history variable `balance` is the account of the
callers: a surrender that returns success adds a unit when it is called, a seize takes one when it
returns success (`asked` is the semaphore of a seize that has not returned). It is part of
`CountingSemaphore`, where a unit that is surrendered while threads wait goes to one of them in the
same step and no other step makes a wait successful. A unit that is invented (a timeout that leaves
the status at success) or lost (a surrender with waiting threads that serves none) is therefore no
step of it. The refinement mapping reads the outcome of a wait off `returnCode` once the thread has
left the queue.

**CoreBarrier.** A queue is a Classic or a POSIX barrier (`posix`, chosen initially); a thread in
`pthread_barrier_wait()` has no timer (`untimed`). `IsLast` is the test of an automatic barrier;
`OpenBarrier` is the flush with the reset of the count. `Delete` is Classic (flushes), `Destroy`
POSIX (EBUSY if the count is not 0).

**CoreMessageQueue.** `posix` tells the POSIX queues, which order by priority and whose senders may
wait, from the Classic ones, which have urgent messages and broadcast. The build is the one with
`RTEMS_SCORE_COREMSG_ENABLE_BLOCKING_SEND`. A letter is a message with its submit type; numbers
order submit types as the code's INT_MIN, negated priorities and INT_MAX do. `SubmitHandOver` is a
submit that finds a receiver, `SeizeAndRefill` a receive that puts the message of a waiting sender
into the buffer it has just freed. A broadcast is a sequence of steps, since the lock is released
for each receiver. A message value is sent again only when it has left the system, so that it can
be followed.

**CoreRWLock.** `FlushFilter` is the set of threads the unlock takes off the queue (one writer, or
the readers at the front), `StateFor` the state it leaves. `reads` and `writer` record what calls
returned to their callers; they are compared with the lock's own state.

**EventManager, RateMonotonic, ClassicTask.** The "queue" `<<t, class>>` stands for the wait of
thread t in a class of the wait flags (events, system events, period). `SeizeEvents` and
`SeizeEventsWait` are `_Event_Seize()`, `SurrenderSatisfy` and `SurrenderPost` are
`_Event_Surrender()`. A period has a watchdog (`periodTimer`) of its own; `ending` is the period
whose `_Rate_monotonic_Timeout()` a clock is about to call with the watchdog lock released.
`returnArgument` is `Wait.return_argument`, which events and periods share and which the timeout of
a period compares with the period.

**CoreMutex.** An operation computes a record of new values from the current ones (`Now`) and
installs it (`Becomes`). `Contributions` is the content of a thread's priority aggregation,
`DoPerformActions` one step of the propagation, `PathStep` and `PerformActions` the loop with its
restoring of the update set, `ApplyPriority` the entry for a change of the thread's own nodes.
`todo` is what a context still has to do without the queue lock: scheduler updates
(`_Thread_Priority_update()`) and unblocks, in the order of the code. `sched` is the priority the
scheduler has. The wait protocol is reduced to two steps (`SeizeWait`, `Commit`), since
`ThreadQueue` covers it. The constants `Flushes` and `Extracts` switch two operations on, so that
runs can ask about the rest without them; `NewPriority` and `NewCeiling` are the values priorities
and ceilings may be set to, `NestBound` the depth of recursive locking of each mutex.

**WaitLock.** A step acquires at most one lock. `Seize`, `Claim`, the `Path...` steps and `Block`
are `_Thread_queue_Enqueue()` with `_Thread_queue_Path_acquire_critical()`; `WaitAcquire`,
`WaitAcquireQueue` and `WaitStale` are `_Thread_Wait_acquire()` with a request that may find the
thread gone; `Walk` is the propagation along the path; `RestoreDefault` and `Tranquilize` are
`_Thread_Wait_restore_default()` and `_Thread_Wait_tranquilize()`. `links` is the global registry
`_Thread_queue_Links`; `ClosesCycle` is its search, which makes an enqueue return
`STATUS_DEADLOCK`. What happens under a lock is one step with its acquisition.

**SchedulerSmp.** A call about a thread becomes a sequence of sections (`todo`), one for each
scheduler instance concerned, since the code takes the locks of the instances one after the other
under the state lock of the thread. The operators with a first parameter k (the kernel state)
follow the inline functions of `schedulersmpimpl.h`: `Allocate`, `Preempt`, `Enqueue`,
`EnqueueScheduled`, `ScheduleHighestReady`, `BlockNode`, `UnblockNode`, `AskForHelp`, `Withdraw`,
`Reconsider`. `live` is the thread whose context is on a processor, `heir` the next one;
`Intervene`, `SwitchFrom`, `SwitchTo`, `DispatchSame` (the heir is the thread that executes) and
`PostSwitch` are `_Thread_Do_dispatch()`. The constant `Application` is a set of configurations of
the application (processors of the instances, home instances, started, helped, sticky and
changing threads), and the variable `app` the one of the behaviour.

**Bdbuf.** The state under the cache lock is the record `cache`; a step is what a task does from
taking the lock to giving it up. `Search`, `TakeBuffer` and `AccessAgain` are
`rtems_bdbuf_get_buffer_for_access()`; a task that slept finds out there what became of its buffer.
`Release`, `ReleaseModified`, `SyncBuffer`, `SyncDev...`, `Purge` are the other calls; `Scan`,
`WriteDone`, `WorkerReturns`, `NotifyRequester` the swap-out task and its workers;
`ReadAhead...` the read-ahead task. The contents of a block are one bit: `fresh` in a buffer and
`disk` on the medium tell whether it is what a file system last put into the cache. `MovedData` is
what a driver does to them. `GiveUp` marks the two cases in which the cache drops data on purpose,
a purge and a failed write: the block counts as current again. No other discard of a buffer is
excused.

Mutants of a definition (a variant of its name, marked as such) stand before it.

## 3. Runs

State counts are distinct states, after symmetry reduction where it is used.

| Run | Asks | Result | States |
|---|---|---|---|
| `sem_smp` | semaphore, SMP, three threads, priority order, clock: wait protocol, order, refinement | holds | 513 000 |
| `sem_smp_timeout` | a watchdog is inactive when it is inserted, SMP | violated | |
| `barrier_rw` | Classic and POSIX barriers, or read-write locks, SMP, interrupt, clock: opening, release, delete, destroy; state against holders, no reader passes a writer | holds | 684 000 |
| `mq` | Classic and POSIX message queues, SMP, interrupt, clock: hand-over, buffers, order, status | holds | 262 000 |
| `mutex` | two inheritance mutexes on a uniprocessor, every way to end a wait, priority changes; inheritance and ceiling mutex on SMP: priorities, status, scheduler updates | holds | 398 000 |
| `classic_task` | events and a period of two tasks, uniprocessor, interrupt, clock: safety and liveness | holds | 69 000 |
| `wait_lock` | wait locks and paths: three threads, three mutexes, a queue without owner, a handler | holds | 485 000 |
| `sched` | two scheduler instances, a helped thread, a sticky node; one instance with two processors, four threads, lazy allocation, priority changes | holds | 498 000 |
| `bdbuf` | two tasks, two devices that share one group, swap-out, worker, read-ahead, failing transfers | holds | 394 000 |
| `bdbuf_purge` | the state table of `bdbuf.h`, with a purge during the read of a task | violated | |
| `bdbuf_syncdev` | a sync of a device waits until the transfers have completed | violated | |
| `bdbuf_write` | the buffers of a failed write go back to the modified list | violated | |

The properties, by module:

* `NoLostWakeup`: a thread off its queue that is blocked has a party that will unblock it.
  `NoStrayWakeup`: nobody is about to unblock a thread that waits. `LinearOrder`: a queue is a line
  (its FIFO or priority order is kept by every extraction). `TimerBelongsToWait` and
  `WatchdogInactiveAtInsert`: a timer never outlives its wait. `TimedWaitEnds`: a timed wait ends.
* `NoUnitWhileWaiting`: no unit is in the count while a thread waits. `ImplementsCountingSemaphore`:
  the refinement, with the units of the callers conserved.
* `OpensInTime`: an automatic barrier never has as many waiting threads as it opens for.
  `NoOrphanedWaiter`: nobody waits at a barrier that is gone.
* `WaitersOfOneKind`, `BuffersConserved`, `ReceiveReportsTruth`: senders and receivers never wait
  together, no buffer is lost, a receive tells the truth. `NoOvertaking`, `NoMessageLost` (action
  properties): no step reorders pending messages, or drops an accepted one.
* `LockMatchesCallers`: the state and the reader count are what callers hold or were granted.
  `NoWaitForUnlocked`: nobody waits for an available lock. `WriterNotPassed` (action property).
* `NoSatisfiedWaiter`: no task waits for events it has. `EventsMatchStatus`: success exactly with
  the events of the condition. `ActiveIffTimed`: the watchdog of an active period is scheduled or
  being delivered, that of an inactive one is neither. `PeriodEnds`: an owner that waits for its period is released.
* `PriorityIsInherited` compares the result of the incremental propagation with the definition of
  the protocols (minimum over all threads delayed directly or indirectly); `StatusMatchesOwner`,
  `OwnerWhileWaiting`, `UpdateSetFits`. `SchedulerIsTold` (action property): a step after which the
  scheduler has an old priority of a thread, and nobody an update or unblock of it to do, had found
  it so, or is a flush or an extraction.
* `NoLockCycle`: processors never spin for each other in a circle. `WaitLockIsRight`: who passed
  `_Thread_Wait_acquire()` has the lock that protects the wait. `NoStaleRequest`: no request
  survives into the next wait. `OneAtATime`: no two processors work on the priorities of one
  thread. `NoWaitCycle`: of the threads that close a circle of waits one is refused.
* `EveryProcessorServed`: scheduled nodes, processors and heirs match one to one. `ScheduledOnce`:
  no thread gets two processors. `NoPriorityInversion`: a settled ready thread is not more urgent
  than what runs where it could run.
* `StateTable`: buffers are in the tree and on the lists as the table in `bdbuf.h` says, the group
  counts are right, no unexpected state is met. `OneExternalUser`. `CacheCoherent`: what a file
  system put into the cache is on the medium or in a buffer that will be written, and no buffer
  serves anything else; a failed write and a purge are the only losses.
  `SleepHasReason`: a sleeping task waits for something that is the case. `SyncWritesAll`: a sync
  of a device returns after the swap-out task has written what it owes; `SyncDevCompletes` and
  `FailedWriteRetried` (action property) are what `bdbuf.h` and a comment claim beyond that.

## 4. Bounds and fairness

Two threads are enough for one thread to wait while another one acts on it, and with an interrupt
and a clock three parties compete for one wait. Three threads are used where order matters: a
queue with a middle, a barrier that is filled again, a writer between readers, a chain of two
owners. A thread that waits again on the same queue is enough for something stale to reach the
wrong wait (`sem_smp_timeout` finds it so). `MaximumCount` 1 lets one surrender reach the limit of
a semaphore. A barrier that opens for up to two of three threads (`MaximumCount` 2) is filled again
and has somebody left; a count up to `WaitBound` 3 goes beyond the limit by a timed out wait. The
general case is proved.
`MaximumPending` 2 makes buffers scarce and order visible, with three messages in the system;
`BroadcastBound` 2 is one delivery more than a single receiver should get; waits with an absolute
time that has already passed (`Timespec`), which end inside of the enqueue, are in `mq`.
`ReadBound` 2 has nested read locks. In `CoreMutex` two threads share a priority; on the
uniprocessor of `mutex` the least urgent one may be raised above all others (`NewPriority`), which
changes the priorities of a whole chain of three, and one inheritance mutex is locked recursively. In `classic_task`
one task receives events and both use the period; `PostponedMaximum` 1 reaches the limit of the
counter of postponed jobs.

`wait_lock` has three threads and three mutexes, the smallest instance in which three processors
close a circle at the same time while a fourth one follows the same chain from its middle.
`sched` has two applications: `Partitioned` has one processor per instance, so that a helped thread
is always in somebody's way; `Global` has two processors in one instance and more threads than
processors, so that threads are chosen while they still execute elsewhere, and one thread whose
priority changes. In `bdbuf` a group holds one large or two
small buffers, so that every access to the other device recycles the group, and one task wants
blocks the other one modifies, syncs or purges. Larger instances were run without a violation:
for the scheduler two threads whose priorities change (248 000 states), three processors (1.5
million states) and instances with two processors and one (1.7 million), both not finished; for the cache
all calls by both tasks (660 000), and a worker with two devices (2.25 million).

The passing runs exclude some inputs. `bdbuf` ends a behaviour where a purge has met the read of a
task (constraint `ReadNotPurged`; the purge itself has no such guard, and `bdbuf_purge` goes on);
`sched` has `LateRelease = FALSE`, `HelpPriority = {1}` and no thread that is helped or sticky and
changes its priority; `classic_task` has `Smp = FALSE`; the multiprocessor of `mutex` has no flush
and no extraction. Section 6 says what happens otherwise.

Symmetry is used in runs without liveness, over threads of equal priority (two of the three in
`sem_smp` and `mutex`, all of `barrier_rw`, two of four in `sched`), over messages and over the
owned queues of `wait_lock`.

Deadlock is checked for the mutexes, the wait locks, the schedulers, `classic_task` and the buffer
cache. It is not checked where all threads may really stop: a semaphore nobody surrenders, a
Classic barrier nobody releases, a message queue nobody sends to, a read-write lock whose
reader locks again behind a waiting writer, and models that stop at `fatal`.

Fairness is used in `classic_task` only. Clock ticks keep coming, and a clock serves its watchdogs
in the order of their expiration, so that a due one is not passed for ever (strong fairness of the
expiration of each thread timer and of the steps of the period timer, since the steps are disabled
and enabled again while an interrupt is served). An interrupt service routine that has begun runs to
its end (weak fairness of the delivery and of the unblocking by the clock). Nothing is assumed of
the calls of the application, nor of the return of a ready thread, which depends on its priority.

## 5. What is proved

All proofs are checked by TLAPS: for any finite set of threads, any sets of interrupts, clocks and
queues, any priorities, one or several processors where nothing else is said. The assumptions are
the named ASSUMEs of the modules: `ThreadQueueAssumption` (the sets of contexts are disjoint,
`None` is in none of them, the threads are finitely many, the flags are Boolean, priorities are
natural numbers), `CoreSemaphoreAssumption` and `CoreBarrierAssumption` (the maximum count is not
0), `CoreMessageQueueAssumption` (there is a buffer, and priorities lie between the submit types
of urgent and normal messages), `CoreRWLockAssumption`, `EventAssumption`, `PeriodAssumption` and
`CoreMutexAssumption` (finitely many threads and mutexes, a mutex has one protocol).

| Module | Theorem | States |
|---|---|---|
| `CoreSemaphoreProof` | `TypeCorrect` | `Spec => []TypeOK` |
| | `WaitProtocol` | `Spec => [](NoLostWakeup /\ FlagsMatchQueue)` |
| | `OneWakeup` | `Spec => []NoStrayWakeup` |
| | `NoIdleUnit` | `Spec => []NoUnitWhileWaiting` |
| | `QueueOrder` | `Spec => []LinearOrder` |
| | `UniprocessorTimeout` | `~Smp => (Spec => [](TimerBelongsToWait /\ WatchdogInactiveAtInsert))` |
| | `Refinement` | `Spec => ImplementsCountingSemaphore` |
| `CoreBarrierProof` | `BarrierOpensInTime` | `Spec => []OpensInTime` |
| | `NobodyOrphaned` | `Spec => []NoOrphanedWaiter` |
| `ClassicTaskProof` | `NobodyWaitsSatisfied` | `~Smp => (Spec => []NoSatisfiedWaiter)` |
| | `StatusTellsEvents` | `~Smp => (Spec => []EventsMatchStatus)` |
| | `PeriodsTimed` | `~Smp => (Spec => [](ActiveIffTimed /\ WatchdogInactiveAtInsert))` |
| | `TaskTimeout` | `~Smp => (Spec => []TimerBelongsToWait)` |
| `CoreMessageQueueProof` | `SendersOrReceivers` | `Spec => []WaitersOfOneKind` |
| | `NoBufferLost` | `Spec => []BuffersConserved` |
| | `ReceiveTellsTruth` | `Spec => []ReceiveReportsTruth` |
| | `OrderKept` | `Spec => NoOvertaking` |
| | `MessagesKept` | `Spec => NoMessageLost` |
| `CoreRWLockProof` | `LockTellsTruth` | `Spec => []LockMatchesCallers` |
| | `AvailableUnwaited` | `Spec => []NoWaitForUnlocked` |
| | `WriterFirst` | `Spec => WriterNotPassed` |
| `CoreMutexProof` | `Inheritance` | `Spec => []PriorityIsInherited` |
| | `NoOrphans` | `Spec => []OwnerWhileWaiting` |
| | `OutcomeIsRight` | `Spec => []StatusMatchesOwner` |
| | `RoomForUpdates` | `Spec => []UpdateSetFits` |
| | `SchedulerUpToDate` | `Spec => SchedulerIsTold` |

*The wait protocol.* `NoLostWakeup` alone is not inductive: that a thread will unblock itself
follows from where it is in the enqueue and from its wait flags. `WaitInv` adds `LocationInv` (which
flags and which blocked state go with each place in `_Thread_queue_Enqueue()`), `FlagsMatchQueue`
and `ClockInv` (what a clock that is about to deliver a timeout may assume). `ThreadQueueProof`
proves that every step of the handler keeps it, one lemma per group of steps (`EnqueueInv`,
`ExtractInv`, `EnqueueStepInv`, `WakeStepInv`, `ClockStepInv`), without reference to an object. The
proofs about the objects reduce each of their actions to an `Enqueue`, an `Extract`, a handler step
or no change of the handler, and cite these lemmas.

*Timers on a uniprocessor.* `UniInv` adds `TimerInv`: a timer is stopped at the places where a new
wait can begin, and a thread whose timeout is being delivered is still in that wait. It holds
because a clock interrupt that has released the watchdog lock runs to its end before any thread
does, and it is exactly what run `sem_smp_timeout` refutes for a multiprocessor.

*Order.* `OrderInv` is `WaitInv` with `LinearOrder`, which is proved from the insertion rule (behind
everything that is not less urgent) and the extraction rule (the rest keeps its order).

*Semaphores.* `SemInv` adds the types and `NoUnitWhileWaiting`; `RefInv` adds that the status of a
thread on a queue is still the one set by the enqueue, so that the outcome read after the wait is
the one set when it ended. Every step of `CoreSemaphore` is a step of `CountingSemaphore` or leaves
its variables unchanged (`StepRefines`).

*Barriers.* The count is not the number of waiting threads, because a timeout leaves it alone.
`CountInv` says what is left: it is an upper bound of the threads on the queue, and below the limit
of an automatic barrier. This is why such a barrier opens early at worst and never late, and why a
POSIX destroy that looks at the count orphans nobody.

*Message queues.* `MqInv` adds to `WaitInv` what a call carries (`CallInv`: a waiting receiver has
nothing yet, only POSIX senders wait, with a real priority), the sorted buffers of a POSIX queue,
and the properties themselves, since each needs the others: a sender waits only if no buffer is
free, hence there is a pending message, hence no receiver waits, hence the first waiting thread a
receive finds is a sender. The lemmas about insertion into a sequence (`InsertKeepsOrder`,
`InsertKeepsAll`) come first, then one lemma per call.

*Read-write locks.* `RwInv` counts: the reader count is the number of read locks that callers hold
or that were granted to threads on their way out of the wait; `RequestInv` says what a thread inside
of a call has asked for; `OrderInv` is needed because the flush filter takes the threads at the
front.

*Mutexes.* `PriorityIsInherited` speaks of all threads that a thread delays, and the code only looks
at one queue and one owner at a time. `MutexInv` therefore has a local form (`Good`): every queue is
sorted and contributes its minimum to the owner, the priority of every thread is the minimum of its
own aggregation, and no set of threads waits in a circle. `CoreMutexSteps` proves that each operator
on the record of priorities keeps it: what `DoPerformActions` does to one thread and one queue, that
`PathWalk` leaves at most one thread whose priority is not settled and ends (the path has no circle,
`PathCloses`), that an update is registered for every thread that can run and whose priority changed
and for two at most, and then the enqueue, extract, surrender and ceiling operations that are built
from it. `CoreMutexProof` has one lemma per action, and `LocalGlobal` concludes from the local form
that the priority is the one by definition, by induction along the chains of owners (the set of
counterexamples has a least one). `WaitInv` is the second part: a thread on a queue is about to block
or blocked on the mutex it wants, one taken off has its status, and nobody unblocks a thread twice.

*Events and periods.* `ClassicInv` adds to `UniInv` that the status of a receive agrees with what it
was given at each place of the blocking steps (`StatusInv`), that waits of different kinds do not
mix although they share the flags and the return argument (`WaitKinds`), that a wait for a period
has no thread timer, that a clock that ends a period finds it active (`EndingInv`), and which
periods are timed, the expired ones included (`PeriodInv`). All four
theorems need a uniprocessor; section 6 says what goes wrong otherwise.

*Facts about numbers.* The proofs about message queues, read-write locks and mutexes use facts that are true of every state: a set of
natural numbers has a least element (`LeastNat`), and how cardinality changes when one element comes or
goes (`CountFacts`). The step lemmas take them as a conjunct of the invariant or as a hypothesis, and the theorems discharge them
(`LeastNatHolds`, `CountFactsHold`, `CountingHolds`) from the theorems of the library, so that
nothing is assumed.

Only model-checked: the liveness properties `TimedWaitEnds` and `PeriodEnds`, which are out of the
prover's reach; `WaitLock`, `SchedulerSmp` and `Bdbuf`.

## 6. Disagreements between code and comments, and observations

*Late timeout on SMP* (run `sem_smp_timeout`, quoted in `findings`). `_Watchdog_Do_tickle()` releases
the watchdog lock before it calls the routine. The thread may end its wait, find the watchdog
inactive, and start another wait, which the late timeout then ends; the timer of that wait stays
active, and a later `_Watchdog_Insert()` finds it so. The wait that is ended may be one without a
timeout, such as a `pthread_barrier_wait()`. On a uniprocessor it cannot happen
(`UniprocessorTimeout`, `TaskTimeout`).

*Purge during a read* (run `bdbuf_purge`). `rtems_bdbuf_purge_dev()` marks the buffer of a read that
is under way, so that the end of the transfer discards it. The status of the request is success all
the same, and `rtems_bdbuf_read()` (`bdbuf.c:2331`) gives the buffer to its caller as ACCESS_CACHED,
against the table of the states in `bdbuf.h`: `StateTable` fails. `StateTable`, and with it the
other properties of `bdbuf`, hold up to such a purge.

*Sync of a device* (run `bdbuf_syncdev`). `rtems_bdbuf_syncdev()` may return while a worker still
writes a buffer that it had taken before the call; `bdbuf.h:618` says "wait until the transfers have
completed". `SyncWritesAll` is what remains true.

*Failed write* (run `bdbuf_write`). A failed write discards its buffers; the comment on
`rtems_bdbuf_swapout_processing()` (`bdbuf.c:2736`) says "If the transfer fails place the buffers
back on the modified list and try again later".

What follows was met while modelling and has no run of its own; where a change of a cfg shows it,
the change is given.

Objects and priorities:

* *Barrier count.* A timeout does not decrement `number_of_waiting_threads`
  (`corebarrierwait.c:46`; `corebarrier.h:79` calls it the number of threads that wait), so that a
  later barrier opens early. An invariant that compares `number[q]` with `Cardinality(Waiters(q))`
  fails in `barrier_rw`.
* *Flush along a chain.* `_Thread_queue_Flush_critical()` does not update the thread at the end of a
  path of several owners, and the update of the owner depends on a thread being unblocked by the
  flush (`threadqflush.c:124`), whereas the comment at line 95 calls it unconditional. *Extract.*
  `_Thread_queue_Extract()` collects updates and never performs them (`threadqenqueue.c:623`). Both
  are what `SchedulerIsTold` excepts (`DropsUpdates`); they are seen with `KeepsInformed` as its body.
* *Broadcast count.* A receiver that waits again during a broadcast is served and counted twice
  (`coremsgbroadcast.c:44`); `coremsgimpl.h:159` speaks of the number of threads.
* The comment of `_CORE_RWLock_Surrender()` (`corerwlockimpl.h:163`) says that all waiting threads are
  readied; the flush filter readies one writer or the readers in front of the first writer. The
  timeout of a writer does not wake the readers behind it, although the lock is held for reading.
* *Events and periods on SMP* (`Smp = TRUE` in `ClassicTask.cfg`). A timeout of a period that comes
  after a cancel or a delete revives the period or inserts an active watchdog; a late thread
  timeout may end a wait for a period. A period deleted by another thread leaves its blocked owner
  waiting. The comment of `RATE_MONOTONIC_EXPIRED` (`ratemon.h:95`) says that the period is off the
  watchdog chain; the timeout restarts its watchdog (`ratemontimeout.c:91`), so that `PeriodInv` has
  expired periods among the timed ones. `ActiveIffTimed` says nothing of them.
* *Deadlock status for bystanders.* On SMP a thread may be refused with `STATUS_DEADLOCK` because of
  a link that some other path is about to give up (`WaitLock`): `NoWaitCycle` says that one of the
  threads in a circle is refused, not that only those are.

Scheduler framework, with the constants that exclude it from the passing runs:

* Two sticky nodes of one instance that need an idle thread may get the same one.
* A node that helps has sticky level 0, and `_Scheduler_SMP_Enqueue_scheduled_ordered()`
  (`schedulersmpimpl.h:793`) gives its place away when its priority changes (`changing` and `helped` of an application).
* The unblock of a sticky node that is ready changes its priority in place, and the order of the
  ready chain is lost (`schedulersmpimpl.h:1059`).
* With `LateRelease = TRUE` a thread that is blocked before its stickiness is released may stay ready
  without a processor that a less urgent one has.
* `_Scheduler_Use_idle_thread()` may give the idle thread of one processor to another one.

Buffer cache:

* A worker taken off the free list is not put back when there is nothing to write.
* The event sent for a task that waits for a buffer may be consumed by the sync of another device;
  the write then waits for the next period of the swap-out task (`SleepHasReason` allows it).
* A wait in `rtems_bdbuf_set_block_size()` accepts an EMPTY buffer, which
  `rtems_bdbuf_remove_from_tree_and_lru_list()` treats as fatal; read off the code, not modelled.

## 7. What is not modelled

* Lookup of an object and the acquisition of its lock are one step; on a multiprocessor the object
  may be deleted in between.
* `CoreMutex` takes a path of thread queues in one step, `WaitLock` shows how the locks of a path are
  acquired; `WaitLock` has no priorities and `ThreadQueue` no path. Flush and sticky enqueue take the
  steps of `WaitLock` that other operations take and are no actions of their own.
* MrsP semaphores (their scheduler side is in `SchedulerSmp`), sticky waits, thread proxies of
  multiprocessing configurations.
* Scheduler: adding and removing processors, affinities, a change of the scheduler of a thread, the
  exact allocation, the other SMP schedulers.
* Buffer cache: the change of the block size of a device, start-up errors, statistics, the end of
  the workers.
* Life states of a restarted thread, other than leaving its queue.
* Mutex deletion: it is refused while the mutex is locked, and `OwnerWhileWaiting` shows that an
  unlocked one has no waiting threads.
* Calls that fail by their arguments, and calls that do not wait and find nothing: they change no
  state.
* Message sizes, names, identifiers; expiration times and the order of watchdogs.
* The parts listed as `not_modelled` in `PROJECT.json`, each with its reason.

Misuse of the interfaces is not modelled: read-write locks are unlocked by threads that hold them.

## 8. Plan

1. Proofs about `WaitLock` (`NoStaleRequest` and `WaitLockIsRight` first).
2. Proofs about the lists of `SchedulerSmp` (`EveryProcessorServed`) and the state table of `Bdbuf`.
3. Condition variables and futexes on `ThreadQueue` and `CoreMutex`.
4. The thread life cycle (restart, delete, join, cancel) composed with the wait protocol.
5. Watchdogs with expiration times, and the timer server.
