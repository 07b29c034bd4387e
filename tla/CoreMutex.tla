------------------------------ MODULE CoreMutex ------------------------------
(***************************************************************************)
(* Mutexes with priority inheritance, with a priority ceiling and without  *)
(* a protocol: the Classic binary semaphores and the POSIX mutexes.        *)
(*                                                                         *)
(* The priority of a thread is the minimum of a set of contributions: its  *)
(* real priority, the ceilings of the ceiling mutexes it owns and, for     *)
(* each inheritance mutex it owns, the most urgent waiting thread.  The    *)
(* code never recomputes this minimum from scratch: each change is carried *)
(* along the path owner -> mutex it waits for -> owner ... by              *)
(* _Thread_Priority_perform_actions(), under the locks of the path.  The   *)
(* scheduler learns of the new priority later, without these locks, in     *)
(* _Thread_Priority_update() or when the thread is unblocked.              *)
(*                                                                         *)
(* The wait protocol itself is the subject of ThreadQueue; here a blocking *)
(* operation has two steps (enqueue, then commit to block).                *)
(***************************************************************************)
EXTENDS Naturals, FiniteSets, Sequences, FiniteSetsExt

CONSTANTS
  Thread,           \* the threads
  Clock,            \* clock tick interrupts, they end waits by timeouts
  Mutex,            \* the mutexes
  Inherit,          \* the ones with priority inheritance
  Ceiling,          \* the ones with a priority ceiling
  None,             \* NULL
  Smp,              \* TRUE if RTEMS_SMP is defined
  InitialPriority,  \* real priority of each thread, smaller is more urgent
  InitialCeiling,   \* the ceiling of each mutex in Ceiling
  NewPriority,      \* the priorities the application gives to threads later
  NewCeiling,       \* the ceilings it gives to mutexes later
  NestBound,        \* bound on the nest level of each mutex
  Flushes,          \* TRUE if rtems_semaphore_flush() is used
  Extracts          \* TRUE if threads are restarted while they wait

ASSUME CoreMutexAssumption ==
  /\ IsFiniteSet(Thread) /\ IsFiniteSet(Mutex)
  /\ Thread \cap Clock = {}
  /\ None \notin Thread \cup Clock \cup Mutex
  /\ Inherit \subseteq Mutex
  /\ Ceiling \subseteq Mutex \ Inherit
  /\ Smp \in BOOLEAN
  /\ InitialPriority \in [Thread -> Nat]
  /\ InitialCeiling \in [Mutex -> Nat]
  /\ NewPriority \subseteq Nat
  /\ NewCeiling \subseteq Nat
  /\ NestBound \in [Mutex -> Nat]
  /\ Flushes \in BOOLEAN
  /\ Extracts \in BOOLEAN

Context == Thread \cup Clock

VARIABLES
  pc,       \* where each thread is in _Thread_queue_Enqueue()
  wanted,   \* the mutex of its blocking operation
  status,   \* Wait.return_code
  blocked,  \* the thread state is STATES_WAITING_FOR_MUTEX
  owner,    \* Wait_queue.Queue.owner of each mutex
  nest,     \* nest_level
  ceiling,  \* Priority_ceiling.priority
  real,     \* Real_priority.priority of each thread
  prio,     \* Wait.Priority.Node.priority of its scheduler node
  qprio,    \* Queue.Node.priority of the priority queue of each mutex
  queue,    \* the priority queue of each mutex
  sched,    \* the priority the scheduler uses for each thread
  todo      \* what each context has still to do without the queue lock

vars == <<pc, wanted, status, blocked, owner, nest, ceiling, real, prio,
          qprio, queue, sched, todo>>

Update(t) == [op |-> "update", thread |-> t]
Unblock(t) == [op |-> "unblock", thread |-> t]

Priorities ==
  NewPriority \cup NewCeiling \cup {InitialPriority[t] : t \in Thread}
              \cup {InitialCeiling[m] : m \in Mutex}

\* The values of the variables; a queue holds a thread at most once.
TypeOK ==
  /\ pc \in [Thread -> {"run", "commit", "wait"}]
  /\ wanted \in [Thread -> Mutex \cup {None}]
  /\ status \in [Thread -> {"SUCCESSFUL", "TIMEOUT", "UNAVAILABLE"}]
  /\ blocked \in [Thread -> BOOLEAN]
  /\ owner \in [Mutex -> Thread \cup {None}]
  /\ nest \in [Mutex -> Nat]
  /\ \A m \in Mutex : nest[m] <= NestBound[m]
  /\ ceiling \in [Mutex -> Priorities]
  /\ real \in [Thread -> Priorities]
  /\ prio \in [Thread -> Priorities]
  /\ qprio \in [Mutex -> Priorities]
  /\ sched \in [Thread -> Priorities]
  /\ \A m \in Mutex : queue[m] \in Seq(Thread) /\ IsInjective(queue[m])
  /\ \A c \in Context : todo[c] \in Seq([op : {"update", "unblock"},
                                         thread : Thread])

Init ==
  /\ pc = [t \in Thread |-> "run"]
  /\ wanted = [t \in Thread |-> None]
  /\ status = [t \in Thread |-> "SUCCESSFUL"]
  /\ blocked = [t \in Thread |-> FALSE]
  /\ owner = [m \in Mutex |-> None]
  /\ nest = [m \in Mutex |-> 0]
  /\ ceiling = InitialCeiling
  /\ real = InitialPriority
  /\ prio = InitialPriority
  /\ qprio = InitialCeiling
  /\ queue = [m \in Mutex |-> <<>>]
  /\ sched = InitialPriority
  /\ todo = [c \in Context |-> <<>>]

------------------------------------------------------------------------------
(***************************************************************************)
(* Priorities.  An operation computes from the current values (Now) a      *)
(* record of new ones; its field update collects the threads for           *)
(* _Thread_Priority_update().                                              *)
(***************************************************************************)
Now == [owner |-> owner, ceiling |-> ceiling, real |-> real, prio |-> prio,
        qprio |-> qprio, queue |-> queue, update |-> <<>>]

Becomes(s) ==
  /\ owner' = s.owner
  /\ ceiling' = s.ceiling
  /\ real' = s.real
  /\ prio' = s.prio
  /\ qprio' = s.qprio
  /\ queue' = s.queue

AddUpdate(s, t) == [s EXCEPT !.update = Append(@, Update(t))]

\* The mutex a thread waits for (Wait.queue), or None.
WaitsFor(s, t) ==
  LET M == {m \in Mutex : t \in Range(s.queue[m])}
  IN IF M = {} THEN None ELSE CHOOSE m \in M : TRUE

\* What the aggregation of a thread's scheduler node contains.
Contributions(s, t) ==
  LET own == {m \in Mutex : s.owner[m] = t} IN
    {s.real[t]}
      \cup {s.ceiling[m] : m \in own \cap Ceiling}
      \cup {s.qprio[m] : m \in {n \in own \cap Inherit : s.queue[n] # <<>>}}

\* A thread is inserted behind the ones of the same priority.
InsertByPriority(s, line, t) ==
  LET behind == {i \in DOMAIN line : s.prio[line[i]] > s.prio[t]}
      at == Min(behind \cup {Len(line) + 1})
  IN SubSeq(line, 1, at - 1) \o <<t>> \o SubSeq(line, at, Len(line))

Without(line, t) ==
  LET at == CHOOSE i \in DOMAIN line : line[i] = t
  IN IF t \notin Range(line) THEN line
     ELSE SubSeq(line, 1, at - 1) \o SubSeq(line, at + 1, Len(line))

\* The queue of m has changed: update its minimum, if m inherits priorities.
WithLine(s, m, line) ==
  [s EXCEPT !.queue[m] = line,
            !.qprio[m] = IF m \in Inherit /\ line # <<>>
                         THEN s.prio[Head(line)] ELSE @]

Reposition(s, m, t) ==
  WithLine(s, m, InsertByPriority(s, Without(s.queue[m], t), t))

\* _Thread_Priority_do_perform_actions(): the contributions of thread t have
\* changed.  If its priority changes, it is registered for an update and gets
\* its new place on the queue it waits on.  The result names the owner of that
\* queue in at, if its contributions change in turn.
\* Mutant: the owner is never told.
DoPerformActionsAlone(s, t) ==
  LET new == Min(Contributions(s, t))
      m == WaitsFor(s, t)
      s1 == AddUpdate([s EXCEPT !.prio[t] = new], t)
      s2 == Reposition(s1, m, t)
  IN IF t = None \/ new = s.prio[t] THEN [s |-> s, at |-> None]
     ELSE IF m = None THEN [s |-> s1, at |-> None]
     ELSE [s |-> s2, at |-> None]

DoPerformActions(s, t) ==
  LET new == Min(Contributions(s, t))
      m == WaitsFor(s, t)
      s1 == AddUpdate([s EXCEPT !.prio[t] = new], t)
      s2 == Reposition(s1, m, t)
      passOn == m \in Inherit /\ s2.qprio[m] # s1.qprio[m]
  IN IF t = None \/ new = s.prio[t] THEN [s |-> s, at |-> None]
     ELSE IF m = None THEN [s |-> s1, at |-> None]
     ELSE [s |-> s2, at |-> IF passOn THEN s2.owner[m] ELSE None]

\* One iteration of the loop in _Thread_Priority_perform_actions(): a thread
\* in the middle of the path waits, so that it needs no update.
\* Mutant: the update set is not restored.
PathStepNoRestore(p) == DoPerformActions(p.s, p.at)

PathStep(p) ==
  LET r == DoPerformActions(p.s, p.at)
  IN IF r.at = None THEN r ELSE [r EXCEPT !.s.update = p.s.update]

\* _Thread_Priority_perform_actions(), the path starts at thread t.
PathWalk(s, t) ==
  LET walk[n \in 0 .. Cardinality(Thread)] ==
        IF n = 0 THEN [s |-> s, at |-> t] ELSE PathStep(walk[n - 1])
  IN walk

PerformActions(s, t) == PathWalk(s, t)[Cardinality(Thread)].s

\* _Thread_Priority_apply(): a priority node of thread t itself was added,
\* removed or changed.
ApplyPriority(s, t) ==
  LET r == DoPerformActions(s, t) IN PerformActions(r.s, r.at)

\* The enqueue and extract operations of a thread queue.
QueueEnqueue(s, m, t) ==
  LET e == WithLine(s, m, InsertByPriority(s, s.queue[m], t))
  IN IF m \in Inherit THEN PerformActions(e, s.owner[m]) ELSE e

QueueExtract(s, m, t) ==
  LET e == WithLine(s, m, Without(s.queue[m], t))
  IN IF m \in Inherit THEN PerformActions(e, s.owner[m]) ELSE e

\* The path of _Thread_queue_Path_acquire_critical(): mutex m, the mutex its
\* owner waits for, the mutex the owner of that one waits for and so on.
NextOnPath(n) ==
  IF n = None THEN None
  ELSE IF owner[n] = None THEN None ELSE WaitsFor(Now, owner[n])

Path(m) ==
  LET path[i \in 0 .. Cardinality(Mutex)] ==
        IF i = 0 THEN m ELSE NextOnPath(path[i - 1])
  IN path

\* It fails, if thread t already owns a mutex of the path.
ClosesPath(t, m) ==
  \E i \in DOMAIN Path(m) : Path(m)[i] # None /\ owner[Path(m)[i]] = t

------------------------------------------------------------------------------
(***************************************************************************)
(* Who can execute, as in ThreadQueue.                                     *)
(***************************************************************************)
DispatchDisabled(c) == todo[c] # <<>> \/ (c \in Thread /\ pc[c] = "commit")

HasProcessor(c) ==
  \/ Smp
  \/ c \in Clock
  \/ \A d \in Context \ {c} : ~DispatchDisabled(d)

CanCall(c) ==
  /\ HasProcessor(c)
  /\ ~DispatchDisabled(c)
  /\ c \in Thread => pc[c] = "run"

\* The context c has left its critical section and has the steps still to do.
Later(c, steps) == todo' = [todo EXCEPT ![c] = steps]

\* A thread that ended the wait of thread t has to unblock it, unless t has
\* not committed to block yet (_Thread_queue_Make_ready_again()).
UnblockIf(t) == IF pc[t] = "wait" THEN <<Unblock(t)>> ELSE <<>>

\* The same for all the threads of a queue, in their order.
UnblockLine(line) ==
  LET steps[i \in 0 .. Len(line)] ==
        IF i = 0 THEN <<>> ELSE steps[i - 1] \o UnblockIf(line[i])
  IN steps[Len(line)]

------------------------------------------------------------------------------
(***************************************************************************)
(* Seize.                                                                  *)
(***************************************************************************)

\* _CORE_recursive_mutex_Seize(), the mutex is free.
Seize(t, m) ==
  /\ CanCall(t)
  /\ m \notin Ceiling
  /\ owner[m] = None
  /\ owner' = [owner EXCEPT ![m] = t]
  /\ UNCHANGED <<pc, wanted, status, blocked, nest, ceiling, real, prio,
                 qprio, queue, sched, todo>>

\* _CORE_ceiling_mutex_Seize(), the mutex is free: a caller more urgent than
\* the ceiling gets STATUS_MUTEX_CEILING_VIOLATED.
SeizeCeiling(t, m) ==
  LET s == ApplyPriority([Now EXCEPT !.owner[m] = t], t) IN
    /\ CanCall(t)
    /\ m \in Ceiling
    /\ owner[m] = None
    /\ prio[t] >= ceiling[m]
    /\ Becomes(s)
    /\ Later(t, s.update)
    /\ UNCHANGED <<pc, wanted, status, blocked, nest, sched>>

\* _CORE_recursive_mutex_Seize_nested()
SeizeNested(t, m) ==
  /\ CanCall(t)
  /\ owner[m] = t
  /\ nest[m] < NestBound[m]
  /\ nest' = [nest EXCEPT ![m] = @ + 1]
  /\ UNCHANGED <<pc, wanted, status, blocked, owner, ceiling, real, prio,
                 qprio, queue, sched, todo>>

\* _CORE_mutex_Seize_slow() up to the release of the queue lock.  A wait that
\* would close a path ends with STATUS_DEADLOCK and changes nothing.
SeizeWait(t, m) ==
  LET s == QueueEnqueue(Now, m, t) IN
    /\ CanCall(t)
    /\ owner[m] \notin {None, t}
    /\ ~ClosesPath(t, m)
    /\ Becomes(s)
    /\ Later(t, s.update)
    /\ pc' = [pc EXCEPT ![t] = "commit"]
    /\ wanted' = [wanted EXCEPT ![t] = m]
    /\ status' = [status EXCEPT ![t] = "SUCCESSFUL"]
    /\ UNCHANGED <<blocked, nest, sched>>

\* The rest of _Thread_queue_Enqueue() up to _Thread_Priority_update(): the
\* thread blocks; if its wait is over already, it unblocks itself again.
Commit(t) ==
  /\ pc[t] = "commit"
  /\ HasProcessor(t)
  /\ pc' = [pc EXCEPT ![t] = "wait"]
  /\ blocked' = [blocked EXCEPT ![t] = WaitsFor(Now, t) # None]
  /\ sched' = IF WaitsFor(Now, t) # None THEN sched
              ELSE [sched EXCEPT ![t] = prio[t]]
  /\ UNCHANGED <<wanted, status, owner, nest, ceiling, real, prio, qprio,
                 queue, todo>>

\* _CORE_mutex_Seize_slow() returns; nobody reads Wait.return_code again.
Return(t) ==
  /\ pc[t] = "wait"
  /\ ~blocked[t]
  /\ todo[t] = <<>>
  /\ HasProcessor(t)
  /\ pc' = [pc EXCEPT ![t] = "run"]
  /\ wanted' = [wanted EXCEPT ![t] = None]
  /\ status' = [status EXCEPT ![t] = "SUCCESSFUL"]
  /\ UNCHANGED <<blocked, owner, nest, ceiling, real, prio, qprio, queue,
                 sched, todo>>

------------------------------------------------------------------------------
(***************************************************************************)
(* Surrender.                                                              *)
(***************************************************************************)

\* The most nested surrender only counts (both kinds of mutexes).
SurrenderNested(t, m) ==
  /\ CanCall(t)
  /\ owner[m] = t
  /\ nest[m] > 0
  /\ nest' = [nest EXCEPT ![m] = @ - 1]
  /\ UNCHANGED <<pc, wanted, status, blocked, owner, ceiling, real, prio,
                 qprio, queue, sched, todo>>

\* _CORE_recursive_mutex_Surrender(), no thread waits.
\* Mutant: without a look at the queue.
SurrenderUnusedBlindly(t, m) ==
  /\ CanCall(t)
  /\ m \notin Ceiling
  /\ owner[m] = t
  /\ nest[m] = 0
  /\ owner' = [owner EXCEPT ![m] = None]
  /\ UNCHANGED <<pc, wanted, status, blocked, nest, ceiling, real, prio,
                 qprio, queue, sched, todo>>

SurrenderUnused(t, m) ==
  /\ CanCall(t)
  /\ m \notin Ceiling
  /\ owner[m] = t
  /\ nest[m] = 0
  /\ queue[m] = <<>>
  /\ owner' = [owner EXCEPT ![m] = None]
  /\ UNCHANGED <<pc, wanted, status, blocked, nest, ceiling, real, prio,
                 qprio, queue, sched, todo>>

\* A thread that is on no queue gets the minimum of its contributions.  It is
\* registered for a priority update, if its priority changes and notify holds.
NewMinimum(s, t, notify) ==
  LET new == Min(Contributions(s, t))
      s1 == [s EXCEPT !.prio[t] = new]
  IN IF new # s.prio[t] /\ notify THEN AddUpdate(s1, t) ELSE s1

\* The surrender operation of a queue: the priority queue moves from the
\* previous owner t to the first waiting thread.  On SMP configurations the
\* new owner needs no update, since it is unblocked later.
QueueSurrender(s, m, t) ==
  LET new == Head(s.queue[m])
      s1 == NewMinimum([s EXCEPT !.owner[m] = None], t, TRUE)
      s2 == [WithLine(s1, m, Tail(s.queue[m])) EXCEPT !.owner[m] = new]
  IN NewMinimum(s2, new, ~Smp)

\* _CORE_recursive_mutex_Surrender() and _Thread_queue_Surrender().
Surrender(t, m) ==
  LET s == QueueSurrender(Now, m, t) IN
    /\ CanCall(t)
    /\ m \notin Ceiling
    /\ owner[m] = t
    /\ nest[m] = 0
    /\ queue[m] # <<>>
    /\ Becomes(s)
    /\ Later(t, s.update \o UnblockIf(Head(queue[m])))
    /\ UNCHANGED <<pc, wanted, status, blocked, nest, sched>>

\* _CORE_ceiling_mutex_Surrender(): the ceiling moves from the caller to the
\* first waiting thread while this one is still on the queue.
SurrenderCeiling(t, m) ==
  LET new == IF queue[m] = <<>> THEN None ELSE Head(queue[m])
      s1 == ApplyPriority([Now EXCEPT !.owner[m] = None], t)
      s2 == ApplyPriority([s1 EXCEPT !.owner[m] = new], new)
      s3 == QueueExtract(s2, m, new)
  IN /\ CanCall(t)
     /\ m \in Ceiling
     /\ owner[m] = t
     /\ nest[m] = 0
     /\ Becomes(s3)
     /\ Later(t, (IF new = None THEN <<>> ELSE UnblockIf(new)) \o s3.update)
     /\ UNCHANGED <<pc, wanted, status, blocked, nest, sched>>

------------------------------------------------------------------------------
(***************************************************************************)
(* Other ends of a wait, and priority changes by the application.          *)
(***************************************************************************)

\* _Thread_Continue() of the clock tick for a thread on a queue.
\* Mutant: also for a thread that is not on the queue any more.
TimeoutLate(k, t) ==
  /\ CanCall(k)
  /\ pc[t] # "run"
  /\ status' = [status EXCEPT ![t] = "TIMEOUT"]
  /\ IF WaitsFor(Now, t) = None
     THEN UNCHANGED <<owner, ceiling, real, prio, qprio, queue, todo>>
     ELSE LET s == QueueExtract(Now, WaitsFor(Now, t), t)
          IN Becomes(s) /\ Later(k, s.update \o UnblockIf(t))
  /\ UNCHANGED <<pc, wanted, blocked, nest, sched>>

\* Mutant: the scheduler is not told about the owners of the path.
TimeoutNoUpdate(k, t) ==
  LET m == WaitsFor(Now, t)
      s == QueueExtract(Now, m, t)
  IN /\ CanCall(k)
     /\ m # None
     /\ Becomes(s)
     /\ Later(k, UnblockIf(t))
     /\ status' = [status EXCEPT ![t] = "TIMEOUT"]
     /\ UNCHANGED <<pc, wanted, blocked, nest, sched>>

Timeout(k, t) ==
  LET m == WaitsFor(Now, t)
      s == QueueExtract(Now, m, t)
  IN /\ CanCall(k)
     /\ m # None
     /\ Becomes(s)
     /\ Later(k, s.update \o UnblockIf(t))
     /\ status' = [status EXCEPT ![t] = "TIMEOUT"]
     /\ UNCHANGED <<pc, wanted, blocked, nest, sched>>

\* rtems_semaphore_flush() and _Thread_queue_Flush_critical(): the priority
\* updates are dropped, only the owner of the mutex is updated at the end and
\* only if a thread was unblocked.
Flush(t, m) ==
  LET emptied == WithLine(Now, m, <<>>)
      s == IF m \in Inherit THEN PerformActions(emptied, owner[m]) ELSE emptied
      unblock == UnblockLine(queue[m])
  IN /\ Flushes
     /\ CanCall(t)
     /\ queue[m] # <<>>
     /\ Becomes(s)
     /\ Later(t, IF unblock = <<>> THEN <<>>
                 ELSE Append(unblock, Update(owner[m])))
     /\ status' = [u \in Thread |-> IF u \in Range(queue[m])
                                    THEN "UNAVAILABLE" ELSE status[u]]
     /\ UNCHANGED <<pc, wanted, blocked, nest, sched>>

\* _Thread_queue_Extract(), when the life of a waiting thread changes: the
\* thread does not return to its caller, it starts again.
ThreadQueueExtract(t, u) ==
  LET m == WaitsFor(Now, u)
      s == QueueExtract(Now, m, u)
  IN /\ Extracts
     /\ CanCall(t)
     /\ m # None
     /\ Becomes(s)
     /\ Later(t, UnblockIf(u))
     /\ wanted' = [wanted EXCEPT ![u] = None]
     /\ UNCHANGED <<pc, status, blocked, nest, sched>>

\* rtems_task_set_priority()
SetPriority(t, u, p) ==
  LET s == ApplyPriority([Now EXCEPT !.real[u] = p], u)
  IN /\ CanCall(t)
     /\ p # real[u]
     /\ Becomes(s)
     /\ Later(t, s.update)
     /\ UNCHANGED <<pc, wanted, status, blocked, nest, sched>>

\* rtems_semaphore_set_priority() and _CORE_ceiling_mutex_Set_priority()
SetCeiling(t, m, p) ==
  LET s == ApplyPriority([Now EXCEPT !.ceiling[m] = p], owner[m])
  IN /\ CanCall(t)
     /\ m \in Ceiling
     /\ p # ceiling[m]
     /\ Becomes(s)
     /\ Later(t, s.update)
     /\ UNCHANGED <<pc, wanted, status, blocked, nest, sched>>

------------------------------------------------------------------------------
(***************************************************************************)
(* The steps without a queue lock.                                         *)
(***************************************************************************)

\* _Scheduler_Update_priority(): nothing to do for a blocked thread.
UpdatePriority(c, t) ==
  /\ sched' = IF blocked[t] THEN sched ELSE [sched EXCEPT ![t] = prio[t]]
  /\ UNCHANGED blocked

\* _Thread_Unblock(): the scheduler picks up the current priority.
UnblockThread(c, t) ==
  /\ blocked' = [blocked EXCEPT ![t] = FALSE]
  /\ sched' = [sched EXCEPT ![t] = prio[t]]

DoNext(c) ==
  LET step == Head(todo[c]) IN
    /\ todo[c] # <<>>
    /\ c \in Thread => pc[c] # "commit"
    /\ HasProcessor(c)
    /\ \/ step.op = "update" /\ UpdatePriority(c, step.thread)
       \/ step.op = "unblock" /\ UnblockThread(c, step.thread)
    /\ todo' = [todo EXCEPT ![c] = Tail(@)]
    /\ UNCHANGED <<pc, wanted, status, owner, nest, ceiling, real, prio,
                   qprio, queue>>

MutexOperation(t, m) ==
  \/ Seize(t, m)
  \/ SeizeCeiling(t, m)
  \/ SeizeNested(t, m)
  \/ SeizeWait(t, m)
  \/ SurrenderNested(t, m)
  \/ SurrenderUnused(t, m)
  \/ Surrender(t, m)
  \/ SurrenderCeiling(t, m)
  \/ Flush(t, m)

Next ==
  \/ \E t \in Thread : Commit(t) \/ Return(t)
  \/ \E t \in Thread, m \in Mutex : MutexOperation(t, m)
  \/ \E t \in Thread, m \in Mutex, p \in NewCeiling : SetCeiling(t, m, p)
  \/ \E t, u \in Thread, p \in NewPriority : SetPriority(t, u, p)
  \/ \E t, u \in Thread : ThreadQueueExtract(t, u)
  \/ \E k \in Clock, t \in Thread : Timeout(k, t)
  \/ \E c \in Context : DoNext(c)

Spec == Init /\ [][Next]_vars

------------------------------------------------------------------------------
(***************************************************************************)
(* Properties.                                                             *)
(***************************************************************************)

\* Thread t and the threads it delays, directly or indirectly, through
\* inheritance mutexes: the smallest set that contains t and, with the owner of
\* such a mutex, the threads that wait for it.
DelayedBy(t) ==
  LET closed == {D \in SUBSET Thread :
                   /\ t \in D
                   /\ \A m \in Inherit :
                        owner[m] \in D => Range(queue[m]) \subseteq D}
  IN {u \in Thread : \A D \in closed : u \in D}

\* The priority of a thread by definition: the most urgent one of its own real
\* priority and ceilings and of those of all the threads it delays.
PriorityByDefinition(t) ==
  Min({real[u] : u \in DelayedBy(t)}
        \cup {ceiling[m] : m \in {n \in Ceiling : owner[n] \in DelayedBy(t)}})

\* The incremental propagation of _Thread_Priority_perform_actions() gives
\* every thread the priority the protocols define, after every operation in
\* any order: no urgent thread waits for a less urgent owner.
PriorityIsInherited ==
  \A t \in Thread : prio[t] = PriorityByDefinition(t)

\* A thread whose seize ends successfully is the owner, one whose seize ends
\* with a timeout or a flush is not: the clock tick and the surrender never
\* both decide about one wait.
StatusMatchesOwner ==
  \A t \in Thread :
    pc[t] = "wait" /\ WaitsFor(Now, t) = None /\ wanted[t] # None
      => (owner[wanted[t]] = t <=> status[t] = "SUCCESSFUL")

\* A mutex that is not locked has no waiting threads, so that it may be deleted
\* and that no thread waits for a surrender that will never come.
OwnerWhileWaiting ==
  \A m \in Mutex : queue[m] # <<>> => owner[m] # None

\* The priority update set of a thread queue context has room for two threads
\* (the _Assert() in _Thread_queue_Context_add_priority_update()).
UpdateSetFits ==
  \A c \in Context :
    Cardinality({i \in DOMAIN todo[c] : todo[c][i].op = "update"}) <= 2

\* The scheduler uses the current priority of thread t, or somebody has an
\* update or an unblock of it still to do.  A thread that is about to block
\* gets its priority when it is unblocked.
Informed(t) ==
  \/ blocked[t]
  \/ pc[t] = "commit"
  \/ \E c \in Context : \E i \in DOMAIN todo[c] : todo[c][i].thread = t
  \/ sched[t] = prio[t]

KeepsInformed == \A t \in Thread : Informed(t) => Informed(t)'

\* A flush and a restart drop the priority updates that they collect.
DropsUpdates ==
  \/ \E t \in Thread, m \in Mutex : Flush(t, m)
  \/ \E t, u \in Thread : ThreadQueueExtract(t, u)

\* No other step leaves the scheduler with an old priority of a thread that
\* nobody will correct, whatever updates of several processors cross: the
\* update set of _Thread_Priority_perform_actions() has every thread that can
\* run and whose priority changes.
SchedulerIsTold == [][KeepsInformed \/ DropsUpdates]_vars

==============================================================================
