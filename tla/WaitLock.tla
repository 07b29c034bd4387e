------------------------------ MODULE WaitLock -------------------------------
(***************************************************************************)
(* The thread wait lock and the thread queue path on SMP configurations.   *)
(*                                                                         *)
(* What protects the wait information of a thread moves: its default lock  *)
(* as long as Wait.queue is NULL, the lock of that queue otherwise.  Who   *)
(* wants it registers a request on the thread, drops the default lock,     *)
(* takes the lock of the queue, and finds out from the request whether the *)
(* thread has left the queue meanwhile.  A thread that left a queue goes   *)
(* on once all requests are gone (the tranquilizer gate).                  *)
(*                                                                         *)
(* A thread that enqueues on an owned queue, a timeout and a priority      *)
(* change hold this lock for the whole chain of owners that starts at the  *)
(* queue, its path.  The links between queues that some path holds or is   *)
(* about to take are kept in a global registry; a link that would close a  *)
(* cycle is not taken.                                                     *)
(*                                                                         *)
(* A step acquires at most one lock and releases those the code releases   *)
(* before it acquires the next.  The blocking of a thread is that of       *)
(* module ThreadQueue; here it blocks with the release of the queue lock.  *)
(***************************************************************************)
EXTENDS Naturals, Sequences, FiniteSets

CONSTANTS
  Thread,   \* threads, each on a processor of its own while not blocked
  Handler,  \* contexts that time out threads or change their priority
  Queue,    \* the thread queues
  Owned,    \* those with an owner, of mutexes; the others have none
  None      \* NULL

ASSUME WaitLockAssumption ==
  /\ None \notin Thread \cup Handler \cup Queue
  /\ Thread \cap Handler = {}
  /\ Owned \subseteq Queue

VARIABLES
  queueLock,   \* the context that holds the lock of each queue
  defaultLock, \* the context that holds Wait.Lock.Default of each thread
  owner,       \* owner of each queue
  waitQueue,   \* Wait.queue of each thread
  enqueued,    \* Wait.operations is not the default: claim finalized
  pending,     \* Wait.Lock.Pending_requests: requests <<context, n>>, n = 0
               \* for _Thread_Wait_acquire(), n > 0 for link n of a path
  gate,        \* Wait.Lock.Tranquilizer: "closed", on the chain, or "open"
  links,       \* _Thread_queue_Links: <<source, target>>
  pc,          \* location of each context
  kind,        \* what the context is doing
  subject,     \* the_thread of the operation
  queue,       \* the queue of the operation
  request,     \* Lock_context.Wait.queue of the context
  path,        \* Path.Links: owner, source, target and
               \* Lock_context.Wait.queue of each link
  walk,        \* the_thread in _Thread_queue_Path_append_deadlock_thread()
  deadlock     \* the path was not acquired up to its end

locks == <<queueLock, defaultLock>>
threadVars == <<owner, waitQueue, enqueued, pending, gate, links>>
local == <<kind, subject, queue, request, path, walk, deadlock>>
vars == <<locks, threadVars, pc, local>>

Context == Thread \cup Handler

Request == Context \X (0 .. Cardinality(Thread) + 1)

Link == [owner : Thread, source : Queue, target : Queue \cup {None},
         queue : Queue \cup {None}]

Location == {"idle", "blocked", "claim", "path", "path_queue", "path_stale",
             "walk", "walk_lock", "body", "release", "release_request",
             "restore", "remove_request", "tranquilize", "wait_queue",
             "wait_stale", "held", "surrender"}

TypeOK ==
  /\ queueLock \in [Queue -> Context \cup {None}]
  /\ defaultLock \in [Thread -> Context \cup {None}]
  /\ owner \in [Queue -> Thread \cup {None}]
  /\ waitQueue \in [Thread -> Queue \cup {None}]
  /\ enqueued \in [Thread -> BOOLEAN]
  /\ pending \in [Thread -> SUBSET Request]
  /\ gate \in [Thread -> {"closed", "chained", "open"}]
  /\ links \subseteq Queue \X Queue
  /\ pc \in [Context -> Location]
  /\ kind \in [Context -> {"none", "enqueue", "surrender", "timeout", "priority"}]
  /\ subject \in [Context -> Thread \cup {None}]
  /\ queue \in [Context -> Queue \cup {None}]
  /\ request \in [Context -> Queue \cup {None}]
  /\ path \in [Context -> Seq(Link)]
  /\ walk \in [Context -> Thread \cup {None}]
  /\ deadlock \in [Context -> BOOLEAN]

Init ==
  /\ queueLock = [q \in Queue |-> None]
  /\ defaultLock = [t \in Thread |-> None]
  /\ owner = [q \in Queue |-> None]
  /\ waitQueue = [t \in Thread |-> None]
  /\ enqueued = [t \in Thread |-> FALSE]
  /\ pending = [t \in Thread |-> {}]
  /\ gate = [t \in Thread |-> "open"]
  /\ links = {}
  /\ pc = [c \in Context |-> "idle"]
  /\ kind = [c \in Context |-> "none"]
  /\ subject = [c \in Context |-> None]
  /\ queue = [c \in Context |-> None]
  /\ request = [c \in Context |-> None]
  /\ path = [c \in Context |-> << >>]
  /\ walk = [c \in Context |-> None]
  /\ deadlock = [c \in Context |-> FALSE]

At(c, location) == pc[c] = location

Go(c, location) == pc' = [pc EXCEPT ![c] = location]

\* The context forgets its local variables.
Finish(c) ==
  /\ kind' = [kind EXCEPT ![c] = "none"]
  /\ subject' = [subject EXCEPT ![c] = None]
  /\ queue' = [queue EXCEPT ![c] = None]
  /\ request' = [request EXCEPT ![c] = None]
  /\ walk' = [walk EXCEPT ![c] = None]
  /\ deadlock' = [deadlock EXCEPT ![c] = FALSE]
  /\ UNCHANGED path

Begin(c, what, t, q) ==
  /\ kind' = [kind EXCEPT ![c] = what]
  /\ subject' = [subject EXCEPT ![c] = t]
  /\ queue' = [queue EXCEPT ![c] = q]
  /\ UNCHANGED <<path, walk, deadlock>>

DefaultFree(t) == defaultLock[t] = None
QueueFree(q) == queueLock[q] = None

LastLink(c) == path[c][Len(path[c])]

PathFront(c) == SubSeq(path[c], 1, Len(path[c]) - 1)

\* _Thread_Wait_remove_request_locked(): the tranquilizer is the last gate of
\* the chain, and opened when it has become the first one.  Nobody waits at
\* the gates of the requests.
RemoveRequest(t, r) ==
  /\ pending' = [pending EXCEPT ![t] = @ \ {r}]
  /\ gate' = [gate EXCEPT ![t] = IF pending[t] \ {r} = {} /\ @ = "chained"
                                   THEN "open" ELSE @]

------------------------------------------------------------------------------
(***************************************************************************)
(* Operations of a thread on a mutex or another object.                    *)
(***************************************************************************)

\* The mutex is free, or has no waiting threads when it is surrendered.
SeizeFree(t, q) ==
  /\ At(t, "idle")
  /\ q \in Owned
  /\ QueueFree(q)
  /\ owner[q] = None
  /\ owner' = [owner EXCEPT ![q] = t]
  /\ UNCHANGED <<locks, waitQueue, enqueued, pending, gate, links, pc, local>>

SurrenderFree(t, q) ==
  /\ At(t, "idle")
  /\ QueueFree(q)
  /\ owner[q] = t
  /\ \A u \in Thread : waitQueue[u] # q
  /\ owner' = [owner EXCEPT ![q] = None]
  /\ UNCHANGED <<locks, waitQueue, enqueued, pending, gate, links, pc, local>>

\* The mutex has an owner, perhaps the thread itself, or another object is not
\* available: _Thread_queue_Enqueue() with the queue lock.
Seize(t, q) ==
  /\ At(t, "idle")
  /\ QueueFree(q)
  /\ q \in Owned => owner[q] # None
  /\ queueLock' = [queueLock EXCEPT ![q] = t]
  /\ Begin(t, "enqueue", t, q)
  /\ Go(t, "claim")
  /\ UNCHANGED <<defaultLock, threadVars, request>>

\* _Thread_Wait_claim()
Claim(t) ==
  /\ At(t, "claim")
  /\ DefaultFree(t)
  /\ pending' = [pending EXCEPT ![t] = {}]
  /\ gate' = [gate EXCEPT ![t] = "closed"]
  /\ waitQueue' = [waitQueue EXCEPT ![t] = queue[t]]
  /\ Go(t, "path")
  /\ UNCHANGED <<locks, owner, enqueued, links, local>>

\* _Thread_queue_Surrender() takes the priorities of the queue off its
\* previous owner and makes a waiting thread the owner.
Surrender(t, q) ==
  /\ At(t, "idle")
  /\ QueueFree(q)
  /\ owner[q] = t
  /\ \E u \in Thread : waitQueue[u] = q
  /\ queueLock' = [queueLock EXCEPT ![q] = t]
  /\ Begin(t, "surrender", None, q)
  /\ Go(t, "surrender")
  /\ UNCHANGED <<defaultLock, threadVars, request>>

NewOwner(t, u) ==
  /\ At(t, "surrender")
  /\ DefaultFree(t)
  /\ waitQueue[u] = queue[t]
  /\ owner' = [owner EXCEPT ![queue[t]] = u]
  /\ subject' = [subject EXCEPT ![t] = u]
  /\ Go(t, "restore")
  /\ UNCHANGED <<locks, waitQueue, enqueued, pending, gate, links, kind, queue,
                 request, path, walk, deadlock>>

\* _Thread_queue_Extract_critical() of a waiting thread of a queue without
\* owner.
ExtractThread(t, q, u) ==
  /\ At(t, "idle")
  /\ QueueFree(q)
  /\ q \notin Owned
  /\ waitQueue[u] = q
  /\ queueLock' = [queueLock EXCEPT ![q] = t]
  /\ Begin(t, "surrender", u, q)
  /\ Go(t, "restore")
  /\ UNCHANGED <<defaultLock, threadVars, request>>

------------------------------------------------------------------------------
(***************************************************************************)
(* _Thread_queue_Path_acquire_critical() from the queue of the operation.  *)
(***************************************************************************)

\* The queue at the end of the path, whose lock the context holds
PathEnd(c) == IF path[c] = << >> THEN queue[c] ELSE LastLink(c).target

\* No owner: the path ends here.  The subject itself is only looked for at the
\* start.
PathNoOwner(c) ==
  /\ At(c, "path")
  /\ \/ owner[PathEnd(c)] = None
     \/ path[c] = << >> /\ owner[queue[c]] = subject[c]
  /\ deadlock' = [deadlock EXCEPT ![c] = owner[PathEnd(c)] # None]
  /\ Go(c, "body")
  /\ UNCHANGED <<locks, threadVars, kind, subject, queue, request, path, walk>>

\* The owner that comes next on the path, and the queue it waits for
NextOwner(c) == owner[PathEnd(c)]
Target(c) == waitQueue[NextOwner(c)]

AppendLink(c, target, waitedFor) ==
  path' = [path EXCEPT ![c] =
             Append(@, [owner |-> NextOwner(c), source |-> PathEnd(c),
                        target |-> target, queue |-> waitedFor])]

HasNextOwner(c) ==
  /\ At(c, "path")
  /\ NextOwner(c) # None
  /\ path[c] = << >> => NextOwner(c) # subject[c]
  /\ DefaultFree(NextOwner(c))

\* Mutant: the default lock of the owner is released at once.
PathOwnerRunsUnlocked(c) ==
  /\ HasNextOwner(c)
  /\ Target(c) = None
  /\ UNCHANGED <<path, defaultLock>>
  /\ Go(c, "body")
  /\ UNCHANGED <<queueLock, threadVars, kind, subject, queue, request, walk,
                 deadlock>>

\* The owner does not wait: the path ends with its default lock.
PathOwnerRuns(c) ==
  /\ HasNextOwner(c)
  /\ Target(c) = None
  /\ AppendLink(c, None, None)
  /\ defaultLock' = [defaultLock EXCEPT ![NextOwner(c)] = c]
  /\ Go(c, "body")
  /\ UNCHANGED <<queueLock, threadVars, kind, subject, queue, request, walk,
                 deadlock>>

\* The queues the registered links lead to from queue q
Reachable[n \in Nat, q \in Queue] ==
  IF n = 0 THEN {q}
  ELSE {q} \cup UNION {Reachable[n - 1, l[2]] : l \in {k \in links : k[1] = q}}

\* Mutant: the links are not searched.
ClosesCycleNever(source, target) == FALSE

\* _Thread_queue_Link_add() finds the source again.  The link from the target
\* is looked at first: a target that is the source itself is not found.
ClosesCycle(source, target) ==
  \E l \in links :
    l[1] = target /\ source \in Reachable[Cardinality(links), l[2]]

\* The owner waits: the link and the request are registered.
PathOwnerWaits(c) ==
  /\ HasNextOwner(c)
  /\ Target(c) # None
  /\ ~ClosesCycle(PathEnd(c), Target(c))
  /\ AppendLink(c, Target(c), Target(c))
  /\ links' = links \cup {<<PathEnd(c), Target(c)>>}
  /\ pending' = [pending EXCEPT ![NextOwner(c)] =
                   @ \cup {<<c, Len(path[c]) + 1>>}]
  /\ Go(c, "path_queue")
  /\ UNCHANGED <<locks, owner, waitQueue, enqueued, gate, kind, subject, queue,
                 request, walk, deadlock>>

\* The link would close a cycle: the path ends with the default lock of the
\* owner and perhaps that of the thread that is about to enqueue.
PathCycle(c) ==
  /\ HasNextOwner(c)
  /\ Target(c) # None
  /\ ClosesCycle(PathEnd(c), Target(c))
  /\ AppendLink(c, None, None)
  /\ defaultLock' = [defaultLock EXCEPT ![NextOwner(c)] = c]
  /\ walk' = [walk EXCEPT ![c] = NextOwner(c)]
  /\ Go(c, "walk")
  /\ UNCHANGED <<queueLock, threadVars, kind, subject, queue, request, deadlock>>

\* The lock of the queue the owner waited for.  It still waits there: go on
\* with the owner of that queue.
PathQueue(c) ==
  /\ At(c, "path_queue")
  /\ QueueFree(LastLink(c).target)
  /\ LastLink(c).queue # None
  /\ queueLock' = [queueLock EXCEPT ![LastLink(c).target] = c]
  /\ Go(c, "path")
  /\ UNCHANGED <<defaultLock, threadVars, local>>

RemoveLink(c) == links' = links \ {<<LastLink(c).source, LastLink(c).target>>}

\* The owner left the queue meanwhile: release the lock again.
PathQueueStale(c) ==
  /\ At(c, "path_queue")
  /\ QueueFree(LastLink(c).target)
  /\ LastLink(c).queue = None
  /\ RemoveLink(c)
  /\ Go(c, "path_stale")
  /\ UNCHANGED <<locks, owner, waitQueue, enqueued, pending, gate, local>>

PathStale(c) ==
  LET o == LastLink(c).owner IN
    /\ At(c, "path_stale")
    /\ DefaultFree(o)
    /\ defaultLock' = [defaultLock EXCEPT ![o] = c]
    /\ RemoveRequest(o, <<c, Len(path[c])>>)
    /\ Go(c, "body")
    /\ UNCHANGED <<queueLock, owner, waitQueue, enqueued, links, local>>

\* Mutant: a cycle found on the way is not reported as a deadlock.
WalkSilently(c) ==
  /\ At(c, "walk")
  /\ IF enqueued[walk[c]]
       THEN walk' = [walk EXCEPT ![c] = owner[waitQueue[@]]] /\ UNCHANGED pc
       ELSE /\ Go(c, IF walk[c] = LastLink(c).owner THEN "body" ELSE "walk_lock")
            /\ UNCHANGED walk
  /\ UNCHANGED <<locks, threadVars, kind, subject, queue, request, path, deadlock>>

\* _Thread_queue_Path_append_deadlock_thread() looks for the thread that did
\* not finalize its claim.
Walk(c) ==
  /\ At(c, "walk")
  /\ IF enqueued[walk[c]]
       THEN walk' = [walk EXCEPT ![c] = owner[waitQueue[@]]] /\ UNCHANGED pc
       ELSE /\ Go(c, IF walk[c] = LastLink(c).owner THEN "body" ELSE "walk_lock")
            /\ UNCHANGED walk
  /\ deadlock' = [deadlock EXCEPT ![c] = TRUE]
  /\ UNCHANGED <<locks, threadVars, kind, subject, queue, request, path>>

WalkLock(c) ==
  /\ At(c, "walk_lock")
  /\ DefaultFree(walk[c])
  /\ defaultLock' = [defaultLock EXCEPT ![walk[c]] = c]
  /\ path' = [path EXCEPT ![c] =
                Append(@, [owner |-> walk[c], source |-> queue[c],
                           target |-> None, queue |-> None])]
  /\ Go(c, "body")
  /\ UNCHANGED <<queueLock, threadVars, kind, subject, queue, request, walk,
                 deadlock>>

\* What is done under protection of the path: _Thread_Wait_claim_finalize()
\* and the enqueue operation, the extract operation of a timeout, or
\* _Thread_Priority_perform_actions().  An enqueue in a deadlock does nothing.
Body(c) ==
  /\ At(c, "body")
  /\ enqueued' = [enqueued EXCEPT ![subject[c]] =
                    @ \/ (kind[c] = "enqueue" /\ ~deadlock[c])]
  /\ Go(c, "release")
  /\ UNCHANGED <<locks, owner, waitQueue, pending, gate, links, local>>

(***************************************************************************)
(* _Thread_queue_Path_release_critical(), from the last link to the first. *)
(***************************************************************************)
ReleaseQueue(c) ==
  /\ At(c, "release")
  /\ path[c] # << >>
  /\ LastLink(c).queue # None
  /\ RemoveLink(c)
  /\ queueLock' = [queueLock EXCEPT ![LastLink(c).queue] = None]
  /\ Go(c, "release_request")
  /\ UNCHANGED <<defaultLock, owner, waitQueue, enqueued, pending, gate, local>>

ReleaseRequest(c) ==
  LET o == LastLink(c).owner IN
    /\ At(c, "release_request")
    /\ DefaultFree(o)
    /\ RemoveRequest(o, <<c, Len(path[c])>>)
    /\ path' = [path EXCEPT ![c] = PathFront(c)]
    /\ Go(c, "release")
    /\ UNCHANGED <<locks, owner, waitQueue, enqueued, links, kind, subject, queue,
                   request, walk, deadlock>>

ReleaseDefault(c) ==
  /\ At(c, "release")
  /\ path[c] # << >>
  /\ LastLink(c).queue = None
  /\ defaultLock' = [defaultLock EXCEPT ![LastLink(c).owner] = None]
  /\ path' = [path EXCEPT ![c] = PathFront(c)]
  /\ UNCHANGED <<queueLock, threadVars, pc, kind, subject, queue, request, walk,
                 deadlock>>

\* The path is released: an enqueued thread releases the queue lock and
\* blocks.
Block(t) ==
  /\ At(t, "release")
  /\ path[t] = << >>
  /\ kind[t] = "enqueue" /\ ~deadlock[t]
  /\ queueLock' = [queueLock EXCEPT ![queue[t]] = None]
  /\ Finish(t)
  /\ Go(t, "blocked")
  /\ UNCHANGED <<defaultLock, threadVars>>

\* A thread in a deadlock gives up, a timed out thread leaves its queue.
LeaveQueue(c) ==
  /\ At(c, "release")
  /\ path[c] = << >>
  /\ kind[c] = "timeout" \/ (kind[c] = "enqueue" /\ deadlock[c])
  /\ Go(c, "restore")
  /\ UNCHANGED <<locks, threadVars, local>>

\* The priority change is done: _Thread_Wait_release() of the queue lock.
PriorityChanged(c) ==
  /\ At(c, "release")
  /\ path[c] = << >>
  /\ kind[c] = "priority"
  /\ queueLock' = [queueLock EXCEPT ![queue[c]] = None]
  /\ Go(c, "remove_request")
  /\ UNCHANGED <<defaultLock, threadVars, local>>

------------------------------------------------------------------------------
\* Mutant: the gate is opened although there are requests.
RestoreDefaultOpen(t) ==
  /\ DefaultFree(t)
  /\ path' = [c \in Context |-> [n \in 1 .. Len(path[c]) |->
                IF <<c, n>> \in pending[t]
                  THEN [path[c][n] EXCEPT !.queue = None] ELSE path[c][n]]]
  /\ gate' = [gate EXCEPT ![t] = "open"]
  /\ waitQueue' = [waitQueue EXCEPT ![t] = None]
  /\ enqueued' = [enqueued EXCEPT ![t] = FALSE]

(***************************************************************************)
(* _Thread_Wait_restore_default() with the queue lock, and the release of  *)
(* the queue lock that follows.  The requests of others become stale.      *)
(***************************************************************************)
RestoreDefault(t) ==
  /\ DefaultFree(t)
  /\ path' = [c \in Context |-> [n \in 1 .. Len(path[c]) |->
                IF <<c, n>> \in pending[t]
                  THEN [path[c][n] EXCEPT !.queue = None] ELSE path[c][n]]]
  /\ gate' = [gate EXCEPT ![t] = IF pending[t] = {} THEN "open" ELSE "chained"]
  /\ waitQueue' = [waitQueue EXCEPT ![t] = None]
  /\ enqueued' = [enqueued EXCEPT ![t] = FALSE]

\* Mutant: the requests are left alone.
StaleRequestsKept(c) == UNCHANGED request

\* The requests of _Thread_Wait_acquire() but for the one of context c itself
StaleRequests(c) ==
  request' = [d \in Context |->
                IF d # c /\ <<d, 0>> \in pending[subject[c]] THEN None
                ELSE request[d]]

\* Who ends a wait also waits for the requests.  (A thread that did not block
\* yet does this itself; in both cases it goes on when the gate is open.)
Restore(c) ==
  /\ At(c, "restore")
  /\ kind[c] \in {"enqueue", "surrender"}
  /\ RestoreDefault(subject[c])
  /\ StaleRequests(c)
  /\ queueLock' = [queueLock EXCEPT ![queue[c]] = None]
  /\ Go(c, "tranquilize")
  /\ UNCHANGED <<defaultLock, owner, pending, links, kind, subject, queue, walk,
                 deadlock>>

\* _Thread_Wait_cancel() keeps the queue in the request of the timeout.
RestoreTimeout(c) ==
  /\ At(c, "restore")
  /\ kind[c] = "timeout"
  /\ RestoreDefault(subject[c])
  /\ StaleRequests(c)
  /\ queueLock' = [queueLock EXCEPT ![queue[c]] = None]
  /\ Go(c, "remove_request")
  /\ UNCHANGED <<defaultLock, owner, pending, links, kind, subject, queue, walk,
                 deadlock>>

\* The rest of _Thread_Wait_release()
WaitRelease(c) ==
  /\ At(c, "remove_request")
  /\ DefaultFree(subject[c])
  /\ RemoveRequest(subject[c], <<c, 0>>)
  /\ IF kind[c] = "timeout"
       THEN Go(c, "tranquilize") /\ UNCHANGED local
       ELSE Go(c, "idle") /\ Finish(c)
  /\ UNCHANGED <<locks, owner, waitQueue, enqueued, links>>

\* _Thread_Wait_tranquilize(), and the thread goes on.
Tranquilize(c) ==
  /\ At(c, "tranquilize")
  /\ gate[subject[c]] = "open"
  /\ pc' = [pc EXCEPT ![c] = "idle", ![subject[c]] = "idle"]
  /\ Finish(c)
  /\ UNCHANGED <<locks, threadVars>>

------------------------------------------------------------------------------
(***************************************************************************)
(* _Thread_Wait_acquire() of a thread by a timeout or a priority change.   *)
(***************************************************************************)
WaitAcquire(c, what, t) ==
  /\ At(c, "idle")
  /\ DefaultFree(t)
  /\ Begin(c, what, t, waitQueue[t])
  /\ request' = [request EXCEPT ![c] = waitQueue[t]]
  /\ IF waitQueue[t] = None
       THEN /\ defaultLock' = [defaultLock EXCEPT ![t] = c]
            /\ Go(c, "held")
            /\ UNCHANGED pending
       ELSE /\ pending' = [pending EXCEPT ![t] = @ \cup {<<c, 0>>}]
            /\ Go(c, "wait_queue")
            /\ UNCHANGED defaultLock
  /\ UNCHANGED <<queueLock, owner, waitQueue, enqueued, gate, links>>

WaitAcquireQueue(c) ==
  /\ At(c, "wait_queue")
  /\ QueueFree(queue[c])
  /\ IF request[c] # None
       THEN queueLock' = [queueLock EXCEPT ![queue[c]] = c] /\ Go(c, "held")
       ELSE UNCHANGED queueLock /\ Go(c, "wait_stale")
  /\ UNCHANGED <<defaultLock, threadVars, local>>

WaitStale(c) ==
  /\ At(c, "wait_stale")
  /\ DefaultFree(subject[c])
  /\ defaultLock' = [defaultLock EXCEPT ![subject[c]] = c]
  /\ RemoveRequest(subject[c], <<c, 0>>)
  /\ Go(c, "held")
  /\ UNCHANGED <<queueLock, owner, waitQueue, enqueued, links, local>>

\* The thread does not wait: nothing to time out, or a priority change that
\* concerns this thread only.
HeldDefault(c) ==
  /\ At(c, "held")
  /\ request[c] = None
  /\ defaultLock' = [defaultLock EXCEPT ![subject[c]] = None]
  /\ Finish(c)
  /\ Go(c, "idle")
  /\ UNCHANGED <<queueLock, threadVars>>

\* A timeout extracts the thread, a priority change may end at the queue.
HeldQueue(c) ==
  /\ At(c, "held")
  /\ request[c] # None
  /\ Go(c, "path") \/ (kind[c] = "priority" /\ Go(c, "release"))
  /\ UNCHANGED <<locks, threadVars, local>>

ContextStep(c) ==
  \/ PathNoOwner(c) \/ PathOwnerRuns(c) \/ PathOwnerWaits(c) \/ PathCycle(c)
  \/ PathQueue(c) \/ PathQueueStale(c) \/ PathStale(c) \/ Walk(c) \/ WalkLock(c)
  \/ Body(c) \/ ReleaseQueue(c) \/ ReleaseRequest(c) \/ ReleaseDefault(c)
  \/ LeaveQueue(c) \/ Tranquilize(c)

Next ==
  \/ \E c \in Context : ContextStep(c)
  \/ \E t \in Thread :
       \/ \E q \in Queue :
            \/ SeizeFree(t, q) \/ SurrenderFree(t, q) \/ Seize(t, q)
            \/ Surrender(t, q) \/ \E u \in Thread : ExtractThread(t, q, u)
       \/ \E u \in Thread : NewOwner(t, u)
       \/ Claim(t) \/ Block(t) \/ Restore(t)
  \/ \E c \in Handler :
       \/ \E what \in {"timeout", "priority"}, t \in Thread :
            WaitAcquire(c, what, t)
       \/ WaitAcquireQueue(c) \/ WaitStale(c) \/ HeldDefault(c) \/ HeldQueue(c)
       \/ RestoreTimeout(c) \/ PriorityChanged(c) \/ WaitRelease(c)

Spec == Init /\ [][Next]_vars

------------------------------------------------------------------------------
\* The default lock or the queue lock that the next step of the context
\* acquires
DefaultWanted(c) ==
  CASE pc[c] \in {"claim", "surrender"} -> c
    [] pc[c] = "path" -> NextOwner(c)
    [] pc[c] \in {"path_stale", "release_request"} -> LastLink(c).owner
    [] pc[c] = "walk_lock" -> walk[c]
    [] pc[c] \in {"restore", "remove_request", "wait_stale"} -> subject[c]
    [] OTHER -> None

QueueWanted(c) ==
  CASE pc[c] = "path_queue" -> LastLink(c).target
    [] pc[c] = "wait_queue" -> queue[c]
    [] OTHER -> None

\* The contexts that context c spins for
SpinsFor(c) ==
  (IF DefaultWanted(c) = None THEN {} ELSE {defaultLock[DefaultWanted(c)]})
    \cup (IF QueueWanted(c) = None THEN {} ELSE {queueLock[QueueWanted(c)]})
    \cup (IF pc[c] = "tranquilize" /\ gate[subject[c]] # "open"
            THEN {r[1] : r \in pending[subject[c]]} ELSE {})

\* The processors never spin for each other in a cycle, which would be "an
\* unrecoverable deadlock of the overall system" (comment in
\* _Thread_queue_Path_acquire_critical()).
NoLockCycle ==
  \A S \in SUBSET Context \ {{}} : \E c \in S : SpinsFor(c) \cap S = {}

\* Who has passed _Thread_Wait_acquire() holds the lock that protects the
\* wait information, whatever happened to the thread in between: the lock of
\* the queue it waits for, or else its default lock.
WaitLockIsRight ==
  \A c \in Handler : pc[c] \in {"held", "path"} =>
    IF request[c] # None
      THEN /\ waitQueue[subject[c]] = request[c]
           /\ queueLock[request[c]] = c
      ELSE /\ waitQueue[subject[c]] = None
           /\ defaultLock[subject[c]] = c

\* A thread starts a wait only after all requests of its previous wait are
\* gone (_Thread_Wait_tranquilize()), since _Thread_Wait_claim() empties the
\* chain of requests.
NoStaleRequest ==
  \A t \in Thread : pc[t] = "claim" => pending[t] = {} /\ waitQueue[t] = None

\* The threads on the chain of owners that starts at thread t and ends at one
\* with the default operations, which propagate nothing, or at a queue without
\* owner
ChainFrom[n \in Nat, t \in Thread \cup {None}] ==
  IF t = None THEN {}
  ELSE IF n = 0 \/ ~enqueued[t] THEN {t}
  ELSE {t} \cup ChainFrom[n - 1, owner[waitQueue[t]]]

\* The threads whose priorities the context is about to change
Touches(c) ==
  CASE pc[c] = "body" /\ ~(kind[c] = "enqueue" /\ deadlock[c]) ->
         {subject[c]} \cup ChainFrom[Cardinality(Thread), owner[queue[c]]]
    [] pc[c] = "held" /\ request[c] = None -> {subject[c]}
    [] pc[c] = "surrender" /\ DefaultFree(c) -> {c}
    [] OTHER -> {}

\* Two processors never work on the priorities of the same thread, although
\* _Thread_Priority_perform_actions() follows the chain without own locks:
\* "In case of a deadlock, we use locks acquired by other processors along
\* the path".
OneAtATime ==
  \A c, d \in Context : c # d => Touches(c) \cap Touches(d) = {}

\* The threads that wait never form a cycle: of the threads that would close
\* it at the same time on different processors at least one gets the deadlock
\* status.  (A new owner of a queue is about to leave it.)
NoWaitCycle ==
  \A S \in SUBSET Thread \ {{}} :
    \E t \in S : ~enqueued[t] \/ owner[waitQueue[t]] \notin S \ {t}
==============================================================================
