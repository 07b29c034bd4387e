------------------------------ MODULE CoreRWLock ------------------------------
(***************************************************************************)
(* Read-write locks (CORE_RWLock_Control, pthread_rwlock_t) on top of the  *)
(* thread queue handler.                                                   *)
(*                                                                         *)
(* reads and writer record which calls returned success to which thread:   *)
(* the lock itself only has a state and a number of readers.  Callers are  *)
(* well behaved: a thread unlocks what it locked, does not lock again what *)
(* it has locked except for nested read locks, and nobody destroys a lock  *)
(* that is held.                                                           *)
(***************************************************************************)
EXTENDS ThreadQueue

CONSTANT ReadBound  \* bound on the nested read locks of a thread

\* What a thread in a lock call asked for: the lock and its Wait.option.
Request == [queue : Queue, option : {"READ", "WRITE"}]

ASSUME CoreRWLockAssumption ==
  /\ ReadBound \in Nat \ {0}
  /\ None \notin Request

VARIABLES
  state,    \* current_state
  readers,  \* number_of_readers
  open,     \* the flags hold POSIX_RWLOCK_MAGIC
  request,  \* the request of a thread in a lock call, or None
  reads,    \* the number of read locks a thread has of a lock
  writer    \* the thread that has the write lock, or None

rwVars == <<state, readers, open, request, reads, writer>>

vars == <<rwVars, tqVars>>

State == {"UNLOCKED", "LOCKED_FOR_READING", "LOCKED_FOR_WRITING"}

TypeOK ==
  /\ TQTypeOK
  /\ state \in [Queue -> State]
  /\ readers \in [Queue -> Nat]
  /\ open \in [Queue -> BOOLEAN]
  /\ request \in [Thread -> Request \cup {None}]
  /\ reads \in [Queue -> [Thread -> 0 .. ReadBound]]
  /\ writer \in [Queue -> Thread \cup {None}]

Init ==
  /\ TQInit
  /\ state = [q \in Queue |-> "UNLOCKED"]
  /\ readers = [q \in Queue |-> 0]
  /\ open = [q \in Queue |-> FALSE]
  /\ request = [t \in Thread |-> None]
  /\ reads = [q \in Queue |-> [t \in Thread |-> 0]]
  /\ writer = [q \in Queue |-> None]

\* The threads whose call for a lock was granted while they waited, and which
\* did not return yet.
Granted(q, option) ==
  {t \in Thread :
     /\ request[t] = [queue |-> q, option |-> option]
     /\ waitQueue[t] = None
     /\ returnCode[t] = "SUCCESSFUL"}

\* The read locks that are held, nested ones counted.
Held(q) == {p \in Thread \X (1 .. ReadBound) : p[2] <= reads[q][p[1]]}

\* The locks callers hold or are about to be told they hold.
ReadLocks(q) == Cardinality(Granted(q, "READ")) + Cardinality(Held(q))

WriteLocks(q) ==
  Cardinality(Granted(q, "WRITE")) + (IF writer[q] = None THEN 0 ELSE 1)

InUse(q) == ReadLocks(q) + WriteLocks(q) # 0

------------------------------------------------------------------------------
\* _CORE_RWLock_Initialize(), _POSIX_RWLock_Auto_initialization()
Initialize(q) ==
  /\ ~fatal
  /\ ~open[q]
  /\ open' = [open EXCEPT ![q] = TRUE]
  /\ state' = [state EXCEPT ![q] = "UNLOCKED"]
  /\ readers' = [readers EXCEPT ![q] = 0]
  /\ UNCHANGED <<request, reads, writer, tqVars>>

\* Mutant: readers pass the threads that wait.
MayReadAlways(q) == state[q] # "LOCKED_FOR_WRITING"

\* _CORE_RWLock_Seize_for_reading(): no need to wait
MayRead(q) ==
  \/ state[q] = "UNLOCKED"
  \/ state[q] = "LOCKED_FOR_READING" /\ Waiters(q) = {}

SeizeForReading(t, q) ==
  /\ CanCall(t)
  /\ open[q]
  /\ MayRead(q)
  /\ reads[q][t] < ReadBound
  /\ state' = [state EXCEPT ![q] = "LOCKED_FOR_READING"]
  /\ readers' = [readers EXCEPT ![q] = @ + 1]
  /\ reads' = [reads EXCEPT ![q][t] = @ + 1]
  /\ UNCHANGED <<open, request, writer, tqVars>>

\* _CORE_RWLock_Seize_for_writing(): no need to wait
SeizeForWriting(t, q) ==
  /\ CanCall(t)
  /\ open[q]
  /\ state[q] = "UNLOCKED"
  /\ state' = [state EXCEPT ![q] = "LOCKED_FOR_WRITING"]
  /\ writer' = [writer EXCEPT ![q] = t]
  /\ UNCHANGED <<readers, open, request, reads, tqVars>>

\* The two with wait = true, when the lock is not available
SeizeWait(t, q, option) ==
  /\ CanCall(t)
  /\ open[q]
  /\ writer[q] # t
  /\ option = "READ" => ~MayRead(q) /\ reads[q][t] < ReadBound
  /\ option = "WRITE" => state[q] # "UNLOCKED" /\ reads[q][t] = 0
  /\ request' = [request EXCEPT ![t] = [queue |-> q, option |-> option]]
  /\ Enqueue(q, t)
  /\ UNCHANGED <<state, readers, open, reads, writer>>

------------------------------------------------------------------------------
IsWaitingForReading(t) == request[t].option = "READ"

\* _CORE_RWLock_Flush_filter() applied by _Thread_queue_Flush_critical() to an
\* unlocked lock: the first thread, if it waits for writing, or the readers up
\* to the first writer.
FlushFilter(q) ==
  IF \E t \in Waiters(q) : IsFirst(q, t) /\ ~IsWaitingForReading(t)
    THEN {t \in Waiters(q) : IsFirst(q, t)}
    ELSE {t \in Waiters(q) : \A u \in ahead[t] \cup {t} : IsWaitingForReading(u)}

\* Mutant: the number of readers is not set.
StateForNoCount(q, S) ==
  /\ state' = [state EXCEPT
       ![q] = IF S = {} THEN "UNLOCKED"
              ELSE IF \A t \in S : IsWaitingForReading(t)
                THEN "LOCKED_FOR_READING" ELSE "LOCKED_FOR_WRITING"]
  /\ readers' = [readers EXCEPT ![q] = IF S = {} THEN 0 ELSE 1]

\* What the filter does to the state of the lock when it lets S in.
StateFor(q, S) ==
  LET reading == S # {} /\ \A t \in S : IsWaitingForReading(t) IN
  /\ state' = [state EXCEPT
       ![q] = IF S = {} THEN "UNLOCKED"
              ELSE IF reading THEN "LOCKED_FOR_READING" ELSE "LOCKED_FOR_WRITING"]
  /\ readers' = [readers EXCEPT ![q] = IF reading THEN Cardinality(S) ELSE 0]

\* Thread t gives back a lock it holds.
GiveBack(t, q) ==
  \/ /\ writer[q] = t
     /\ writer' = [writer EXCEPT ![q] = None]
     /\ UNCHANGED reads
  \/ /\ reads[q][t] > 0
     /\ reads' = [reads EXCEPT ![q][t] = @ - 1]
     /\ UNCHANGED writer

\* _CORE_RWLock_Surrender(): other readers remain
SurrenderShared(t, q) ==
  /\ CanCall(t)
  /\ open[q]
  /\ GiveBack(t, q)
  /\ state[q] = "LOCKED_FOR_READING"
  /\ readers[q] # 1
  /\ readers' = [readers EXCEPT ![q] = @ - 1]
  /\ UNCHANGED <<state, open, request, tqVars>>

\* Mutant: the lock is unlocked only.
SurrenderLastNoFlush(t, q) ==
  /\ CanCall(t) /\ open[q] /\ GiveBack(t, q)
  /\ \/ state[q] = "LOCKED_FOR_WRITING"
     \/ state[q] = "LOCKED_FOR_READING" /\ readers[q] = 1
  /\ StateFor(q, {})
  /\ UNCHANGED <<open, request, tqVars>>

\* _CORE_RWLock_Surrender(): the lock is unlocked and passed on
SurrenderLast(t, q) ==
  /\ CanCall(t)
  /\ open[q]
  /\ GiveBack(t, q)
  /\ \/ state[q] = "LOCKED_FOR_WRITING"
     \/ state[q] = "LOCKED_FOR_READING" /\ readers[q] = 1
  /\ StateFor(q, FlushFilter(q))
  /\ Extract(t, FlushFilter(q))
  /\ UNCHANGED <<returnCode, open, request>>

Surrender(t, q) == SurrenderShared(t, q) \/ SurrenderLast(t, q)

\* pthread_rwlock_destroy()
Destroy(t, q) ==
  /\ CanCall(t)
  /\ open[q]
  /\ ~InUse(q)
  /\ Waiters(q) = {}
  /\ open' = [open EXCEPT ![q] = FALSE]
  /\ UNCHANGED <<state, readers, request, reads, writer, tqVars>>

------------------------------------------------------------------------------
\* A step of the handler.  A call that returns success leaves its caller with
\* the lock it asked for.
HandlerStep ==
  LET got(q, option) == {t \in Granted(q, option) : pc'[t] = "run"} IN
  /\ TQStep
  /\ request' = [t \in Thread |-> IF pc'[t] = "run" THEN None ELSE request[t]]
  /\ reads' = [q \in Queue |-> [t \in Thread |->
                 IF t \in got(q, "READ") THEN reads[q][t] + 1 ELSE reads[q][t]]]
  /\ writer' = [q \in Queue |->
                  IF got(q, "WRITE") = {} THEN writer[q]
                  ELSE CHOOSE t \in got(q, "WRITE") : TRUE]
  /\ UNCHANGED <<state, readers, open>>

Next ==
  \/ \E q \in Queue : Initialize(q)
  \/ \E t \in Thread, q \in Queue : SeizeForReading(t, q)
  \/ \E t \in Thread, q \in Queue : SeizeForWriting(t, q)
  \/ \E t \in Thread, q \in Queue, o \in {"READ", "WRITE"} : SeizeWait(t, q, o)
  \/ \E t \in Thread, q \in Queue : Surrender(t, q)
  \/ \E t \in Thread, q \in Queue : Destroy(t, q)
  \/ HandlerStep

Spec == Init /\ [][Next]_vars

------------------------------------------------------------------------------
\* The state and the counter of the lock agree with what the callers were, or
\* are going to be, told, with timeouts and hand-overs racing: a writer is
\* alone, and the readers are counted exactly.
LockMatchesCallers ==
  \A q \in Queue :
    CASE state[q] = "UNLOCKED" -> ReadLocks(q) = 0 /\ WriteLocks(q) = 0
      [] state[q] = "LOCKED_FOR_READING" ->
           ReadLocks(q) = readers[q] /\ readers[q] > 0 /\ WriteLocks(q) = 0
      [] state[q] = "LOCKED_FOR_WRITING" -> ReadLocks(q) = 0 /\ WriteLocks(q) = 1

\* Nobody waits for a lock that is available.
NoWaitForUnlocked ==
  \A q \in Queue : state[q] = "UNLOCKED" => Waiters(q) = {}

\* A reader that comes later does not pass a writer that waits: "If any thread
\* is waiting, then we wait".
WriterNotPassed ==
  [][\A q \in Queue, w, r \in Thread :
       /\ waitQueue[w] = q /\ waitQueue'[w] = q /\ ~IsWaitingForReading(w)
       /\ reads[q][r] = 0 /\ r \notin Granted(q, "READ")
       /\ r \notin ahead[w]
       => reads'[q][r] = 0 /\ r \notin Granted(q, "READ")']_vars

==============================================================================
