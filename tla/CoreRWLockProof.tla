--------------------------- MODULE CoreRWLockProof ---------------------------
(***************************************************************************)
(* Read-write locks agree with what their callers were told, for every     *)
(* number of threads, clocks and locks and every depth of nested read      *)
(* locks, on one or several processors.                                    *)
(***************************************************************************)
EXTENDS CoreRWLock, ThreadQueueProof

(***************************************************************************)
(* A thread has a request while it is inside of a lock call; while it      *)
(* waits, it waits for the lock it asked for, and its status is still the  *)
(* initial one.  Nobody uses a lock that does not exist.                   *)
(***************************************************************************)
RequestInv ==
  \A t \in Thread :
    /\ pc[t] = "run" => request[t] = None
    /\ waitQueue[t] # None => /\ request[t] # None
                              /\ request[t].queue = waitQueue[t]
                              /\ returnCode[t] = "SUCCESSFUL"
    /\ request[t] # None /\ request[t].option = "READ" =>
         reads[request[t].queue][t] < ReadBound

LockInv(q) ==
  /\ ~open[q] => Waiters(q) = {} /\ ReadLocks(q) = 0 /\ WriteLocks(q) = 0
  /\ state[q] = "UNLOCKED" =>
       /\ ReadLocks(q) = 0 /\ readers[q] = 0 /\ WriteLocks(q) = 0
       /\ Waiters(q) = {}
  /\ state[q] = "LOCKED_FOR_READING" =>
       ReadLocks(q) = readers[q] /\ readers[q] > 0 /\ WriteLocks(q) = 0
  /\ state[q] = "LOCKED_FOR_WRITING" =>
       ReadLocks(q) = 0 /\ readers[q] = 0 /\ WriteLocks(q) = 1

RwStateInv == TypeOK /\ RequestInv /\ \A q \in Queue : LockInv(q)

(***************************************************************************)
(* The facts about finite sets and natural numbers that counting the locks *)
(* takes.  They are true of every state; as a part of the invariant they   *)
(* are at hand in every step, and the theorems derive them from the        *)
(* library, which CoreRWLockProof instantiates at its end.                 *)
(***************************************************************************)
CountFacts ==
  /\ IsFiniteSet({}) /\ Cardinality({}) = 0
  /\ \A x : Cardinality({x}) = 1
  /\ \A S : IsFiniteSet(S) =>
       /\ Cardinality(S) \in Nat
       /\ Cardinality(S) = 0 => S = {}
       /\ \A x \in S : Cardinality(S \ {x}) = Cardinality(S) - 1
       /\ \A x : x \notin S => Cardinality(S \cup {x}) = Cardinality(S) + 1
       /\ \A T \in SUBSET S : /\ IsFiniteSet(T)
                              /\ T # S => Cardinality(T) < Cardinality(S)
  /\ IsFiniteSet(Thread \X (1 .. ReadBound))
  /\ \A I \in SUBSET Nat : I # {} => \E x \in I : \A y \in I : x <= y

RwInv == OrderInv /\ RwStateInv /\ CountFacts

------------------------------------------------------------------------------
(***************************************************************************)
(* Counting the locks.                                                     *)
(***************************************************************************)

\* The fields of a request for reading
LEMMA RequestFields ==
  ASSUME NEW x, NEW q, x = [queue |-> q, option |-> "READ"]
  PROVE  x.queue = q /\ x.option = "READ"
BY Zenon

\* What the facts say of one finite set.
LEMMA CountOne ==
  ASSUME RwInv, NEW S, IsFiniteSet(S)
  PROVE  /\ Cardinality(S) \in Nat /\ (Cardinality(S) = 0 => S = {})
         /\ \A x \in S : Cardinality(S \ {x}) = Cardinality(S) - 1
         /\ \A x : x \notin S => Cardinality(S \cup {x}) = Cardinality(S) + 1
  BY Zenon DEF RwInv, CountFacts

\* The empty set and the sets of one element.
LEMMA CountSmall ==
  ASSUME RwInv
  PROVE  /\ IsFiniteSet({}) /\ Cardinality({}) = 0
         /\ \A x : Cardinality({x}) = 1
  BY Zenon DEF RwInv, CountFacts

\* What the facts say of a subset.
LEMMA CountSubset ==
  ASSUME RwInv, NEW S, IsFiniteSet(S), NEW T \in SUBSET S
  PROVE  /\ IsFiniteSet(T) /\ Cardinality(T) \in Nat
         /\ T # S => Cardinality(T) < Cardinality(S)
  BY Zenon DEF RwInv, CountFacts

\* The locks are finitely many.
LEMMA LocksFinite ==
  ASSUME RwInv, NEW q \in Queue
  PROVE  /\ \A o : IsFiniteSet(Granted(q, o)) /\ Cardinality(Granted(q, o)) \in Nat
         /\ IsFiniteSet(Held(q)) /\ Cardinality(Held(q)) \in Nat
         /\ ReadLocks(q) \in Nat /\ WriteLocks(q) \in Nat
<1>1. \A o : IsFiniteSet(Granted(q, o)) /\ Cardinality(Granted(q, o)) \in Nat
  <2> SUFFICES ASSUME NEW o
               PROVE  IsFiniteSet(Granted(q, o)) /\ Cardinality(Granted(q, o)) \in Nat
    BY Zenon
  <2>1. Granted(q, o) \in SUBSET Thread
    BY Zenon DEF Granted
  <2> QED BY <2>1, CountSubset, ThreadQueueAssumption, Zenon
<1>2. IsFiniteSet(Held(q)) /\ Cardinality(Held(q)) \in Nat
  <2>1. IsFiniteSet(Thread \X (1 .. ReadBound))
    BY Zenon DEF RwInv, CountFacts
  <2>2. Held(q) \in SUBSET (Thread \X (1 .. ReadBound))
    BY Zenon DEF Held
  <2> QED BY Zenon, <2>1, <2>2, CountSubset
<1> QED BY <1>1, <1>2 DEF ReadLocks, WriteLocks

\* The locks are the same if the grants and the holders are.
LEMMA LocksSame ==
  ASSUME NEW q \in Queue, reads'[q] = reads[q], writer'[q] = writer[q],
         Granted(q, "READ")' = Granted(q, "READ"),
         Granted(q, "WRITE")' = Granted(q, "WRITE")
  PROVE  ReadLocks(q)' = ReadLocks(q) /\ WriteLocks(q)' = WriteLocks(q)
<1>1. Held(q)' = Held(q)
  BY Zenon DEF Held
<1> QED BY <1>1, Zenon DEF ReadLocks, WriteLocks

\* The grants are the same if nothing a grant consists of changes.
LEMMA GrantedSame ==
  ASSUME UNCHANGED <<request, waitQueue, returnCode>>, NEW q, NEW o
  PROVE  Granted(q, o)' = Granted(q, o)
  BY Zenon DEF Granted

\* A caller that gets one more read lock is one more read lock.
LEMMA HeldMore ==
  ASSUME RwInv, NEW q \in Queue, NEW t \in Thread, reads[q][t] < ReadBound,
         \A u \in Thread :
           reads'[q][u] = IF u = t THEN reads[q][u] + 1 ELSE reads[q][u]
  PROVE  Cardinality(Held(q)') = Cardinality(Held(q)) + 1
<1>1. \A u \in Thread : reads[q][u] \in 0 .. ReadBound
  BY Zenon DEF RwInv, RwStateInv, TypeOK
<1> DEFINE p == <<t, reads[q][t] + 1>>
<1>2. ReadBound \in Nat
  BY CoreRWLockAssumption, Zenon
<1>3. p \in Thread \X (1 .. ReadBound) /\ p \notin Held(q)
  BY <1>1, <1>2 DEF Held
<1>4. ASSUME NEW u \in Thread, NEW n \in 1 .. ReadBound
      PROVE  <<u, n>> \in Held(q)' <=> <<u, n>> \in Held(q) \cup {p}
  <2>1. n <= reads'[q][u] <=> n <= reads[q][u] \/ (u = t /\ n = reads[q][t] + 1)
    BY <1>1, <1>2
  <2> QED BY <2>1, Zenon DEF Held
<1>5. Held(q)' = Held(q) \cup {p}
  <2>1. Held(q)' \subseteq Thread \X (1 .. ReadBound)
    BY Zenon DEF Held
  <2>2. Held(q) \subseteq Thread \X (1 .. ReadBound)
    BY Zenon DEF Held
  <2> HIDE DEF p
  <2>3. \A x \in Thread \X (1 .. ReadBound) :
          \E u \in Thread, n \in 1 .. ReadBound : x = <<u, n>>
    OBVIOUS
  <2> QED BY <1>3, <1>4, <2>1, <2>2, <2>3
<1> QED BY Zenon, <1>3, <1>5, LocksFinite, CountOne

\* A caller that gives back a read lock is one read lock less.
LEMMA HeldLess ==
  ASSUME RwInv, NEW q \in Queue, NEW t \in Thread, reads[q][t] > 0,
         \A u \in Thread :
           reads'[q][u] = IF u = t THEN reads[q][u] - 1 ELSE reads[q][u]
  PROVE  /\ Cardinality(Held(q)') = Cardinality(Held(q)) - 1
         /\ Cardinality(Held(q)) > 0
<1>1. \A u \in Thread : reads[q][u] \in 0 .. ReadBound
  BY Zenon DEF RwInv, RwStateInv, TypeOK
<1> DEFINE p == <<t, reads[q][t]>>
<1>2. ReadBound \in Nat
  BY CoreRWLockAssumption, Zenon
<1>3. p \in Held(q)
  <2>1. reads[q][t] \in 1 .. ReadBound /\ reads[q][t] <= reads[q][t]
    BY <1>1, <1>2
  <2> QED BY <2>1, Zenon DEF Held
<1>4. ASSUME NEW u \in Thread, NEW n \in 1 .. ReadBound
      PROVE  <<u, n>> \in Held(q)' <=> <<u, n>> \in Held(q) \ {p}
  <2>1. n <= reads'[q][u] <=> n <= reads[q][u] /\ ~(u = t /\ n = reads[q][t])
    BY <1>1, <1>2
  <2> QED BY <2>1, Zenon DEF Held
<1>5. Held(q)' = Held(q) \ {p}
  <2>1. Held(q)' \subseteq Thread \X (1 .. ReadBound)
    BY Zenon DEF Held
  <2>2. Held(q) \subseteq Thread \X (1 .. ReadBound)
    BY Zenon DEF Held
  <2> HIDE DEF p
  <2>3. \A x \in Thread \X (1 .. ReadBound) :
          \E u \in Thread, n \in 1 .. ReadBound : x = <<u, n>>
    OBVIOUS
  <2> QED BY <1>4, <2>1, <2>2, <2>3
<1> HIDE DEF p
<1>6. Cardinality(Held(q)') = Cardinality(Held(q)) - 1
  BY Zenon, <1>3, <1>5, LocksFinite, CountOne
<1>7. Cardinality(Held(q)) # 0
  BY <1>3, LocksFinite, CountOne, CountSmall, Zenon
<1> QED BY <1>6, <1>7, LocksFinite

------------------------------------------------------------------------------
(***************************************************************************)
(* The wait protocol and the order of the queues.                          *)
(***************************************************************************)

\* Who is let in by a surrender waits.
LEMMA FlushFilterWaits ==
  ASSUME NEW q \in Queue
  PROVE  /\ FlushFilter(q) \in SUBSET Waiters(q)
         /\ \A t \in Waiters(q) : t \in Thread /\ waitQueue[t] = q /\ q # None
  BY ThreadQueueAssumption, Zenon DEF FlushFilter, Waiters

\* What a step of the lock is to the thread queue handler.
LEMMA StepKinds ==
  ASSUME WaitInv, Next
  PROVE  \/ UNCHANGED tqVars
         \/ TQStep
         \/ \E t \in Thread, q \in Queue : CanCall(t) /\ Enqueue(q, t)
         \/ \E c \in Context, S \in SUBSET Thread :
              /\ CanCall(c)
              /\ \A t \in S : waitQueue[t] # None
              /\ Extract(c, S)
              /\ returnCode' \in [Thread -> Status]
<1>1. CASE \E q \in Queue : Initialize(q)
  BY <1>1, Zenon DEF Initialize
<1>2. CASE \E t \in Thread, q \in Queue : SeizeForReading(t, q) \/ SeizeForWriting(t, q)
  BY <1>2, Zenon DEF SeizeForReading, SeizeForWriting
<1>3. CASE \E t \in Thread, q \in Queue, o \in {"READ", "WRITE"} : SeizeWait(t, q, o)
  BY <1>3, Zenon DEF SeizeWait
<1>4. ASSUME NEW t \in Thread, NEW q \in Queue, SurrenderLast(t, q)
      PROVE  \E c \in Context, S \in SUBSET Thread :
               /\ CanCall(c)
               /\ \A u \in S : waitQueue[u] # None
               /\ Extract(c, S)
               /\ returnCode' \in [Thread -> Status]
  <2>1. FlushFilter(q) \in SUBSET Thread /\ \A u \in FlushFilter(q) : waitQueue[u] # None
    BY FlushFilterWaits, Zenon
  <2>2. t \in Context /\ CanCall(t) /\ Extract(t, FlushFilter(q)) /\ UNCHANGED returnCode
    BY <1>4, Zenon DEF SurrenderLast, Context
  <2> QED BY <2>1, <2>2, Zenon DEF WaitInv, TQTypeOK
<1>5. CASE \E t \in Thread, q \in Queue : SurrenderShared(t, q) \/ Destroy(t, q)
  BY <1>5, Zenon DEF SurrenderShared, Destroy
<1>6. CASE HandlerStep
  BY <1>6, Zenon DEF HandlerStep
<1> QED BY <1>1, <1>2, <1>3, <1>4, <1>5, <1>6, Zenon DEF Next, Surrender

\* Every operation keeps the wait protocol and the order of the queues.
LEMMA OrderInvStep == OrderInv /\ [Next]_vars => OrderInv'
<1> SUFFICES ASSUME OrderInv, [Next]_vars PROVE OrderInv'
  BY Zenon
<1>1. WaitInv
  BY Zenon DEF OrderInv
<1>2. CASE Next
  <2>1. WaitInv'
    BY <1>1, <1>2, StepKinds, TQStutterInv, TQStepInv, EnqueueInv, ExtractInv, Zenon
  <2>2. UNCHANGED tqVars => LinearOrder'
    BY Zenon DEF tqVars, OrderInv, LinearOrder, StaysAhead
  <2>3. LinearOrder'
    BY <1>1, <1>2, <2>2, StepKinds, OrderStep, OrderEnqueue, OrderLeave, Zenon
    DEF Extract
  <2> QED BY <2>1, <2>3, Zenon DEF OrderInv
<1>3. CASE UNCHANGED vars
  BY <1>1, <1>3, TQStutterInv, Zenon DEF vars, tqVars, OrderInv, LinearOrder, StaysAhead
<1> QED BY <1>2, <1>3, Zenon

\* A lock that does not exist is not used.
LEMMA RwInvInit == Init /\ CountFacts => RwInv
<1> SUFFICES ASSUME Init, CountFacts PROVE RwInv
  BY Zenon
<1>1. OrderInv
  BY TQInitInv, Zenon DEF Init, OrderInv, TQInit, LinearOrder
<1>2. TypeOK
  BY <1>1, CoreRWLockAssumption DEF Init, TypeOK, OrderInv, WaitInv, State
<1>3. \A q \in Queue : Waiters(q) = {}
  BY ThreadQueueAssumption, Zenon DEF Init, TQInit, Waiters
<1>4. \A q \in Queue : ReadLocks(q) = 0 /\ WriteLocks(q) = 0
  <2> SUFFICES ASSUME NEW q \in Queue PROVE ReadLocks(q) = 0 /\ WriteLocks(q) = 0
    BY Zenon
  <2>1. \A o \in {"READ", "WRITE"} : Granted(q, o) = {}
    BY CoreRWLockAssumption DEF Init, Granted, Request
  <2>2. Held(q) = {}
    BY CoreRWLockAssumption DEF Init, Held
  <2>3. Cardinality({}) = 0 /\ writer[q] = None
    BY Zenon DEF Init, CountFacts
  <2> QED BY <2>1, <2>2, <2>3 DEF ReadLocks, WriteLocks
<1>5. RequestInv
  BY ThreadQueueAssumption, Zenon DEF Init, TQInit, RequestInv
<1> QED BY <1>1, <1>2, <1>3, <1>4, <1>5, Zenon
    DEF Init, RwInv, RwStateInv, LockInv

------------------------------------------------------------------------------
(***************************************************************************)
(* The operations.                                                         *)
(***************************************************************************)

\* An operation on another lock, and a step that only takes threads off the
\* queue, keep the invariant of a lock.
LEMMA LockInvKept ==
  ASSUME NEW q \in Queue, LockInv(q), state'[q] = state[q], readers'[q] = readers[q],
         open'[q] = open[q], ReadLocks(q)' = ReadLocks(q), WriteLocks(q)' = WriteLocks(q),
         Waiters(q)' \subseteq Waiters(q)
  PROVE  LockInv(q)'
  BY Zenon DEF LockInv

\* _POSIX_RWLock_Auto_initialization() finds a lock that nobody uses.
LEMMA InitializeInv ==
  ASSUME RwInv, NEW q \in Queue, Initialize(q), TQTypeOK'
  PROVE  RwStateInv'
<1>0. TypeOK /\ RequestInv /\ \A r \in Queue : LockInv(r)
  BY Zenon DEF RwInv, RwStateInv
<1>1. TypeOK'
  BY <1>0, Zenon DEF Initialize, TypeOK, State
<1>2. RequestInv'
  BY <1>0, Zenon DEF Initialize, RequestInv, tqVars
<1>3. ASSUME NEW r \in Queue
      PROVE  /\ Waiters(r)' = Waiters(r)
             /\ ReadLocks(r)' = ReadLocks(r) /\ WriteLocks(r)' = WriteLocks(r)
  BY LocksSame, GrantedSame, Zenon DEF Initialize, tqVars, Waiters
<1>4. LockInv(q)'
  BY <1>0, <1>3, Zenon DEF Initialize, LockInv, TypeOK
<1>5. \A r \in Queue \ {q} : LockInv(r)'
  BY Zenon, <1>0, <1>3, LockInvKept DEF Initialize, TypeOK
<1> QED BY <1>1, <1>2, <1>4, <1>5, Zenon DEF RwStateInv

\* A read lock that is granted at once.
LEMMA SeizeForReadingInv ==
  ASSUME RwInv, NEW t \in Thread, NEW q \in Queue, SeizeForReading(t, q), TQTypeOK'
  PROVE  RwStateInv'
<1>0. TypeOK /\ RequestInv /\ \A r \in Queue : LockInv(r)
  BY Zenon DEF RwInv, RwStateInv
<1>1. /\ \A r \in Queue : reads'[r] = IF r = q THEN [reads[q] EXCEPT ![t] = @ + 1]
                                               ELSE reads[r]
      /\ \A r \in Queue : readers'[r] = IF r = q THEN readers[q] + 1 ELSE readers[r]
      /\ \A r \in Queue : state'[r] = IF r = q THEN "LOCKED_FOR_READING" ELSE state[r]
      /\ UNCHANGED <<open, request, writer, tqVars>>
      /\ pc[t] = "run" /\ open[q] /\ MayRead(q) /\ reads[q][t] < ReadBound
  BY <1>0, Zenon DEF SeizeForReading, TypeOK, CanCall
<1>2. \A u \in Thread : reads'[q][u] = IF u = t THEN reads[q][u] + 1 ELSE reads[q][u]
  BY <1>0, <1>1 DEF TypeOK
<1>3. TypeOK'
  <2>1. reads[q][t] + 1 \in 0 .. ReadBound
    BY <1>0, <1>1, CoreRWLockAssumption DEF TypeOK
  <2>2. reads' \in [Queue -> [Thread -> 0 .. ReadBound]]
    BY <1>0, <2>1, Zenon DEF SeizeForReading, TypeOK
  <2> QED BY <1>0, <2>2 DEF SeizeForReading, TypeOK, State
<1>4. RequestInv'
  <2>1. \A r \in Queue, u \in Thread : u # t => reads'[r][u] = reads[r][u]
    BY Zenon, <1>1, <1>2
  <2>2. request[t] = None
    BY <1>0, <1>1, Zenon DEF RequestInv
  <2>3. \A u \in Thread : request[u] # None => request[u].queue \in Queue
    BY <1>0, Zenon DEF TypeOK, Request
  <2> QED BY <1>0, <1>1, <2>1, <2>2, <2>3 DEF RequestInv, tqVars
<1>5. \A r \in Queue, o \in {"READ", "WRITE"} : Granted(r, o)' = Granted(r, o)
  BY ZenonT(30), <1>1, GrantedSame DEF tqVars
<1>6. \A r \in Queue : Waiters(r)' = Waiters(r)
  BY Zenon, <1>1 DEF tqVars, Waiters
<1>7. LockInv(q)'
  <2>1. Cardinality(Held(q)') = Cardinality(Held(q)) + 1
    BY Zenon, <1>0, <1>1, <1>2, HeldMore
  <2>2. ReadLocks(q)' = ReadLocks(q) + 1 /\ WriteLocks(q)' = WriteLocks(q)
    BY <1>1, <1>5, <2>1, LocksFinite DEF ReadLocks, WriteLocks
  <2>3. ReadLocks(q) = readers[q] /\ WriteLocks(q) = 0 /\ readers[q] \in Nat
    BY Zenon, <1>0, <1>1 DEF LockInv, MayRead, TypeOK
  <2>4. readers'[q] = readers[q] + 1 /\ state'[q] = "LOCKED_FOR_READING" /\ open'[q]
    BY <1>1, Zenon
  <2> QED BY <2>2, <2>3, <2>4 DEF LockInv
<1>8. \A r \in Queue \ {q} : LockInv(r)'
  BY Zenon, <1>0, <1>1, <1>5, <1>6, LocksSame, LockInvKept
<1> QED BY <1>3, <1>4, <1>7, <1>8, Zenon DEF RwStateInv

\* A write lock that is granted at once.
LEMMA SeizeForWritingInv ==
  ASSUME RwInv, NEW t \in Thread, NEW q \in Queue, SeizeForWriting(t, q), TQTypeOK'
  PROVE  RwStateInv'
<1>0. TypeOK /\ RequestInv /\ \A r \in Queue : LockInv(r)
  BY Zenon DEF RwInv, RwStateInv
<1>1. /\ \A r \in Queue : writer'[r] = IF r = q THEN t ELSE writer[r]
      /\ \A r \in Queue : state'[r] = IF r = q THEN "LOCKED_FOR_WRITING" ELSE state[r]
      /\ UNCHANGED <<readers, open, request, reads, tqVars>>
      /\ open[q] /\ state[q] = "UNLOCKED"
  BY <1>0, Zenon DEF SeizeForWriting, TypeOK
<1>2. TypeOK'
  BY <1>0, Zenon DEF SeizeForWriting, TypeOK, State
<1>3. RequestInv'
  BY ZenonT(30), <1>0, <1>1 DEF RequestInv, tqVars
<1>4. \A r \in Queue, o \in {"READ", "WRITE"} : Granted(r, o)' = Granted(r, o)
  BY ZenonT(30), <1>1, GrantedSame DEF tqVars
<1>5. \A r \in Queue : Waiters(r)' = Waiters(r) /\ Held(r)' = Held(r)
  BY Zenon, <1>1 DEF tqVars, Waiters, Held
<1>6. LockInv(q)'
  <2>1. ReadLocks(q)' = ReadLocks(q)
    BY <1>4, <1>5, Zenon DEF ReadLocks
  <2>2. ReadLocks(q) = 0 /\ WriteLocks(q) = 0 /\ readers[q] = 0
    BY <1>0, <1>1, Zenon DEF LockInv
  <2>3. WriteLocks(q)' = 1
    BY <1>1, <1>4, <2>2, LocksFinite, ThreadQueueAssumption DEF WriteLocks
  <2> QED BY <1>1, <2>1, <2>2, <2>3, Zenon DEF LockInv
<1>7. \A r \in Queue \ {q} : LockInv(r)'
  BY <1>0, <1>1, <1>4, <1>5, LocksSame, LockInvKept, Zenon
<1> QED BY <1>2, <1>3, <1>6, <1>7, Zenon DEF RwStateInv

\* A thread starts to wait for a lock that is not available.
LEMMA SeizeWaitInv ==
  ASSUME RwInv, NEW t \in Thread, NEW q \in Queue, NEW o \in {"READ", "WRITE"},
         SeizeWait(t, q, o), TQTypeOK'
  PROVE  RwStateInv'
<1>0. TypeOK /\ RequestInv /\ \A r \in Queue : LockInv(r)
  BY Zenon DEF RwInv, RwStateInv
<1>1. /\ pc[t] = "run" /\ open[q] /\ CanCall(t) /\ Enqueue(q, t)
      /\ o = "READ" => reads[q][t] < ReadBound
      /\ state[q] # "UNLOCKED"
      /\ UNCHANGED <<state, readers, open, reads, writer>>
      /\ \A u \in Thread : request'[u] = IF u = t THEN [queue |-> q, option |-> o]
                                                  ELSE request[u]
  BY Zenon, <1>0 DEF SeizeWait, MayRead, CanCall, TypeOK
<1>2. \A u \in Thread :
        /\ waitQueue'[u] = IF u = t THEN q ELSE waitQueue[u]
        /\ returnCode'[u] = IF u = t THEN "SUCCESSFUL" ELSE returnCode[u]
        /\ pc'[u] = IF u = t THEN "callout" ELSE pc[u]
  BY <1>1, Zenon DEF Enqueue, RwInv, OrderInv, WaitInv, TQTypeOK
<1>3. [queue |-> q, option |-> o] \in Request
  BY Zenon DEF Request
<1>4. TypeOK'
  BY <1>0, <1>3, Zenon DEF SeizeWait, TypeOK
<1>5. RequestInv'
  <2>1. [queue |-> q, option |-> o] # None
    BY <1>3, CoreRWLockAssumption, Zenon
  <2>2. ASSUME NEW u \in Thread, u # t
        PROVE  /\ request'[u] = request[u] /\ waitQueue'[u] = waitQueue[u]
               /\ returnCode'[u] = returnCode[u] /\ pc'[u] = pc[u] /\ reads' = reads
    BY Zenon, <1>1, <1>2, <2>2
  <2>3. /\ request'[t] # None /\ request'[t].queue = q /\ request'[t].option = o
        /\ waitQueue'[t] = q /\ returnCode'[t] = "SUCCESSFUL" /\ pc'[t] = "callout"
    BY <1>1, <1>2, <2>1
  <2> QED BY Zenon, <1>0, <1>1, <2>2, <2>3 DEF RequestInv
<1>6. request[t] = None
  BY <1>0, <1>1, Zenon DEF RequestInv
<1>7. ASSUME NEW r \in Queue, NEW p \in {"READ", "WRITE"}
      PROVE  Granted(r, p)' = Granted(r, p)
  <2>1. [queue |-> r, option |-> p] # None
    <3>1. [queue |-> r, option |-> p] \in Request
      BY Zenon DEF Request
    <3> QED BY Zenon, <3>1, CoreRWLockAssumption
  <2> QED BY <1>1, <1>2, <1>6, <2>1, ThreadQueueAssumption DEF Granted
<1>8. \A r \in Queue : ReadLocks(r)' = ReadLocks(r) /\ WriteLocks(r)' = WriteLocks(r)
  BY <1>1, <1>7, LocksSame, Zenon
<1>9. \A r \in Queue \ {q} : Waiters(r)' = Waiters(r)
  BY Zenon, <1>1, EnqueueWaiters DEF RwInv, OrderInv
<1>10. LockInv(q)'
  BY <1>0, <1>1, <1>8, Zenon DEF LockInv
<1>11. \A r \in Queue \ {q} : LockInv(r)'
  BY Zenon, <1>0, <1>1, <1>8, <1>9, LockInvKept
<1> QED BY <1>4, <1>5, <1>10, <1>11, Zenon DEF RwStateInv

\* pthread_rwlock_destroy() of a lock that is not used.
LEMMA DestroyInv ==
  ASSUME RwInv, NEW t \in Thread, NEW q \in Queue, Destroy(t, q), TQTypeOK'
  PROVE  RwStateInv'
<1>0. TypeOK /\ RequestInv /\ \A r \in Queue : LockInv(r)
  BY Zenon DEF RwInv, RwStateInv
<1>1. TypeOK'
  BY <1>0, Zenon DEF Destroy, TypeOK
<1>2. RequestInv'
  BY ZenonT(30), <1>0 DEF Destroy, RequestInv, tqVars
<1>3. ASSUME NEW r \in Queue
      PROVE  /\ Waiters(r)' = Waiters(r)
             /\ ReadLocks(r)' = ReadLocks(r) /\ WriteLocks(r)' = WriteLocks(r)
  BY Zenon, LocksSame, GrantedSame DEF Destroy, tqVars, Waiters
<1>4. ReadLocks(q) = 0 /\ WriteLocks(q) = 0 /\ Waiters(q) = {}
  BY LocksFinite DEF Destroy, InUse
<1>5. LockInv(q)'
  BY <1>0, <1>3, <1>4, Zenon DEF Destroy, LockInv, TypeOK
<1>6. \A r \in Queue \ {q} : LockInv(r)'
  BY Zenon, <1>0, <1>3, LockInvKept DEF Destroy, TypeOK
<1> QED BY <1>1, <1>2, <1>5, <1>6, Zenon DEF RwStateInv

\* A thread gives back what it holds.
LEMMA GiveBackLocks ==
  ASSUME RwInv, NEW t \in Thread, NEW q \in Queue, GiveBack(t, q)
  PROVE  /\ \A r \in Queue \ {q} : reads'[r] = reads[r] /\ writer'[r] = writer[r]
         /\ \A r \in Queue, u \in Thread : reads'[r][u] <= reads[r][u]
         /\ reads' \in [Queue -> [Thread -> 0 .. ReadBound]]
         /\ writer' \in [Queue -> Thread \cup {None}]
         /\ \/ /\ writer[q] # None /\ writer'[q] = None /\ reads'[q] = reads[q]
            \/ /\ writer'[q] = writer[q] /\ Cardinality(Held(q)) > 0
               /\ Cardinality(Held(q)') = Cardinality(Held(q)) - 1
<1>0. TypeOK
  BY Zenon DEF RwInv, RwStateInv
<1>1. \A r \in Queue, u \in Thread : reads[r][u] \in 0 .. ReadBound
  BY <1>0, Zenon DEF TypeOK
<1>2. ReadBound \in Nat
  BY CoreRWLockAssumption, Zenon
<1>3. CASE writer[q] = t /\ writer' = [writer EXCEPT ![q] = None] /\ UNCHANGED reads
  <2>1. writer[q] # None /\ writer'[q] = None
    BY Zenon, <1>0, <1>3, ThreadQueueAssumption DEF TypeOK
  <2>2. \A r \in Queue, u \in Thread : reads'[r][u] <= reads[r][u]
    BY <1>1, <1>2, <1>3
  <2> QED BY <1>0, <1>3, <2>1, <2>2, Zenon DEF TypeOK
<1>4. CASE reads[q][t] > 0 /\ reads' = [reads EXCEPT ![q][t] = @ - 1] /\ UNCHANGED writer
  <2>1. \A r \in Queue, u \in Thread :
          reads'[r][u] = IF r = q /\ u = t THEN reads[r][u] - 1 ELSE reads[r][u]
    BY <1>0, <1>4, Zenon DEF TypeOK
  <2>2. \A r \in Queue, u \in Thread : reads'[r][u] <= reads[r][u]
    BY <1>1, <1>2, <2>1
  <2>3. reads[q][t] - 1 \in 0 .. ReadBound
    BY <1>1, <1>2, <1>4
  <2>4. reads' \in [Queue -> [Thread -> 0 .. ReadBound]]
    BY <1>0, <1>4, <2>3, Zenon DEF TypeOK
  <2>5. \A r \in Queue \ {q} : reads'[r] = reads[r]
    BY <1>0, <1>4, Zenon DEF TypeOK
  <2>6. /\ Cardinality(Held(q)) > 0
        /\ Cardinality(Held(q)') = Cardinality(Held(q)) - 1
    BY <1>0, <1>4, <2>1, HeldLess
  <2> QED BY <1>0, <1>4, <2>2, <2>4, <2>5, <2>6, Zenon DEF TypeOK
<1> QED BY <1>3, <1>4, Zenon DEF GiveBack

\* Giving back a lock leaves room for the requests of the callers.
LEMMA GiveBackRequests ==
  ASSUME RwInv, NEW t \in Thread, NEW q \in Queue, GiveBack(t, q), NEW u \in Thread,
         request[u] # None, request[u].option = "READ"
  PROVE  reads'[request[u].queue][u] < ReadBound
<1>1. request[u].queue \in Queue
  BY Zenon DEF RwInv, RwStateInv, TypeOK, Request
<1>2. reads[request[u].queue][u] < ReadBound
  BY Zenon DEF RwInv, RwStateInv, RequestInv
<1>3. /\ reads'[request[u].queue][u] <= reads[request[u].queue][u]
      /\ reads'[request[u].queue][u] \in 0 .. ReadBound
      /\ reads[request[u].queue][u] \in 0 .. ReadBound
  BY <1>1, GiveBackLocks, Zenon DEF RwInv, RwStateInv, TypeOK
<1> QED BY <1>2, <1>3, CoreRWLockAssumption

\* One of several readers gives back its lock.
LEMMA SurrenderSharedInv ==
  ASSUME RwInv, NEW t \in Thread, NEW q \in Queue, SurrenderShared(t, q), TQTypeOK'
  PROVE  RwStateInv'
<1>0. TypeOK /\ RequestInv /\ \A r \in Queue : LockInv(r)
  BY Zenon DEF RwInv, RwStateInv
<1>1. /\ GiveBack(t, q) /\ UNCHANGED <<state, open, request, tqVars>>
      /\ state[q] = "LOCKED_FOR_READING" /\ readers[q] # 1 /\ open[q]
      /\ \A r \in Queue : readers'[r] = IF r = q THEN readers[q] - 1 ELSE readers[r]
  BY <1>0, Zenon DEF SurrenderShared, TypeOK
<1>2. \A r \in Queue, o \in {"READ", "WRITE"} : Granted(r, o)' = Granted(r, o)
  BY ZenonT(30), <1>1, GrantedSame DEF tqVars
<1>3. \A r \in Queue : Waiters(r)' = Waiters(r)
  BY Zenon, <1>1 DEF tqVars, Waiters
<1>4. /\ readers[q] \in Nat /\ readers[q] > 1 /\ ReadLocks(q) = readers[q]
      /\ WriteLocks(q) = 0 /\ writer[q] = None
  <2>1. readers[q] \in Nat /\ readers[q] > 1 /\ ReadLocks(q) = readers[q]
        /\ WriteLocks(q) = 0
    BY <1>0, <1>1 DEF LockInv, TypeOK
  <2> QED BY <2>1, LocksFinite DEF WriteLocks
<1>5. /\ writer'[q] = None /\ ReadLocks(q)' = ReadLocks(q) - 1
  <2>1. /\ writer'[q] = None /\ Cardinality(Held(q)') = Cardinality(Held(q)) - 1
    BY <1>1, <1>4, GiveBackLocks, Zenon
  <2>2. Cardinality(Granted(q, "READ")) \in Nat /\ Cardinality(Held(q)) \in Nat
    BY Zenon, LocksFinite
  <2> QED BY <1>2, <2>1, <2>2 DEF ReadLocks
<1>6. WriteLocks(q)' = 0
  BY Zenon, <1>2, <1>4, <1>5 DEF WriteLocks
<1>7. LockInv(q)'
  <2>1. readers'[q] = readers[q] - 1 /\ state'[q] = "LOCKED_FOR_READING" /\ open'[q]
    BY Zenon, <1>1
  <2> QED BY <1>4, <1>5, <1>6, <2>1 DEF LockInv
<1>8. \A r \in Queue \ {q} : LockInv(r)'
  <2>1. \A r \in Queue \ {q} : ReadLocks(r)' = ReadLocks(r) /\ WriteLocks(r)' = WriteLocks(r)
    BY <1>1, <1>2, LocksSame, GiveBackLocks, Zenon
  <2> QED BY Zenon, <1>0, <1>1, <1>3, <2>1, LockInvKept
<1>9. TypeOK'
  <2>1. readers' \in [Queue -> Nat]
    BY <1>0, <1>4 DEF SurrenderShared, TypeOK
  <2> QED BY <1>0, <1>1, <2>1, GiveBackLocks, Zenon DEF TypeOK
<1>10. RequestInv'
  <2>1. UNCHANGED <<pc, waitQueue, returnCode, request>>
    BY Zenon, <1>1 DEF tqVars
  <2> QED BY ZenonT(30), <1>0, <1>1, <2>1, GiveBackRequests DEF RequestInv
<1> QED BY <1>7, <1>8, <1>9, <1>10, Zenon DEF RwStateInv


\* A queue that is not empty has a first thread: the one with the fewest in
\* front of it.
LEMMA FirstExists ==
  ASSUME RwInv, NEW q \in Queue, Waiters(q) # {}
  PROVE  \E t \in Waiters(q) : IsFirst(q, t)
<1>1. \A t \in Thread : /\ ahead[t] \in SUBSET Thread
                        /\ IsFiniteSet(ahead[t]) /\ Cardinality(ahead[t]) \in Nat
  BY ThreadQueueAssumption, CountSubset, Zenon
  DEF RwInv, OrderInv, WaitInv, TQTypeOK
<1> DEFINE sizes == {Cardinality(ahead[t]) : t \in Waiters(q)}
<1>2. sizes \in SUBSET Nat /\ sizes # {}
  BY <1>1, Zenon DEF Waiters
<1>3. PICK n \in sizes : \A i \in sizes : n <= i
  <2> HIDE DEF sizes
  <2> QED BY Zenon, <1>2 DEF RwInv, CountFacts
<1>4. PICK t \in Waiters(q) : n = Cardinality(ahead[t])
  BY Zenon
<1>5. \A u \in Waiters(q) : Cardinality(ahead[t]) <= Cardinality(ahead[u])
  BY Zenon, <1>3, <1>4
<1> HIDE DEF sizes
<1>6. ASSUME NEW u \in ahead[t] PROVE FALSE
  <2>1. t \in Thread /\ u \in Thread /\ waitQueue[t] = q
    BY <1>1, Zenon DEF Waiters
  <2>2. u \in Waiters(q) /\ ahead[u] \subseteq ahead[t] /\ u \notin ahead[u]
    BY <2>1, Zenon DEF RwInv, OrderInv, LinearOrder, Waiters
  <2>3. ahead[u] # ahead[t]
    BY <2>2, Zenon
  <2>4. Cardinality(ahead[u]) < Cardinality(ahead[t])
    BY <1>1, <2>1, <2>2, <2>3, CountSubset, Zenon
  <2> QED BY <1>1, <1>5, <2>1, <2>2, <2>4
<1> QED BY <1>6, Zenon DEF IsFirst, Waiters

\* Whom a surrender lets in: nobody only if nobody waits; one writer; or readers.
LEMMA FlushFilterKinds ==
  ASSUME RwInv, NEW q \in Queue
  PROVE  \/ FlushFilter(q) = {} /\ Waiters(q) = {}
         \/ FlushFilter(q) # {} /\ \A t \in FlushFilter(q) : IsWaitingForReading(t)
         \/ \E t \in Waiters(q) : FlushFilter(q) = {t} /\ ~IsWaitingForReading(t)
<1>0. OrderInv
  BY Zenon DEF RwInv
<1>1. CASE Waiters(q) = {}
  BY <1>1, FlushFilterWaits, Zenon
<1>2. CASE Waiters(q) # {}
  <2>1. PICK t \in Waiters(q) : IsFirst(q, t)
    BY <1>2, FirstExists, Zenon
  <2>2. t \in Thread
    BY Zenon DEF Waiters
  <2>3. \A u \in Waiters(q) : IsFirst(q, u) => u = t
    BY Zenon, <1>0, <2>1, <2>2, FirstUnique DEF Waiters
  <2>4. CASE IsWaitingForReading(t)
    <3>1. FlushFilter(q)
            = {u \in Waiters(q) : \A w \in ahead[u] \cup {u} : IsWaitingForReading(w)}
      BY <2>3, <2>4, Zenon DEF FlushFilter
    <3>2. t \in FlushFilter(q)
      BY <2>1, <2>4, <3>1 DEF IsFirst
    <3> QED BY <3>1, <3>2, Zenon
  <2>5. CASE ~IsWaitingForReading(t)
    <3>1. FlushFilter(q) = {u \in Waiters(q) : IsFirst(q, u)}
      BY <2>1, <2>5, Zenon DEF FlushFilter
    <3>2. FlushFilter(q) = {t}
      BY Zenon, <2>1, <2>3, <3>1
    <3> QED BY <2>5, <3>2, Zenon
  <2> QED BY <2>4, <2>5, Zenon
<1> QED BY <1>1, <1>2, Zenon

\* When the last lock is given back, nobody holds one.
LEMMA LastGivenBack ==
  ASSUME RwInv, NEW t \in Thread, NEW q \in Queue, GiveBack(t, q),
         \/ state[q] = "LOCKED_FOR_WRITING"
         \/ state[q] = "LOCKED_FOR_READING" /\ readers[q] = 1
  PROVE  /\ Cardinality(Held(q)') = 0 /\ writer'[q] = None
         /\ \A o \in {"READ", "WRITE"} : Granted(q, o) = {}
<1>0. LockInv(q)
  BY Zenon DEF RwInv, RwStateInv
<1>1. /\ ReadLocks(q) = Cardinality(Granted(q, "READ")) + Cardinality(Held(q))
      /\ WriteLocks(q) = Cardinality(Granted(q, "WRITE"))
                           + (IF writer[q] = None THEN 0 ELSE 1)
      /\ Cardinality(Granted(q, "READ")) \in Nat
      /\ Cardinality(Granted(q, "WRITE")) \in Nat
      /\ Cardinality(Held(q)) \in Nat
  BY LocksFinite, Zenon DEF ReadLocks, WriteLocks
<1>2. reads'[q] = reads[q] => Cardinality(Held(q)') = Cardinality(Held(q))
  BY Zenon DEF Held
<1>3. /\ Cardinality(Held(q)') = 0 /\ writer'[q] = None
      /\ Cardinality(Granted(q, "READ")) = 0 /\ Cardinality(Granted(q, "WRITE")) = 0
  <2>1. CASE state[q] = "LOCKED_FOR_WRITING"
    <3>1. ReadLocks(q) = 0 /\ WriteLocks(q) = 1
      BY <1>0, <2>1, Zenon DEF LockInv
    <3>2. Cardinality(Held(q)) = 0 /\ Cardinality(Granted(q, "READ")) = 0
      BY <1>1, <3>1
    <3>3. writer[q] # None /\ writer'[q] = None /\ reads'[q] = reads[q]
      BY <3>2, GiveBackLocks
    <3>4. WriteLocks(q) = Cardinality(Granted(q, "WRITE")) + 1
      BY Zenon, <1>1, <3>3
    <3>5. Cardinality(Granted(q, "WRITE")) = 0
      BY <1>1, <3>1, <3>4
    <3> QED BY Zenon, <1>2, <3>2, <3>3, <3>5
  <2>2. CASE state[q] = "LOCKED_FOR_READING" /\ readers[q] = 1
    <3>1. ReadLocks(q) = 1 /\ WriteLocks(q) = 0
      BY <1>0, <2>2, Zenon DEF LockInv
    <3>2. writer[q] = None /\ Cardinality(Granted(q, "WRITE")) = 0
      BY <1>1, <3>1
    <3>3. /\ writer'[q] = writer[q] /\ Cardinality(Held(q)) > 0
          /\ Cardinality(Held(q)') = Cardinality(Held(q)) - 1
      BY <3>2, GiveBackLocks, Zenon
    <3> QED BY <1>1, <3>1, <3>2, <3>3
  <2> QED BY <2>1, <2>2, Zenon
<1> QED BY Zenon, <1>3, LocksFinite, CountOne

\* The last lock is given back and passed on.
LEMMA SurrenderLastInv ==
  ASSUME RwInv, NEW t \in Thread, NEW q \in Queue, SurrenderLast(t, q), TQTypeOK'
  PROVE  RwStateInv'
<1>0. TypeOK /\ RequestInv /\ \A r \in Queue : LockInv(r)
  BY Zenon DEF RwInv, RwStateInv
<1>1. PICK S : S = FlushFilter(q)
  BY Zenon
<1>2. /\ GiveBack(t, q) /\ LeaveQueue(S) /\ open[q] /\ StateFor(q, S)
      /\ UNCHANGED <<pc, returnCode, open, request>>
  BY ZenonT(30), <1>1 DEF SurrenderLast, Extract
<1>3. /\ Cardinality(Held(q)') = 0 /\ writer'[q] = None
      /\ \A o \in {"READ", "WRITE"} : Granted(q, o) = {}
  BY Zenon, LastGivenBack DEF SurrenderLast
<1>4. \A u \in S : /\ u \in Thread /\ waitQueue[u] = q /\ returnCode[u] = "SUCCESSFUL"
                   /\ request[u] \in Request /\ request[u].queue = q
  BY <1>0, <1>1, FlushFilterWaits DEF RequestInv, TypeOK
<1>5. \A u \in Thread : waitQueue'[u] = IF u \in S THEN None ELSE waitQueue[u]
  BY <1>2, Zenon DEF LeaveQueue
<1>6. ASSUME NEW o \in {"READ", "WRITE"}
      PROVE  Granted(q, o)' = {u \in S : request[u].option = o}
  <2>1. \A u \in S : request[u].option = o => request[u] = [queue |-> q, option |-> o]
    BY <1>4, Zenon DEF Request
  <2>2. ASSUME NEW u \in Granted(q, o)' PROVE u \in S /\ request[u].option = o
    <3>1. /\ u \in Thread /\ request[u] = [queue |-> q, option |-> o]
          /\ waitQueue'[u] = None /\ returnCode[u] = "SUCCESSFUL"
      BY <1>2, <2>2, Zenon DEF Granted
    <3>2. u \notin S => u \in Granted(q, o)
      BY Zenon, <1>5, <3>1 DEF Granted
    <3> QED BY <1>3, <3>1, <3>2
  <2>3. ASSUME NEW u \in S, request[u].option = o PROVE u \in Granted(q, o)'
    BY Zenon, <1>2, <1>4, <1>5, <2>1, <2>3 DEF Granted
  <2> QED BY Zenon, <2>2, <2>3
<1>7. ASSUME NEW r \in Queue \ {q}, NEW o PROVE Granted(r, o)' = Granted(r, o)
  BY <1>2, <1>4, <1>5 DEF Granted
<1>8. \A r \in Queue : Waiters(r)' = Waiters(r) \ S
  BY <1>2, LeaveQueueWaiters, Zenon
<1>9. LockInv(q)'
  <2>1. /\ ReadLocks(q)' = Cardinality(Granted(q, "READ")')
        /\ WriteLocks(q)' = Cardinality(Granted(q, "WRITE")')
    <3>1. \A o : Cardinality(Granted(q, o)') \in Nat
      BY CountSubset, ThreadQueueAssumption, Zenon DEF Granted
    <3> QED BY <1>3, <3>1 DEF ReadLocks, WriteLocks
  <2>2. /\ open'[q]
        /\ state'[q] = IF S = {} THEN "UNLOCKED"
                       ELSE IF \A u \in S : IsWaitingForReading(u)
                         THEN "LOCKED_FOR_READING" ELSE "LOCKED_FOR_WRITING"
        /\ readers'[q] = IF S # {} /\ \A u \in S : IsWaitingForReading(u)
                           THEN Cardinality(S) ELSE 0
    BY Zenon, <1>0, <1>2 DEF StateFor, TypeOK
  <2>3. CASE S = {} /\ Waiters(q) = {}
    <3>1. Granted(q, "READ")' = {} /\ Granted(q, "WRITE")' = {} /\ Waiters(q)' = {}
      BY <1>6, <1>8, <2>3, Zenon
    <3>2. ReadLocks(q)' = 0 /\ WriteLocks(q)' = 0
      BY <2>1, <3>1, CountSmall, Zenon
    <3> QED BY Zenon, <2>2, <2>3, <3>1, <3>2 DEF LockInv
  <2>4. CASE S # {} /\ \A u \in S : IsWaitingForReading(u)
    <3>1. Granted(q, "READ")' = S /\ Granted(q, "WRITE")' = {}
      BY Zenon, <1>6, <2>4 DEF IsWaitingForReading
    <3>2. Cardinality(S) \in Nat /\ Cardinality(S) # 0
      BY Zenon, <1>4, <2>4, S \in SUBSET Thread, CountSubset, CountOne,
         ThreadQueueAssumption
    <3>3. ReadLocks(q)' = Cardinality(S) /\ WriteLocks(q)' = 0
      BY <2>1, <3>1, CountSmall, Zenon
    <3>4. state'[q] = "LOCKED_FOR_READING" /\ readers'[q] = Cardinality(S)
      BY Zenon, <2>2, <2>4
    <3>5. Cardinality(S) > 0
      BY <3>2
    <3> QED BY Zenon, <2>2, <3>3, <3>4, <3>5 DEF LockInv
  <2>5. ASSUME NEW u \in Waiters(q), S = {u}, ~IsWaitingForReading(u)
        PROVE  LockInv(q)'
    <3>1. request[u].option = "WRITE"
      BY <1>4, <2>5, Zenon DEF Request, IsWaitingForReading
    <3>2. Granted(q, "READ")' = {} /\ Granted(q, "WRITE")' = {u}
      BY <1>6, <2>5, <3>1, Zenon
    <3>3. ReadLocks(q)' = 0 /\ WriteLocks(q)' = 1
      BY ZenonT(30), <2>1, <3>2, CountSmall
    <3>4. state'[q] = "LOCKED_FOR_WRITING" /\ readers'[q] = 0
      BY Zenon, <2>2, <2>5
    <3> QED BY <2>2, <3>3, <3>4, Zenon DEF LockInv
  <2> QED BY <1>1, <2>3, <2>4, <2>5, FlushFilterKinds, Zenon
<1>10. \A r \in Queue \ {q} : LockInv(r)'
  <2>1. \A r \in Queue \ {q} : ReadLocks(r)' = ReadLocks(r) /\ WriteLocks(r)' = WriteLocks(r)
    BY Zenon, <1>2, <1>7, LocksSame, GiveBackLocks
  <2>2. \A r \in Queue \ {q} : state'[r] = state[r] /\ readers'[r] = readers[r]
    BY Zenon, <1>0, <1>2 DEF StateFor, TypeOK
  <2> QED BY Zenon, <1>0, <1>2, <1>8, <2>1, <2>2, LockInvKept
<1>11. TypeOK'
  <2>1. Cardinality(S) \in Nat
    BY Zenon, <1>4, S \in SUBSET Thread, CountSubset, ThreadQueueAssumption
  <2>2. state' \in [Queue -> State] /\ readers' \in [Queue -> Nat]
    BY <1>0, <1>2, <2>1, Zenon DEF StateFor, TypeOK, State
  <2> QED BY Zenon, <1>0, <1>2, <2>2, GiveBackLocks DEF TypeOK
<1>12. RequestInv'
  <2>1. \A u \in Thread : waitQueue'[u] # None => waitQueue'[u] = waitQueue[u]
    BY <1>5, Zenon
  <2> QED BY Zenon, <1>0, <1>2, <2>1, GiveBackRequests DEF RequestInv
<1> QED BY <1>9, <1>10, <1>11, <1>12, Zenon DEF RwStateInv

\* The grants that end with a step: the calls that return success.
Returned(q, o) == {t \in Granted(q, o) : pc'[t] = "run"}

\* A step of the handler grants nothing, and the grants that end are held then.
LEMMA HandlerGranted ==
  ASSUME RwInv, HandlerStep, NEW q \in Queue, NEW o \in {"READ", "WRITE"}
  PROVE  /\ Granted(q, o)' = Granted(q, o) \ Returned(q, o)
         /\ Returned(q, o) = {} \/ \E t \in Granted(q, o) : Returned(q, o) = {t}
<1>0. WaitInv /\ TQStep /\ RequestInv
  BY Zenon DEF RwInv, RwStateInv, OrderInv, HandlerStep
<1>1. \A t \in Thread : request'[t] = IF pc'[t] = "run" THEN None ELSE request[t]
  BY Zenon DEF HandlerStep
<1>2. [queue |-> q, option |-> o] # None
  BY CoreRWLockAssumption DEF Request
<1>3. ASSUME NEW t \in Thread
      PROVE  \/ waitQueue'[t] = waitQueue[t] /\ returnCode'[t] = returnCode[t]
             \/ waitQueue[t] # None /\ returnCode'[t] # "SUCCESSFUL"
  BY <1>0, HandlerEnds, Zenon DEF EndsWait, WaitInv, TQTypeOK
<1>4. Granted(q, o)' = Granted(q, o) \ Returned(q, o)
  <2>1. ASSUME NEW t \in Thread
        PROVE  t \in Granted(q, o)' <=> t \in Granted(q, o) /\ pc'[t] # "run"
    BY <1>1, <1>2, <1>3, Zenon DEF Granted
  <2>2. Granted(q, o)' \subseteq Thread /\ Granted(q, o) \subseteq Thread
    BY DEF Granted
  <2> QED BY Zenon, <2>1, <2>2 DEF Returned
<1>5. ASSUME NEW t \in Returned(q, o), NEW u \in Returned(q, o) PROVE t = u
  <2>1. /\ t \in Thread /\ pc[t] # "run" /\ pc'[t] = "run"
        /\ u \in Thread /\ pc[u] # "run" /\ pc'[u] = "run"
    BY <1>0, <1>2, Zenon DEF Returned, Granted, RequestInv
  <2> QED BY <1>0, <2>1, HandlerReturnsOne, Zenon
<1>6. Returned(q, o) \subseteq Granted(q, o)
  BY Zenon DEF Returned
<1> QED BY Zenon, <1>4, <1>5, <1>6

\* A call that returns success takes its lock along.
LEMMA HandlerLocks ==
  ASSUME RwInv, HandlerStep, NEW q \in Queue
  PROVE  ReadLocks(q)' = ReadLocks(q) /\ WriteLocks(q)' = WriteLocks(q)
<1>0. TypeOK /\ RequestInv /\ LockInv(q)
  BY Zenon DEF RwInv, RwStateInv
<1>1. /\ \A t \in Thread : reads'[q][t] = IF t \in Returned(q, "READ")
                                            THEN reads[q][t] + 1 ELSE reads[q][t]
      /\ reads'[q] = [t \in Thread |-> IF t \in Returned(q, "READ")
                                         THEN reads[q][t] + 1 ELSE reads[q][t]]
      /\ writer'[q] = IF Returned(q, "WRITE") = {} THEN writer[q]
                      ELSE CHOOSE t \in Returned(q, "WRITE") : TRUE
  BY Zenon DEF HandlerStep, Returned
<1>2. ReadLocks(q)' = ReadLocks(q)
  <2>1. CASE Returned(q, "READ") = {}
    <3>1. Granted(q, "READ")' = Granted(q, "READ")
      BY <2>1, HandlerGranted, Zenon
    <3>2. Held(q)' = Held(q)
      BY <1>1, <2>1, Zenon DEF Held
    <3> QED BY <3>1, <3>2, Zenon DEF ReadLocks
  <2>2. ASSUME NEW t \in Granted(q, "READ"), Returned(q, "READ") = {t}
        PROVE  ReadLocks(q)' = ReadLocks(q)
    <3>1. t \in Thread /\ reads[q][t] < ReadBound
      BY <1>0, CoreRWLockAssumption DEF Granted, RequestInv, Request
    <3>2. Cardinality(Held(q)') = Cardinality(Held(q)) + 1
      BY <1>0, <1>1, <2>2, <3>1, HeldMore, Zenon
    <3>3. Granted(q, "READ")' = Granted(q, "READ") \ {t}
      BY <2>2, HandlerGranted, Zenon
    <3>4. Cardinality(Granted(q, "READ")') = Cardinality(Granted(q, "READ")) - 1
      BY <3>3, LocksFinite, CountOne, Zenon
    <3> QED BY <3>2, <3>4, LocksFinite DEF ReadLocks
  <2> QED BY <2>1, <2>2, HandlerGranted, Zenon
<1>3. WriteLocks(q)' = WriteLocks(q)
  <2>1. CASE Returned(q, "WRITE") = {}
    <3>1. Granted(q, "WRITE")' = Granted(q, "WRITE")
      BY Zenon, <2>1, HandlerGranted
    <3> QED BY <1>1, <2>1, <3>1, Zenon DEF WriteLocks
  <2>2. ASSUME NEW t \in Granted(q, "WRITE"), Returned(q, "WRITE") = {t}
        PROVE  WriteLocks(q)' = WriteLocks(q)
    <3>1. writer'[q] = t /\ t # None
      BY Zenon, <1>1, <2>2, ThreadQueueAssumption DEF Granted
    <3>2. Granted(q, "WRITE")' = Granted(q, "WRITE") \ {t}
      BY <2>2, HandlerGranted, Zenon
    <3>3. Cardinality(Granted(q, "WRITE")') = Cardinality(Granted(q, "WRITE")) - 1
      BY <3>2, LocksFinite, CountOne, Zenon
    <3>4. Cardinality(Granted(q, "WRITE")) # 0
      BY LocksFinite, CountOne, CountSmall, Zenon
    <3>5. WriteLocks(q) <= 1
      BY <1>0 DEF LockInv, TypeOK, State
    <3>6. writer[q] = None
      BY <3>4, <3>5, LocksFinite DEF WriteLocks
    <3> QED BY <3>1, <3>3, <3>6, LocksFinite DEF WriteLocks
  <2> QED BY <2>1, <2>2, HandlerGranted, Zenon
<1> QED BY <1>2, <1>3, Zenon

\* The handler's own steps.
LEMMA HandlerStepInv ==
  ASSUME RwInv, HandlerStep, TQTypeOK'
  PROVE  RwStateInv'
<1>0. /\ TypeOK /\ RequestInv /\ \A r \in Queue : LockInv(r)
      /\ WaitInv /\ TQStep
  BY Zenon DEF RwInv, RwStateInv, OrderInv, HandlerStep
<1>1. \A q \in Queue : LockInv(q)'
  BY ZenonT(30), <1>0, HandlerLocks, TQStepWaiters, LockInvKept DEF HandlerStep
<1>2. \A q \in Queue, t \in Thread :
        /\ reads'[q][t] = IF t \in Returned(q, "READ") THEN reads[q][t] + 1
                                                       ELSE reads[q][t]
        /\ t \in Returned(q, "READ") => reads[q][t] < ReadBound
  <2> SUFFICES ASSUME NEW q \in Queue, NEW t \in Thread
               PROVE  /\ reads'[q][t] = IF t \in Returned(q, "READ")
                                          THEN reads[q][t] + 1 ELSE reads[q][t]
                      /\ t \in Returned(q, "READ") => reads[q][t] < ReadBound
    BY Zenon
  <2>1. reads'[q][t] = IF t \in Returned(q, "READ") THEN reads[q][t] + 1
                                                   ELSE reads[q][t]
    BY Zenon DEF HandlerStep, Returned
  <2>2. ASSUME t \in Returned(q, "READ") PROVE reads[q][t] < ReadBound
    <3>1. request[t] = [queue |-> q, option |-> "READ"] /\ request[t] # None
      BY <2>2, CoreRWLockAssumption DEF Returned, Granted, Request
    <3> QED BY <1>0, <3>1 DEF RequestInv
  <2> QED BY <2>1, <2>2, Zenon
<1>3. TypeOK'
  <2>1. \A q \in Queue, t \in Thread : reads'[q][t] \in 0 .. ReadBound
    <3> SUFFICES ASSUME NEW q \in Queue, NEW t \in Thread
                 PROVE  reads'[q][t] \in 0 .. ReadBound
      BY Zenon
    <3>1. reads[q][t] \in 0 .. ReadBound /\ ReadBound \in Nat
      BY <1>0, CoreRWLockAssumption, Zenon DEF TypeOK
    <3> QED BY <1>2, <3>1
  <2>2. reads' \in [Queue -> [Thread -> 0 .. ReadBound]]
    <3>1. reads' = [q \in Queue |-> [t \in Thread |-> reads'[q][t]]]
      BY Zenon DEF HandlerStep
    <3> QED BY Zenon, <2>1, <3>1
  <2>3. request' \in [Thread -> Request \cup {None}]
    BY Zenon, <1>0 DEF HandlerStep, TypeOK
  <2>4. writer' \in [Queue -> Thread \cup {None}]
    <3>1. \A q \in Queue : Returned(q, "WRITE") # {} =>
            (CHOOSE t \in Returned(q, "WRITE") : TRUE) \in Thread
      BY Zenon DEF Returned, Granted
    <3> QED BY <1>0, <3>1, Zenon DEF HandlerStep, TypeOK, Returned
  <2> QED BY <1>0, <2>2, <2>3, <2>4, Zenon DEF HandlerStep, TypeOK
<1>4. RequestInv'
  <2> SUFFICES ASSUME NEW t \in Thread
               PROVE  /\ pc'[t] = "run" => request'[t] = None
                      /\ waitQueue'[t] # None => /\ request'[t] # None
                                                 /\ request'[t].queue = waitQueue'[t]
                                                 /\ returnCode'[t] = "SUCCESSFUL"
                      /\ request'[t] # None /\ request'[t].option = "READ" =>
                           reads'[request'[t].queue][t] < ReadBound
    BY Zenon DEF RequestInv
  <2>1. request'[t] = IF pc'[t] = "run" THEN None ELSE request[t]
    BY Zenon DEF HandlerStep
  <2>2. waitQueue'[t] # None => /\ waitQueue'[t] = waitQueue[t] /\ pc'[t] # "run"
                                /\ returnCode'[t] = returnCode[t]
    BY <1>0, HandlerEnds, HandlerReturns, Zenon DEF EndsWait, WaitInv, TQTypeOK
  <2>3. ASSUME request'[t] # None, request'[t].option = "READ"
        PROVE  reads'[request'[t].queue][t] < ReadBound
    <3>1. request'[t] = request[t] /\ pc'[t] # "run" /\ request[t].queue \in Queue
      BY <1>0, <2>1, <2>3, Zenon DEF TypeOK, Request
    <3>2. reads'[request[t].queue][t] = reads[request[t].queue][t]
      BY <1>2, <3>1, Zenon DEF Returned
    <3> QED BY Zenon, <1>0, <2>3, <3>1, <3>2 DEF RequestInv
  <2> QED BY Zenon, <1>0, <2>1, <2>2, <2>3 DEF RequestInv
<1> QED BY Zenon, <1>1, <1>3, <1>4 DEF RwStateInv

\* Every step keeps the invariant.
LEMMA RwInvStep == RwInv /\ [Next]_vars => RwInv'
<1> SUFFICES ASSUME RwInv, [Next]_vars PROVE RwStateInv'
  <2>1. CountFacts' <=> CountFacts
    BY Zenon DEF CountFacts
  <2> QED BY Zenon, <2>1, OrderInvStep DEF RwInv
<1>1. TQTypeOK'
  BY Zenon, OrderInvStep DEF RwInv, OrderInv, WaitInv
<1>2. CASE Next
  BY Zenon, <1>1, <1>2, InitializeInv, SeizeForReadingInv, SeizeForWritingInv,
     SeizeWaitInv,
     SurrenderSharedInv, SurrenderLastInv, DestroyInv, HandlerStepInv
  DEF Next, Surrender
<1>3. CASE UNCHANGED vars
  <2>1. UNCHANGED <<rwVars, tqVars, pc, waitQueue, returnCode>>
    BY Zenon, <1>3 DEF vars, tqVars
  <2>2. \A q \in Queue : LockInv(q)'
    BY <2>1, LocksSame, GrantedSame, LockInvKept, Zenon DEF rwVars, Waiters, RwInv, RwStateInv
  <2> QED BY Zenon, <1>1, <2>1, <2>2 DEF rwVars, RwInv, RwStateInv, TypeOK, RequestInv
<1> QED BY <1>2, <1>3, Zenon

------------------------------------------------------------------------------
(***************************************************************************)
(* Readers do not pass writers.                                            *)
(***************************************************************************)

\* Thread r neither holds nor is granted a read lock.
NoRead(q, r) == reads[q][r] = 0 /\ r \notin Granted(q, "READ")

\* Giving back a lock gives no thread a read lock.
LEMMA GiveBackNoRead ==
  ASSUME RwInv, NEW t \in Thread, NEW p \in Queue, GiveBack(t, p),
         NEW q \in Queue, NEW r \in Thread, reads[q][r] = 0
  PROVE  reads'[q][r] = 0
<1>1. reads'[q][r] <= reads[q][r] /\ reads'[q][r] \in 0 .. ReadBound
  BY GiveBackLocks, Zenon
<1> QED BY <1>1, CoreRWLockAssumption

\* A reader that is not in front of a writer that waits and goes on waiting does
\* not get the lock.
LEMMA WriterNotPassedStep ==
  ASSUME RwInv, Next, NEW q \in Queue, NEW w \in Thread, NEW r \in Thread,
         waitQueue[w] = q, waitQueue'[w] = q, ~IsWaitingForReading(w),
         NoRead(q, r), r \notin ahead[w]
  PROVE  NoRead(q, r)'
<1>0. /\ TypeOK /\ RequestInv /\ \A p \in Queue : LockInv(p)
      /\ OrderInv /\ WaitInv
  BY Zenon DEF RwInv, RwStateInv, OrderInv
<1>1. w \in Waiters(q) /\ state[q] # "UNLOCKED" /\ ~MayRead(q)
  BY Zenon, <1>0 DEF Waiters, LockInv, MayRead
<1>2. ASSUME reads'[q] = reads[q], UNCHANGED <<request, tqVars>> PROVE NoRead(q, r)'
  BY Zenon, <1>2, GrantedSame DEF NoRead, tqVars
<1>3. ASSUME NEW t \in Thread, NEW p \in Queue, SeizeForReading(t, p)
      PROVE  NoRead(q, r)'
  <2>1. p # q
    BY <1>1, <1>3, Zenon DEF SeizeForReading
  <2> QED BY Zenon, <1>0, <1>2, <1>3, <2>1 DEF SeizeForReading, TypeOK
<1>4. ASSUME NEW t \in Thread, NEW p \in Queue, NEW o \in {"READ", "WRITE"},
             SeizeWait(t, p, o)
      PROVE  NoRead(q, r)'
  <2>1. waitQueue'[t] = p /\ p # None /\ UNCHANGED reads
    BY ZenonT(30), <1>0, <1>4, ThreadQueueAssumption
    DEF SeizeWait, Enqueue, WaitInv, TQTypeOK
  <2>2. r # t => /\ request'[r] = request[r] /\ waitQueue'[r] = waitQueue[r]
                 /\ returnCode'[r] = returnCode[r]
    BY ZenonT(30), <1>0, <1>4 DEF SeizeWait, Enqueue, TypeOK, WaitInv, TQTypeOK
  <2> QED BY ZenonT(30), <2>1, <2>2 DEF NoRead, Granted
<1>5. ASSUME NEW t \in Thread, NEW p \in Queue, SurrenderShared(t, p)
      PROVE  NoRead(q, r)'
  BY <1>5, GiveBackNoRead, GrantedSame DEF SurrenderShared, tqVars, NoRead
<1>6. ASSUME NEW t \in Thread, NEW p \in Queue, SurrenderLast(t, p)
      PROVE  NoRead(q, r)'
  <2>1. reads'[q][r] = 0 /\ UNCHANGED <<request, returnCode>>
    BY <1>6, GiveBackNoRead, Zenon DEF SurrenderLast, NoRead
  <2>2. \A u \in Thread : waitQueue'[u] = IF u \in FlushFilter(p) THEN None ELSE waitQueue[u]
    BY Zenon, <1>6 DEF SurrenderLast, Extract, LeaveQueue
  <2>3. ASSUME r \in Granted(q, "READ")' PROVE FALSE
    <3>1. request[r] = [queue |-> q, option |-> "READ"] /\ r \in FlushFilter(p)
      BY <2>1, <2>2, <2>3, Zenon DEF NoRead, Granted
    <3>2. waitQueue[r] = p /\ p = q /\ IsWaitingForReading(r)
      <4>1. waitQueue[r] = p /\ p # None
        BY Zenon, <1>6, <3>1, FlushFilterWaits
      <4>2. request[r].queue = q /\ request[r].option = "READ"
        BY Zenon, <3>1, RequestFields
      <4> QED BY Zenon, <1>0, <4>1, <4>2 DEF RequestInv, IsWaitingForReading
    <3>3. w \notin FlushFilter(q) /\ w # r
      BY Zenon, <2>2, <3>1, <3>2, ThreadQueueAssumption
    <3>4. r \in {u \in Waiters(q) : \A x \in ahead[u] \cup {u} : IsWaitingForReading(x)}
      <4>1. CASE \E f \in Waiters(q) : IsFirst(q, f) /\ ~IsWaitingForReading(f)
        <5>1. PICK f \in Waiters(q) : IsFirst(q, f) /\ ~IsWaitingForReading(f)
          BY Zenon, <4>1
        <5>2. IsFirst(q, r)
          BY Zenon, <3>1, <3>2, <4>1 DEF FlushFilter
        <5> QED BY Zenon, <1>0, <3>2, <5>1, <5>2, FirstUnique DEF Waiters
      <4>2. CASE ~ \E f \in Waiters(q) : IsFirst(q, f) /\ ~IsWaitingForReading(f)
        BY <3>1, <3>2, <4>2, Zenon DEF FlushFilter
      <4> QED BY Zenon, <4>1, <4>2
    <3>5. w \notin ahead[r]
      BY <3>4, Zenon
    <3>6. waitQueue[w] = waitQueue[r] /\ waitQueue[w] # None
      BY Zenon, <3>2, ThreadQueueAssumption
    <3>7. LinearOrder
      BY Zenon, <1>0 DEF OrderInv
    <3> QED BY Zenon, <3>3, <3>5, <3>6, <3>7 DEF LinearOrder
  <2> QED BY Zenon, <2>1, <2>3 DEF NoRead
<1>7. CASE HandlerStep
  <2>1. r \notin Granted(q, "READ")'
    BY <1>7, HandlerGranted, Zenon DEF NoRead
  <2>2. reads'[q][r] = reads[q][r]
    BY Zenon, <1>7 DEF HandlerStep, NoRead
  <2> QED BY <2>1, <2>2, Zenon DEF NoRead
<1> QED BY Zenon, <1>2, <1>3, <1>4, <1>5, <1>6, <1>7
    DEF Next, Surrender, Initialize, SeizeForWriting, Destroy

------------------------------------------------------------------------------
(***************************************************************************)
(* The theorems.                                                           *)
(***************************************************************************)
Library == INSTANCE FiniteSetTheorems

\* The library means the same by its own instances of the two definitions.
LEMMA SameSets ==
  \A S : /\ Library!IsFiniteSet(S) <=> IsFiniteSet(S)
         /\ Library!Cardinality(S) = Cardinality(S)
<1>1. \A S : Library!IsFiniteSet(S) <=> IsFiniteSet(S)
  BY Zenon DEF Library!IsFiniteSet, IsFiniteSet
<1>2. \A S : Library!Cardinality(S) = Cardinality(S)
  BY Zenon DEF Library!Cardinality, Cardinality
<1> QED BY <1>1, <1>2, Zenon

\* A set of natural numbers has a smallest element.
LEMMA SmallestNat ==
  ASSUME NEW I \in SUBSET Nat, I # {}
  PROVE  \E x \in I : \A y \in I : x <= y
<1>1. PICK x \in I : \A y \in I : ~(<<y, x>> \in Library!OpToRel(<, Nat))
  BY Library!NatLessThanWellFounded, Library!WFMin, I \subseteq Nat, Zenon
<1>2. \A y \in I : ~(y < x)
  BY <1>1, Zenon DEF Library!OpToRel
<1> QED BY <1>2

\* The library's facts are those that the invariant holds.
LEMMA CountFactsHold == CountFacts
<1>1. IsFiniteSet(Thread \X (1 .. ReadBound))
  <2>1. IsFiniteSet(1 .. ReadBound)
    BY SameSets, Library!FS_Interval, CoreRWLockAssumption
  <2> QED BY Zenon, <2>1, SameSets, Library!FS_Product, ThreadQueueAssumption
<1>2. \A I \in SUBSET Nat : I # {} => \E x \in I : \A y \in I : x <= y
  BY Zenon, SmallestNat
<1>3. IsFiniteSet({}) /\ Cardinality({}) = 0 /\ \A x : Cardinality({x}) = 1
  BY Zenon, SameSets, Library!FS_EmptySet, Library!FS_Singleton
<1>4. ASSUME NEW S, IsFiniteSet(S)
      PROVE  /\ Cardinality(S) \in Nat
             /\ Cardinality(S) = 0 => S = {}
             /\ \A x \in S : Cardinality(S \ {x}) = Cardinality(S) - 1
             /\ \A x : x \notin S => Cardinality(S \cup {x}) = Cardinality(S) + 1
             /\ \A T \in SUBSET S : /\ IsFiniteSet(T)
                                    /\ T # S => Cardinality(T) < Cardinality(S)
  <2>1. Cardinality(S) \in Nat /\ (Cardinality(S) = 0 => S = {})
    BY <1>4, SameSets, Library!FS_CardinalityType, Library!FS_EmptySet, Zenon
  <2>2. \A x \in S : Cardinality(S \ {x}) = Cardinality(S) - 1
    BY Zenon, <1>4, SameSets, Library!FS_RemoveElement
  <2>3. \A x : x \notin S => Cardinality(S \cup {x}) = Cardinality(S) + 1
    BY Zenon, <1>4, SameSets, Library!FS_AddElement
  <2>4. ASSUME NEW T \in SUBSET S
        PROVE  IsFiniteSet(T) /\ (T # S => Cardinality(T) < Cardinality(S))
    BY <1>4, SameSets, Library!FS_Subset, Library!FS_CardinalityType
  <2> QED BY Zenon, <2>1, <2>2, <2>3, <2>4
<1> QED BY Zenon, <1>1, <1>2, <1>3, <1>4 DEF CountFacts

\* The state of a lock agrees with its callers: a writer is alone and the readers
\* are counted exactly, with timeouts and hand-overs under way.
THEOREM LockTellsTruth == Spec => []LockMatchesCallers
<1>1. RwInv => LockMatchesCallers
  <2> SUFFICES ASSUME RwInv, NEW q \in Queue
               PROVE  CASE state[q] = "UNLOCKED" ->
                             ReadLocks(q) = 0 /\ WriteLocks(q) = 0
                        [] state[q] = "LOCKED_FOR_READING" ->
                             /\ ReadLocks(q) = readers[q] /\ readers[q] > 0
                             /\ WriteLocks(q) = 0
                        [] state[q] = "LOCKED_FOR_WRITING" ->
                             ReadLocks(q) = 0 /\ WriteLocks(q) = 1
    BY Zenon DEF LockMatchesCallers
  <2>1. LockInv(q)
    BY Zenon DEF RwInv, RwStateInv
  <2>2. CASE state[q] = "UNLOCKED"
    BY <2>1, <2>2, Zenon DEF LockInv
  <2>3. CASE state[q] = "LOCKED_FOR_READING"
    BY <2>1, <2>3, Zenon DEF LockInv
  <2>4. CASE state[q] = "LOCKED_FOR_WRITING"
    BY Zenon, <2>1, <2>4 DEF LockInv
  <2> QED BY Zenon, <2>2, <2>3, <2>4 DEF RwInv, RwStateInv, TypeOK, State
<1> QED BY <1>1, CountFactsHold, RwInvInit, RwInvStep, PTL DEF Spec

\* Nobody waits for a lock that is available.
THEOREM AvailableUnwaited == Spec => []NoWaitForUnlocked
<1>1. RwInv => NoWaitForUnlocked
  BY Zenon DEF RwInv, RwStateInv, LockInv, NoWaitForUnlocked
<1> QED BY <1>1, CountFactsHold, RwInvInit, RwInvStep, PTL DEF Spec

\* A reader that comes later does not pass a writer that waits, whatever happens
\* to the threads in between.
THEOREM WriterFirst == Spec => WriterNotPassed
<1>1. RwInv /\ [Next]_vars =>
      [\A q \in Queue, w, r \in Thread :
         /\ waitQueue[w] = q /\ waitQueue'[w] = q /\ ~IsWaitingForReading(w)
         /\ reads[q][r] = 0 /\ r \notin Granted(q, "READ")
         /\ r \notin ahead[w]
         => reads'[q][r] = 0 /\ r \notin Granted(q, "READ")']_vars
  BY WriterNotPassedStep, Zenon DEF NoRead
<1> QED BY <1>1, CountFactsHold, RwInvInit, RwInvStep, PTL DEF Spec, WriterNotPassed
==============================================================================
