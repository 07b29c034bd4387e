--------------------------- MODULE CoreMutexSteps ----------------------------
(***************************************************************************)
(* The invariant of the mutexes of CoreMutex and what it takes to keep it, *)
(* for every set of threads and of mutexes.  The priority operations       *)
(* compute with a record of the priorities, the queues and the owners:     *)
(* each keeps the record good, and tells the scheduler every thread whose  *)
(* priority it changed.  Module CoreMutexProof applies this to the steps.  *)
(***************************************************************************)
EXTENDS CoreMutex, TLAPS

------------------------------------------------------------------------------
(***************************************************************************)
(* The inductive invariant.  Its first part is about the records that the  *)
(* priority operations compute with.                                       *)
(***************************************************************************)
Step == [op : {"update", "unblock"}, thread : Thread]
Updates == {Update(t) : t \in Thread}

State ==
  [owner : [Mutex -> Thread \cup {None}], ceiling : [Mutex -> Nat],
   real : [Thread -> Nat], prio : [Thread -> Nat], qprio : [Mutex -> Nat],
   queue : [Mutex -> Seq(Thread)], update : Seq(Updates)]

\* Thread t waits on the queue of mutex m.
On(s, t, m) == t \in Range(s.queue[m])

Waits(s, t) == \E m \in Mutex : On(s, t, m)

\* A thread waits on at most one queue.
OneQueue(s) ==
  \A t \in Thread : \A m, n \in Mutex : On(s, t, m) /\ On(s, t, n) => m = n

\* The order of a queue, and the minimum that the queue of an inheritance mutex
\* contributes to its owner.
Sorted(p, line) ==
  \A i, j \in DOMAIN line : i < j => p[line[i]] <= p[line[j]]

LineFits(s, m) ==
  /\ IsInjective(s.queue[m])
  /\ Sorted(s.prio, s.queue[m])
  /\ m \in Inherit /\ s.queue[m] # <<>>
       => s.qprio[m] = s.prio[Head(s.queue[m])]

\* The priority of a thread is the minimum of its own aggregation.
Fits(s, t) == s.prio[t] = Min(Contributions(s, t))

\* No threads wait for each other in a circle: in every set of threads there is
\* one that does not wait for a thread of the set.
NoCircle(s) ==
  \A S \in SUBSET Thread :
    S # {} => \E t \in S : \A m \in Mutex : On(s, t, m) => s.owner[m] \notin S

Good(s) ==
  /\ s \in State
  /\ OneQueue(s)
  /\ \A m \in Mutex : LineFits(s, m)
  /\ \A t \in Thread : Fits(s, t)
  /\ NoCircle(s)

PriorityInv == Good(Now)

\* The second part is about the blocking operations.
OnQueue(t, m) == t \in Range(queue[m])

Waiting(t) == \E m \in Mutex : OnQueue(t, m)

WaitTypes ==
  /\ pc \in [Thread -> {"run", "commit", "wait"}]
  /\ wanted \in [Thread -> Mutex \cup {None}]
  /\ status \in [Thread -> {"SUCCESSFUL", "TIMEOUT", "UNAVAILABLE"}]
  /\ blocked \in [Thread -> BOOLEAN]
  /\ sched \in [Thread -> Nat]
  /\ todo \in [Context -> Seq(Step)]

\* A thread on a queue waits for the mutex it wants to seize.
OnQueueWaits ==
  \A t \in Thread, m \in Mutex :
    OnQueue(t, m) =>
      /\ pc[t] = "commit" \/ (pc[t] = "wait" /\ blocked[t])
      /\ wanted[t] = m
      /\ status[t] = "SUCCESSFUL"

\* The outcome of a wait is decided when the thread leaves the queue.
Decided ==
  \A t \in Thread :
    pc[t] # "run" /\ ~Waiting(t) /\ wanted[t] # None
      => (owner[wanted[t]] = t <=> status[t] = "SUCCESSFUL")

\* A thread that is still to be unblocked sleeps, and is unblocked once.
UnblockPending ==
  \A c \in Context : \A i \in DOMAIN todo[c] :
    todo[c][i].op = "unblock" =>
      /\ pc[todo[c][i].thread] = "wait"
      /\ blocked[todo[c][i].thread]
      /\ ~Waiting(todo[c][i].thread)
      /\ \A d \in Context : \A j \in DOMAIN todo[d] :
           todo[d][j] = todo[c][i] => d = c /\ j = i

\* At most two of the steps still to do are priority updates.
TwoUpdates(q) ==
  \E a, b \in Nat : \A i \in DOMAIN q : q[i].op = "update" => i \in {a, b}

WaitInv ==
  /\ WaitTypes
  /\ OwnerWhileWaiting
  /\ OnQueueWaits
  /\ Decided
  /\ UnblockPending
  /\ \A c \in Context : TwoUpdates(todo[c])

MutexInv == PriorityInv /\ WaitInv

------------------------------------------------------------------------------
(***************************************************************************)
(* Sequences, minima and induction.  The natural numbers are well-founded: *)
(* this fact of the library is a hypothesis of the lemmas that need it.    *)
(***************************************************************************)
LeastNat ==
  \A I \in SUBSET Nat : I # {} => \E x \in I : \A y \in I : x <= y

\* Induction over an interval.
LEMMA Induction ==
  ASSUME LeastNat, NEW N \in Nat, NEW T, 0 \in T,
         \A n \in 1 .. N : n - 1 \in T => n \in T
  PROVE  0 .. N \subseteq T
<1> DEFINE I == (0 .. N) \ T
<1>1. SUFFICES ASSUME I # {} PROVE FALSE
  OBVIOUS
<1>2. PICK x \in I : \A y \in I : x <= y
  BY <1>1, I \subseteq Nat, I \in SUBSET Nat, Zenon DEF LeastNat
<1>3. x \in 1 .. N /\ x - 1 \in 0 .. N /\ ~(x <= x - 1)
  BY <1>2
<1> QED BY <1>2, <1>3

\* The minimum of a set of natural numbers.
LEMMA MinIs ==
  ASSUME LeastNat, NEW S \in SUBSET Nat, S # {}
  PROVE  Min(S) \in S /\ Min(S) \in Nat /\ \A x \in S : Min(S) <= x
BY Zenon DEF LeastNat, Min

LEMMA MinUnique ==
  ASSUME LeastNat, NEW S \in SUBSET Nat, NEW x \in S, \A y \in S : x <= y
  PROVE  Min(S) = x
<1>1. Min(S) \in S /\ Min(S) \in Nat /\ Min(S) <= x
  BY MinIs
<1>2. x \in Nat /\ x <= Min(S)
  BY <1>1
<1> QED BY <1>1, <1>2

\* A function that is defined by recursion over an interval exists.
IsIteration(N, x0, G, f) ==
  f[0] = x0 /\ \A n \in 1 .. N : f[n] = G[<<n, f[n - 1]>>]

LEMMA RecursionExists ==
  ASSUME LeastNat, NEW N \in Nat, NEW X, NEW x0 \in X,
         NEW G \in [(1 .. N) \X X -> X]
  PROVE  \E f \in [0 .. N -> X] : IsIteration(N, x0, G, f)
<1> DEFINE UpTo(k, f) == /\ f \in [0 .. k -> X]
                         /\ f[0] = x0
                         /\ \A n \in 1 .. k : f[n] = G[<<n, f[n - 1]>>]
           T == {k \in 0 .. N : \E f : UpTo(k, f)}
<1>1. 0 \in T
  <2> DEFINE g == [n \in 0 .. 0 |-> x0]
  <2>1. UpTo(0, g)
    OBVIOUS
  <2> HIDE DEF g
  <2> QED BY <2>1
<1>2. ASSUME NEW k \in 1 .. N, k - 1 \in T PROVE k \in T
  <2>1. PICK f : UpTo(k - 1, f)
    BY <1>2
  <2> DEFINE g == [n \in 0 .. k |-> IF n < k THEN f[n] ELSE G[<<k, f[k - 1]>>]]
  <2>2. f[k - 1] \in X
    BY <2>1
  <2>3. G[<<k, f[k - 1]>>] \in X
    BY <2>2
  <2>4. g \in [0 .. k -> X]
    BY <2>1, <2>3
  <2>5. g[0] = x0
    BY <2>1
  <2>6. ASSUME NEW n \in 1 .. k PROVE g[n] = G[<<n, g[n - 1]>>]
    <3>1. g[n - 1] = f[n - 1]
      OBVIOUS
    <3>2. CASE n = k
      <4>1. g[k] = G[<<k, f[k - 1]>>]
        OBVIOUS
      <4> QED BY <3>1, <3>2, <4>1, Zenon
    <3>3. CASE n < k
      <4>1. n \in 1 .. k - 1 /\ g[n] = f[n]
        BY <3>3
      <4> QED BY <2>1, <3>1, <4>1
    <3> QED BY <3>2, <3>3
  <2>7. UpTo(k, g)
    BY <2>4, <2>5, <2>6, Zenon
  <2> HIDE DEF g
  <2> QED BY <2>7
<1>3. N \in T
  <2> HIDE DEF T
  <2>1. 0 .. N \subseteq T
    BY <1>1, <1>2, Induction
  <2> QED BY <2>1
<1> QED BY <1>3 DEF IsIteration

\* The elements of a sequence that is put together.
LEMMA ConcatIs ==
  ASSUME NEW X, NEW a \in Seq(X), NEW b \in Seq(X)
  PROVE  /\ a \o b \in Seq(X)
         /\ Len(a \o b) = Len(a) + Len(b)
         /\ \A j \in 1 .. Len(a) : (a \o b)[j] = a[j]
         /\ \A j \in 1 .. Len(b) : (a \o b)[Len(a) + j] = b[j]
OBVIOUS

\* The elements of a sequence with one more or one less.
LEMMA InsertAtIs ==
  ASSUME NEW line \in Seq(Thread), NEW i \in 1 .. Len(line) + 1, NEW t \in Thread
  PROVE  LET new == SubSeq(line, 1, i - 1) \o <<t>> \o SubSeq(line, i, Len(line)) IN
           /\ new \in Seq(Thread)
           /\ Len(new) = Len(line) + 1
           /\ new[i] = t
           /\ \A j \in 1 .. Len(line) : new[IF j < i THEN j ELSE j + 1] = line[j]
<1> DEFINE a == SubSeq(line, 1, i - 1)
           b == SubSeq(line, i, Len(line))
           c == a \o <<t>>
<1>1. /\ a \in Seq(Thread)
      /\ Len(a) = i - 1
      /\ \A j \in 1 .. i - 1 : a[j] = line[j]
  OBVIOUS
<1>2. /\ b \in Seq(Thread)
      /\ Len(b) = Len(line) + 1 - i
      /\ \A j \in 1 .. Len(line) + 1 - i : b[j] = line[i + j - 1]
  OBVIOUS
<1> HIDE DEF a, b
<1>3. /\ c \in Seq(Thread)
      /\ Len(c) = i
      /\ \A j \in 1 .. i - 1 : c[j] = line[j]
      /\ c[i] = t
  BY <1>1
<1> HIDE DEF c
<1>4. /\ c \o b \in Seq(Thread)
      /\ Len(c \o b) = Len(line) + 1
      /\ \A j \in 1 .. i : (c \o b)[j] = c[j]
      /\ \A j \in 1 .. Len(line) + 1 - i : (c \o b)[i + j] = b[j]
  <2>1. Len(c) + Len(b) = Len(line) + 1
    BY <1>2, <1>3
  <2> b \in Seq(Thread) /\ c \in Seq(Thread)
    BY <1>2, <1>3
  <2>2. /\ c \o b \in Seq(Thread)
        /\ Len(c \o b) = Len(c) + Len(b)
        /\ \A j \in 1 .. Len(c) : (c \o b)[j] = c[j]
        /\ \A j \in 1 .. Len(b) : (c \o b)[Len(c) + j] = b[j]
    BY ConcatIs
  <2> QED BY <1>2, <1>3, <2>1, <2>2, Zenon
<1>5. SubSeq(line, 1, i - 1) \o <<t>> \o SubSeq(line, i, Len(line)) = c \o b
  BY Zenon DEF a, b, c
<1>6. ASSUME NEW j \in 1 .. Len(line)
      PROVE  (c \o b)[IF j < i THEN j ELSE j + 1] = line[j]
  <2>1. CASE j < i
    BY <1>3, <1>4, <2>1
  <2>2. CASE ~(j < i)
    <3>1. j + 1 - i \in 1 .. Len(line) + 1 - i
      BY <2>2
    <3>2. (c \o b)[i + (j + 1 - i)] = line[i + (j + 1 - i) - 1]
      BY <1>2, <1>4, <3>1
    <3>3. i + (j + 1 - i) = j + 1 /\ i + (j + 1 - i) - 1 = j
      OBVIOUS
    <3>4. (c \o b)[j + 1] = line[j]
      BY <3>2, <3>3, Zenon
    <3> QED BY <2>2, <3>4, Zenon
  <2> QED BY <2>1, <2>2, Zenon
<1>7. (c \o b)[i] = t
  BY <1>3, <1>4
<1> QED BY <1>4, <1>5, <1>6, <1>7, Zenon

LEMMA RemoveAtIs ==
  ASSUME NEW line \in Seq(Thread), NEW i \in 1 .. Len(line)
  PROVE  LET new == SubSeq(line, 1, i - 1) \o SubSeq(line, i + 1, Len(line)) IN
           /\ new \in Seq(Thread)
           /\ Len(new) = Len(line) - 1
           /\ \A j \in 1 .. Len(line) - 1 : new[j] = line[IF j < i THEN j ELSE j + 1]
<1> DEFINE a == SubSeq(line, 1, i - 1)
           b == SubSeq(line, i + 1, Len(line))
<1>1. /\ a \in Seq(Thread)
      /\ Len(a) = i - 1
      /\ \A j \in 1 .. i - 1 : a[j] = line[j]
  OBVIOUS
<1>2. /\ b \in Seq(Thread)
      /\ Len(b) = Len(line) - i
      /\ \A j \in 1 .. Len(line) - i : b[j] = line[i + j]
  OBVIOUS
<1> HIDE DEF a, b
<1>3. /\ a \o b \in Seq(Thread)
      /\ Len(a \o b) = Len(line) - 1
      /\ \A j \in 1 .. i - 1 : (a \o b)[j] = a[j]
      /\ \A j \in 1 .. Len(line) - i : (a \o b)[i - 1 + j] = b[j]
  <2>1. Len(a) + Len(b) = Len(line) - 1
    BY <1>1, <1>2
  <2> a \in Seq(Thread) /\ b \in Seq(Thread)
    BY <1>1, <1>2
  <2>2. /\ a \o b \in Seq(Thread)
        /\ Len(a \o b) = Len(a) + Len(b)
        /\ \A j \in 1 .. Len(a) : (a \o b)[j] = a[j]
        /\ \A j \in 1 .. Len(b) : (a \o b)[Len(a) + j] = b[j]
    BY ConcatIs
  <2> QED BY <1>1, <1>2, <2>1, <2>2, Zenon
<1>4. SubSeq(line, 1, i - 1) \o SubSeq(line, i + 1, Len(line)) = a \o b
  BY Zenon DEF a, b
<1>5. ASSUME NEW j \in 1 .. Len(line) - 1
      PROVE  (a \o b)[j] = line[IF j < i THEN j ELSE j + 1]
  <2>1. CASE j < i
    BY <1>1, <1>3, <2>1
  <2>2. CASE ~(j < i)
    <3>1. j + 1 - i \in 1 .. Len(line) - i
      BY <2>2
    <3>2. (a \o b)[i - 1 + (j + 1 - i)] = line[i + (j + 1 - i)]
      BY <1>2, <1>3, <3>1, Zenon
    <3>3. i - 1 + (j + 1 - i) = j /\ i + (j + 1 - i) = j + 1
      OBVIOUS
    <3>4. (a \o b)[j] = line[j + 1]
      BY <3>2, <3>3, Zenon
    <3> QED BY <2>2, <3>4
  <2> QED BY <2>1, <2>2, Zenon
<1> QED BY <1>3, <1>4, <1>5, Zenon

\* A thread that is inserted: it gets behind the threads of its priority.
LEMMA Inserted ==
  ASSUME LeastNat, NEW s \in State, NEW line \in Seq(Thread), NEW t \in Thread
  PROVE  LET new == InsertByPriority(s, line, t) IN
           /\ new \in Seq(Thread)
           /\ new # <<>>
           /\ Range(new) = Range(line) \cup {t}
           /\ IsInjective(line) /\ t \notin Range(line) => IsInjective(new)
           /\ Sorted(s.prio, line) => Sorted(s.prio, new)
<1> DEFINE p == s.prio
           n == Len(line)
           B == {i \in DOMAIN line : p[line[i]] > p[t]} \cup {n + 1}
           at == Min(B)
           new == SubSeq(line, 1, at - 1) \o <<t>> \o SubSeq(line, at, Len(line))
<1>1. InsertByPriority(s, line, t) = new
  BY DEF InsertByPriority
<1>2. p \in [Thread -> Nat] /\ n \in Nat
  BY DEF State
<1> HIDE DEF p
<1>3. B \in SUBSET Nat /\ n + 1 \in B
  BY <1>2
<1>4. at \in B /\ \A x \in B : at <= x
  BY <1>3, MinIs, Zenon
<1> HIDE DEF at
<1>5. /\ at \in 1 .. n + 1
      /\ \A j \in 1 .. n : j < at => p[line[j]] <= p[t]
      /\ at <= n => p[t] <= p[line[at]]
  <2>1. at \in 1 .. n + 1
    BY <1>2, <1>4
  <2>2. ASSUME NEW j \in 1 .. n, j < at PROVE p[line[j]] <= p[t]
    <3>1. j \notin B
      BY <1>2, <1>4, <2>1, <2>2
    <3>2. p[line[j]] \in Nat /\ p[t] \in Nat /\ ~(p[line[j]] > p[t])
      BY <1>2, <3>1
    <3> QED BY <3>2
  <2>3. ASSUME at <= n PROVE p[t] <= p[line[at]]
    <3>0. at \in 1 .. n /\ at # n + 1
      BY <1>2, <2>1, <2>3
    <3>1. p[line[at]] > p[t] /\ at \in 1 .. n
      <4>1. at \in {i \in DOMAIN line : p[line[i]] > p[t]}
        BY <1>4, <3>0
      <4> QED BY <3>0, <4>1
    <3>2. p[line[at]] \in Nat /\ p[t] \in Nat
      BY <1>2, <3>1
    <3> QED BY <3>1, <3>2
  <2> QED BY <2>1, <2>2, <2>3
<1> HIDE DEF B
<1>6. /\ new \in Seq(Thread)
      /\ Len(new) = n + 1
      /\ new[at] = t
      /\ \A j \in 1 .. n : new[IF j < at THEN j ELSE j + 1] = line[j]
  BY <1>5, InsertAtIs, Zenon
<1> HIDE DEF new
<1>7. /\ \A k \in 1 .. n + 1 : k < at => k \in 1 .. n /\ new[k] = line[k]
      /\ \A k \in 1 .. n + 1 : k > at => k - 1 \in 1 .. n /\ new[k] = line[k - 1]
  <2>1. ASSUME NEW k \in 1 .. n + 1, k < at PROVE k \in 1 .. n /\ new[k] = line[k]
    <3>1. k \in 1 .. n
      BY <1>2, <1>5, <2>1
    <3> QED BY <1>6, <2>1, <3>1
  <2>2. ASSUME NEW k \in 1 .. n + 1, k > at
        PROVE  k - 1 \in 1 .. n /\ new[k] = line[k - 1]
    <3>1. k - 1 \in 1 .. n /\ ~(k - 1 < at) /\ (k - 1) + 1 = k
      BY <1>2, <1>5, <2>2
    <3>2. new[(k - 1) + 1] = line[k - 1]
      BY <1>6, <3>1, Zenon
    <3> QED BY <3>1, <3>2
  <2> QED BY <2>1, <2>2
<1>8. Range(new) = Range(line) \cup {t}
  <2>1. DOMAIN new = 1 .. n + 1 /\ DOMAIN line = 1 .. n
    BY <1>6
  <2>2. ASSUME NEW u \in Range(new) PROVE u \in Range(line) \cup {t}
    <3>1. PICK k \in 1 .. n + 1 : u = new[k]
      BY <2>1 DEF Range
    <3>2. k < at \/ k = at \/ k > at
      BY <1>2, <1>5
    <3> QED BY <1>6, <1>7, <2>1, <3>1, <3>2, Zenon DEF Range
  <2>3. ASSUME NEW j \in 1 .. n PROVE line[j] \in Range(new)
    <3>1. (IF j < at THEN j ELSE j + 1) \in DOMAIN new
      BY <1>2, <2>1
    <3> QED BY <1>6, <3>1 DEF Range
  <2>4. t \in Range(new)
    BY <1>5, <1>6, <2>1 DEF Range
  <2> QED BY <2>1, <2>2, <2>3, <2>4 DEF Range
<1>9. ASSUME IsInjective(line), t \notin Range(line) PROVE IsInjective(new)
  <2>1. \A j \in 1 .. n : line[j] # t
    BY <1>9 DEF Range
  <2>2. \A i, j \in 1 .. n : line[i] = line[j] => i = j
    BY <1>9 DEF IsInjective
  <2>3. ASSUME NEW i \in 1 .. n + 1, NEW j \in 1 .. n + 1, new[i] = new[j]
        PROVE  i = j
    <3>1. (i < at \/ i = at \/ i > at) /\ (j < at \/ j = at \/ j > at)
      BY <1>2, <1>5
    <3>2. CASE i < at /\ j < at
      BY <1>7, <2>2, <2>3, <3>2, Zenon
    <3>3. CASE i < at /\ j > at
      <4>1. i \in 1 .. n /\ j - 1 \in 1 .. n /\ line[i] = line[j - 1]
        BY <1>7, <2>3, <3>3
      <4>2. i = j - 1
        BY <2>2, <4>1, Zenon
      <4> QED BY <1>2, <1>5, <3>3, <4>2
    <3>4. CASE i > at /\ j < at
      <4>1. i - 1 \in 1 .. n /\ j \in 1 .. n /\ line[i - 1] = line[j]
        BY <1>7, <2>3, <3>4
      <4>2. i - 1 = j
        BY <2>2, <4>1, Zenon
      <4> QED BY <1>2, <1>5, <3>4, <4>2
    <3>5. CASE i > at /\ j > at
      <4>1. i - 1 = j - 1
        BY <1>7, <2>2, <2>3, <3>5, Zenon
      <4> QED BY <4>1
    <3>6. CASE i = at \/ j = at
      BY <1>6, <1>7, <2>1, <2>3, <3>1, <3>6, Zenon
    <3> QED BY <3>1, <3>2, <3>3, <3>4, <3>5, <3>6, Zenon
  <2> QED BY <1>6, <2>3 DEF IsInjective
<1>10. ASSUME Sorted(p, line) PROVE Sorted(p, new)
  <2>1. \A i, j \in 1 .. n : i < j => p[line[i]] <= p[line[j]]
    BY <1>10 DEF Sorted
  <2>2. \A j \in 1 .. n : p[line[j]] \in Nat
    BY <1>2
  <2>3. \A j \in 1 .. n : at <= j => p[t] <= p[line[j]]
    <3> SUFFICES ASSUME NEW j \in 1 .. n, at <= j PROVE p[t] <= p[line[j]]
      OBVIOUS
    <3>1. at \in 1 .. n /\ (at = j \/ at < j)
      BY <1>2, <1>5
    <3>2. p[line[at]] <= p[line[j]]
      BY <2>1, <2>2, <3>1
    <3>3. p[t] <= p[line[at]] /\ p[t] \in Nat
      BY <1>2, <1>5, <3>1
    <3> QED BY <2>2, <3>1, <3>2, <3>3
  <2>4. ASSUME NEW i \in 1 .. n + 1, NEW j \in 1 .. n + 1, i < j
        PROVE  p[new[i]] <= p[new[j]]
    <3>1. CASE j < at
      <4>1. i < at
        BY <1>2, <1>5, <2>4, <3>1
      <4> QED BY <1>7, <2>1, <2>4, <3>1, <4>1, Zenon
    <3>2. CASE j = at
      BY <1>2, <1>5, <1>6, <1>7, <2>4, <3>2, Zenon
    <3>3. CASE j > at /\ i < at
      <4>1. i < j - 1 \/ i = j - 1
        BY <1>2, <1>5, <2>4, <3>3
      <4>2. i \in 1 .. n /\ j - 1 \in 1 .. n /\ new[i] = line[i] /\ new[j] = line[j - 1]
        BY <1>7, <3>3
      <4>3. p[line[i]] <= p[line[j - 1]]
        BY <2>1, <2>2, <4>1, <4>2
      <4> QED BY <4>2, <4>3
    <3>4. CASE j > at /\ i = at
      <4>1. j - 1 \in 1 .. n /\ at <= j - 1
        BY <1>2, <1>5, <2>4, <3>4
      <4>2. new[i] = t /\ new[j] = line[j - 1]
        BY <1>6, <1>7, <3>4
      <4> QED BY <2>3, <4>1, <4>2
    <3>5. CASE j > at /\ i > at
      <4>1. i - 1 \in 1 .. n /\ j - 1 \in 1 .. n /\ i - 1 < j - 1
        BY <1>2, <1>5, <2>4, <3>5
      <4>2. new[i] = line[i - 1] /\ new[j] = line[j - 1]
        BY <1>7, <3>5
      <4> QED BY <2>1, <4>1, <4>2
    <3> QED BY <1>2, <1>5, <2>4, <3>1, <3>2, <3>3, <3>4, <3>5
  <2> QED BY <1>6, <2>4 DEF Sorted
<1>11. new # <<>>
  BY <1>2, <1>6
<1> QED BY <1>1, <1>6, <1>8, <1>9, <1>10, <1>11, Zenon DEF p

\* A thread that is removed.
LEMMA Removed ==
  ASSUME LeastNat, NEW line \in Seq(Thread), NEW t,
         NEW p \in [Thread -> Nat]
  PROVE  LET new == Without(line, t) IN
           /\ new \in Seq(Thread)
           /\ IsInjective(line) => IsInjective(new) /\ Range(new) = Range(line) \ {t}
           /\ Sorted(p, line) => Sorted(p, new)
<1> DEFINE n == Len(line)
           at == CHOOSE i \in DOMAIN line : line[i] = t
           new == SubSeq(line, 1, at - 1) \o SubSeq(line, at + 1, Len(line))
<1>1. DOMAIN line = 1 .. n /\ n \in Nat
  OBVIOUS
<1>2. CASE t \notin Range(line)
  BY <1>2, Zenon DEF Without
<1>3. CASE t \in Range(line)
  <2>1. Without(line, t) = new
    BY <1>3, Zenon DEF Without
  <2>2. at \in 1 .. n /\ line[at] = t
    BY <1>1, <1>3, Zenon DEF Range
  <2> HIDE DEF at
  <2>3. /\ new \in Seq(Thread)
        /\ Len(new) = n - 1
        /\ \A j \in 1 .. n - 1 : new[j] = line[IF j < at THEN j ELSE j + 1]
    BY <2>2, RemoveAtIs, Zenon
  <2> HIDE DEF new
  <2>4. DOMAIN new = 1 .. n - 1
    BY <1>1, <2>2, <2>3
  <2> DEFINE src(j) == IF j < at THEN j ELSE j + 1
  <2>5. \A j \in 1 .. n - 1 : /\ src(j) \in 1 .. n
                              /\ src(j) # at
                              /\ new[j] = line[src(j)]
    <3>1. \A j \in 1 .. n - 1 : src(j) \in 1 .. n /\ src(j) # at
      BY <1>1, <2>2
    <3> QED BY <2>3, <3>1
  <2>6. \A i, j \in 1 .. n - 1 : i < j <=> src(i) < src(j)
    BY <1>1, <2>2
  <2>7. \A i, j \in 1 .. n - 1 : src(i) = src(j) => i = j
    BY <1>1, <2>2
  <2>8. \A k \in 1 .. n : k # at => \E j \in 1 .. n - 1 : src(j) = k
    <3> SUFFICES ASSUME NEW k \in 1 .. n, k # at
                 PROVE  \E j \in 1 .. n - 1 : src(j) = k
      OBVIOUS
    <3>1. CASE k < at
      <4>1. k \in 1 .. n - 1 /\ src(k) = k
        BY <1>1, <2>2, <3>1
      <4> QED BY <4>1
    <3>2. CASE k > at
      <4>1. k - 1 \in 1 .. n - 1 /\ src(k - 1) = k
        BY <1>1, <2>2, <3>2
      <4> QED BY <4>1
    <3> QED BY <1>1, <2>2, <3>1, <3>2
  <2> HIDE DEF src
  <2>9. ASSUME IsInjective(line)
        PROVE  IsInjective(new) /\ Range(new) = Range(line) \ {t}
    <3>1. \A i, j \in 1 .. n : line[i] = line[j] => i = j
      BY <1>1, <2>9, Zenon DEF IsInjective
    <3>2. IsInjective(new)
      <4> SUFFICES ASSUME NEW i \in 1 .. n - 1, NEW j \in 1 .. n - 1, new[i] = new[j]
                   PROVE  i = j
        BY <2>4, Zenon DEF IsInjective
      <4>1. line[src(i)] = line[src(j)] /\ src(i) \in 1 .. n /\ src(j) \in 1 .. n
        BY <2>5
      <4> QED BY <2>7, <3>1, <4>1, Zenon
    <3>3. ASSUME NEW u \in Range(new) PROVE u \in Range(line) \ {t}
      <4>1. PICK j \in 1 .. n - 1 : u = new[j]
        BY <2>4, Zenon DEF Range
      <4>2. u = line[src(j)] /\ src(j) \in 1 .. n /\ src(j) # at
        BY <2>5, <4>1, Zenon
      <4> QED BY <1>1, <2>2, <3>1, <4>2 DEF Range
    <3>4. ASSUME NEW u \in Range(line) \ {t} PROVE u \in Range(new)
      <4>1. PICK k \in 1 .. n : u = line[k]
        BY <1>1, Zenon DEF Range
      <4>2. k # at
        BY <2>2, <4>1
      <4>3. PICK j \in 1 .. n - 1 : src(j) = k
        BY <2>8, <4>2
      <4> QED BY <2>4, <2>5, <4>1, <4>3 DEF Range
    <3> QED BY <3>2, <3>3, <3>4
  <2>10. ASSUME Sorted(p, line) PROVE Sorted(p, new)
    <3>1. \A i, j \in 1 .. n : i < j => p[line[i]] <= p[line[j]]
      BY <1>1, <2>10, Zenon DEF Sorted
    <3> QED BY <2>4, <2>5, <2>6, <3>1, Zenon DEF Sorted
  <2> QED BY <2>1, <2>3, <2>9, <2>10, Zenon
<1> QED BY <1>2, <1>3

\* The first thread of a queue is the most urgent one.
LEMMA HeadFirst ==
  ASSUME NEW p \in [Thread -> Nat], NEW line \in Seq(Thread), line # <<>>,
         Sorted(p, line)
  PROVE  /\ Head(line) \in Thread
         /\ Head(line) \in Range(line)
         /\ \A u \in Range(line) : p[Head(line)] <= p[u]
<1>1. Len(line) \in Nat \ {0} /\ DOMAIN line = 1 .. Len(line) /\ Head(line) = line[1]
  OBVIOUS
<1>2. ASSUME NEW i \in 1 .. Len(line) PROVE p[line[1]] <= p[line[i]]
  <2>1. p[line[1]] \in Nat /\ (i = 1 \/ 1 < i)
    BY <1>1
  <2> QED BY <1>1, <2>1 DEF Sorted
<1> QED BY <1>1, <1>2 DEF Range

\* The queue without its first thread.
LEMMA TailIs ==
  ASSUME NEW line \in Seq(Thread), line # <<>>, IsInjective(line),
         NEW p \in [Thread -> Nat], Sorted(p, line)
  PROVE  /\ Tail(line) \in Seq(Thread)
         /\ IsInjective(Tail(line))
         /\ Sorted(p, Tail(line))
         /\ Range(Tail(line)) = Range(line) \ {Head(line)}
<1> DEFINE n == Len(line)
           new == Tail(line)
<1>1. /\ n \in Nat \ {0} /\ DOMAIN line = 1 .. n /\ Head(line) = line[1]
      /\ new \in Seq(Thread) /\ DOMAIN new = 1 .. n - 1
      /\ \A i \in 1 .. n - 1 : new[i] = line[i + 1] /\ i + 1 \in 1 .. n
  OBVIOUS
<1> HIDE DEF new, n
<1>2. IsInjective(new)
  <2>1. ASSUME NEW i \in 1 .. n - 1, NEW j \in 1 .. n - 1, new[i] = new[j]
        PROVE  i = j
    <3>1. line[i + 1] = line[j + 1] /\ i + 1 \in 1 .. n /\ j + 1 \in 1 .. n
      BY <1>1, <2>1
    <3>2. i + 1 = j + 1
      BY <1>1, <3>1, Zenon DEF IsInjective
    <3> QED BY <3>2
  <2> QED BY <1>1, <2>1 DEF IsInjective
<1>3. Sorted(p, new)
  <2>1. ASSUME NEW i \in 1 .. n - 1, NEW j \in 1 .. n - 1, i < j
        PROVE  p[new[i]] <= p[new[j]]
    <3>1. i + 1 < j + 1
      BY <2>1
    <3> QED BY <1>1, <3>1, Zenon DEF Sorted
  <2> QED BY <1>1, <2>1 DEF Sorted
<1>4. ASSUME NEW i \in 1 .. n - 1 PROVE new[i] \in Range(line) \ {line[1]}
  <2>1. i + 1 # 1 /\ 1 \in 1 .. n /\ i + 1 \in 1 .. n /\ new[i] = line[i + 1]
    BY <1>1
  <2>2. line[i + 1] # line[1]
    BY <1>1, <2>1, Zenon DEF IsInjective
  <2> QED BY <1>1, <2>1, <2>2, Zenon DEF Range
<1>5. ASSUME NEW k \in 1 .. n, line[k] # line[1] PROVE line[k] \in Range(new)
  <2>1. k - 1 \in 1 .. n - 1 /\ (k - 1) + 1 = k
    BY <1>1, <1>5
  <2>2. new[k - 1] = line[k]
    BY <1>1, <2>1, Zenon
  <2> QED BY <1>1, <2>1, <2>2 DEF Range
<1>6. Range(new) = Range(line) \ {line[1]}
  <2>1. Range(new) \subseteq Range(line) \ {line[1]}
    BY <1>1, <1>4, Zenon DEF Range
  <2>2. ASSUME NEW u \in Range(line), u # line[1] PROVE u \in Range(new)
    <3>1. PICK k \in 1 .. n : u = line[k]
      BY <1>1, Zenon DEF Range
    <3> QED BY <1>5, <2>2, <3>1
  <2> QED BY <2>1, <2>2
<1> QED BY <1>1, <1>2, <1>3, <1>6, Zenon DEF new

LEMMA SortedSame ==
  ASSUME NEW p, NEW q, NEW line \in Seq(Thread), Sorted(p, line),
         \A u \in Range(line) : q[u] = p[u]
  PROVE  Sorted(q, line)
BY Zenon DEF Sorted, Range

------------------------------------------------------------------------------
(***************************************************************************)
(* The operators on priorities.                                            *)
(***************************************************************************)
LineMinimum(s, m, line) ==
  IF m \in Inherit /\ line # <<>> THEN s.prio[Head(line)] ELSE s.qprio[m]

SameButQueues(s, r) ==
  /\ r \in State
  /\ r.owner = s.owner /\ r.ceiling = s.ceiling /\ r.real = s.real
  /\ r.prio = s.prio /\ r.update = s.update

LEMMA WithLineIs ==
  ASSUME NEW s \in State, NEW m \in Mutex, NEW line \in Seq(Thread)
  PROVE  LET r == WithLine(s, m, line) IN
           /\ SameButQueues(s, r)
           /\ r.queue = [s.queue EXCEPT ![m] = line]
           /\ r.qprio = [s.qprio EXCEPT ![m] = LineMinimum(s, m, line)]
<1> DEFINE q == LineMinimum(s, m, line)
           r == [s EXCEPT !.queue = [s.queue EXCEPT ![m] = line],
                          !.qprio = [s.qprio EXCEPT ![m] = q]]
<1>1. WithLine(s, m, line) = r
  BY DEF WithLine, State, LineMinimum
<1>2. q \in Nat
  <2>1. line # <<>> => Head(line) \in Thread
    OBVIOUS
  <2> QED BY <2>1 DEF State, LineMinimum
<1> HIDE DEF q
<1>3. [s.queue EXCEPT ![m] = line] \in [Mutex -> Seq(Thread)]
  BY DEF State
<1>4. [s.qprio EXCEPT ![m] = q] \in [Mutex -> Nat]
  BY <1>2 DEF State
<1>5. /\ r \in State
      /\ r.owner = s.owner /\ r.ceiling = s.ceiling /\ r.real = s.real
      /\ r.prio = s.prio /\ r.update = s.update
      /\ r.queue = [s.queue EXCEPT ![m] = line]
      /\ r.qprio = [s.qprio EXCEPT ![m] = q]
  BY <1>3, <1>4, Zenon DEF State
<1> HIDE DEF r
<1>6. SameButQueues(s, r)
  BY <1>5, Zenon DEF SameButQueues
<1> QED BY <1>1, <1>5, <1>6, Zenon DEF q

\* Wait.queue of a thread that waits on at most one queue.
LEMMA WaitsForIs ==
  ASSUME NEW s, NEW t
  PROVE  /\ WaitsFor(s, t) = None <=> ~Waits(s, t)
         /\ WaitsFor(s, t) # None => WaitsFor(s, t) \in Mutex /\ On(s, t, WaitsFor(s, t))
<1> DEFINE M == {m \in Mutex : t \in Range(s.queue[m])}
<1>1. CASE M = {}
  BY <1>1, Zenon DEF WaitsFor, Waits, On
<1>2. CASE M # {}
  <2>1. WaitsFor(s, t) = CHOOSE m \in M : TRUE
    BY <1>2, Zenon DEF WaitsFor
  <2>2. WaitsFor(s, t) \in M
    BY <1>2, <2>1, Zenon
  <2>3. WaitsFor(s, t) # None
    BY <2>2, CoreMutexAssumption
  <2> QED BY <2>2, <2>3, Zenon DEF Waits, On
<1> QED BY <1>1, <1>2

LEMMA ContributionsNat ==
  ASSUME NEW s \in State, NEW t \in Thread
  PROVE  Contributions(s, t) \in SUBSET Nat /\ s.real[t] \in Contributions(s, t)
BY CoreMutexAssumption DEF Contributions, State

LEMMA ContributionsSame ==
  ASSUME NEW s, NEW r, NEW t,
         r.real[t] = s.real[t],
         \A m \in Mutex : r.owner[m] = t <=> s.owner[m] = t,
         \A m \in Ceiling : s.owner[m] = t => r.ceiling[m] = s.ceiling[m],
         \A m \in Inherit : s.owner[m] = t =>
           /\ r.queue[m] = <<>> <=> s.queue[m] = <<>>
           /\ s.queue[m] # <<>> => r.qprio[m] = s.qprio[m]
  PROVE  Contributions(r, t) = Contributions(s, t)
<1> DEFINE o == {m \in Mutex : s.owner[m] = t}
           i == {m \in o \cap Inherit : s.queue[m] # <<>>}
<1>1. o = {m \in Mutex : r.owner[m] = t}
  OBVIOUS
<1>2. i = {m \in o \cap Inherit : r.queue[m] # <<>>}
  OBVIOUS
<1>3. {r.ceiling[m] : m \in o \cap Ceiling} = {s.ceiling[m] : m \in o \cap Ceiling}
  OBVIOUS
<1>4. {r.qprio[m] : m \in i} = {s.qprio[m] : m \in i}
  OBVIOUS
<1>5. Contributions(s, t) = {s.real[t]} \cup {s.ceiling[m] : m \in o \cap Ceiling}
                              \cup {s.qprio[m] : m \in i}
  BY Zenon DEF Contributions
<1>6. Contributions(r, t) = {r.real[t]} \cup {r.ceiling[m] : m \in o \cap Ceiling}
                              \cup {r.qprio[m] : m \in i}
  <2> DEFINE o1 == {m \in Mutex : r.owner[m] = t}
             i1 == {m \in o1 \cap Inherit : r.queue[m] # <<>>}
  <2>1. Contributions(r, t) = {r.real[t]} \cup {r.ceiling[m] : m \in o1 \cap Ceiling}
                              \cup {r.qprio[m] : m \in i1}
    BY Zenon DEF Contributions
  <2>2. o1 = o
    BY <1>1
  <2> HIDE DEF o, o1
  <2>3. i1 = i
    BY <1>2, <2>2
  <2> HIDE DEF i, i1
  <2> QED BY <2>1, <2>2, <2>3, Zenon
<1> HIDE DEF o, i
<1> QED BY <1>3, <1>4, <1>5, <1>6, Zenon

LEMMA NewPriorityIs ==
  ASSUME NEW s \in State, NEW t \in Thread, NEW x \in Nat
  PROVE  LET r == AddUpdate([s EXCEPT !.prio[t] = x], t) IN
           /\ r \in State
           /\ r.owner = s.owner /\ r.ceiling = s.ceiling /\ r.real = s.real
           /\ r.qprio = s.qprio /\ r.queue = s.queue
           /\ r.prio = [s.prio EXCEPT ![t] = x]
           /\ r.update = Append(s.update, Update(t))
<1> DEFINE q == [s.prio EXCEPT ![t] = x]
           l == Append(s.update, Update(t))
           r == [s EXCEPT !.prio = q, !.update = l]
<1>1. AddUpdate([s EXCEPT !.prio[t] = x], t) = r
  BY DEF AddUpdate, State
<1>2. q \in [Thread -> Nat]
  BY DEF State
<1>3. l \in Seq(Updates)
  <2>1. Update(t) \in Updates
    BY DEF Updates
  <2>2. s.update \in Seq(Updates)
    BY DEF State
  <2> QED BY <2>1, <2>2
<1> HIDE DEF q, l
<1>4. /\ r \in State
      /\ r.owner = s.owner /\ r.ceiling = s.ceiling /\ r.real = s.real
      /\ r.qprio = s.qprio /\ r.queue = s.queue
      /\ r.prio = q /\ r.update = l
  BY <1>2, <1>3, Zenon DEF State
<1> HIDE DEF r
<1> QED BY <1>1, <1>4, Zenon DEF q, l

LEMMA LineKept ==
  ASSUME NEW s \in State, NEW r, NEW m \in Mutex, LineFits(s, m),
         r.queue[m] = s.queue[m], r.qprio[m] = s.qprio[m],
         \A u \in Range(s.queue[m]) : r.prio[u] = s.prio[u]
  PROVE  LineFits(r, m)
<1>1. s.queue[m] \in Seq(Thread) /\ s.prio \in [Thread -> Nat]
  BY DEF State
<1>2. Sorted(r.prio, r.queue[m])
  BY <1>1, SortedSame DEF LineFits
<1>3. s.queue[m] # <<>> => Head(s.queue[m]) \in Range(s.queue[m])
  BY <1>1, HeadFirst DEF LineFits
<1> QED BY <1>2, <1>3, Zenon DEF LineFits

LEMMA LineSet ==
  ASSUME NEW s \in State, NEW m \in Mutex, NEW line \in Seq(Thread),
         IsInjective(line), Sorted(s.prio, line)
  PROVE  LET r == WithLine(s, m, line) IN
           /\ r.queue[m] = line
           /\ LineFits(r, m)
           /\ \A n \in Mutex : n # m => /\ r.queue[n] = s.queue[n]
                                        /\ r.qprio[n] = s.qprio[n]
                                        /\ LineFits(s, n) => LineFits(r, n)
<1> DEFINE r == WithLine(s, m, line)
<1>1. /\ SameButQueues(s, r)
      /\ r.queue = [s.queue EXCEPT ![m] = line]
      /\ r.qprio = [s.qprio EXCEPT ![m] = LineMinimum(s, m, line)]
  BY WithLineIs
<1> HIDE DEF r
<1>2. s.queue \in [Mutex -> Seq(Thread)] /\ s.qprio \in [Mutex -> Nat]
  BY DEF State
<1>3. r.queue[m] = line
  BY <1>1, <1>2
<1>4. m \in Inherit /\ line # <<>> => r.qprio[m] = s.prio[Head(line)]
  BY <1>1, <1>2 DEF LineMinimum
<1>5. LineFits(r, m)
  BY <1>1, <1>3, <1>4, Zenon DEF LineFits, SameButQueues
<1>6. ASSUME NEW n \in Mutex, n # m
      PROVE  r.queue[n] = s.queue[n] /\ r.qprio[n] = s.qprio[n]
  BY <1>1, <1>2, <1>6
<1>7. ASSUME NEW n \in Mutex, n # m, LineFits(s, n) PROVE LineFits(r, n)
  BY <1>1, <1>6, <1>7, LineKept, Zenon DEF SameButQueues
<1> QED BY <1>3, <1>5, <1>6, <1>7, Zenon DEF r

------------------------------------------------------------------------------
(***************************************************************************)
(* The propagation of priorities.                                          *)
(***************************************************************************)

\* What it never changes.
SamePlaces(s, r) ==
  /\ r \in State
  /\ r.owner = s.owner /\ r.ceiling = s.ceiling /\ r.real = s.real
  /\ \A m \in Mutex : Range(r.queue[m]) = Range(s.queue[m])

LEMMA PlacesKept ==
  ASSUME NEW s \in State, NEW r, SamePlaces(s, r)
  PROVE  /\ \A t, m : m \in Mutex => (On(r, t, m) <=> On(s, t, m))
         /\ \A t : Waits(r, t) <=> Waits(s, t)
         /\ OneQueue(s) => OneQueue(r)
         /\ NoCircle(s) => NoCircle(r)
         /\ \A m \in Mutex : r.queue[m] = <<>> <=> s.queue[m] = <<>>
<1>1. \A t, m : m \in Mutex => (On(r, t, m) <=> On(s, t, m))
  BY Zenon DEF SamePlaces, On
<1>2. \A t : Waits(r, t) <=> Waits(s, t)
  BY <1>1, Zenon DEF Waits
<1>3. OneQueue(s) => OneQueue(r)
  BY <1>1, Zenon DEF OneQueue
<1>4. NoCircle(s) => NoCircle(r)
  BY <1>1, Zenon DEF NoCircle, SamePlaces
<1>5. ASSUME NEW m \in Mutex PROVE r.queue[m] = <<>> <=> s.queue[m] = <<>>
  <2>1. r.queue[m] \in Seq(Thread) /\ s.queue[m] \in Seq(Thread)
    BY DEF SamePlaces, State
  <2>2. ASSUME NEW line \in Seq(Thread) PROVE line = <<>> <=> Range(line) = {}
    <3>1. line = <<>> => Range(line) = {}
      BY DEF Range
    <3>2. line # <<>> => 1 \in DOMAIN line
      OBVIOUS
    <3>3. line # <<>> => line[1] \in Range(line)
      BY <3>2, Zenon DEF Range
    <3> QED BY <3>1, <3>3
  <2> QED BY <2>1, <2>2 DEF SamePlaces
<1> QED BY <1>1, <1>2, <1>3, <1>4, <1>5, Zenon

\* A thread whose contributions are the same keeps a priority that fits.
LEMMA FitsKept ==
  ASSUME NEW s \in State, NEW r, SamePlaces(s, r), NEW u \in Thread,
         r.prio[u] = s.prio[u], Fits(s, u),
         \A m \in Inherit : s.owner[m] = u /\ s.queue[m] # <<>> => r.qprio[m] = s.qprio[m]
  PROVE  Fits(r, u)
<1>1. \A m \in Mutex : r.queue[m] = <<>> <=> s.queue[m] = <<>>
  BY PlacesKept, Zenon
<1>2. r.real = s.real /\ r.owner = s.owner /\ r.ceiling = s.ceiling
  BY Zenon DEF SamePlaces
<1>3. Inherit \subseteq Mutex
  BY CoreMutexAssumption
<1>4. Contributions(r, u) = Contributions(s, u)
  BY <1>1, <1>2, <1>3, ContributionsSame
<1> QED BY <1>4, Zenon DEF Fits

\* The thread does not wait: its new priority concerns nobody else.
LEMMA NewPriorityAlone ==
  ASSUME LeastNat, NEW s \in State, NEW t \in Thread,
         \A m \in Mutex : LineFits(s, m),
         \A u \in Thread : u # t => Fits(s, u),
         ~Waits(s, t)
  PROVE  LET r == AddUpdate([s EXCEPT !.prio[t] = Min(Contributions(s, t))], t) IN
           /\ SamePlaces(s, r)
           /\ \A m \in Mutex : LineFits(r, m)
           /\ \A u \in Thread : Fits(r, u)
<1> DEFINE x == Min(Contributions(s, t))
           r == AddUpdate([s EXCEPT !.prio[t] = x], t)
<1>1. x \in Nat
  BY ContributionsNat, MinIs
<1>2. /\ r \in State
      /\ r.owner = s.owner /\ r.ceiling = s.ceiling /\ r.real = s.real
      /\ r.qprio = s.qprio /\ r.queue = s.queue
      /\ r.prio = [s.prio EXCEPT ![t] = x]
  <2> HIDE DEF x
  <2> QED BY <1>1, NewPriorityIs
<1>3. r.prio[t] = x /\ \A u \in Thread : u # t => r.prio[u] = s.prio[u]
  <2> HIDE DEF x, r
  <2> QED BY <1>2 DEF State
<1>4. SamePlaces(s, r)
  <2> HIDE DEF r
  <2> QED BY <1>2, Zenon DEF SamePlaces
<1>5. ASSUME NEW m \in Mutex PROVE LineFits(r, m)
  <2> HIDE DEF r
  <2>1. Range(s.queue[m]) \subseteq Thread
    BY DEF Range, State
  <2>2. t \notin Range(s.queue[m])
    BY Zenon DEF Waits, On
  <2> QED BY <1>2, <1>3, <2>1, <2>2, LineKept, Zenon
<1>6. ASSUME NEW u \in Thread, u # t PROVE Fits(r, u)
  <2> HIDE DEF r
  <2> QED BY <1>2, <1>3, <1>4, <1>6, FitsKept, Zenon
<1>7. Fits(r, t)
  <2> HIDE DEF r
  <2>1. Contributions(r, t) = Contributions(s, t)
    BY <1>2, ContributionsSame
  <2> QED BY <1>3, <2>1, Zenon DEF Fits
<1> QED BY <1>4, <1>5, <1>6, <1>7, Zenon

Repositioned(s, t, m, r) ==
  /\ SamePlaces(s, r)
  /\ r.prio = [s.prio EXCEPT ![t] = Min(Contributions(s, t))]
  /\ r.update = Append(s.update, Update(t))
  /\ \A n \in Mutex : LineFits(r, n)
  /\ \A u \in Thread :
       m \notin Inherit \/ r.qprio[m] = s.qprio[m] \/ s.owner[m] # u => Fits(r, u)

\* The thread waits for mutex m: it gets a new place on the queue, which may
\* change what the queue contributes to the owner of m.
LEMMA NewPriorityWaiting ==
  ASSUME LeastNat, NEW s \in State, NEW t \in Thread, NEW m \in Mutex,
         OneQueue(s), On(s, t, m),
         \A n \in Mutex : LineFits(s, n),
         \A u \in Thread : u # t => Fits(s, u),
         m \in Inherit => s.owner[m] # t
  PROVE  LET s1 == AddUpdate([s EXCEPT !.prio[t] = Min(Contributions(s, t))], t)
         IN  s1.qprio = s.qprio /\ Repositioned(s, t, m, Reposition(s1, m, t))
<1> DEFINE x == Min(Contributions(s, t))
           s1 == AddUpdate([s EXCEPT !.prio[t] = x], t)
           old == Without(s1.queue[m], t)
           new == InsertByPriority(s1, old, t)
           r == WithLine(s1, m, new)
<1>1. x \in Nat
  BY ContributionsNat, MinIs
<1>2. /\ s1 \in State
      /\ s1.owner = s.owner /\ s1.ceiling = s.ceiling /\ s1.real = s.real
      /\ s1.qprio = s.qprio /\ s1.queue = s.queue
      /\ s1.prio = [s.prio EXCEPT ![t] = x]
      /\ s1.update = Append(s.update, Update(t))
  <2> HIDE DEF x
  <2> QED BY <1>1, NewPriorityIs
<1> HIDE DEF s1
<1>3. s1.prio[t] = x /\ \A u \in Thread : u # t => s1.prio[u] = s.prio[u]
  <2> HIDE DEF x
  <2> QED BY <1>2 DEF State
<1>4. s.queue[m] \in Seq(Thread) /\ s.prio \in [Thread -> Nat] /\ s1.prio \in [Thread -> Nat]
  BY <1>2 DEF State
<1>5. /\ old \in Seq(Thread) /\ IsInjective(old) /\ Sorted(s.prio, old)
      /\ Range(old) = Range(s.queue[m]) \ {t}
  BY <1>2, <1>4, Removed DEF LineFits
<1> HIDE DEF old
<1>6. Sorted(s1.prio, old)
  <2>1. Range(old) \subseteq Thread
    BY <1>5 DEF Range
  <2>2. \A u \in Range(old) : s1.prio[u] = s.prio[u]
    BY <1>3, <1>5, <2>1
  <2> QED BY <1>5, <2>2, SortedSame
<1>7. /\ new \in Seq(Thread) /\ new # <<>> /\ IsInjective(new) /\ Sorted(s1.prio, new)
      /\ Range(new) = Range(old) \cup {t}
  <2>1. t \notin Range(old)
    BY <1>5
  <2>2. s1 \in State /\ old \in Seq(Thread)
    BY <1>2, <1>5
  <2>3. /\ new \in Seq(Thread) /\ new # <<>>
        /\ Range(new) = Range(old) \cup {t}
        /\ IsInjective(old) /\ t \notin Range(old) => IsInjective(new)
        /\ Sorted(s1.prio, old) => Sorted(s1.prio, new)
    BY <2>2, Inserted
  <2> QED BY <1>5, <1>6, <2>1, <2>3, Zenon
<1> HIDE DEF new
<1>8. /\ r \in State
      /\ r.owner = s.owner /\ r.ceiling = s.ceiling /\ r.real = s.real
      /\ r.prio = s1.prio /\ r.update = s1.update
  <2>1. s1 \in State /\ new \in Seq(Thread)
    BY <1>2, <1>7
  <2>2. SameButQueues(s1, r)
    BY <2>1, WithLineIs, Zenon
  <2> QED BY <1>2, <2>2, Zenon DEF SameButQueues
<1>9. /\ r.queue[m] = new
      /\ LineFits(r, m)
      /\ \A n \in Mutex : n # m => /\ r.queue[n] = s1.queue[n]
                                   /\ r.qprio[n] = s1.qprio[n]
                                   /\ LineFits(s1, n) => LineFits(r, n)
  BY <1>2, <1>7, LineSet
<1>10. Reposition(s1, m, t) = r
  BY Zenon DEF Reposition, r, new, old
<1> HIDE DEF r
<1>11. SamePlaces(s, r)
  <2>1. Range(new) = Range(s.queue[m])
    BY <1>5, <1>7 DEF On
  <2>2. ASSUME NEW n \in Mutex PROVE Range(r.queue[n]) = Range(s.queue[n])
    BY <1>2, <1>9, <2>1, Zenon
  <2> QED BY <1>8, <2>2, Zenon DEF SamePlaces
<1>12. ASSUME NEW n \in Mutex PROVE LineFits(r, n)
  <2>1. CASE n = m
    BY <1>9, <2>1
  <2>2. CASE n # m
    <3>1. t \notin Range(s.queue[n])
      BY <2>2, Zenon DEF OneQueue, On
    <3>2. Range(s.queue[n]) \subseteq Thread
      BY DEF Range, State
    <3>3. \A u \in Range(s.queue[n]) : s1.prio[u] = s.prio[u]
      BY <1>3, <3>1, <3>2
    <3>4. LineFits(s1, n)
      BY <1>2, <3>3, LineKept, Zenon
    <3> QED BY <1>9, <2>2, <3>4, Zenon
  <2> QED BY <2>1, <2>2
<1>13. ASSUME NEW u \in Thread,
              m \notin Inherit \/ r.qprio[m] = s.qprio[m] \/ s.owner[m] # u
       PROVE  Fits(r, u)
  <2>1. ASSUME NEW n \in Inherit, s.owner[n] = u PROVE r.qprio[n] = s.qprio[n]
    <3>1. n \in Mutex
      BY CoreMutexAssumption
    <3> QED BY <1>2, <1>9, <1>13, <2>1, <3>1, Zenon
  <2>2. CASE u # t
    <3>1. r.prio[u] = s.prio[u]
      BY <1>3, <1>8, <2>2
    <3> QED BY <1>11, <2>1, <2>2, <3>1, FitsKept
  <2>3. CASE u = t
    <3>1. \A n \in Mutex : r.queue[n] = <<>> <=> s.queue[n] = <<>>
      BY <1>11, PlacesKept, Zenon
    <3>2. Inherit \subseteq Mutex
      BY CoreMutexAssumption
    <3>3. Contributions(r, t) = Contributions(s, t)
      BY <1>8, <2>1, <2>3, <3>1, <3>2, ContributionsSame
    <3> QED BY <1>3, <1>8, <2>3, <3>3, Zenon DEF Fits
  <2> QED BY <2>2, <2>3
<1>14. Repositioned(s, t, m, r)
  BY <1>2, <1>8, <1>11, <1>12, <1>13, Zenon DEF Repositioned
<1> QED BY <1>2, <1>10, <1>14, Zenon DEF s1

\* The result r of _Thread_Priority_do_perform_actions() for thread t: at most
\* the thread r.at, whose turn is next, has a priority that does not fit.
Propagated(s, t, r) ==
  /\ SamePlaces(s, r.s)
  /\ r.at \in Thread \cup {None}
  /\ \A m \in Mutex : LineFits(r.s, m)
  /\ \A u \in Thread : u # r.at => Fits(r.s, u)
  /\ r.at # None => \E m \in Inherit : On(s, t, m) /\ s.owner[m] = r.at
  /\ \A u \in Thread : u # t => r.s.prio[u] = s.prio[u]
  /\ \/ r.at = None /\ r.s.prio[t] = s.prio[t] /\ r.s.update = s.update
     \/ r.s.update = Append(s.update, Update(t))

LEMMA DoPerformActionsIs ==
  ASSUME LeastNat, NEW s \in State, NEW t \in Thread,
         OneQueue(s),
         \A m \in Mutex : LineFits(s, m),
         \A u \in Thread : u # t => Fits(s, u),
         \A m \in Inherit : On(s, t, m) => s.owner[m] # t
  PROVE  Propagated(s, t, DoPerformActions(s, t))
<1> DEFINE x == Min(Contributions(s, t))
           m == WaitsFor(s, t)
           s1 == AddUpdate([s EXCEPT !.prio[t] = x], t)
           s2 == Reposition(s1, m, t)
<1>1. t # None
  BY CoreMutexAssumption
<1>2. CASE x = s.prio[t]
  <2>1. DoPerformActions(s, t) = [s |-> s, at |-> None]
    BY <1>2, Zenon DEF DoPerformActions
  <2>2. Fits(s, t)
    BY <1>2, Zenon DEF Fits
  <2>3. SamePlaces(s, s)
    BY Zenon DEF SamePlaces
  <2>4. Propagated(s, t, [s |-> s, at |-> None])
    BY <2>2, <2>3 DEF Propagated
  <2> QED BY <2>1, <2>4, Zenon
<1>3. CASE x # s.prio[t] /\ m = None
  <2>1. DoPerformActions(s, t) = [s |-> s1, at |-> None]
    BY <1>1, <1>3, Zenon DEF DoPerformActions
  <2>2. x \in Nat
    BY ContributionsNat, MinIs
  <2>3. s1.prio = [s.prio EXCEPT ![t] = x] /\ s1.update = Append(s.update, Update(t))
    <3> HIDE DEF x
    <3> QED BY <2>2, NewPriorityIs, SMTT(30)
  <2>4. ~Waits(s, t)
    BY <1>3, WaitsForIs, Zenon
  <2>5. /\ SamePlaces(s, s1)
        /\ \A n \in Mutex : LineFits(s1, n)
        /\ \A u \in Thread : Fits(s1, u)
    BY <2>4, NewPriorityAlone, Zenon
  <2> HIDE DEF s1, x
  <2>6. \A u \in Thread : u # t => s1.prio[u] = s.prio[u]
    BY <2>3 DEF State
  <2>7. Propagated(s, t, [s |-> s1, at |-> None])
    BY <2>3, <2>5, <2>6, Zenon DEF Propagated
  <2> QED BY <2>1, <2>7, Zenon DEF s1
<1>4. CASE x # s.prio[t] /\ m # None
  <2> DEFINE passOn == m \in Inherit /\ s2.qprio[m] # s1.qprio[m]
             at == IF passOn THEN s2.owner[m] ELSE None
  <2>1. DoPerformActions(s, t) = [s |-> s2, at |-> at]
    BY <1>1, <1>4, Zenon DEF DoPerformActions
  <2>2. m \in Mutex /\ On(s, t, m)
    BY <1>4, WaitsForIs, Zenon
  <2> HIDE DEF m
  <2>0. s1.qprio = s.qprio /\ Repositioned(s, t, m, s2)
    BY <2>2, NewPriorityWaiting, Zenon
  <2> HIDE DEF s2
  <2>3. /\ SamePlaces(s, s2)
        /\ s2.prio = [s.prio EXCEPT ![t] = x]
        /\ s2.update = Append(s.update, Update(t))
        /\ s1.qprio = s.qprio
        /\ \A n \in Mutex : LineFits(s2, n)
        /\ \A u \in Thread :
             m \notin Inherit \/ s2.qprio[m] = s.qprio[m] \/ s.owner[m] # u
               => Fits(s2, u)
    BY <2>0, Zenon DEF Repositioned
  <2> HIDE DEF s1, x
  <2>4. \A u \in Thread : u # t => s2.prio[u] = s.prio[u]
    BY <2>3 DEF State
  <2>5. s2.owner[m] = s.owner[m] /\ s.owner[m] \in Thread \cup {None}
    BY <2>2, <2>3 DEF SamePlaces, State
  <2>6. at \in Thread \cup {None} /\ (at # None => m \in Inherit /\ at = s.owner[m])
    BY <2>5
  <2>7. ASSUME NEW u \in Thread, u # at PROVE Fits(s2, u)
    BY <2>3, <2>5, <2>7, Zenon
  <2> HIDE DEF at
  <2>8. Propagated(s, t, [s |-> s2, at |-> at])
    BY <2>2, <2>3, <2>4, <2>6, <2>7, Zenon DEF Propagated
  <2> QED BY <2>1, <2>8, Zenon DEF s1, s2, x, m, at
<1> QED BY <1>2, <1>3, <1>4

\* What holds on the way from s along the path: all the priorities fit but the
\* one of the thread p.at.  Each thread with a new priority waits or is the last
\* one and registered for an update.
OnTheWay == [s : State, at : Thread \cup {None}]

OnPath(s, p) ==
  /\ SamePlaces(s, p.s)
  /\ \A m \in Mutex : LineFits(p.s, m)
  /\ \A u \in Thread : u # p.at => Fits(p.s, u)
  /\ \/ p.s.update = s.update
     \/ p.at = None /\ \E u \in Thread : p.s.update = Append(s.update, Update(u))
  /\ \A u \in Thread : \/ p.s.prio[u] = s.prio[u]
                       \/ Waits(s, u)
                       \/ p.s.update = Append(s.update, Update(u))

LEMMA AppendGrows ==
  ASSUME NEW q \in Seq(Updates), NEW x \in Updates
  PROVE  Append(q, x) # q
<1>1. Len(Append(q, x)) = Len(q) + 1 /\ Len(q) \in Nat
  OBVIOUS
<1> QED BY <1>1

LEMMA PathStepIs ==
  ASSUME LeastNat, NEW s \in State, OneQueue(s), NoCircle(s),
         NEW p \in OnTheWay, OnPath(s, p)
  PROVE  LET q == PathStep(p) IN
           /\ q \in OnTheWay
           /\ OnPath(s, q)
           /\ q.at # None => /\ p.at # None
                             /\ \E m \in Mutex : On(s, p.at, m) /\ s.owner[m] = q.at
<1>1. p.s \in State /\ p.at \in Thread \cup {None} /\ p = [s |-> p.s, at |-> p.at]
  BY DEF OnTheWay
<1>2. CASE p.at = None
  <2>1. DoPerformActions(p.s, p.at) = [s |-> p.s, at |-> None]
    BY <1>2, Zenon DEF DoPerformActions
  <2>2. PathStep(p) = [s |-> p.s, at |-> None]
    BY <2>1 DEF PathStep
  <2>3. PathStep(p) = p
    BY <1>1, <1>2, <2>2, Zenon
  <2> QED BY <1>2, <2>3, Zenon
<1>3. CASE p.at # None
  <2> DEFINE t == p.at
             r == DoPerformActions(p.s, t)
  <2>1. t \in Thread
    BY <1>1, <1>3
  <2>2. SamePlaces(s, p.s) /\ (\A m \in Mutex : LineFits(p.s, m))
        /\ (\A u \in Thread : u # t => Fits(p.s, u)) /\ p.s.update = s.update
    BY <1>3, Zenon DEF OnPath
  <2>3. OneQueue(p.s) /\ NoCircle(p.s)
    BY <2>2, PlacesKept, Zenon
  <2>4. \A m \in Inherit : On(p.s, t, m) => p.s.owner[m] # t
    <3>1. {t} \in SUBSET Thread /\ {t} # {} /\ Inherit \subseteq Mutex
      BY <2>1, CoreMutexAssumption
    <3>2. \A m \in Mutex : On(p.s, t, m) => p.s.owner[m] \notin {t}
      BY <2>3, <3>1, Zenon DEF NoCircle
    <3> QED BY <3>1, <3>2
  <2>5. Propagated(p.s, t, r)
    BY <1>1, <2>1, <2>2, <2>3, <2>4, DoPerformActionsIs
  <2> HIDE DEF r, t
  <2>6. r.s \in State /\ r.at \in Thread \cup {None} /\ SamePlaces(s, r.s)
    BY <2>2, <2>5, Zenon DEF Propagated, SamePlaces
  <2>7. \A u \in Thread : p.s.prio[u] = s.prio[u] \/ Waits(s, u)
    <3> SUFFICES ASSUME NEW u \in Thread, p.s.update = Append(s.update, Update(u))
                 PROVE  FALSE
      BY Zenon DEF OnPath
    <3>1. Update(u) \in Updates /\ s.update \in Seq(Updates)
      BY DEF Updates, State
    <3> QED BY <2>2, <3>1, AppendGrows, Zenon
  <2>8. \A u \in Thread : u # t => r.s.prio[u] = s.prio[u] \/ Waits(s, u)
    BY <2>5, <2>7, Zenon DEF Propagated
  <2>9. CASE r.at = None
    <3>1. PathStep(p) = r
      BY <2>9, Zenon DEF PathStep, r, t
    <3>2. r \in OnTheWay
      <4>1. r = [s |-> r.s, at |-> r.at]
        BY DEF r, DoPerformActions
      <4> QED BY <2>6, <4>1 DEF OnTheWay
    <3>3. r.s.update = s.update \/ r.s.update = Append(s.update, Update(t))
      BY <2>2, <2>5, Zenon DEF Propagated
    <3>4. r.s.prio[t] = s.prio[t] \/ Waits(s, t) \/ r.s.update = Append(s.update, Update(t))
      BY <2>1, <2>2, <2>5, <2>7, Zenon DEF Propagated
    <3>5. (\A m \in Mutex : LineFits(r.s, m)) /\ (\A u \in Thread : u # r.at => Fits(r.s, u))
      BY <2>5, Zenon DEF Propagated
    <3>6. OnPath(s, r)
      BY <2>1, <2>6, <2>8, <2>9, <3>3, <3>4, <3>5, Zenon DEF OnPath
    <3> QED BY <2>9, <3>1, <3>2, <3>6, Zenon
  <2>10. CASE r.at # None
    <3> DEFINE q == [s |-> [r.s EXCEPT !.update = s.update], at |-> r.at]
    <3>1. PathStep(p) = q
      <4>1. r = [s |-> r.s, at |-> r.at]
        BY DEF r, DoPerformActions
      <4>2. PathStep(p) = [r EXCEPT !.s.update = p.s.update]
        BY <2>10, Zenon DEF PathStep, r, t
      <4>3. [[s |-> r.s, at |-> r.at] EXCEPT !.s.update = s.update] = q
        OBVIOUS
      <4> QED BY <2>2, <4>1, <4>2, <4>3, Zenon
    <3>2. /\ q \in OnTheWay /\ q.at = r.at
          /\ q.s.owner = r.s.owner /\ q.s.ceiling = r.s.ceiling /\ q.s.real = r.s.real
          /\ q.s.prio = r.s.prio /\ q.s.qprio = r.s.qprio /\ q.s.queue = r.s.queue
          /\ q.s.update = s.update
      BY <2>6, Zenon DEF OnTheWay, State
    <3> HIDE DEF q
    <3>3. SamePlaces(s, q.s)
      BY <2>6, <3>2 DEF SamePlaces, OnTheWay
    <3>4. \A m \in Mutex : LineFits(q.s, m)
      BY <2>5, <3>2, Zenon DEF Propagated, LineFits
    <3>5. \A u \in Thread : u # q.at => Fits(q.s, u)
      <4>1. \A u \in Thread : Contributions(q.s, u) = Contributions(r.s, u)
        BY <3>2, ContributionsSame
      <4> QED BY <2>5, <3>2, <4>1, Zenon DEF Propagated, Fits
    <3>6. \E m \in Mutex : On(s, t, m) /\ s.owner[m] = q.at
      <4>1. PICK m \in Inherit : On(p.s, t, m) /\ p.s.owner[m] = r.at
        BY <2>5, <2>10, Zenon DEF Propagated
      <4>2. m \in Mutex
        BY CoreMutexAssumption
      <4> QED BY <2>2, <3>2, <4>1, <4>2, Zenon DEF SamePlaces, On
    <3>7. Waits(s, t)
      BY <3>6, Zenon DEF Waits
    <3>8. OnPath(s, q)
      BY <2>8, <3>2, <3>3, <3>4, <3>5, <3>7, Zenon DEF OnPath
    <3> QED BY <1>3, <3>1, <3>2, <3>6, <3>8, Zenon DEF t
  <2> QED BY <2>9, <2>10
<1> QED BY <1>2, <1>3

\* A finite set X has fewer elements than there are numbers up to its
\* cardinality.  Like LeastNat, this fact of the library is a hypothesis.
Counting(X) ==
  /\ Cardinality(X) \in Nat
  /\ \A f \in [0 .. Cardinality(X) -> X] :
       \E i, j \in 0 .. Cardinality(X) : i < j /\ f[i] = f[j]

\* The threads on the path from thread t.
LEMMA PathWalkIs ==
  ASSUME LeastNat, Cardinality(Thread) \in Nat,
         NEW s \in State, NEW t \in Thread \cup {None},
         OneQueue(s), NoCircle(s),
         \A m \in Mutex : LineFits(s, m),
         \A u \in Thread : u # t => Fits(s, u)
  PROVE  /\ PathWalk(s, t)[0] = [s |-> s, at |-> t]
         /\ \A n \in 1 .. Cardinality(Thread) :
              PathWalk(s, t)[n] = PathStep(PathWalk(s, t)[n - 1])
         /\ \A n \in 0 .. Cardinality(Thread) :
              PathWalk(s, t)[n] \in OnTheWay /\ OnPath(s, PathWalk(s, t)[n])
<1> DEFINE N == Cardinality(Thread)
           X == {p \in OnTheWay : OnPath(s, p)}
           x0 == [s |-> s, at |-> t]
           G == [k \in (1 .. N) \X X |-> PathStep(k[2])]
<1>1. x0 \in X
  <2>1. x0 \in OnTheWay /\ x0.s = s /\ x0.at = t
    BY DEF OnTheWay
  <2>2. SamePlaces(s, s)
    BY DEF SamePlaces
  <2>3. OnPath(s, x0)
    <3> HIDE DEF x0
    <3> QED BY <2>1, <2>2, Zenon DEF OnPath
  <2> QED BY <2>1, <2>3, Zenon
<1>2. \A p \in X : PathStep(p) \in X
  <2> SUFFICES ASSUME NEW p \in X PROVE PathStep(p) \in X
    OBVIOUS
  <2>1. PathStep(p) \in OnTheWay /\ OnPath(s, PathStep(p))
    BY PathStepIs
  <2> QED BY <2>1, Zenon
<1> HIDE DEF X, x0
<1>3. G \in [(1 .. N) \X X -> X]
  <2>1. \A k \in (1 .. N) \X X : k[2] \in X
    OBVIOUS
  <2> QED BY <1>2, <2>1, Zenon
<1>4. PICK f \in [0 .. N -> X] :
        f[0] = x0 /\ \A n \in 1 .. N : f[n] = G[<<n, f[n - 1]>>]
  <2>1. N \in Nat
    OBVIOUS
  <2> HIDE DEF N, G
  <2>2. \E f \in [0 .. N -> X] : IsIteration(N, x0, G, f)
    BY <1>1, <1>3, <2>1, RecursionExists, Zenon
  <2> QED BY <2>2, Zenon DEF IsIteration
<1>5. \A n \in 1 .. N : n - 1 \in 0 .. N /\ n # 0
  BY DEF N
<1>6. \A n \in 1 .. N : f[n] = PathStep(f[n - 1])
  <2> SUFFICES ASSUME NEW n \in 1 .. N PROVE f[n] = PathStep(f[n - 1])
    OBVIOUS
  <2>1. f[n - 1] \in X
    BY <1>4, <1>5
  <2>2. G[<<n, f[n - 1]>>] = PathStep(f[n - 1])
    BY <2>1
  <2> QED BY <1>4, <2>2, Zenon
<1> HIDE DEF G
<1>7. f = [n \in 0 .. N |-> IF n = 0 THEN x0 ELSE PathStep(f[n - 1])]
  <2>1. \A n \in 0 .. N : n = 0 \/ n \in 1 .. N
    BY DEF N
  <2>2. \A n \in 0 .. N : f[n] = IF n = 0 THEN x0 ELSE PathStep(f[n - 1])
    BY <1>4, <1>5, <1>6, <2>1, Zenon
  <2> QED BY <1>4, <2>2, Zenon
<1> DEFINE w == PathWalk(s, t)
<1>8. w = CHOOSE g : g = [n \in 0 .. N |-> IF n = 0 THEN x0 ELSE PathStep(g[n - 1])]
  BY Zenon DEF PathWalk, x0, N
<1> HIDE DEF w
<1>9. w = [n \in 0 .. N |-> IF n = 0 THEN x0 ELSE PathStep(w[n - 1])]
  BY <1>7, <1>8, Zenon
<1>10. 0 \in 0 .. N /\ \A n \in 1 .. N : n \in 0 .. N
  BY DEF N
<1>11. w[0] = x0 /\ \A n \in 1 .. N : w[n] = PathStep(w[n - 1])
  <2>1. \A n \in 0 .. N : w[n] = IF n = 0 THEN x0 ELSE PathStep(w[n - 1])
    BY <1>9, Zenon
  <2> QED BY <1>5, <1>10, <2>1, Zenon
<1> DEFINE T == {n \in 0 .. N : w[n] \in X}
<1>12. 0 \in T
  BY <1>1, <1>10, <1>11
<1>13. \A n \in 1 .. N : n - 1 \in T => n \in T
  BY <1>2, <1>10, <1>11
<1>14. 0 .. N \subseteq T
  <2> HIDE DEF T
  <2> QED BY <1>12, <1>13, Induction, Zenon DEF N
<1>15. \A n \in 0 .. N : w[n] \in OnTheWay /\ OnPath(s, w[n])
  BY <1>14, Zenon DEF X
<1> QED BY <1>11, <1>15, Zenon DEF w, x0, N

\* At most n threads more are registered for an update, among them every thread
\* that has a new priority, unless it waits.
Told(s, r, n) ==
  /\ Len(r.update) <= Len(s.update) + n
  /\ Range(s.update) \subseteq Range(r.update)
  /\ \A u \in Thread : \/ r.prio[u] = s.prio[u]
                       \/ Waits(s, u)
                       \/ Update(u) \in Range(r.update)

LEMMA AppendIs ==
  ASSUME NEW q \in Seq(Updates), NEW x \in Updates
  PROVE  /\ Append(q, x) \in Seq(Updates)
         /\ Len(Append(q, x)) = Len(q) + 1
         /\ Range(q) \subseteq Range(Append(q, x))
         /\ x \in Range(Append(q, x))
<1> DEFINE r == Append(q, x)
<1>1. /\ r \in Seq(Updates) /\ Len(r) = Len(q) + 1 /\ Len(q) \in Nat
      /\ DOMAIN r = 1 .. Len(q) + 1 /\ DOMAIN q = 1 .. Len(q)
      /\ r[Len(q) + 1] = x /\ \A i \in 1 .. Len(q) : r[i] = q[i]
  OBVIOUS
<1> HIDE DEF r
<1>2. Len(q) + 1 \in DOMAIN r /\ \A i \in DOMAIN q : i \in DOMAIN r /\ r[i] = q[i]
  BY <1>1
<1>3. Range(q) \subseteq Range(r) /\ x \in Range(r)
  BY <1>1, <1>2 DEF Range
<1> QED BY <1>1, <1>3 DEF r

LEMMA ToldTwice ==
  ASSUME NEW s \in State, NEW r \in State, NEW q \in State,
         NEW k \in Nat, NEW l \in Nat,
         \A u \in Thread : Waits(r, u) => Waits(s, u),
         Told(s, r, k), Told(r, q, l)
  PROVE  Told(s, q, k + l)
<1>1. Len(q.update) <= Len(s.update) + (k + l)
  <2> DEFINE a == Len(s.update)
             b == Len(r.update)
             c == Len(q.update)
  <2>1. a \in Nat /\ b \in Nat /\ c \in Nat
    BY DEF State
  <2>2. c <= b + l /\ b <= a + k
    BY Zenon DEF Told
  <2> HIDE DEF a, b, c
  <2>3. c <= a + (k + l)
    BY <2>1, <2>2
  <2> QED BY <2>3, Zenon DEF a, c
<1>2. Range(s.update) \subseteq Range(q.update)
  BY Zenon DEF Told
<1>3. \A u \in Thread : \/ q.prio[u] = s.prio[u]
                       \/ Waits(s, u)
                       \/ Update(u) \in Range(q.update)
  BY Zenon DEF Told
<1> QED BY <1>1, <1>2, <1>3, Zenon DEF Told

LEMMA OnPathTold ==
  ASSUME NEW s \in State, NEW p, OnPath(s, p)
  PROVE  Told(s, p.s, 1)
<1>1. s.update \in Seq(Updates) /\ Len(s.update) \in Nat
      /\ \A u \in Thread : Update(u) \in Updates
  BY DEF State, Updates
<1>2. CASE p.s.update = s.update
  <2>1. Len(p.s.update) <= Len(s.update) + 1
    BY <1>1, <1>2
  <2>2. \A u \in Thread : p.s.update # Append(s.update, Update(u))
    BY <1>1, <1>2, AppendGrows
  <2> QED BY <1>2, <2>1, <2>2, Zenon DEF OnPath, Told
<1>3. ASSUME NEW v \in Thread, p.s.update = Append(s.update, Update(v))
      PROVE  Told(s, p.s, 1)
  <2>1. /\ Len(p.s.update) = Len(s.update) + 1
        /\ Range(s.update) \subseteq Range(p.s.update)
        /\ \A u \in Thread : p.s.update = Append(s.update, Update(u))
                              => Update(u) \in Range(p.s.update)
    BY <1>1, <1>3, AppendIs
  <2>2. Len(p.s.update) <= Len(s.update) + 1
    BY <1>1, <2>1
  <2> QED BY <2>1, <2>2, Zenon DEF OnPath, Told
<1> QED BY <1>2, <1>3, Zenon DEF OnPath

\* A walk from waiting thread to owner never comes back to a thread.
IsWalk(s, N, a) ==
  /\ \A k \in 0 .. N : a[k] \in Thread
  /\ \A k \in 1 .. N : \E m \in Mutex : On(s, a[k - 1], m) /\ s.owner[m] = a[k]

LEMMA WalkOpen ==
  ASSUME NEW s \in State, OneQueue(s), NoCircle(s), NEW N \in Nat, NEW a,
         NEW i \in 0 .. N, NEW j \in 0 .. N, i < j, IsWalk(s, N, a)
  PROVE  a[i] # a[j]
<1> SUFFICES ASSUME a[i] = a[j] PROVE FALSE
  OBVIOUS
<1> USE DEF IsWalk
<1> DEFINE S == {a[k] : k \in i .. j - 1}
<1>1. i \in i .. j - 1 /\ i .. j - 1 \subseteq 0 .. N
  OBVIOUS
<1>2. S \in SUBSET Thread /\ S # {}
  BY <1>1, Zenon
<1>3. PICK t \in S : \A m \in Mutex : On(s, t, m) => s.owner[m] \notin S
  BY <1>2, Zenon DEF NoCircle
<1>4. PICK k \in i .. j - 1 : t = a[k]
  BY <1>3
<1>5. k + 1 \in 1 .. N /\ (k + 1) - 1 = k /\ (k + 1 = j \/ k + 1 \in i .. j - 1)
  OBVIOUS
<1>6. PICK m \in Mutex : On(s, a[k], m) /\ s.owner[m] = a[k + 1]
  <2>1. \E m \in Mutex : On(s, a[(k + 1) - 1], m) /\ s.owner[m] = a[k + 1]
    BY <1>5, Zenon
  <2> QED BY <1>5, <2>1
<1>7. a[k + 1] \in S
  BY <1>1, <1>5, Zenon
<1> QED BY <1>3, <1>4, <1>6, <1>7, Zenon

\* The walk ends: _Thread_Priority_perform_actions() leaves every priority as it
\* has to be.
Settled(s, r, n) ==
  /\ SamePlaces(s, r)
  /\ \A m \in Mutex : LineFits(r, m)
  /\ \A u \in Thread : Fits(r, u)
  /\ Told(s, r, n)

LEMMA PerformActionsIs ==
  ASSUME LeastNat, Counting(Thread),
         NEW s \in State, NEW t \in Thread \cup {None},
         OneQueue(s), NoCircle(s),
         \A m \in Mutex : LineFits(s, m),
         \A u \in Thread : u # t => Fits(s, u)
  PROVE  Settled(s, PerformActions(s, t), 1)
<1> DEFINE N == Cardinality(Thread)
           w == PathWalk(s, t)
<1>1. N \in Nat
  BY Zenon DEF Counting
<1>2. /\ \A n \in 1 .. N : w[n] = PathStep(w[n - 1])
      /\ \A n \in 0 .. N : w[n] \in OnTheWay /\ OnPath(s, w[n])
  BY <1>1, PathWalkIs, Zenon
<1> HIDE DEF w
<1>3. ASSUME NEW n \in 1 .. N, w[n].at # None
      PROVE  /\ w[n - 1].at # None
             /\ \E m \in Mutex : On(s, w[n - 1].at, m) /\ s.owner[m] = w[n].at
  <2>1. n - 1 \in 0 .. N
    BY <1>1
  <2>2. w[n - 1] \in OnTheWay /\ OnPath(s, w[n - 1]) /\ w[n] = PathStep(w[n - 1])
    BY <1>2, <2>1, Zenon
  <2> QED BY <1>3, <2>2, PathStepIs
<1>4. w[N].at = None
  <2> SUFFICES ASSUME w[N].at # None PROVE FALSE
    OBVIOUS
  <2> DEFINE T == {k \in 0 .. N : w[N - k].at # None}
  <2>1. 0 \in T /\ N - 0 = N
    BY <1>1
  <2>2. \A k \in 1 .. N : k - 1 \in T => k \in T
    <3> SUFFICES ASSUME NEW k \in 1 .. N, k - 1 \in T PROVE k \in T
      OBVIOUS
    <3>1. N - (k - 1) \in 1 .. N /\ (N - (k - 1)) - 1 = N - k /\ k \in 0 .. N
      BY <1>1
    <3>2. w[N - (k - 1)].at # None
      OBVIOUS
    <3>3. w[(N - (k - 1)) - 1].at # None
      BY <1>3, <3>1, <3>2, Zenon
    <3> QED BY <3>1, <3>3
  <2>3. 0 .. N \subseteq T
    <3> HIDE DEF T
    <3> QED BY <1>1, <2>1, <2>2, Induction
  <2>4. ASSUME NEW k \in 0 .. N PROVE w[k].at \in Thread
    <3>1. N - k \in 0 .. N /\ N - (N - k) = k
      BY <1>1
    <3>2. w[k].at # None
      BY <2>3, <3>1
    <3>3. w[k].at \in Thread \cup {None}
      BY <1>2, Zenon DEF OnTheWay
    <3> QED BY <3>2, <3>3
  <2> DEFINE a == [k \in 0 .. N |-> w[k].at]
  <2>5. a \in [0 .. N -> Thread]
    BY <2>4
  <2>6. \A k \in 1 .. N : \E m \in Mutex : On(s, a[k - 1], m) /\ s.owner[m] = a[k]
    <3> SUFFICES ASSUME NEW k \in 1 .. N
                 PROVE  \E m \in Mutex : On(s, a[k - 1], m) /\ s.owner[m] = a[k]
      OBVIOUS
    <3>1. k - 1 \in 0 .. N /\ k \in 0 .. N
      BY <1>1
    <3>2. w[k].at # None
      BY <2>4, <3>1, CoreMutexAssumption
    <3> QED BY <1>3, <3>1, <3>2
  <2> HIDE DEF a
  <2>7. PICK i, j \in 0 .. N : i < j /\ a[i] = a[j]
    BY <2>5, Zenon DEF Counting
  <2>8. \A k \in 0 .. N : a[k] \in Thread
    BY <2>5
  <2>9. IsWalk(s, N, a)
    BY <2>6, <2>8, Zenon DEF IsWalk
  <2> QED BY <1>1, <2>7, <2>9, WalkOpen
<1>5. N \in 0 .. N
  BY <1>1
<1>6. OnPath(s, w[N])
  BY <1>2, <1>5, Zenon
<1>7. \A u \in Thread : u # None
  BY CoreMutexAssumption
<1>8. PerformActions(s, t) = w[N].s
  BY Zenon DEF PerformActions, w, N
<1>9. Told(s, w[N].s, 1)
  BY <1>6, OnPathTold, Zenon
<1>10. Settled(s, w[N].s, 1)
  BY <1>4, <1>6, <1>7, <1>9, Zenon DEF OnPath, Settled
<1> QED BY <1>8, <1>10, Zenon

LEMMA PerformActionsNone ==
  ASSUME LeastNat, Cardinality(Thread) \in Nat, NEW s \in State
  PROVE  PerformActions(s, None) = s
<1> DEFINE N == Cardinality(Thread)
           x0 == [s |-> s, at |-> None]
           f == [n \in 0 .. N |-> x0]
           w == PathWalk(s, None)
<1>1. x0.s = s /\ x0.at = None
  OBVIOUS
<1>2. PathStep(x0) = x0
  <2>1. DoPerformActions(x0.s, x0.at) = x0
    BY <1>1, Zenon DEF DoPerformActions
  <2> HIDE DEF x0
  <2> QED BY <1>1, <2>1, Zenon DEF PathStep
<1>3. w = CHOOSE g : g = [n \in 0 .. N |-> IF n = 0 THEN x0 ELSE PathStep(g[n - 1])]
  BY Zenon DEF PathWalk
<1>4. PerformActions(s, None) = w[N].s
  BY Zenon DEF PerformActions
<1>5. N \in Nat
  OBVIOUS
<1> HIDE DEF N, x0, w
<1>6. \A n \in 0 .. N : n = 0 \/ n - 1 \in 0 .. N
  BY <1>5
<1>7. f = [n \in 0 .. N |-> IF n = 0 THEN x0 ELSE PathStep(f[n - 1])]
  <2>1. \A n \in 0 .. N : f[n] = x0
    BY Zenon
  <2> HIDE DEF f
  <2>2. \A n \in 0 .. N : (IF n = 0 THEN x0 ELSE PathStep(f[n - 1])) = x0
    BY <1>2, <1>6, <2>1, Zenon
  <2> QED BY <2>2, Zenon DEF f
<1> HIDE DEF f
<1>8. w = [n \in 0 .. N |-> IF n = 0 THEN x0 ELSE PathStep(w[n - 1])]
  BY <1>3, <1>7, Zenon
<1>9. \A n \in 0 .. N : w[n] = IF n = 0 THEN x0 ELSE PathStep(w[n - 1])
  BY <1>8, Zenon
<1> DEFINE T == {n \in 0 .. N : w[n] = x0}
<1>10. 0 \in T
  BY <1>5, <1>9
<1>11. \A n \in 1 .. N : n - 1 \in T => n \in T
  <2>1. \A n \in 1 .. N : n \in 0 .. N /\ n # 0
    BY <1>5
  <2> QED BY <1>2, <1>9, <2>1, Zenon
<1>12. 0 .. N \subseteq T
  <2> HIDE DEF T
  <2> QED BY <1>5, <1>10, <1>11, Induction
<1>13. w[N] = x0
  BY <1>5, <1>12
<1> QED BY <1>1, <1>4, <1>13, Zenon

LEMMA ToldSame ==
  ASSUME NEW s \in State, NEW r, NEW n \in Nat, r.update = s.update,
         \A u \in Thread : r.prio[u] = s.prio[u] \/ Waits(s, u)
  PROVE  Told(s, r, n)
<1>1. Len(s.update) \in Nat
  BY DEF State
<1>2. Len(r.update) <= Len(s.update) + n
  BY <1>1
<1> QED BY <1>2, Zenon DEF Told

LEMMA ToldOne ==
  ASSUME NEW s \in State, NEW r, NEW t \in Thread,
         r.update = Append(s.update, Update(t)),
         \A u \in Thread : u # t => r.prio[u] = s.prio[u] \/ Waits(s, u)
  PROVE  Told(s, r, 1)
<1>1. s.update \in Seq(Updates) /\ Len(s.update) \in Nat /\ Update(t) \in Updates
  BY DEF State, Updates
<1>2. /\ Len(r.update) = Len(s.update) + 1
      /\ Range(s.update) \subseteq Range(r.update)
      /\ Update(t) \in Range(r.update)
  BY <1>1, AppendIs
<1>3. Len(r.update) <= Len(s.update) + 1
  BY <1>1, <1>2
<1> QED BY <1>2, <1>3, Zenon DEF Told

\* _Thread_Priority_apply(), the thread waits for no inheritance mutex.
LEMMA ApplyAloneIs ==
  ASSUME LeastNat, Cardinality(Thread) \in Nat, NEW s \in State, NEW t \in Thread,
         OneQueue(s),
         \A m \in Mutex : LineFits(s, m),
         \A u \in Thread : u # t => Fits(s, u),
         \A m \in Inherit : ~On(s, t, m)
  PROVE  Settled(s, ApplyPriority(s, t), 1)
<1> DEFINE r == DoPerformActions(s, t)
<1>1. Propagated(s, t, r)
  BY DoPerformActionsIs, Zenon
<1>2. ApplyPriority(s, t) = PerformActions(r.s, r.at)
  BY Zenon DEF ApplyPriority
<1> HIDE DEF r
<1>3. r.at = None /\ r.s \in State
  BY <1>1, Zenon DEF Propagated, SamePlaces
<1>4. ApplyPriority(s, t) = r.s
  BY <1>2, <1>3, PerformActionsNone, Zenon
<1>5. CASE r.s.prio[t] = s.prio[t] /\ r.s.update = s.update
  <2>1. Told(s, r.s, 1)
    BY <1>1, <1>5, ToldSame DEF Propagated
  <2> QED BY <1>1, <1>3, <1>4, <2>1, CoreMutexAssumption, Zenon DEF Propagated, Settled
<1>6. CASE r.s.update = Append(s.update, Update(t))
  <2>1. Told(s, r.s, 1)
    BY <1>1, <1>6, ToldOne, Zenon DEF Propagated
  <2> QED BY <1>1, <1>3, <1>4, <2>1, CoreMutexAssumption, Zenon DEF Propagated, Settled
<1> QED BY <1>1, <1>5, <1>6, Zenon DEF Propagated

\* _Thread_Priority_apply()
LEMMA ApplyPriorityIs ==
  ASSUME LeastNat, Counting(Thread),
         NEW s \in State, NEW t \in Thread \cup {None},
         OneQueue(s), NoCircle(s),
         \A m \in Mutex : LineFits(s, m),
         \A u \in Thread : u # t => Fits(s, u)
  PROVE  Settled(s, ApplyPriority(s, t), 2)
<1> DEFINE r == DoPerformActions(s, t)
           q == PerformActions(r.s, r.at)
<1>1. ApplyPriority(s, t) = q
  BY Zenon DEF ApplyPriority
<1>2. Cardinality(Thread) \in Nat
  BY Zenon DEF Counting
<1>3. CASE t = None
  <2>1. r = [s |-> s, at |-> None]
    BY <1>3, Zenon DEF DoPerformActions
  <2>2. r.s = s /\ r.at = None
    BY <2>1
  <2>3. q = s
    BY <1>2, <2>2, PerformActionsNone, Zenon
  <2>4. Told(s, s, 2) /\ SamePlaces(s, s)
    BY ToldSame DEF SamePlaces
  <2> QED BY <1>1, <1>3, <2>3, <2>4, CoreMutexAssumption, Zenon DEF Settled
<1>4. CASE t \in Thread
  <2>1. \A m \in Inherit : On(s, t, m) => s.owner[m] # t
    <3>1. {t} \in SUBSET Thread /\ {t} # {} /\ Inherit \subseteq Mutex
      BY <1>4, CoreMutexAssumption
    <3>2. \A m \in Mutex : On(s, t, m) => s.owner[m] \notin {t}
      BY <3>1, Zenon DEF NoCircle
    <3> QED BY <3>1, <3>2
  <2>2. Propagated(s, t, r)
    BY <1>4, <2>1, DoPerformActionsIs, Zenon
  <2> HIDE DEF r
  <2>3. SamePlaces(s, r.s) /\ r.s \in State /\ r.at \in Thread \cup {None}
        /\ (\A m \in Mutex : LineFits(r.s, m))
        /\ (\A u \in Thread : u # r.at => Fits(r.s, u))
    BY <2>2, Zenon DEF Propagated, SamePlaces
  <2>4. OneQueue(r.s) /\ NoCircle(r.s) /\ \A u \in Thread : Waits(r.s, u) => Waits(s, u)
    BY <2>3, PlacesKept, Zenon
  <2>5. Settled(r.s, q, 1)
    BY <2>3, <2>4, PerformActionsIs, Zenon
  <2> HIDE DEF q
  <2>6. Told(s, r.s, 1)
    <3>1. CASE r.s.prio[t] = s.prio[t] /\ r.s.update = s.update
      BY <2>2, <3>1, ToldSame, SMTT(30) DEF Propagated
    <3>2. CASE r.s.update = Append(s.update, Update(t))
      BY <1>4, <2>2, <3>2, ToldOne DEF Propagated
    <3> QED BY <2>2, <3>1, <3>2, Zenon DEF Propagated
  <2>7. SamePlaces(s, q) /\ q \in State
    BY <2>3, <2>5, Zenon DEF Settled, SamePlaces
  <2>8. Told(s, q, 1 + 1)
    BY <2>3, <2>4, <2>5, <2>6, <2>7, ToldTwice DEF Settled
  <2> QED BY <1>1, <2>5, <2>7, <2>8 DEF Settled
<1> QED BY <1>3, <1>4

\* The enqueue, extract and flush operations of a thread queue: the queue of m
\* becomes the line.
Requeue(s, m, line) ==
  LET e == WithLine(s, m, line)
  IN IF m \in Inherit THEN PerformActions(e, s.owner[m]) ELSE e

Relined(s, m, line, r) ==
  /\ SameButQueues(s, r)
  /\ r.queue[m] = line
  /\ \A n \in Mutex : n # m => r.queue[n] = s.queue[n]

LEMMA WithLineQueue ==
  ASSUME NEW s \in State, NEW m \in Mutex, NEW line \in Seq(Thread)
  PROVE  Relined(s, m, line, WithLine(s, m, line))
<1> DEFINE r == WithLine(s, m, line)
<1>1. /\ SameButQueues(s, r)
      /\ r.queue = [s.queue EXCEPT ![m] = line]
      /\ r.qprio = [s.qprio EXCEPT ![m] = LineMinimum(s, m, line)]
  BY WithLineIs
<1> HIDE DEF r
<1>2. r.queue[m] = line /\ \A n \in Mutex : n # m => r.queue[n] = s.queue[n]
  BY <1>1 DEF State
<1> QED BY <1>1, <1>2, Zenon DEF Relined, r

LEMMA RequeueIs ==
  ASSUME LeastNat, Counting(Thread), NEW s \in State, NEW m \in Mutex,
         NEW line \in Seq(Thread), IsInjective(line), Sorted(s.prio, line),
         \A n \in Mutex : LineFits(s, n),
         \A u \in Thread : Fits(s, u),
         OneQueue(WithLine(s, m, line)), NoCircle(WithLine(s, m, line))
  PROVE  Settled(WithLine(s, m, line), Requeue(s, m, line), 1)
<1> DEFINE e == WithLine(s, m, line)
<1>1. Requeue(s, m, line) = IF m \in Inherit THEN PerformActions(e, s.owner[m]) ELSE e
  BY Zenon DEF Requeue
<1>2. SameButQueues(s, e)
  BY WithLineIs, Zenon
<1>3. /\ LineFits(e, m)
      /\ \A n \in Mutex : n # m => /\ e.queue[n] = s.queue[n]
                                   /\ e.qprio[n] = s.qprio[n]
                                   /\ LineFits(s, n) => LineFits(e, n)
  BY LineSet
<1> HIDE DEF e
<1>4. \A n \in Mutex : LineFits(e, n)
  BY <1>3, Zenon
<1>5. e \in State /\ e.owner = s.owner /\ e.ceiling = s.ceiling /\ e.real = s.real
      /\ e.prio = s.prio
  BY <1>2, Zenon DEF SameButQueues
<1>6. ASSUME NEW u \in Thread, m \notin Inherit \/ u # s.owner[m]
      PROVE  Fits(e, u)
  <2>1. Inherit \subseteq Mutex
    BY CoreMutexAssumption
  <2>2. \A n \in Inherit : s.owner[n] = u =>
          e.queue[n] = s.queue[n] /\ e.qprio[n] = s.qprio[n]
    BY <1>3, <1>6, <2>1, Zenon
  <2>3. Contributions(e, u) = Contributions(s, u)
    BY <1>5, <2>2, ContributionsSame
  <2> QED BY <1>5, <2>3, Zenon DEF Fits
<1>7. OneQueue(e) /\ NoCircle(e)
  BY Zenon DEF e
<1>8. CASE m \in Inherit
  <2>1. s.owner[m] \in Thread \cup {None}
    BY DEF State
  <2>2. Settled(e, PerformActions(e, s.owner[m]), 1)
    BY <1>4, <1>5, <1>6, <1>7, <2>1, PerformActionsIs, Zenon
  <2> QED BY <1>1, <1>8, <2>2, Zenon DEF e
<1>9. CASE m \notin Inherit
  <2>1. Told(e, e, 1) /\ SamePlaces(e, e)
    BY <1>5, ToldSame DEF SamePlaces
  <2>2. Settled(e, e, 1)
    BY <1>4, <1>6, <1>9, <2>1, Zenon DEF Settled
  <2> QED BY <1>1, <1>9, <2>2, Zenon DEF e
<1> QED BY <1>8, <1>9

\* The threads L wait on the queue of m, the other queues hold the same threads
\* as before.
InLine(s, m, L, r) ==
  /\ Range(r.queue[m]) = L
  /\ \A n \in Mutex : n # m => Range(r.queue[n]) = Range(s.queue[n])

Moved(s, m, L, r) ==
  /\ Good(r)
  /\ r.owner = s.owner
  /\ InLine(s, m, L, r)
  /\ Len(r.update) <= Len(s.update) + 1
  /\ \A u \in Thread : \/ r.prio[u] = s.prio[u]
                       \/ Waits(s, u) \/ u \in L
                       \/ Update(u) \in Range(r.update)

LEMMA MovedIs ==
  ASSUME LeastNat, Counting(Thread), NEW s, Good(s), NEW m \in Mutex,
         NEW line \in Seq(Thread), IsInjective(line), Sorted(s.prio, line),
         OneQueue(WithLine(s, m, line)), NoCircle(WithLine(s, m, line))
  PROVE  Moved(s, m, Range(line), Requeue(s, m, line))
<1> DEFINE e == WithLine(s, m, line)
           r == Requeue(s, m, line)
<1>1. s \in State /\ (\A n \in Mutex : LineFits(s, n)) /\ (\A u \in Thread : Fits(s, u))
  BY Zenon DEF Good
<1>2. Settled(e, r, 1)
  BY <1>1, RequeueIs, Zenon
<1>3. Relined(s, m, line, e)
  BY <1>1, WithLineQueue, Zenon
<1>4. OneQueue(e) /\ NoCircle(e)
  BY Zenon
<1> HIDE DEF e, r
<1>5. e \in State /\ e.owner = s.owner /\ e.prio = s.prio /\ e.update = s.update
  BY <1>3, Zenon DEF Relined, SameButQueues
<1>6. SamePlaces(e, r)
  BY <1>2, Zenon DEF Settled
<1>7. OneQueue(r) /\ NoCircle(r)
  BY <1>4, <1>5, <1>6, PlacesKept, Zenon
<1>8. Good(r)
  BY <1>2, <1>6, <1>7, Zenon DEF Good, Settled, SamePlaces
<1>9. e.queue[m] = line /\ \A n \in Mutex : n # m => e.queue[n] = s.queue[n]
  BY <1>3, Zenon DEF Relined
<1>10. InLine(s, m, Range(line), r) /\ InLine(s, m, Range(line), e)
  BY <1>6, <1>9, Zenon DEF InLine, SamePlaces
<1>11. \A u \in Thread : Waits(e, u) => Waits(s, u) \/ u \in Range(line)
  BY <1>10, Zenon DEF Waits, On, InLine
<1>12. Told(e, r, 1)
  BY <1>2, Zenon DEF Settled
<1>13. r.owner = s.owner
  BY <1>5, <1>6, Zenon DEF SamePlaces
<1>14. Moved(s, m, Range(line), r)
  BY <1>5, <1>8, <1>10, <1>11, <1>12, <1>13, Zenon DEF Told, Moved
<1> QED BY <1>14 DEF r

\* With fewer waiting threads there is still no circle.
LEMMA FewerWait ==
  ASSUME NEW s, OneQueue(s), NoCircle(s), NEW r,
         \A t \in Thread : \A m \in Mutex : On(r, t, m) => On(s, t, m),
         \A t \in Thread : \A m \in Mutex : On(r, t, m) => r.owner[m] = s.owner[m]
  PROVE  OneQueue(r) /\ NoCircle(r)
<1>1. OneQueue(r)
  BY Zenon DEF OneQueue
<1>2. NoCircle(r)
  <2> SUFFICES ASSUME NEW S \in SUBSET Thread, S # {}
               PROVE  \E t \in S : \A m \in Mutex : On(r, t, m) => r.owner[m] \notin S
    BY Zenon DEF NoCircle
  <2>1. PICK t \in S : \A m \in Mutex : On(s, t, m) => s.owner[m] \notin S
    BY Zenon DEF NoCircle
  <2> QED BY <2>1, t \in Thread, Zenon
<1> QED BY <1>1, <1>2

LEMMA ShorterLine ==
  ASSUME LeastNat, Counting(Thread), NEW s, Good(s), NEW m \in Mutex,
         NEW line \in Seq(Thread), IsInjective(line), Sorted(s.prio, line),
         Range(line) \subseteq Range(s.queue[m])
  PROVE  Moved(s, m, Range(line), Requeue(s, m, line))
<1> DEFINE e == WithLine(s, m, line)
<1>1. s \in State /\ OneQueue(s) /\ NoCircle(s)
  BY Zenon DEF Good
<1>2. Relined(s, m, line, e)
  BY <1>1, WithLineQueue, Zenon
<1> HIDE DEF e
<1>3. e.queue[m] = line /\ \A n \in Mutex : n # m => e.queue[n] = s.queue[n]
  BY <1>2, Zenon DEF Relined
<1>4. \A t \in Thread : \A n \in Mutex : On(e, t, n) => On(s, t, n)
  BY <1>3, Zenon DEF On
<1>5. e.owner = s.owner
  BY <1>2, Zenon DEF Relined, SameButQueues
<1>6. OneQueue(e) /\ NoCircle(e)
  BY <1>1, <1>4, <1>5, FewerWait, Zenon
<1> QED BY <1>6, MovedIs, Zenon DEF e

LEMMA QueueExtractIs ==
  ASSUME LeastNat, Counting(Thread), NEW s, Good(s), NEW m \in Mutex, NEW t
  PROVE  Moved(s, m, Range(s.queue[m]) \ {t}, QueueExtract(s, m, t))
<1> DEFINE line == Without(s.queue[m], t)
<1>1. s.queue[m] \in Seq(Thread) /\ s.prio \in [Thread -> Nat]
  BY DEF Good, State
<1>2. IsInjective(s.queue[m]) /\ Sorted(s.prio, s.queue[m])
  BY Zenon DEF Good, LineFits
<1>3. /\ line \in Seq(Thread) /\ IsInjective(line) /\ Range(line) = Range(s.queue[m]) \ {t}
      /\ Sorted(s.prio, line)
  BY <1>1, <1>2, Removed, Zenon
<1>4. QueueExtract(s, m, t) = Requeue(s, m, line)
  BY Zenon DEF QueueExtract, Requeue
<1> HIDE DEF line
<1>5. Range(line) \subseteq Range(s.queue[m])
  BY <1>3
<1> QED BY <1>3, <1>4, <1>5, ShorterLine, Zenon

\* T contains the owner of m and with a thread that waits the one it waits for.
ClosedAbove(s, m, T) ==
  /\ T \in SUBSET Thread
  /\ s.owner[m] \in T
  /\ \A u \in T : \A n \in Mutex : On(s, u, n) => s.owner[n] \in T

LEMMA OneMoreWaits ==
  ASSUME NEW s, NoCircle(s), NEW r, NEW m \in Mutex, NEW t \in Thread, ~Waits(s, t),
         NEW T, ClosedAbove(s, m, T), t \notin T,
         r.owner = s.owner,
         \A u \in Thread : \A n \in Mutex : On(r, u, n) => On(s, u, n) \/ (u = t /\ n = m)
  PROVE  NoCircle(r)
<1> SUFFICES ASSUME NEW S \in SUBSET Thread, S # {}
             PROVE  \E u \in S : \A n \in Mutex : On(r, u, n) => r.owner[n] \notin S
  BY Zenon DEF NoCircle
<1>1. CASE t \notin S
  <2>1. PICK u \in S : \A n \in Mutex : On(s, u, n) => s.owner[n] \notin S
    BY Zenon DEF NoCircle
  <2> QED BY <1>1, <2>1, u \in Thread, Zenon
<1>2. CASE t \in S /\ S \cap T = {}
  <2>1. \A n \in Mutex : On(r, t, n) => n = m
    BY Zenon DEF Waits
  <2>2. s.owner[m] \notin S
    BY <1>2, Zenon DEF ClosedAbove
  <2> QED BY <1>2, <2>1, <2>2, Zenon
<1>3. CASE S \cap T # {}
  <2>1. S \cap T \in SUBSET Thread
    OBVIOUS
  <2>2. PICK u \in S \cap T : \A n \in Mutex : On(s, u, n) => s.owner[n] \notin S \cap T
    BY <1>3, <2>1, Zenon DEF NoCircle
  <2>3. u \in S /\ u \in T /\ u \in Thread /\ u # t
    BY <2>1, <2>2
  <2>4. \A n \in Mutex : On(r, u, n) => r.owner[n] \notin S
    BY <2>2, <2>3, Zenon DEF ClosedAbove
  <2> QED BY <2>3, <2>4, Zenon
<1> QED BY <1>1, <1>2, <1>3

LEMMA QueueEnqueueIs ==
  ASSUME LeastNat, Counting(Thread), NEW s, Good(s), NEW m \in Mutex,
         NEW t \in Thread, ~Waits(s, t),
         NEW T, ClosedAbove(s, m, T), t \notin T
  PROVE  Moved(s, m, Range(s.queue[m]) \cup {t}, QueueEnqueue(s, m, t))
<1> DEFINE line == InsertByPriority(s, s.queue[m], t)
           e == WithLine(s, m, line)
<1>1. s \in State /\ s.queue[m] \in Seq(Thread) /\ s.prio \in [Thread -> Nat]
  BY SMTT(30) DEF Good, State
<1>2. IsInjective(s.queue[m]) /\ Sorted(s.prio, s.queue[m]) /\ t \notin Range(s.queue[m])
  BY Zenon DEF Good, LineFits, Waits, On
<1>3. /\ line \in Seq(Thread) /\ IsInjective(line) /\ Sorted(s.prio, line)
      /\ Range(line) = Range(s.queue[m]) \cup {t}
  BY <1>1, <1>2, Inserted
<1>4. QueueEnqueue(s, m, t) = Requeue(s, m, line)
  BY Zenon DEF QueueEnqueue, Requeue
<1> HIDE DEF line
<1>5. Relined(s, m, line, e)
  BY <1>1, <1>3, WithLineQueue, Zenon
<1> HIDE DEF e
<1>6. /\ e.queue[m] = line
      /\ \A n \in Mutex : n # m => e.queue[n] = s.queue[n]
      /\ e.owner = s.owner
  BY <1>5, Zenon DEF Relined, SameButQueues
<1>7. \A u \in Thread : \A n \in Mutex : On(e, u, n) => On(s, u, n) \/ (u = t /\ n = m)
  <2>1. \A u : u \in Range(line) => u \in Range(s.queue[m]) \/ u = t
    BY <1>3
  <2> QED BY <1>6, <2>1, Zenon DEF On
<1>8. NoCircle(e)
  BY <1>6, <1>7, OneMoreWaits, Zenon DEF Good
<1>9. OneQueue(e)
  <2>1. \A n \in Mutex : ~On(s, t, n)
    BY Zenon DEF Waits
  <2>2. ASSUME NEW u \in Thread, NEW n1 \in Mutex, NEW n2 \in Mutex,
               On(e, u, n1), On(e, u, n2)
        PROVE  n1 = n2
    <3>1. CASE u = t
      BY <1>7, <2>1, <2>2, <3>1, Zenon
    <3>2. CASE u # t
      <4>1. On(s, u, n1) /\ On(s, u, n2)
        BY <1>7, <2>2, <3>2, Zenon
      <4>2. OneQueue(s)
        BY Zenon DEF Good
      <4> QED BY <4>1, <4>2, Zenon DEF OneQueue
    <3> QED BY <3>1, <3>2
  <2> QED BY <2>2, Zenon DEF OneQueue
<1> QED BY <1>3, <1>4, <1>8, <1>9, MovedIs, Zenon DEF e

\* The path of _Thread_queue_Path_acquire_critical().
LEMMA NextOnPathIs ==
  ASSUME NEW n \in Mutex \cup {None}
  PROVE  /\ NextOnPath(n) \in Mutex \cup {None}
         /\ NextOnPath(None) = None
         /\ NextOnPath(n) # None =>
              n # None /\ owner[n] # None /\ On(Now, owner[n], NextOnPath(n))
         /\ n # None /\ owner[n] # None /\ Waits(Now, owner[n]) => NextOnPath(n) # None
<1>1. NextOnPath(None) = None
  BY Zenon DEF NextOnPath
<1>2. CASE n = None
  BY <1>1, <1>2, Zenon
<1>3. CASE n # None /\ owner[n] = None
  <2>1. NextOnPath(n) = None
    BY <1>3, Zenon DEF NextOnPath
  <2> QED BY <1>1, <1>3, <2>1, Zenon
<1>4. CASE n # None /\ owner[n] # None
  <2>1. NextOnPath(n) = WaitsFor(Now, owner[n])
    BY <1>4, Zenon DEF NextOnPath
  <2>2. /\ WaitsFor(Now, owner[n]) = None <=> ~Waits(Now, owner[n])
        /\ WaitsFor(Now, owner[n]) # None =>
             WaitsFor(Now, owner[n]) \in Mutex /\ On(Now, owner[n], WaitsFor(Now, owner[n]))
    BY WaitsForIs, Zenon
  <2> QED BY <1>1, <1>4, <2>1, <2>2, Zenon
<1> QED BY <1>2, <1>3, <1>4

LEMMA PathIs ==
  ASSUME LeastNat, Cardinality(Mutex) \in Nat, NEW m \in Mutex
  PROVE  /\ Path(m) \in [0 .. Cardinality(Mutex) -> Mutex \cup {None}]
         /\ Path(m)[0] = m
         /\ \A i \in 1 .. Cardinality(Mutex) : Path(m)[i] = NextOnPath(Path(m)[i - 1])
<1> DEFINE N == Cardinality(Mutex)
           X == Mutex \cup {None}
           G == [k \in (1 .. N) \X X |-> NextOnPath(k[2])]
           w == Path(m)
<1>1. m \in X /\ \A n \in X : NextOnPath(n) \in X
  BY NextOnPathIs
<1>2. N \in Nat
  OBVIOUS
<1>3. w = CHOOSE g : g = [i \in 0 .. N |-> IF i = 0 THEN m ELSE NextOnPath(g[i - 1])]
  BY Zenon DEF Path
<1> HIDE DEF w, X, N
<1>4. G \in [(1 .. N) \X X -> X]
  <2>1. \A k \in (1 .. N) \X X : k[2] \in X
    OBVIOUS
  <2> QED BY <1>1, <2>1, Zenon
<1>5. PICK f \in [0 .. N -> X] : IsIteration(N, m, G, f)
  <2> HIDE DEF G
  <2> QED BY <1>1, <1>2, <1>4, RecursionExists, Zenon
<1>6. f[0] = m /\ \A n \in 1 .. N : f[n] = G[<<n, f[n - 1]>>]
  BY <1>5, Zenon DEF IsIteration
<1>7. \A n \in 1 .. N : n - 1 \in 0 .. N /\ n # 0 /\ n \in 0 .. N
  BY <1>2
<1>8. \A n \in 0 .. N : n = 0 \/ n \in 1 .. N
  BY <1>2
<1>9. \A n \in 1 .. N : f[n] = NextOnPath(f[n - 1])
  <2> SUFFICES ASSUME NEW n \in 1 .. N PROVE f[n] = NextOnPath(f[n - 1])
    OBVIOUS
  <2>1. f[n - 1] \in X
    BY <1>5, <1>7
  <2>2. G[<<n, f[n - 1]>>] = NextOnPath(f[n - 1])
    BY <2>1
  <2> QED BY <1>6, <2>2, Zenon
<1> HIDE DEF G
<1>10. f = [i \in 0 .. N |-> IF i = 0 THEN m ELSE NextOnPath(f[i - 1])]
  <2>1. \A i \in 0 .. N : f[i] = IF i = 0 THEN m ELSE NextOnPath(f[i - 1])
    BY <1>6, <1>7, <1>8, <1>9, Zenon
  <2> QED BY <1>5, <2>1, Zenon
<1>11. w = [i \in 0 .. N |-> IF i = 0 THEN m ELSE NextOnPath(w[i - 1])]
  BY <1>3, <1>10, Zenon
<1>12. \A i \in 0 .. N : w[i] = IF i = 0 THEN m ELSE NextOnPath(w[i - 1])
  BY <1>11, Zenon
<1>13. 0 \in 0 .. N
  BY <1>2
<1>14. w[0] = m /\ \A i \in 1 .. N : w[i] = NextOnPath(w[i - 1])
  BY <1>7, <1>12, <1>13, Zenon
<1> DEFINE T == {i \in 0 .. N : w[i] \in X}
<1>15. 0 \in T /\ \A i \in 1 .. N : i - 1 \in T => i \in T
  BY <1>1, <1>7, <1>13, <1>14, Zenon
<1>16. 0 .. N \subseteq T
  <2> HIDE DEF T
  <2> QED BY <1>2, <1>15, Induction, Zenon
<1>17. w \in [0 .. N -> X]
  <2>1. \A i \in 0 .. N : w[i] \in X
    BY <1>16, Zenon
  <2>2. DOMAIN w = 0 .. N /\ w = [i \in 0 .. N |-> w[i]]
    BY <1>11, <1>12, Zenon
  <2> QED BY <2>1, <2>2, Zenon
<1> QED BY <1>14, <1>17, Zenon DEF w, X, N

\* The path ends, so that its owners are all the threads that a thread that
\* waits for m would wait for.
LEMMA PathCloses ==
  ASSUME LeastNat, Counting(Mutex), Good(Now), OwnerWhileWaiting,
         NEW m \in Mutex, owner[m] # None, NEW t, ~ClosesPath(t, m)
  PROVE  \E T : ClosedAbove(Now, m, T) /\ t \notin T
<1> DEFINE N == Cardinality(Mutex)
           P == Path(m)
<1>1. N \in Nat
  BY Zenon DEF Counting
<1>2. /\ P \in [0 .. N -> Mutex \cup {None}]
      /\ P[0] = m
      /\ \A i \in 1 .. N : P[i] = NextOnPath(P[i - 1])
  BY <1>1, PathIs
<1>3. \A i \in 0 .. N : P[i] # None => owner[P[i]] # t
  <2>1. DOMAIN P = 0 .. N
    BY <1>2
  <2> QED BY <2>1, Zenon DEF ClosesPath
<1>4. Now \in State /\ OneQueue(Now) /\ NoCircle(Now)
  BY Zenon DEF Good
<1>5. Now.owner = owner /\ Now.queue = queue
  BY DEF Now
<1>6. owner \in [Mutex -> Thread \cup {None}] /\ queue \in [Mutex -> Seq(Thread)]
  BY <1>4, <1>5 DEF State
<1>7. None \notin Mutex /\ None \notin Thread
  BY CoreMutexAssumption
<1> HIDE DEF P, N
<1>8. ASSUME NEW i \in 1 .. N, P[i] # None
      PROVE  /\ i - 1 \in 0 .. N /\ i \in 0 .. N
             /\ P[i - 1] \in Mutex /\ P[i] \in Mutex
             /\ owner[P[i - 1]] \in Thread /\ On(Now, owner[P[i - 1]], P[i])
  <2>1. i - 1 \in 0 .. N /\ i \in 0 .. N
    BY <1>1
  <2>2. P[i - 1] \in Mutex \cup {None} /\ P[i] \in Mutex \cup {None}
    BY <1>2, <2>1
  <2>3. P[i] = NextOnPath(P[i - 1])
    BY <1>2, Zenon
  <2>4. P[i - 1] # None /\ owner[P[i - 1]] # None /\ On(Now, owner[P[i - 1]], P[i])
    BY <1>8, <2>2, <2>3, NextOnPathIs
  <2> QED BY <1>6, <1>8, <2>1, <2>2, <2>4
<1>9. \E i \in 0 .. N : P[i] = None
  <2> SUFFICES ASSUME \A i \in 0 .. N : P[i] # None PROVE FALSE
    OBVIOUS
  <2>1. P \in [0 .. N -> Mutex]
    BY <1>2
  <2>2. PICK i, j \in 0 .. N : i < j /\ P[i] = P[j]
    BY <2>1, Zenon DEF Counting, N
  <2> DEFINE a == [k \in 0 .. N |-> owner[P[k]]]
  <2>3. \A k \in 0 .. N : a[k] \in Thread
    <3> SUFFICES ASSUME NEW k \in 0 .. N PROVE owner[P[k]] \in Thread
      OBVIOUS
    <3>1. CASE k = 0
      BY <1>2, <1>6, <3>1
    <3>2. CASE k # 0
      <4>1. k \in 1 .. N
        BY <3>2
      <4>2. On(Now, owner[P[k - 1]], P[k]) /\ P[k] \in Mutex
        BY <1>8, <4>1, Zenon
      <4>3. Range(queue[P[k]]) # {}
        BY <1>5, <4>2, Zenon DEF On
      <4>4. queue[P[k]] # <<>>
        BY <4>3 DEF Range
      <4>5. owner[P[k]] # None
        BY <4>2, <4>4, Zenon DEF OwnerWhileWaiting
      <4> QED BY <1>6, <4>2, <4>5
    <3> QED BY <3>1, <3>2
  <2>4. \A k \in 1 .. N : \E n \in Mutex : On(Now, a[k - 1], n) /\ Now.owner[n] = a[k]
    <3> SUFFICES ASSUME NEW k \in 1 .. N
                 PROVE  \E n \in Mutex : On(Now, a[k - 1], n) /\ Now.owner[n] = a[k]
      OBVIOUS
    <3>1. k - 1 \in 0 .. N /\ k \in 0 .. N
      BY <1>1
    <3>2. a[k - 1] = owner[P[k - 1]] /\ a[k] = owner[P[k]]
      BY <3>1
    <3>3. P[k] \in Mutex /\ On(Now, owner[P[k - 1]], P[k])
      BY <1>8, <3>1, Zenon
    <3> HIDE DEF a
    <3> QED BY <1>5, <3>2, <3>3, Zenon
  <2>5. a[i] = a[j]
    BY <2>2
  <2> HIDE DEF a
  <2>6. IsWalk(Now, N, a)
    BY <2>3, <2>4, Zenon DEF IsWalk
  <2> QED BY <1>1, <1>4, <2>2, <2>5, <2>6, WalkOpen
<1>10. P[N] = None
  <2>1. PICK i \in 0 .. N : P[i] = None
    BY <1>9
  <2> DEFINE T == {k \in 0 .. N - i : P[i + k] = None}
  <2>2. 0 \in T /\ N - i \in Nat /\ i + (N - i) = N /\ i + 0 = i
    BY <1>1, <2>1
  <2>3. \A k \in 1 .. N - i : k - 1 \in T => k \in T
    <3> SUFFICES ASSUME NEW k \in 1 .. N - i, k - 1 \in T PROVE k \in T
      OBVIOUS
    <3>1. i + k \in 1 .. N /\ (i + k) - 1 = i + (k - 1) /\ k \in 0 .. N - i
      BY <1>1
    <3>2. P[(i + k) - 1] = None
      BY <3>1
    <3>3. P[i + k] = None
      BY <1>8, <1>7, <3>1, <3>2, Zenon
    <3> QED BY <3>1, <3>3
  <2>4. 0 .. N - i \subseteq T
    <3> HIDE DEF T
    <3> QED BY <2>2, <2>3, Induction
  <2>5. N - i \in 0 .. N - i
    BY <2>2
  <2> QED BY <2>2, <2>4, <2>5
<1> DEFINE R == {i \in 0 .. N : P[i] # None /\ owner[P[i]] # None}
           T == {owner[P[i]] : i \in R}
<1>11. \A i \in R : P[i] \in Mutex /\ owner[P[i]] \in Thread /\ owner[P[i]] # t
  BY <1>2, <1>3, <1>6
<1>12. T \in SUBSET Thread /\ t \notin T
  BY <1>11, Zenon
<1>13. owner[m] \in T
  <2>1. 0 \in R
    BY <1>1, <1>2, <1>7
  <2> QED BY <1>2, <2>1, Zenon
<1>14. ASSUME NEW u \in T, NEW n \in Mutex, On(Now, u, n)
       PROVE  owner[n] \in T
  <2>1. PICK i \in R : u = owner[P[i]]
    BY <1>14
  <2>2. i \in 0 .. N /\ P[i] # None /\ i # N
    BY <1>10, <2>1
  <2>3. i + 1 \in 1 .. N /\ (i + 1) - 1 = i /\ i + 1 \in 0 .. N
    BY <1>1, <2>2
  <2>4. P[i + 1] = NextOnPath(P[i])
    BY <1>2, <2>3
  <2>5. NextOnPath(P[i]) # None
    BY <1>11, <1>7, <1>14, <2>1, NextOnPathIs, SMTT(30) DEF Waits
  <2>6. P[i + 1] \in Mutex /\ On(Now, owner[P[i]], P[i + 1])
    BY <1>8, <2>3, <2>4, <2>5
  <2>7. P[i + 1] = n
    BY <1>4, <1>11, <1>14, <2>1, <2>6, Zenon DEF OneQueue
  <2>8. queue[n] # <<>>
    BY <1>5, <1>14 DEF On, Range
  <2>9. owner[n] # None
    BY <2>8, Zenon DEF OwnerWhileWaiting
  <2>10. i + 1 \in R
    BY <1>7, <2>3, <2>6, <2>7, <2>9
  <2> QED BY <2>7, <2>10, Zenon
<1> HIDE DEF T
<1>15. ClosedAbove(Now, m, T)
  BY <1>5, <1>12, <1>13, <1>14, Zenon DEF ClosedAbove
<1> QED BY <1>12, <1>15, Zenon

------------------------------------------------------------------------------
(***************************************************************************)
(* The operations on mutexes.  The owner of a mutex changes.               *)
(***************************************************************************)
OwnerSet(s, m, x, r) ==
  /\ r \in State
  /\ r.owner = [s.owner EXCEPT ![m] = x]
  /\ r.owner[m] = x
  /\ \A n \in Mutex : n # m => r.owner[n] = s.owner[n]
  /\ r.ceiling = s.ceiling /\ r.real = s.real /\ r.prio = s.prio
  /\ r.qprio = s.qprio /\ r.queue = s.queue /\ r.update = s.update

LEMMA OwnerSetIs ==
  ASSUME NEW s \in State, NEW m \in Mutex, NEW x \in Thread \cup {None}
  PROVE  OwnerSet(s, m, x, [s EXCEPT !.owner[m] = x])
<1> DEFINE o == [s.owner EXCEPT ![m] = x]
           r == [s EXCEPT !.owner = o]
<1>1. [s EXCEPT !.owner[m] = x] = r
  BY DEF State
<1>2. /\ o \in [Mutex -> Thread \cup {None}] /\ o[m] = x
      /\ \A n \in Mutex : n # m => o[n] = s.owner[n]
  BY DEF State
<1> HIDE DEF o
<1>3. /\ r \in State /\ r.owner = o
      /\ r.ceiling = s.ceiling /\ r.real = s.real /\ r.prio = s.prio
      /\ r.qprio = s.qprio /\ r.queue = s.queue /\ r.update = s.update
  BY <1>2, Zenon DEF State
<1> HIDE DEF r
<1>4. OwnerSet(s, m, x, r)
  BY <1>2, <1>3, Zenon DEF OwnerSet, o
<1> QED BY <1>1, <1>4, Zenon

\* This disturbs the contributions of the old and of the new owner only, and of
\* nobody, if the mutex has no ceiling and an empty queue.
OwnerSetKeeps(s, m, x, r) ==
  /\ \A n \in Mutex : LineFits(s, n) => LineFits(r, n)
  /\ \A u \in Thread :
       /\ Fits(s, u)
       /\ \/ u # s.owner[m] /\ u # x
          \/ m \notin Ceiling /\ (m \in Inherit => s.queue[m] = <<>>)
       => Fits(r, u)
  /\ OneQueue(s) => OneQueue(r)
  /\ \A u, n : On(r, u, n) <=> On(s, u, n)
  /\ \A u : Waits(r, u) <=> Waits(s, u)

LEMMA OwnerSetFits ==
  ASSUME NEW s \in State, NEW m \in Mutex, NEW x, NEW r, OwnerSet(s, m, x, r)
  PROVE  OwnerSetKeeps(s, m, x, r)
<1>1. /\ r.owner[m] = x /\ \A n \in Mutex : n # m => r.owner[n] = s.owner[n]
      /\ r.ceiling = s.ceiling /\ r.real = s.real /\ r.prio = s.prio
      /\ r.qprio = s.qprio /\ r.queue = s.queue
  BY Zenon DEF OwnerSet
<1>2. \A n \in Mutex : LineFits(s, n) => LineFits(r, n)
  BY <1>1, Zenon DEF LineFits
<1>3. \A u, n : On(r, u, n) <=> On(s, u, n)
  BY <1>1, Zenon DEF On
<1>4. \A u : Waits(r, u) <=> Waits(s, u)
  BY <1>3, Zenon DEF Waits
<1>5. OneQueue(s) => OneQueue(r)
  BY <1>3, Zenon DEF OneQueue
<1>6. ASSUME NEW u \in Thread, Fits(s, u), u # s.owner[m] /\ u # x
      PROVE  Fits(r, u)
  <2>1. \A n \in Mutex : r.owner[n] = u <=> s.owner[n] = u
    BY <1>1, <1>6, Zenon
  <2>2. Contributions(r, u) = Contributions(s, u)
    BY <1>1, <2>1, ContributionsSame
  <2> QED BY <1>1, <1>6, <2>2, Zenon DEF Fits
<1>7. ASSUME NEW u \in Thread, Fits(s, u), m \notin Ceiling,
             m \in Inherit => s.queue[m] = <<>>
      PROVE  Fits(r, u)
  <2>1. Contributions(r, u) = Contributions(s, u)
    <3> DEFINE c(q) == {q.ceiling[n] : n \in {k \in Mutex : q.owner[k] = u} \cap Ceiling}
               i(q) == {n \in {k \in Mutex : q.owner[k] = u} \cap Inherit : q.queue[n] # <<>>}
    <3>1. i(r) = i(s)
      BY <1>1, <1>7
    <3>2. c(r) = c(s)
      BY <1>1, <1>7
    <3>3. {r.qprio[n] : n \in i(r)} = {s.qprio[n] : n \in i(s)}
      <4> HIDE DEF i
      <4> QED BY <1>1, <3>1, Zenon
    <3>4. \A q : Contributions(q, u) = {q.real[u]} \cup c(q) \cup {q.qprio[n] : n \in i(q)}
      BY DEF Contributions
    <3> HIDE DEF c, i
    <3> QED BY <1>1, <3>2, <3>3, <3>4, Zenon
  <2> QED BY <1>1, <1>7, <2>1, Zenon DEF Fits
<1> QED BY <1>2, <1>3, <1>4, <1>5, <1>6, <1>7, Zenon DEF OwnerSetKeeps

\* The ownership of m moves to thread new that does not wait any more.
LEMMA HandedOver ==
  ASSUME NEW s \in State, NoCircle(s), NEW r, NEW m \in Mutex, NEW new, ~Waits(r, new),
         r.owner[m] = new, \A n \in Mutex : n # m => r.owner[n] = s.owner[n],
         \A u \in Thread : \A n \in Mutex : On(r, u, n) => On(s, u, n)
  PROVE  NoCircle(r)
<1> SUFFICES ASSUME NEW S \in SUBSET Thread, S # {}
             PROVE  \E u \in S : \A n \in Mutex : On(r, u, n) => r.owner[n] \notin S
  BY Zenon DEF NoCircle
<1>1. CASE new \in S
  BY <1>1, Zenon DEF Waits
<1>2. CASE new \notin S
  <2>1. PICK u \in S : \A n \in Mutex : On(s, u, n) => s.owner[n] \notin S
    BY Zenon DEF NoCircle
  <2>2. u \in Thread
    OBVIOUS
  <2> QED BY <1>2, <2>1, <2>2, Zenon
<1> QED BY <1>1, <1>2

\* A thread that waits for nothing gets the minimum of its contributions.
Minimized(s, t, notify, r) ==
  /\ r \in State
  /\ r.owner = s.owner /\ r.ceiling = s.ceiling /\ r.real = s.real
  /\ r.qprio = s.qprio /\ r.queue = s.queue
  /\ \A m \in Mutex : LineFits(r, m)
  /\ \A u \in Thread : Fits(r, u)
  /\ \A u \in Thread : u # t => r.prio[u] = s.prio[u]
  /\ Len(r.update) <= Len(s.update) + 1
  /\ Range(s.update) \subseteq Range(r.update)
  /\ notify => r.prio[t] = s.prio[t] \/ Update(t) \in Range(r.update)

LEMMA NewMinimumIs ==
  ASSUME LeastNat, NEW s \in State, NEW t \in Thread, NEW notify,
         \A m \in Mutex : LineFits(s, m),
         \A u \in Thread : u # t => Fits(s, u),
         ~Waits(s, t)
  PROVE  Minimized(s, t, notify, NewMinimum(s, t, notify))
<1> DEFINE x == Min(Contributions(s, t))
           s1 == [s EXCEPT !.prio[t] = x]
           s2 == AddUpdate(s1, t)
           r == NewMinimum(s, t, notify)
<1>1. x \in Nat
  BY ContributionsNat, MinIs
<1>2. r = IF x # s.prio[t] /\ notify THEN s2 ELSE s1
  BY Zenon DEF NewMinimum
<1>3. /\ SamePlaces(s, s2)
      /\ \A m \in Mutex : LineFits(s2, m)
      /\ \A u \in Thread : Fits(s2, u)
  BY NewPriorityAlone, Zenon
<1>4. /\ s2 \in State
      /\ s2.owner = s.owner /\ s2.ceiling = s.ceiling /\ s2.real = s.real
      /\ s2.qprio = s.qprio /\ s2.queue = s.queue
      /\ s2.prio = [s.prio EXCEPT ![t] = x]
      /\ s2.update = Append(s.update, Update(t))
  <2> HIDE DEF x
  <2> QED BY <1>1, NewPriorityIs
<1>5. /\ s1 \in State
      /\ s1.owner = s.owner /\ s1.ceiling = s.ceiling /\ s1.real = s.real
      /\ s1.qprio = s.qprio /\ s1.queue = s.queue
      /\ s1.prio = [s.prio EXCEPT ![t] = x]
      /\ s1.update = s.update
  <2> HIDE DEF x
  <2> QED BY <1>1, Zenon DEF State
<1>6. \A u \in Thread : u # t => [s.prio EXCEPT ![t] = x][u] = s.prio[u]
  <2> HIDE DEF x
  <2> QED BY DEF State
<1>7. [s.prio EXCEPT ![t] = x][t] = x
  <2> HIDE DEF x
  <2> QED BY DEF State
<1> DEFINE p == [s.prio EXCEPT ![t] = x]
<1> HIDE DEF s1, s2, r, x, p
<1>8. s.update \in Seq(Updates) /\ Update(t) \in Updates /\ Len(s.update) \in Nat
  BY DEF State, Updates
<1>9. CASE x # s.prio[t] /\ notify
  <2>1. Len(s2.update) = Len(s.update) + 1 /\ Range(s.update) \subseteq Range(s2.update)
        /\ Update(t) \in Range(s2.update)
    BY <1>4, <1>8, AppendIs
  <2>2. Len(s2.update) <= Len(s.update) + 1
    BY <1>8, <2>1
  <2>3. Minimized(s, t, notify, s2)
    BY <1>3, <1>4, <1>6, <2>1, <2>2, Zenon DEF Minimized
  <2>4. r = s2
    BY <1>2, <1>9, Zenon
  <2> QED BY <2>3, <2>4, Zenon DEF r
<1>10. CASE ~(x # s.prio[t] /\ notify)
  <2>1. r = s1
    BY <1>2, <1>10, Zenon
  <2>2. \A m \in Mutex : LineFits(s1, m)
    <3>1. s1.prio = s2.prio /\ s1.queue = s2.queue /\ s1.qprio = s2.qprio
      BY <1>4, <1>5, Zenon
    <3> QED BY <1>3, <3>1, Zenon DEF LineFits
  <2>3. \A u \in Thread : Fits(s1, u)
    <3>1. \A u \in Thread : Contributions(s1, u) = Contributions(s2, u)
      BY <1>4, <1>5, ContributionsSame
    <3>2. s1.prio = s2.prio
      BY <1>4, <1>5, Zenon
    <3> QED BY <1>3, <3>1, <3>2, Zenon DEF Fits
  <2>4. Len(s1.update) <= Len(s.update) + 1
    BY <1>5, <1>8
  <2>5. notify => s1.prio[t] = s.prio[t]
    BY <1>5, <1>7, <1>10, Zenon
  <2>6. Minimized(s, t, notify, s1)
    BY <1>5, <1>6, <2>2, <2>3, <2>4, <2>5, Zenon DEF Minimized
  <2> QED BY <2>1, <2>6, Zenon DEF r
<1> QED BY <1>9, <1>10

\* A surrender: thread new, which was on the queue of m, or None is the owner.
Surrendered(s, m, new, r) ==
  /\ Good(r)
  /\ r.owner = [s.owner EXCEPT ![m] = new]
  /\ InLine(s, m, Range(s.queue[m]) \ {new}, r)
  /\ Len(r.update) <= Len(s.update) + 2
  /\ \A u \in Thread : \/ r.prio[u] = s.prio[u]
                       \/ Waits(s, u)
                       \/ Update(u) \in Range(r.update)

LEMMA QueueSurrenderIs ==
  ASSUME LeastNat, NEW s, Good(s), NEW m \in Mutex, NEW t \in Thread, ~Waits(s, t),
         m \notin Ceiling, s.owner[m] = t, s.queue[m] # <<>>
  PROVE  Surrendered(s, m, Head(s.queue[m]), QueueSurrender(s, m, t))
<1> DEFINE new == Head(s.queue[m])
           line == Tail(s.queue[m])
           s0 == [s EXCEPT !.owner[m] = None]
           s1 == NewMinimum(s0, t, TRUE)
           e == WithLine(s1, m, line)
           s2 == [e EXCEPT !.owner[m] = new]
           r == NewMinimum(s2, new, ~Smp)
<1>1. QueueSurrender(s, m, t) = r
  BY Zenon DEF QueueSurrender
<1>2. /\ s \in State /\ OneQueue(s) /\ NoCircle(s)
      /\ (\A n \in Mutex : LineFits(s, n)) /\ (\A u \in Thread : Fits(s, u))
  BY Zenon DEF Good
<1>3. /\ s.queue[m] \in Seq(Thread) /\ s.prio \in [Thread -> Nat]
      /\ IsInjective(s.queue[m]) /\ Sorted(s.prio, s.queue[m])
  BY <1>2 DEF State, LineFits
<1>4. new \in Thread /\ new \in Range(s.queue[m])
  BY <1>3, HeadFirst
<1>5. /\ line \in Seq(Thread) /\ IsInjective(line) /\ Sorted(s.prio, line)
      /\ Range(line) = Range(s.queue[m]) \ {new}
  BY <1>3, TailIs
<1>6. new # t
  BY <1>4, Zenon DEF Waits, On
<1>7. None \notin Thread
  BY CoreMutexAssumption
<1>8. OwnerSet(s, m, None, s0)
  BY <1>2, OwnerSetIs
<1> HIDE DEF new, line, s0
<1>9. /\ s0 \in State /\ s0.owner[m] = None /\ OneQueue(s0) /\ ~Waits(s0, t)
      /\ (\A n \in Mutex : LineFits(s0, n)) /\ (\A u \in Thread : u # t => Fits(s0, u))
  <2>1. OwnerSetKeeps(s, m, None, s0)
    BY <1>2, <1>8, OwnerSetFits, Zenon
  <2>2. \A u \in Thread : u # t => Fits(s0, u)
    BY <1>2, <1>7, <2>1, Zenon DEF OwnerSetKeeps
  <2> QED BY <1>2, <1>8, <2>1, <2>2, Zenon DEF OwnerSet, OwnerSetKeeps
<1>10. Minimized(s0, t, TRUE, s1)
  BY <1>9, NewMinimumIs, Zenon
<1> HIDE DEF s1
<1>11. /\ s1 \in State /\ s1.owner[m] = None /\ s1.queue = s.queue
       /\ (\A n \in Mutex : n # m => s1.owner[n] = s.owner[n])
       /\ (\A n \in Mutex : LineFits(s1, n)) /\ (\A u \in Thread : Fits(s1, u))
       /\ (\A u \in Thread : u # t => s1.prio[u] = s.prio[u])
       /\ s1.owner = [s.owner EXCEPT ![m] = None]
  BY <1>8, <1>10, Zenon DEF OwnerSet, Minimized
<1>12. Sorted(s1.prio, line)
  <2>1. \A u \in Range(line) : s1.prio[u] = s.prio[u]
    <3>1. \A u \in Range(line) : u \in Range(s.queue[m])
      BY <1>5
    <3>2. \A u \in Range(s.queue[m]) : u # t
      BY Zenon DEF Waits, On
    <3>3. Range(line) \subseteq Thread
      BY <1>5 DEF Range
    <3> QED BY <1>11, <3>1, <3>2, <3>3, SMTT(30)
  <2> QED BY <1>5, <2>1, SortedSame, Zenon
<1>13. Relined(s1, m, line, e)
  BY <1>5, <1>11, WithLineQueue, Zenon
<1>14. /\ LineFits(e, m)
       /\ \A n \in Mutex : n # m => /\ e.queue[n] = s1.queue[n]
                                    /\ e.qprio[n] = s1.qprio[n]
                                    /\ LineFits(s1, n) => LineFits(e, n)
  BY <1>5, <1>11, <1>12, LineSet, Zenon
<1> HIDE DEF e
<1>15. /\ e \in State /\ e.owner = s1.owner /\ e.ceiling = s1.ceiling
       /\ e.real = s1.real /\ e.prio = s1.prio /\ e.update = s1.update
       /\ e.queue[m] = line
  BY <1>13, Zenon DEF Relined, SameButQueues
<1>16. \A u \in Thread : Fits(e, u)
  <2> SUFFICES ASSUME NEW u \in Thread PROVE Fits(e, u)
    OBVIOUS
  <2>1. Inherit \subseteq Mutex
    BY CoreMutexAssumption
  <2>2. \A n \in Inherit : s1.owner[n] = u =>
          e.queue[n] = s1.queue[n] /\ e.qprio[n] = s1.qprio[n]
    BY <1>7, <1>11, <1>14, <2>1, Zenon
  <2>3. Contributions(e, u) = Contributions(s1, u)
    BY <1>15, <2>2, ContributionsSame
  <2> QED BY <1>11, <1>15, <2>3, Zenon DEF Fits
<1>17. \A n \in Mutex : LineFits(e, n)
  BY <1>11, <1>14, Zenon
<1>18. InLine(s, m, Range(s.queue[m]) \ {new}, e)
  BY <1>5, <1>11, <1>14, <1>15, Zenon DEF InLine
<1>19. ~Waits(e, new) /\ \A u \in Thread : \A n \in Mutex : On(e, u, n) => On(s, u, n)
  <2>1. new \notin Range(s.queue[m]) \ {new} /\ Range(s.queue[m]) \ {new} \subseteq Range(s.queue[m])
    OBVIOUS
  <2>2. \A u \in Thread : \A n \in Mutex : On(e, u, n) => On(s, u, n)
    BY <1>18, <2>1, Zenon DEF InLine, On
  <2>3. \A n \in Mutex : n # m => ~On(s, new, n)
    BY <1>2, <1>4, Zenon DEF OneQueue, On
  <2>4. ~On(e, new, m)
    BY <1>18, <2>1, Zenon DEF InLine, On
  <2> QED BY <1>4, <2>2, <2>3, <2>4, Zenon DEF Waits
<1>20. OwnerSet(e, m, new, s2)
  BY <1>4, <1>15, OwnerSetIs
<1> HIDE DEF s2
<1>21. /\ s2 \in State /\ ~Waits(s2, new) /\ s2.queue = e.queue /\ s2.prio = e.prio
       /\ s2.update = e.update
       /\ (\A n \in Mutex : LineFits(s2, n)) /\ (\A u \in Thread : u # new => Fits(s2, u))
  <2>1. OwnerSetKeeps(e, m, new, s2)
    BY <1>15, <1>20, OwnerSetFits, Zenon
  <2>2. \A u \in Thread : u # new => Fits(s2, u)
    <3>1. e.owner[m] = None
      BY <1>11, <1>15, Zenon
    <3>2. \A u \in Thread : u # e.owner[m]
      BY <1>7, <3>1, Zenon
    <3> QED BY <1>16, <2>1, <3>2, Zenon DEF OwnerSetKeeps
  <2> QED BY <1>17, <1>19, <1>20, <2>1, <2>2, Zenon DEF OwnerSet, OwnerSetKeeps
<1>22. Minimized(s2, new, ~Smp, r)
  BY <1>4, <1>21, NewMinimumIs, Zenon
<1> HIDE DEF r
<1>23. /\ r \in State /\ r.owner = s2.owner /\ r.queue = e.queue
       /\ (\A n \in Mutex : LineFits(r, n)) /\ (\A u \in Thread : Fits(r, u))
  BY <1>21, <1>22, Zenon DEF Minimized
<1>24. r.owner = [s.owner EXCEPT ![m] = new]
       /\ r.owner[m] = new /\ \A n \in Mutex : n # m => r.owner[n] = s.owner[n]
  <2>1. r.owner = [[s.owner EXCEPT ![m] = None] EXCEPT ![m] = new]
    BY <1>11, <1>15, <1>20, <1>23, Zenon DEF OwnerSet
  <2>2. s.owner \in [Mutex -> Thread \cup {None}]
    BY <1>2 DEF State
  <2> QED BY <2>1, <2>2
<1>25. InLine(s, m, Range(s.queue[m]) \ {new}, r)
  BY <1>18, <1>23, Zenon DEF InLine
<1>26. ~Waits(r, new) /\ \A u \in Thread : \A n \in Mutex : On(r, u, n) => On(s, u, n)
  BY <1>19, <1>23, Zenon DEF Waits, On
<1>27. OneQueue(r) /\ NoCircle(r)
  BY <1>2, <1>24, <1>26, HandedOver, Zenon DEF OneQueue
<1>28. Len(r.update) <= Len(s.update) + 2
  <2> DEFINE a == Len(s.update)
             b == Len(s1.update)
             c == Len(r.update)
  <2>1. a \in Nat /\ b \in Nat /\ c \in Nat
    <3>1. \A q \in State : Len(q.update) \in Nat
      BY DEF State
    <3> QED BY <1>2, <1>11, <1>23, <3>1, Zenon
  <2>2. b <= a + 1 /\ c <= b + 1
    BY <1>8, <1>10, <1>15, <1>21, <1>22, Zenon DEF OwnerSet, Minimized
  <2> HIDE DEF a, b, c
  <2>3. c <= a + 2
    BY <2>1, <2>2
  <2> QED BY <2>3, Zenon DEF a, c
<1>29. \A u \in Thread : \/ r.prio[u] = s.prio[u]
                       \/ Waits(s, u)
                       \/ Update(u) \in Range(r.update)
  <2>1. Waits(s, new)
    BY <1>4, Zenon DEF Waits, On
  <2>2. \A u \in Thread : u # t /\ u # new => r.prio[u] = s.prio[u]
    <3>1. s2.prio = s1.prio
      BY <1>15, <1>21, Zenon
    <3>2. \A u \in Thread : u # new => r.prio[u] = s2.prio[u]
      BY <1>22, Zenon DEF Minimized
    <3>3. \A u \in Thread : u # t => s1.prio[u] = s.prio[u]
      BY <1>11, Zenon
    <3> QED BY <3>1, <3>2, <3>3, Zenon
  <2>3. s1.prio[t] = s.prio[t] \/ Update(t) \in Range(s1.update)
    BY <1>8, <1>10, Zenon DEF Minimized, OwnerSet
  <2>4. r.prio[t] = s1.prio[t] /\ Range(s1.update) \subseteq Range(r.update)
    BY <1>6, <1>15, <1>21, <1>22, Zenon DEF Minimized
  <2> QED BY <2>1, <2>2, <2>3, <2>4, Zenon
<1>30. Good(r)
  BY <1>23, <1>27, Zenon DEF Good
<1>31. Surrendered(s, m, new, r)
  BY <1>24, <1>25, <1>28, <1>29, <1>30, Zenon DEF Surrendered
<1> QED BY <1>1, <1>31, Zenon DEF new, line, s0, s1, e, s2, r

\* _CORE_ceiling_mutex_Surrender(): first the caller loses the ceiling, then the
\* new owner gets it, at last the new owner leaves the queue.
LEMMA CeilingGivenUp ==
  ASSUME LeastNat, Counting(Thread), NEW s, Good(s), NEW m \in Ceiling,
         NEW t \in Thread, ~Waits(s, t), s.owner[m] = t
  PROVE  LET s0 == [s EXCEPT !.owner[m] = None]
         IN OwnerSet(s, m, None, s0) /\ Settled(s0, ApplyPriority(s0, t), 1)
<1> DEFINE s0 == [s EXCEPT !.owner[m] = None]
<1>1. /\ s \in State /\ OneQueue(s) /\ m \in Mutex
      /\ (\A n \in Mutex : LineFits(s, n)) /\ (\A u \in Thread : Fits(s, u))
  BY CoreMutexAssumption DEF Good
<1>2. None \notin Thread /\ Inherit \subseteq Mutex /\ Cardinality(Thread) \in Nat
  BY CoreMutexAssumption DEF Counting
<1>3. OwnerSet(s, m, None, s0)
  BY <1>1, OwnerSetIs
<1> HIDE DEF s0
<1>4. OwnerSetKeeps(s, m, None, s0)
  BY <1>1, <1>3, OwnerSetFits, Zenon
<1>5. \A u \in Thread : u # t => Fits(s0, u)
  BY <1>1, <1>2, <1>4, Zenon DEF OwnerSetKeeps
<1>6. s0 \in State /\ OneQueue(s0) /\ (\A n \in Mutex : LineFits(s0, n)) /\ ~Waits(s0, t)
  BY <1>1, <1>3, <1>4, Zenon DEF OwnerSet, OwnerSetKeeps
<1>7. \A n \in Inherit : ~On(s0, t, n)
  BY <1>2, <1>6, Zenon DEF Waits
<1>8. Settled(s0, ApplyPriority(s0, t), 1)
  BY <1>2, <1>5, <1>6, <1>7, ApplyAloneIs, Zenon
<1> QED BY <1>3, <1>8, Zenon DEF s0

LEMMA CeilingTaken ==
  ASSUME LeastNat, Counting(Thread), NEW s \in State, OneQueue(s), NEW m \in Ceiling,
         \A n \in Mutex : LineFits(s, n), \A u \in Thread : Fits(s, u),
         s.owner[m] = None, NEW new \in Thread \cup {None},
         \A n \in Mutex : On(s, new, n) => n = m
  PROVE  LET s0 == [s EXCEPT !.owner[m] = new]
         IN OwnerSet(s, m, new, s0) /\ Settled(s0, ApplyPriority(s0, new), 1)
<1> DEFINE s0 == [s EXCEPT !.owner[m] = new]
<1>1. /\ m \in Mutex /\ m \notin Inherit /\ None \notin Thread /\ Inherit \subseteq Mutex
      /\ Cardinality(Thread) \in Nat
  BY CoreMutexAssumption DEF Counting
<1>2. OwnerSet(s, m, new, s0)
  BY <1>1, OwnerSetIs
<1> HIDE DEF s0
<1>3. OwnerSetKeeps(s, m, new, s0)
  BY <1>1, <1>2, OwnerSetFits, Zenon
<1>4. \A u \in Thread : u # new => Fits(s0, u)
  BY <1>1, <1>3, Zenon DEF OwnerSetKeeps
<1>5. s0 \in State /\ OneQueue(s0) /\ (\A n \in Mutex : LineFits(s0, n))
  BY <1>2, <1>3, Zenon DEF OwnerSet, OwnerSetKeeps
<1>6. \A n \in Inherit : ~On(s0, new, n)
  BY <1>1, <1>3, Zenon DEF OwnerSetKeeps
<1>7. CASE new = None
  <2>1. DoPerformActions(s0, new) = [s |-> s0, at |-> None]
    BY <1>7, Zenon DEF DoPerformActions
  <2>2. ApplyPriority(s0, new) = PerformActions(s0, None)
    BY <2>1 DEF ApplyPriority
  <2>3. ApplyPriority(s0, new) = s0
    BY <1>1, <1>5, <2>2, PerformActionsNone, Zenon
  <2>4. Told(s0, s0, 1) /\ SamePlaces(s0, s0)
    BY <1>5, ToldSame DEF SamePlaces
  <2>5. Settled(s0, s0, 1)
    BY <1>1, <1>4, <1>5, <1>7, <2>4, Zenon DEF Settled
  <2> QED BY <1>2, <2>3, <2>5, Zenon DEF s0
<1>8. CASE new \in Thread
  <2>1. Settled(s0, ApplyPriority(s0, new), 1)
    BY <1>1, <1>4, <1>5, <1>6, <1>8, ApplyAloneIs, Zenon
  <2> QED BY <1>2, <2>1, Zenon DEF s0
<1> QED BY <1>7, <1>8

LEMMA CeilingSurrenderIs ==
  ASSUME LeastNat, Counting(Thread), NEW s, Good(s), NEW m \in Ceiling,
         NEW t \in Thread, ~Waits(s, t), s.owner[m] = t,
         NEW new, new = IF s.queue[m] = <<>> THEN None ELSE Head(s.queue[m])
  PROVE  LET s1 == ApplyPriority([s EXCEPT !.owner[m] = None], t)
             s2 == ApplyPriority([s1 EXCEPT !.owner[m] = new], new)
         IN Surrendered(s, m, new, QueueExtract(s2, m, new))
<1> DEFINE a == [s EXCEPT !.owner[m] = None]
           s1 == ApplyPriority(a, t)
           b == [s1 EXCEPT !.owner[m] = new]
           s2 == ApplyPriority(b, new)
           line == Without(s2.queue[m], new)
           e == WithLine(s2, m, line)
           r == QueueExtract(s2, m, new)
<1>1. /\ s \in State /\ OneQueue(s) /\ NoCircle(s)
      /\ (\A n \in Mutex : LineFits(s, n)) /\ (\A u \in Thread : Fits(s, u))
  BY Zenon DEF Good
<1>2. m \in Mutex /\ m \notin Inherit /\ None \notin Thread
  BY CoreMutexAssumption
<1>3. s.queue \in [Mutex -> Seq(Thread)] /\ s.prio \in [Thread -> Nat]
      /\ s.owner \in [Mutex -> Thread \cup {None}]
  BY <1>1 DEF State
<1>4. \A n \in Mutex : Range(s.queue[n]) \subseteq Thread
  BY <1>3, SMTT(30) DEF Range
<1>5. new \in Thread \cup {None} /\ (new # None => On(s, new, m))
      /\ (new = None => s.queue[m] = <<>>)
  <2>1. CASE s.queue[m] = <<>>
    BY <2>1, Zenon
  <2>2. CASE s.queue[m] # <<>>
    <3>1. Head(s.queue[m]) \in Thread /\ Head(s.queue[m]) \in Range(s.queue[m])
      BY <1>1, <1>2, <1>3, <2>2, HeadFirst, Zenon DEF LineFits
    <3> QED BY <1>2, <2>2, <3>1, Zenon DEF On
  <2> QED BY <2>1, <2>2
<1>6. OwnerSet(s, m, None, a) /\ Settled(a, s1, 1)
  BY CeilingGivenUp, Zenon
<1>7. a \in State /\ a.owner[m] = None /\ (\A n \in Mutex : n # m => a.owner[n] = s.owner[n])
      /\ a.prio = s.prio /\ a.update = s.update /\ a.queue = s.queue
      /\ a.owner = [s.owner EXCEPT ![m] = None]
  BY <1>6, Zenon DEF OwnerSet
<1>8. OneQueue(a) /\ (\A u, n : On(a, u, n) <=> On(s, u, n)) /\ (\A u : Waits(a, u) <=> Waits(s, u))
  BY <1>1, <1>7, Zenon DEF OneQueue, On, Waits
<1> HIDE DEF a, s1
<1>9. SamePlaces(a, s1) /\ s1 \in State /\ Told(a, s1, 1)
      /\ (\A n \in Mutex : LineFits(s1, n)) /\ (\A u \in Thread : Fits(s1, u))
  BY <1>6, Zenon DEF Settled, SamePlaces
<1>10. OneQueue(s1) /\ s1.owner = a.owner
       /\ (\A u, n : n \in Mutex => (On(s1, u, n) <=> On(s, u, n)))
       /\ (\A u : Waits(s1, u) <=> Waits(s, u))
  <2>1. /\ \A u, n : n \in Mutex => (On(s1, u, n) <=> On(a, u, n))
        /\ \A u : Waits(s1, u) <=> Waits(a, u)
        /\ OneQueue(a) => OneQueue(s1)
    BY <1>7, <1>9, PlacesKept, Zenon
  <2> QED BY <1>8, <1>9, <2>1, Zenon DEF SamePlaces
<1>11. \A n \in Mutex : On(s1, new, n) => n = m
  <2> SUFFICES ASSUME NEW n \in Mutex, On(s1, new, n) PROVE n = m
    OBVIOUS
  <2>1. On(s, new, n)
    BY <1>10, Zenon
  <2>2. new \in Thread
    BY <1>4, <2>1 DEF On
  <2>3. On(s, new, m)
    BY <1>2, <1>5, <2>2, Zenon
  <2> QED BY <1>1, <1>2, <2>1, <2>2, <2>3, Zenon DEF OneQueue
<1>12. OwnerSet(s1, m, new, b) /\ Settled(b, s2, 1)
  BY <1>5, <1>7, <1>9, <1>10, <1>11, CeilingTaken, Zenon
<1>13. b \in State /\ b.prio = s1.prio /\ b.update = s1.update /\ b.queue = s1.queue
       /\ b.owner = [s1.owner EXCEPT ![m] = new]
  BY <1>12, Zenon DEF OwnerSet
<1>14. (\A u, n : On(b, u, n) <=> On(s1, u, n)) /\ (\A u : Waits(b, u) <=> Waits(s1, u))
  BY <1>13, Zenon DEF On, Waits
<1> HIDE DEF b, s2
<1>15. SamePlaces(b, s2) /\ s2 \in State /\ Told(b, s2, 1) /\ s2.owner = b.owner
       /\ (\A n \in Mutex : LineFits(s2, n)) /\ (\A u \in Thread : Fits(s2, u))
  BY <1>12, Zenon DEF Settled, SamePlaces
<1>16. \A n \in Mutex : Range(s2.queue[n]) = Range(s.queue[n])
  <2>1. \A n \in Mutex : Range(s2.queue[n]) = Range(s1.queue[n])
    BY <1>13, <1>15, Zenon DEF SamePlaces
  <2>2. \A n \in Mutex : Range(s1.queue[n]) = Range(s.queue[n])
    BY <1>7, <1>9, Zenon DEF SamePlaces
  <2> QED BY <2>1, <2>2, Zenon
<1>17. s2.queue[m] \in Seq(Thread) /\ s2.prio \in [Thread -> Nat]
  BY <1>2, <1>15 DEF State
<1>18. /\ line \in Seq(Thread) /\ IsInjective(line) /\ Sorted(s2.prio, line)
       /\ Range(line) = Range(s2.queue[m]) \ {new}
  BY <1>2, <1>15, <1>17, Removed, Zenon DEF LineFits
<1>19. r = Requeue(s2, m, line) /\ Requeue(s2, m, line) = e
  BY <1>2, Zenon DEF QueueExtract, Requeue
<1> HIDE DEF line, r
<1>20. Relined(s2, m, line, e)
  BY <1>2, <1>15, <1>18, WithLineQueue, Zenon
<1>21. InLine(s, m, Range(s.queue[m]) \ {new}, e)
  BY <1>2, <1>16, <1>18, <1>20, Zenon DEF Relined, InLine
<1>22. e.owner = s2.owner /\ e.prio = s2.prio /\ e.update = s2.update
  BY <1>20, Zenon DEF Relined, SameButQueues
<1>23. e.owner = [s.owner EXCEPT ![m] = new]
       /\ e.owner[m] = new /\ \A n \in Mutex : n # m => e.owner[n] = s.owner[n]
  <2>1. e.owner = [[s.owner EXCEPT ![m] = None] EXCEPT ![m] = new]
    BY <1>7, <1>10, <1>13, <1>15, <1>22, Zenon
  <2> QED BY <1>2, <1>3, <2>1, Zenon
<1>24. (~Waits(e, new)) /\ \A u \in Thread : \A n \in Mutex : On(e, u, n) => On(s, u, n)
  <2>1. new \notin Range(s.queue[m]) \ {new} /\ Range(s.queue[m]) \ {new} \subseteq Range(s.queue[m])
    OBVIOUS
  <2>2. \A u, n : n \in Mutex /\ On(e, u, n) => On(s, u, n)
    BY <1>21, <2>1, Zenon DEF InLine, On
  <2>3. ~On(e, new, m)
    BY <1>21, <2>1, Zenon DEF InLine, On
  <2>4. \A n \in Mutex : n # m => ~On(s, new, n)
    BY <1>10, <1>11, Zenon
  <2> QED BY <2>2, <2>3, <2>4, Zenon DEF Waits
<1>25. NoCircle(e)
  BY <1>1, <1>2, <1>23, <1>24, HandedOver, Zenon
<1>26. OneQueue(e)
  BY <1>1, <1>24, Zenon DEF OneQueue
<1>27. Settled(e, e, 1)
  <2>1. Settled(e, Requeue(s2, m, line), 1)
    BY <1>2, <1>15, <1>18, <1>25, <1>26, RequeueIs, Zenon
  <2> QED BY <1>19, <2>1, Zenon
<1> HIDE DEF e
<1>28. Good(e)
  BY <1>25, <1>26, <1>27, Zenon DEF Good, Settled, SamePlaces
<1>29. Len(e.update) <= Len(s.update) + 2
  <2> DEFINE x == Len(s.update)
             y == Len(s1.update)
             z == Len(e.update)
  <2>1. x \in Nat /\ y \in Nat /\ z \in Nat
    <3>1. \A q \in State : Len(q.update) \in Nat
      BY DEF State
    <3> QED BY <1>1, <1>9, <1>28, <3>1, Zenon DEF Good
  <2>2. y <= x + 1
    BY <1>7, <1>9, Zenon DEF Told
  <2>3. z <= y + 1
    BY <1>13, <1>15, <1>22, Zenon DEF Told
  <2> HIDE DEF x, y, z
  <2>4. z <= x + 2
    BY <2>1, <2>2, <2>3
  <2> QED BY <2>4, Zenon DEF x, z
<1>30. \A u \in Thread : \/ e.prio[u] = s.prio[u]
                       \/ Waits(s, u)
                       \/ Update(u) \in Range(e.update)
  <2>1. \A u \in Thread : s1.prio[u] = s.prio[u] \/ Waits(s, u) \/ Update(u) \in Range(s1.update)
    BY <1>7, <1>8, <1>9, Zenon DEF Told
  <2>2. \A u \in Thread : e.prio[u] = s1.prio[u] \/ Waits(s, u) \/ Update(u) \in Range(e.update)
    BY <1>10, <1>13, <1>14, <1>15, <1>22, Zenon DEF Told
  <2>3. Range(s1.update) \subseteq Range(e.update)
    BY <1>13, <1>15, <1>22, Zenon DEF Told
  <2> QED BY <2>1, <2>2, <2>3, Zenon
<1>31. Surrendered(s, m, new, e)
  BY <1>21, <1>23, <1>28, <1>29, <1>30, Zenon DEF Surrendered
<1> QED BY <1>19, <1>31, Zenon DEF a, s1, b, s2, r

------------------------------------------------------------------------------
(***************************************************************************)
(* The steps.  From the records back to the variables.                     *)
(***************************************************************************)
LEMMA NowIs ==
  /\ Now.owner = owner /\ Now.prio = prio /\ Now.queue = queue /\ Now.update = <<>>
  /\ Now.ceiling = ceiling /\ Now.real = real /\ Now.qprio = qprio
  /\ \A t, m : On(Now, t, m) <=> OnQueue(t, m)
  /\ \A t : Waits(Now, t) <=> Waiting(t)
<1>1. /\ Now.owner = owner /\ Now.prio = prio /\ Now.queue = queue /\ Now.update = <<>>
      /\ Now.ceiling = ceiling /\ Now.real = real /\ Now.qprio = qprio
  BY DEF Now
<1> QED BY <1>1, Zenon DEF On, Waits, OnQueue, Waiting

LEMMA BecomesGood ==
  ASSUME NEW r, Good(r), Becomes(r)
  PROVE  /\ PriorityInv'
         /\ owner' = r.owner /\ prio' = r.prio /\ queue' = r.queue
         /\ \A t, m : OnQueue(t, m)' <=> On(r, t, m)
         /\ \A t : Waiting(t)' <=> Waits(r, t)
<1> DEFINE q == Now'
<1>1. /\ owner' = r.owner /\ ceiling' = r.ceiling /\ real' = r.real
      /\ prio' = r.prio /\ qprio' = r.qprio /\ queue' = r.queue
  BY Zenon DEF Becomes
<1>2. r \in State
  BY Zenon DEF Good
<1>3. /\ q \in State
      /\ q.owner = r.owner /\ q.ceiling = r.ceiling /\ q.real = r.real
      /\ q.prio = r.prio /\ q.qprio = r.qprio /\ q.queue = r.queue
  BY <1>1, <1>2 DEF Now, State
<1> HIDE DEF q
<1>4. \A t, m : On(q, t, m) <=> On(r, t, m)
  BY <1>3, Zenon DEF On
<1>5. OneQueue(q)
  BY <1>4, Zenon DEF Good, OneQueue
<1>6. NoCircle(q)
  BY <1>3, <1>4, Zenon DEF Good, NoCircle
<1>7. \A m \in Mutex : LineFits(q, m)
  BY <1>3, Zenon DEF Good, LineFits
<1>8. \A t \in Thread : Fits(q, t)
  <2>1. \A t \in Thread : Contributions(q, t) = Contributions(r, t)
    BY <1>3, ContributionsSame
  <2> QED BY <1>3, <2>1, Zenon DEF Good, Fits
<1>9. Good(q)
  BY <1>3, <1>5, <1>6, <1>7, <1>8, Zenon DEF Good
<1>10. PriorityInv'
  BY <1>9, Zenon DEF PriorityInv, q
<1>11. \A t, m : OnQueue(t, m)' <=> On(r, t, m)
  BY <1>1, Zenon DEF OnQueue, On
<1>12. \A t : Waiting(t)' <=> Waits(r, t)
  BY <1>1, Zenon DEF OnQueue, On, Waits, Waiting
<1> QED BY <1>1, <1>10, <1>11, <1>12

\* The steps that a caller has still to do: at most two priority updates, and
\* each thread of U that sleeps is unblocked once.
Fitting(steps, U) ==
  /\ steps \in Seq(Step)
  /\ TwoUpdates(steps)
  /\ \A i \in DOMAIN steps : steps[i].op = "unblock" =>
       /\ steps[i].thread \in U
       /\ pc[steps[i].thread] = "wait"
       /\ \A j \in DOMAIN steps : steps[j] = steps[i] => j = i

\* A context that can call something has no step still to do, and waits for
\* nothing.
LEMMA CallerIs ==
  ASSUME WaitInv, NEW c \in Context, CanCall(c)
  PROVE  /\ todo[c] = <<>>
         /\ c \in Thread => pc[c] = "run" /\ ~Waiting(c)
         /\ \A d \in Context : \A i \in DOMAIN todo[d] :
              todo[d][i].op = "unblock" => todo[d][i].thread # c
<1>1. todo[c] = <<>> /\ (c \in Thread => pc[c] = "run")
  BY Zenon DEF CanCall, DispatchDisabled
<1>2. c \in Thread => ~Waiting(c)
  BY <1>1, SMTT(30) DEF WaitInv, OnQueueWaits, Waiting
<1>3. ASSUME NEW d \in Context, NEW i \in DOMAIN todo[d],
             todo[d][i].op = "unblock", todo[d][i].thread = c
      PROVE  FALSE
  <2>1. pc[c] = "wait"
    BY <1>3, Zenon DEF WaitInv, UnblockPending
  <2>2. todo[d] \in Seq(Step)
    BY DEF WaitInv, WaitTypes
  <2>3. todo[d][i] \in Step
    BY <1>3, <2>2
  <2>4. c \in Thread
    BY <1>3, <2>3 DEF Step
  <2> QED BY <1>1, <2>1, <2>4
<1> QED BY <1>1, <1>2, <1>3, Zenon

\* What an operation of context c does to the waiting threads: nobody else
\* begins to wait, and the outcome is decided for each one that stops waiting.
Operates(c, steps, U) ==
  /\ Later(c, steps)
  /\ Fitting(steps, U)
  /\ UNCHANGED blocked
  /\ \A u \in Thread : u # c => pc'[u] = pc[u]
  /\ \A u \in U : Waiting(u) /\ ~Waiting(u)'
  /\ c \in Thread => pc'[c] = "run" \/ Waiting(c)'
  /\ \A u \in Thread, m \in Mutex :
       OnQueue(u, m)' =>
         \/ OnQueue(u, m) /\ wanted'[u] = wanted[u] /\ status'[u] = status[u]
         \/ u = c /\ pc'[u] = "commit" /\ wanted'[u] = m /\ status'[u] = "SUCCESSFUL"
  /\ \A u \in Thread :
       u # c /\ ~Waiting(u)' /\ wanted'[u] # None =>
         \/ /\ ~Waiting(u) /\ wanted'[u] = wanted[u] /\ status'[u] = status[u]
            /\ owner'[wanted[u]] = u <=> owner[wanted[u]] = u
         \/ Waiting(u) /\ (owner'[wanted'[u]] = u <=> status'[u] = "SUCCESSFUL")

PendingAt(d, i, x) ==
  /\ pc'[x] = "wait" /\ blocked'[x] /\ ~Waiting(x)'
  /\ \A e \in Context : \A j \in DOMAIN todo'[e] :
       todo'[e][j] = todo'[d][i] => e = d /\ j = i

StillPending ==
  \A d \in Context : \A i \in DOMAIN todo'[d] : todo'[d][i].op = "unblock" =>
    \A x : todo'[d][i].thread = x => PendingAt(d, i, x)

LEMMA PendingFrom ==
  ASSUME StillPending
  PROVE  UnblockPending'
<1> SUFFICES ASSUME NEW d \in Context, NEW i \in DOMAIN todo'[d],
                    todo'[d][i].op = "unblock"
             PROVE  /\ pc'[todo'[d][i].thread] = "wait"
                    /\ blocked'[todo'[d][i].thread]
                    /\ \A m \in Mutex : todo'[d][i].thread \notin Range(queue'[m])
                    /\ \A e \in Context : \A j \in DOMAIN todo'[e] :
                         todo'[e][j] = todo'[d][i] => e = d /\ j = i
  BY Zenon DEF UnblockPending, Waiting, OnQueue
<1>1. PICK x : todo'[d][i].thread = x
  OBVIOUS
<1>2. PendingAt(d, i, x)
  BY <1>1, Zenon DEF StillPending
<1>3. \A m \in Mutex : x \notin Range(queue'[m])
  BY <1>2, Zenon DEF PendingAt, Waiting, OnQueue
<1> QED BY <1>1, <1>2, <1>3, Zenon DEF PendingAt

LEMMA OperatesUnblock ==
  ASSUME WaitInv, NEW c \in Context, CanCall(c), NEW steps, NEW U, U \subseteq Thread,
         Operates(c, steps, U)
  PROVE  /\ UnblockPending'
         /\ \A d \in Context : TwoUpdates(todo[d])'
<1>1. /\ todo[c] = <<>>
      /\ c \in Thread => pc[c] = "run" /\ ~Waiting(c)
      /\ \A d \in Context : \A i \in DOMAIN todo[d] :
           todo[d][i].op = "unblock" => todo[d][i].thread # c
  BY CallerIs, Zenon
<1>2. todo \in [Context -> Seq(Step)] /\ todo' = [todo EXCEPT ![c] = steps]
  BY Zenon DEF WaitInv, WaitTypes, Operates, Later
<1>3. todo'[c] = steps /\ \A d \in Context : d # c => todo'[d] = todo[d]
  BY <1>2
<1>4. steps \in Seq(Step) /\ TwoUpdates(steps)
  BY Zenon DEF Operates, Fitting
<1>5. \A d \in Context : TwoUpdates(todo[d])'
  <2>1. \A d \in Context : TwoUpdates(todo[d])
    BY Zenon DEF WaitInv
  <2> QED BY <1>3, <1>4, <2>1, Zenon DEF TwoUpdates
<1>6. ASSUME NEW u \in Thread, ~Waiting(u), u # c
      PROVE  ~Waiting(u)'
  <2>1. \A m \in Mutex : OnQueue(u, m)' => OnQueue(u, m)
    BY <1>6, Zenon DEF Operates
  <2> QED BY <1>6, <2>1, Zenon DEF Waiting
<1>7. ASSUME NEW u \in Thread, Waiting(u), pc[u] = "wait" PROVE blocked[u]
  <2>1. PICK m \in Mutex : OnQueue(u, m)
    BY <1>7, Zenon DEF Waiting
  <2>2. pc[u] = "commit" \/ blocked[u]
    BY <2>1, Zenon DEF WaitInv, OnQueueWaits
  <2> QED BY <1>7, <2>2
<1>8. \A u \in Thread : pc[u] = "wait" => u # c /\ pc'[u] = "wait" /\ blocked'[u] = blocked[u]
  BY <1>1 DEF Operates
<1>9. ASSUME NEW d \in Context, NEW i \in DOMAIN todo[d], todo[d][i].op = "unblock",
             NEW x, todo[d][i].thread = x
      PROVE  /\ x \in Thread /\ x # c /\ pc[x] = "wait" /\ blocked[x] /\ ~Waiting(x)
             /\ \A e \in Context : \A j \in DOMAIN todo[e] :
                  todo[e][j] = todo[d][i] => e = d /\ j = i
  <2>1. todo[d] \in Seq(Step)
    BY <1>2
  <2>2. todo[d][i] \in Step
    BY <1>9, <2>1
  <2>3. x \in Thread
    BY <1>9, <2>2 DEF Step
  <2> QED BY <1>1, <1>9, <2>3, Zenon DEF WaitInv, UnblockPending
<1>10. ASSUME NEW i \in DOMAIN steps, steps[i].op = "unblock", NEW x, steps[i].thread = x
       PROVE  /\ x \in Thread /\ Waiting(x) /\ ~Waiting(x)'
              /\ pc[x] = "wait" /\ blocked[x]
              /\ \A j \in DOMAIN steps : steps[j] = steps[i] => j = i
  <2>1. /\ x \in U /\ pc[x] = "wait"
        /\ \A j \in DOMAIN steps : steps[j] = steps[i] => j = i
    BY <1>10, Zenon DEF Operates, Fitting
  <2>2. x \in Thread /\ Waiting(x) /\ ~Waiting(x)'
    BY <2>1, Zenon DEF Operates
  <2> QED BY <1>7, <2>1, <2>2, Zenon
<1>11. ASSUME NEW d \in Context, NEW i \in DOMAIN todo'[d], todo'[d][i].op = "unblock",
              NEW x, todo'[d][i].thread = x
       PROVE  /\ pc'[x] = "wait" /\ blocked'[x] /\ ~Waiting(x)'
              /\ \A e \in Context : \A j \in DOMAIN todo'[e] :
                   todo'[e][j] = todo'[d][i] => e = d /\ j = i
  <2>1. CASE d = c
    <3>1. i \in DOMAIN steps /\ todo'[d][i] = steps[i] /\ steps[i].op = "unblock"
          /\ steps[i].thread = x
      BY <1>3, <1>11, <2>1, Zenon
    <3>2. /\ x \in Thread /\ Waiting(x) /\ ~Waiting(x)'
          /\ pc[x] = "wait" /\ blocked[x]
          /\ \A j \in DOMAIN steps : steps[j] = steps[i] => j = i
      BY <1>10, <3>1, SMTT(30)
    <3>3. ASSUME NEW e \in Context, NEW j \in DOMAIN todo'[e], todo'[e][j] = steps[i]
          PROVE  e = d /\ j = i
      <4>1. CASE e = c
        BY <1>3, <2>1, <3>2, <3>3, <4>1, Zenon
      <4>2. CASE e # c
        <5>1. j \in DOMAIN todo[e] /\ todo[e][j] = steps[i]
          BY <1>3, <3>3, <4>2, Zenon
        <5>2. todo[e][j].op = "unblock" /\ todo[e][j].thread = x
          BY <3>1, <5>1, Zenon
        <5>3. ~Waiting(x)
          BY <1>9, <5>1, <5>2, SMTT(30)
        <5> QED BY <3>2, <5>3, Zenon
      <4> QED BY <4>1, <4>2
    <3>4. pc'[x] = "wait" /\ blocked'[x]
      BY <1>8, <3>2, Zenon
    <3> QED BY <3>1, <3>2, <3>3, <3>4, Zenon
  <2>2. CASE d # c
    <3>1. i \in DOMAIN todo[d] /\ todo'[d][i] = todo[d][i] /\ todo[d][i].op = "unblock"
          /\ todo[d][i].thread = x
      BY <1>3, <1>11, <2>2, Zenon
    <3>2. /\ x \in Thread /\ x # c /\ pc[x] = "wait" /\ blocked[x] /\ ~Waiting(x)
          /\ \A e \in Context : \A j \in DOMAIN todo[e] :
               todo[e][j] = todo[d][i] => e = d /\ j = i
      BY <1>9, <3>1, SMTT(30)
    <3>3. ASSUME NEW e \in Context, NEW j \in DOMAIN todo'[e], todo'[e][j] = todo[d][i]
          PROVE  e = d /\ j = i
      <4>1. CASE e = c
        <5>1. j \in DOMAIN steps /\ steps[j] = todo[d][i]
          BY <1>3, <3>3, <4>1, Zenon
        <5>2. steps[j].op = "unblock" /\ steps[j].thread = x
          BY <3>1, <5>1, Zenon
        <5>3. Waiting(x)
          BY <1>10, <5>1, <5>2, SMTT(30)
        <5> QED BY <3>2, <5>3, Zenon
      <4>2. CASE e # c
        <5>1. j \in DOMAIN todo[e] /\ todo[e][j] = todo[d][i]
          BY <1>3, <3>3, <4>2, Zenon
        <5> QED BY <3>2, <5>1, Zenon
      <4> QED BY <4>1, <4>2
    <3>4. ~Waiting(x)'
      BY <1>6, <3>2
    <3>5. pc'[x] = "wait" /\ blocked'[x]
      BY <1>8, <3>2, Zenon
    <3> QED BY <3>1, <3>3, <3>4, <3>5, Zenon
  <2> QED BY <2>1, <2>2
<1>12. UnblockPending'
  <2>1. StillPending
    BY <1>11, Zenon DEF StillPending, PendingAt
  <2> QED BY <2>1, PendingFrom, Zenon
<1> QED BY <1>5, <1>12

LEMMA OperatesKeeps ==
  ASSUME WaitInv, NEW c \in Context, CanCall(c), NEW steps, NEW U, U \subseteq Thread,
         Operates(c, steps, U), WaitTypes', OwnerWhileWaiting'
  PROVE  WaitInv'
<1>1. c \in Thread => pc[c] = "run" /\ ~Waiting(c)
  BY CallerIs, Zenon
<1>2. UnblockPending' /\ \A d \in Context : TwoUpdates(todo[d])'
  BY OperatesUnblock, Zenon
<1>3. OnQueueWaits'
  <2> SUFFICES ASSUME NEW u \in Thread, NEW m \in Mutex, OnQueue(u, m)'
               PROVE  /\ pc'[u] = "commit" \/ (pc'[u] = "wait" /\ blocked'[u])
                      /\ wanted'[u] = m
                      /\ status'[u] = "SUCCESSFUL"
    BY Zenon DEF OnQueueWaits
  <2>1. CASE OnQueue(u, m) /\ wanted'[u] = wanted[u] /\ status'[u] = status[u]
    <3>1. u # c
      BY <1>1, <2>1, Zenon DEF Waiting
    <3>2. pc'[u] = pc[u] /\ blocked' = blocked
      BY <3>1, Zenon DEF Operates
    <3>3. /\ pc[u] = "commit" \/ (pc[u] = "wait" /\ blocked[u])
          /\ wanted[u] = m /\ status[u] = "SUCCESSFUL"
      BY <2>1, Zenon DEF WaitInv, OnQueueWaits
    <3> QED BY <2>1, <3>2, <3>3, Zenon
  <2>2. CASE u = c /\ pc'[u] = "commit" /\ wanted'[u] = m /\ status'[u] = "SUCCESSFUL"
    BY <2>2, Zenon
  <2> QED BY <2>1, <2>2, Zenon DEF Operates
<1>4. Decided'
  <2> SUFFICES ASSUME NEW u \in Thread, pc'[u] # "run", ~Waiting(u)', wanted'[u] # None
               PROVE  owner'[wanted'[u]] = u <=> status'[u] = "SUCCESSFUL"
    BY Zenon DEF Decided
  <2>1. u # c /\ pc'[u] = pc[u]
    BY Zenon DEF Operates
  <2>2. CASE /\ ~Waiting(u) /\ wanted'[u] = wanted[u] /\ status'[u] = status[u]
             /\ owner'[wanted[u]] = u <=> owner[wanted[u]] = u
    <3>1. owner[wanted[u]] = u <=> status[u] = "SUCCESSFUL"
      BY <2>1, <2>2, Zenon DEF WaitInv, Decided
    <3> QED BY <2>2, <3>1, Zenon
  <2> QED BY <2>1, <2>2, Zenon DEF Operates
<1> QED BY <1>2, <1>3, <1>4, Zenon DEF WaitInv

\* A registered update has a place in the list, and is about its thread.
LEMMA UpdatePlace ==
  ASSUME NEW steps, NEW u, Update(u) \in Range(steps)
  PROVE  \E i \in DOMAIN steps : steps[i].thread = u
<1>1. PICK i \in DOMAIN steps : steps[i] = Update(u)
  BY DEF Range
<1>2. Update(u).thread = u
  BY DEF Update
<1> QED BY <1>1, <1>2, Zenon

\* The scheduler gets to know the new priorities of the threads that run.
LEMMA OperatesTells ==
  ASSUME WaitInv, NEW c \in Context, CanCall(c), NEW steps,
         Later(c, steps), UNCHANGED <<blocked, sched>>,
         \A u \in Thread : u # c => pc'[u] = pc[u],
         \A u \in Thread : \/ prio'[u] = prio[u]
                           \/ Waiting(u)
                           \/ pc'[u] = "commit"
                           \/ Update(u) \in Range(steps)
  PROVE  KeepsInformed
<1>1. todo[c] = <<>> /\ (c \in Thread => pc[c] = "run" /\ ~Waiting(c))
  BY CallerIs, Zenon
<1>2. todo'[c] = steps /\ \A d \in Context : d # c => todo'[d] = todo[d]
  BY DEF WaitInv, WaitTypes, Later
<1> SUFFICES ASSUME NEW u \in Thread, Informed(u)
             PROVE  \/ blocked'[u]
                    \/ pc'[u] = "commit"
                    \/ \E d \in Context : \E i \in DOMAIN todo'[d] : todo'[d][i].thread = u
                    \/ sched'[u] = prio'[u]
  BY Zenon DEF KeepsInformed, Informed
<1>3. CASE Waiting(u)
  <2>1. u # c
    BY <1>1, <1>3, Zenon
  <2>2. pc[u] = "commit" \/ blocked[u]
    BY <1>3, Zenon DEF Waiting, WaitInv, OnQueueWaits
  <2> QED BY <2>1, <2>2, Zenon
<1>4. CASE Update(u) \in Range(steps)
  <2>1. \E i \in DOMAIN steps : steps[i].thread = u
    BY <1>4, UpdatePlace, Zenon
  <2> QED BY <1>2, <2>1, Zenon
<1>5. CASE prio'[u] = prio[u]
  <2>1. CASE blocked[u]
    BY <2>1, Zenon
  <2>2. CASE pc[u] = "commit"
    <3>1. u # c
      BY <1>1, <2>2, Zenon
    <3> QED BY <2>2, <3>1, Zenon
  <2>3. CASE \E d \in Context : \E i \in DOMAIN todo[d] : todo[d][i].thread = u
    <3>1. PICK d \in Context : \E i \in DOMAIN todo[d] : todo[d][i].thread = u
      BY <2>3
    <3>2. d # c
      BY <1>1, <3>1, SMTT(30)
    <3> QED BY <1>2, <3>1, <3>2, Zenon
  <2>4. CASE sched[u] = prio[u]
    BY <1>5, <2>4, Zenon
  <2> QED BY <2>1, <2>2, <2>3, <2>4, Zenon DEF Informed
<1> QED BY <1>3, <1>4, <1>5, Zenon

\* The threads U leave the queue of m, whose owner may change.
Leave(m, U) ==
  /\ \A u \in Thread, n \in Mutex :
       OnQueue(u, n)' <=> OnQueue(u, n) /\ (n = m => u \notin U)
  /\ \A n \in Mutex : n # m => owner'[n] = owner[n]

NewOwner(c, m, U) ==
  m \in Mutex =>
    /\ \/ owner'[m] = owner[m]
       \/ owner[m] \in {None, c} /\ owner'[m] \in {None, c} \cup U
    /\ (\E u \in Thread : OnQueue(u, m)') => owner'[m] # None

Outcome(m, U) ==
  /\ wanted' \in [Thread -> Mutex \cup {None}]
  /\ status' \in [Thread -> {"SUCCESSFUL", "TIMEOUT", "UNAVAILABLE"}]
  /\ \A u \in Thread : u \notin U => wanted'[u] = wanted[u] /\ status'[u] = status[u]
  /\ \A u \in U : \/ wanted'[u] = None
                  \/ /\ wanted'[u] = wanted[u]
                     /\ owner'[m] = u <=> status'[u] = "SUCCESSFUL"

LEMMA LeaveKeeps ==
  ASSUME MutexInv, PriorityInv', NEW c \in Context, CanCall(c), NEW steps,
         Later(c, steps), UNCHANGED <<pc, blocked, sched>>,
         NEW m, NEW U, U = {} \/ (m \in Mutex /\ U \subseteq Range(queue[m])),
         Fitting(steps, U),
         Leave(m, U), NewOwner(c, m, U), Outcome(m, U)
  PROVE  MutexInv'
<1>1. Now \in State /\ OneQueue(Now) /\ WaitInv
  BY Zenon DEF MutexInv, PriorityInv, Good
<1>2. queue \in [Mutex -> Seq(Thread)] /\ OneQueue(Now)
  BY <1>1, Zenon DEF State, Now
<1>3. queue' \in [Mutex -> Seq(Thread)]
  <2>1. Now' \in State
    BY Zenon DEF PriorityInv, Good
  <2> QED BY <2>1, Zenon DEF State, Now
<1>4. U \subseteq Thread
  BY <1>2 DEF Range
<1>5. c \in Thread => pc[c] = "run" /\ ~Waiting(c)
  BY <1>1, CallerIs, Zenon
<1>6. \A u \in U : m \in Mutex /\ OnQueue(u, m)
  BY Zenon DEF OnQueue
<1>7. \A u \in Thread : \A n1, n2 \in Mutex : OnQueue(u, n1) /\ OnQueue(u, n2) => n1 = n2
  BY <1>1, NowIs, Zenon DEF OneQueue
<1>8. \A u \in U : Waiting(u) /\ ~Waiting(u)'
  <2> SUFFICES ASSUME NEW u \in U PROVE Waiting(u) /\ ~Waiting(u)'
    OBVIOUS
  <2>1. u \in Thread /\ m \in Mutex /\ OnQueue(u, m)
    BY <1>4, <1>6, Zenon
  <2>2. \A n \in Mutex : ~OnQueue(u, n)'
    BY <1>7, <2>1, Zenon DEF Leave
  <2> QED BY <2>1, <2>2, Zenon DEF Waiting
<1>9. \A u \in Thread, n \in Mutex : OnQueue(u, n)' => OnQueue(u, n) /\ u \notin U
  <2> SUFFICES ASSUME NEW u \in Thread, NEW n \in Mutex, OnQueue(u, n)'
               PROVE  OnQueue(u, n) /\ u \notin U
    BY Zenon
  <2>1. OnQueue(u, n)
    BY Zenon DEF Leave
  <2>2. u \notin U
    BY <1>8, Zenon DEF Waiting
  <2> QED BY <2>1, <2>2
<1>10. \A u \in Thread : u \notin U /\ Waiting(u) => Waiting(u)'
  <2> SUFFICES ASSUME NEW u \in Thread, u \notin U, NEW n \in Mutex, OnQueue(u, n)
               PROVE  Waiting(u)'
    BY Zenon DEF Waiting
  <2>1. OnQueue(u, n)'
    BY Zenon DEF Leave
  <2> QED BY <2>1, Zenon DEF Waiting
<1>11. ASSUME NEW u \in Thread, u # c, ~Waiting(u)', wanted'[u] # None
       PROVE  \/ /\ ~Waiting(u) /\ wanted'[u] = wanted[u] /\ status'[u] = status[u]
                 /\ owner'[wanted[u]] = u <=> owner[wanted[u]] = u
              \/ Waiting(u) /\ (owner'[wanted'[u]] = u <=> status'[u] = "SUCCESSFUL")
  <2>1. CASE u \in U
    <3>1. wanted[u] = m
      BY <1>1, <1>6, <2>1, Zenon DEF WaitInv, OnQueueWaits
    <3>2. wanted'[u] = wanted[u] /\ (owner'[m] = u <=> status'[u] = "SUCCESSFUL")
      BY <1>11, <2>1, Zenon DEF Outcome
    <3> QED BY <1>8, <2>1, <3>1, <3>2, Zenon
  <2>2. CASE u \notin U
    <3>1. ~Waiting(u)
      BY <1>10, <1>11, <2>2, Zenon
    <3>2. wanted'[u] = wanted[u] /\ status'[u] = status[u]
      BY <2>2, Zenon DEF Outcome
    <3>3. wanted[u] \in Mutex
      BY <1>1, <1>11, <3>2, Zenon DEF WaitInv, WaitTypes
    <3>4. owner'[wanted[u]] = u <=> owner[wanted[u]] = u
      <4>1. CASE wanted[u] # m
        BY <3>3, <4>1, Zenon DEF Leave
      <4>2. CASE wanted[u] = m
        <5>1. CASE owner'[m] = owner[m]
          BY <4>2, <5>1, Zenon
        <5>2. CASE owner[m] \in {None, c} /\ owner'[m] \in {None, c} \cup U
          <6>1. u \notin {None, c} /\ u \notin {None, c} \cup U
            BY <1>11, <2>2, CoreMutexAssumption, Zenon
          <6> QED BY <4>2, <5>2, <6>1, Zenon
        <5> QED BY <3>3, <4>2, <5>1, <5>2, Zenon DEF NewOwner
      <4> QED BY <4>1, <4>2
    <3> QED BY <3>1, <3>2, <3>4, Zenon
  <2> QED BY <2>1, <2>2, Zenon
<1>12. Operates(c, steps, U)
  <2>1. c \in Thread => pc'[c] = "run"
    BY <1>5, Zenon
  <2>2. \A u \in Thread, n \in Mutex : OnQueue(u, n)' =>
          OnQueue(u, n) /\ wanted'[u] = wanted[u] /\ status'[u] = status[u]
    BY <1>9, Zenon DEF Outcome
  <2> QED BY <1>8, <1>11, <2>1, <2>2, Zenon DEF Operates
<1>13. WaitTypes'
  <2>1. steps \in Seq(Step)
    BY Zenon DEF Fitting
  <2>2. todo' \in [Context -> Seq(Step)]
    BY <1>1, <2>1, SMTT(30) DEF WaitInv, WaitTypes, Later
  <2> QED BY <1>1, <2>2, Zenon DEF WaitInv, WaitTypes, Outcome
<1>14. OwnerWhileWaiting'
  <2> SUFFICES ASSUME NEW n \in Mutex, queue'[n] # <<>> PROVE owner'[n] # None
    BY Zenon DEF OwnerWhileWaiting
  <2>1. PICK u \in Thread : OnQueue(u, n)'
    <3>1. queue'[n] \in Seq(Thread)
      BY <1>3, SMTT(30)
    <3>2. 1 \in DOMAIN queue'[n] /\ queue'[n][1] \in Thread
      BY <3>1
    <3> QED BY <3>2, Zenon DEF OnQueue, Range
  <2>2. CASE n = m
    BY <2>1, <2>2, Zenon DEF NewOwner
  <2>3. CASE n # m
    <3>1. OnQueue(u, n)
      BY <2>1, <2>3, Zenon DEF Leave
    <3>2. queue[n] # <<>>
      BY <3>1 DEF OnQueue, Range
    <3> QED BY <1>1, <2>3, <3>2, Zenon DEF Leave, WaitInv, OwnerWhileWaiting
  <2> QED BY <2>2, <2>3
<1>15. WaitInv'
  BY <1>1, <1>4, <1>12, <1>13, <1>14, OperatesKeeps, Zenon
<1> QED BY <1>15, Zenon DEF MutexInv

\* The steps after the operations: the priority updates and the unblock of a
\* thread, in the one or the other order.
LEMMA UpdatesFit ==
  ASSUME NEW q \in Seq(Updates), Len(q) <= 2
  PROVE  /\ Fitting(q, {})
         /\ \A i \in DOMAIN q : q[i] \in Step /\ q[i].op = "update"
<1>1. Len(q) \in Nat /\ DOMAIN q = 1 .. Len(q) /\ \A i \in DOMAIN q : q[i] \in Updates
  OBVIOUS
<1>2. \A x \in Updates : x \in Step /\ x.op = "update"
  BY DEF Updates, Update, Step
<1>3. \A i \in DOMAIN q : q[i] \in Step /\ q[i].op = "update"
  BY <1>1, <1>2, Zenon
<1>4. q \in Seq(Step)
  <2>1. q \in [1 .. Len(q) -> Step]
    BY <1>1, <1>3
  <2> QED BY <1>1, <2>1
<1>5. TwoUpdates(q)
  <2>1. \A i \in DOMAIN q : i \in {1, 2}
    BY <1>1
  <2>2. 1 \in Nat /\ 2 \in Nat
    OBVIOUS
  <2> QED BY <2>1, <2>2, Zenon DEF TwoUpdates
<1> QED BY <1>3, <1>4, <1>5 DEF Fitting

LEMMA UpdatesThenUnblock ==
  ASSUME NEW q \in Seq(Updates), Len(q) <= 2, NEW t \in Thread
  PROVE  /\ Fitting(q \o UnblockIf(t), {t})
         /\ Range(q) \subseteq Range(q \o UnblockIf(t))
<1>1. Fitting(q, {}) /\ \A i \in DOMAIN q : q[i] \in Step /\ q[i].op = "update"
  BY UpdatesFit, Zenon
<1>2. q \in Seq(Step)
  BY <1>1, Zenon DEF Fitting
<1>3. CASE pc[t] # "wait"
  <2>1. UnblockIf(t) = <<>>
    BY <1>3, Zenon DEF UnblockIf
  <2>2. q \o <<>> = q
    BY <1>2
  <2> QED BY <1>1, <2>1, <2>2 DEF Fitting
<1>4. CASE pc[t] = "wait"
  <2> DEFINE n == Len(q)
             x == Unblock(t)
             r == q \o <<x>>
  <2>1. UnblockIf(t) = <<x>>
    BY <1>4, Zenon DEF UnblockIf
  <2>2. x \in Step /\ x.op = "unblock" /\ x.thread = t
    BY DEF Unblock, Step
  <2> HIDE DEF x
  <2>3. /\ r \in Seq(Step) /\ n \in Nat /\ DOMAIN r = 1 .. n + 1 /\ DOMAIN q = 1 .. n
        /\ r[n + 1] = x /\ \A i \in 1 .. n : r[i] = q[i]
    BY <1>2, <2>2
  <2> HIDE DEF r, n
  <2>4. \A i \in 1 .. n + 1 : i = n + 1 \/ i \in 1 .. n
    BY <2>3
  <2>5. \A i \in 1 .. n : r[i].op = "update"
    BY <1>1, <2>3, Zenon
  <2>6. \A i \in DOMAIN r : r[i].op = "unblock" => i = n + 1
    BY <2>3, <2>4, <2>5
  <2>7. TwoUpdates(r)
    <3>1. \A i \in DOMAIN r : r[i].op = "update" => i \in 1 .. n
      BY <2>2, <2>3, <2>4
    <3>2. \A i \in 1 .. n : i \in {1, 2}
      BY <2>3 DEF n
    <3>3. 1 \in Nat /\ 2 \in Nat
      OBVIOUS
    <3> QED BY <3>1, <3>2, <3>3, Zenon DEF TwoUpdates
  <2>8. \A i \in DOMAIN r : r[i].op = "unblock" =>
          r[i].thread = t /\ \A j \in DOMAIN r : r[j] = r[i] => j = i
    <3> SUFFICES ASSUME NEW i \in DOMAIN r, r[i].op = "unblock"
                 PROVE  r[i].thread = t /\ \A j \in DOMAIN r : r[j] = r[i] => j = i
      OBVIOUS
    <3>1. i = n + 1 /\ r[i] = x
      BY <2>3, <2>6, Zenon
    <3> QED BY <2>2, <2>6, <3>1, Zenon
  <2>9. Fitting(r, {t})
    <3>1. t \in {t}
      OBVIOUS
    <3> QED BY <1>4, <2>3, <2>7, <2>8, <3>1, Zenon DEF Fitting
  <2>10. Range(q) \subseteq Range(r)
    <3>1. \A i \in 1 .. n : i \in DOMAIN r
      BY <2>3
    <3> QED BY <2>3, <3>1 DEF Range
  <2> QED BY <2>1, <2>9, <2>10, Zenon DEF r
<1> QED BY <1>3, <1>4

LEMMA UnblockThenUpdates ==
  ASSUME NEW q \in Seq(Updates), Len(q) <= 2, NEW t \in Thread
  PROVE  /\ Fitting(UnblockIf(t) \o q, {t})
         /\ Range(q) \subseteq Range(UnblockIf(t) \o q)
<1>1. Fitting(q, {}) /\ \A i \in DOMAIN q : q[i] \in Step /\ q[i].op = "update"
  BY UpdatesFit, Zenon
<1>2. q \in Seq(Step)
  BY <1>1, Zenon DEF Fitting
<1>3. CASE pc[t] # "wait"
  <2>1. UnblockIf(t) = <<>>
    BY <1>3, Zenon DEF UnblockIf
  <2>2. <<>> \o q = q
    BY <1>2
  <2> QED BY <1>1, <2>1, <2>2 DEF Fitting
<1>4. CASE pc[t] = "wait"
  <2> DEFINE n == Len(q)
             x == Unblock(t)
             r == <<x>> \o q
  <2>1. UnblockIf(t) = <<x>>
    BY <1>4, Zenon DEF UnblockIf
  <2>2. x \in Step /\ x.op = "unblock" /\ x.thread = t
    BY DEF Unblock, Step
  <2> HIDE DEF x
  <2>3. /\ r \in Seq(Step) /\ n \in Nat /\ DOMAIN r = 1 .. n + 1 /\ DOMAIN q = 1 .. n
        /\ r[1] = x /\ \A i \in 1 .. n : r[1 + i] = q[i]
    BY <1>2, <2>2
  <2> HIDE DEF r, n
  <2>4. \A i \in 1 .. n + 1 : i = 1 \/ (i - 1 \in 1 .. n /\ 1 + (i - 1) = i)
    BY <2>3
  <2>5. \A i \in 1 .. n + 1 : i # 1 => r[i].op = "update"
    <3> SUFFICES ASSUME NEW i \in 1 .. n + 1, i # 1 PROVE r[i].op = "update"
      OBVIOUS
    <3>1. r[1 + (i - 1)] = q[i - 1] /\ q[i - 1].op = "update"
      BY <1>1, <2>3, <2>4, Zenon
    <3> QED BY <2>4, <3>1, Zenon
  <2>6. \A i \in DOMAIN r : r[i].op = "unblock" => i = 1
    BY <2>3, <2>5
  <2>7. TwoUpdates(r)
    <3>1. \A i \in DOMAIN r : r[i].op = "update" => i # 1
      BY <2>2, <2>3
    <3>2. \A i \in DOMAIN r : i # 1 => i \in {2, 3}
      BY <2>3 DEF n
    <3>3. 2 \in Nat /\ 3 \in Nat
      OBVIOUS
    <3> QED BY <3>1, <3>2, <3>3, Zenon DEF TwoUpdates
  <2>8. \A i \in DOMAIN r : r[i].op = "unblock" =>
          r[i].thread = t /\ \A j \in DOMAIN r : r[j] = r[i] => j = i
    <3> SUFFICES ASSUME NEW i \in DOMAIN r, r[i].op = "unblock"
                 PROVE  r[i].thread = t /\ \A j \in DOMAIN r : r[j] = r[i] => j = i
      OBVIOUS
    <3>1. i = 1 /\ r[i] = x
      BY <2>3, <2>6, Zenon
    <3> QED BY <2>2, <2>6, <3>1, Zenon
  <2>9. Fitting(r, {t})
    <3>1. t \in {t}
      OBVIOUS
    <3> QED BY <1>4, <2>3, <2>7, <2>8, <3>1, Zenon DEF Fitting
  <2>10. Range(q) \subseteq Range(r)
    <3>1. \A i \in 1 .. n : 1 + i \in DOMAIN r
      BY <2>3
    <3> QED BY <2>3, <3>1 DEF Range
  <2> QED BY <2>1, <2>9, <2>10, Zenon DEF r
<1> QED BY <1>3, <1>4, SMTT(30)

\* _Thread_queue_Flush_critical(): each of the first i threads of the line that
\* sleeps is unblocked once.
Flushed(line, i, q) ==
  /\ q \in Seq(Step)
  /\ \A j \in DOMAIN q : /\ q[j].op = "unblock"
                         /\ pc[q[j].thread] = "wait"
                         /\ \E k \in 1 .. i : q[j].thread = line[k]
  /\ \A j, k \in DOMAIN q : q[j] = q[k] => j = k

LEMMA FlushedOneMore ==
  ASSUME NEW line \in Seq(Thread), IsInjective(line), NEW i \in 1 .. Len(line),
         NEW q, Flushed(line, i - 1, q)
  PROVE  Flushed(line, i, q \o UnblockIf(line[i]))
<1>1. /\ i \in Nat /\ i - 1 \in Nat /\ (\A k \in 1 .. i - 1 : k \in 1 .. i /\ k # i)
      /\ i \in 1 .. i /\ i \in DOMAIN line /\ line[i] \in Thread
      /\ (\A k \in 1 .. i : k \in DOMAIN line)
  OBVIOUS
<1>2. /\ q \in Seq(Step)
      /\ \A j \in DOMAIN q : /\ q[j].op = "unblock"
                             /\ pc[q[j].thread] = "wait"
                             /\ \E k \in 1 .. i - 1 : q[j].thread = line[k]
      /\ \A j, k \in DOMAIN q : q[j] = q[k] => j = k
  BY Zenon DEF Flushed
<1>3. \A j \in DOMAIN q : (\E k \in 1 .. i : q[j].thread = line[k]) /\ q[j].thread # line[i]
  <2> SUFFICES ASSUME NEW j \in DOMAIN q
               PROVE  (\E k \in 1 .. i : q[j].thread = line[k]) /\ q[j].thread # line[i]
    OBVIOUS
  <2>1. PICK k \in 1 .. i - 1 : q[j].thread = line[k]
    BY <1>2, Zenon
  <2>2. k \in 1 .. i /\ k # i /\ k \in DOMAIN line
    BY <1>1, Zenon
  <2>3. line[k] # line[i]
    BY <1>1, <2>2 DEF IsInjective
  <2> QED BY <2>1, <2>2, <2>3, Zenon
<1>4. CASE pc[line[i]] # "wait"
  <2>1. UnblockIf(line[i]) = <<>>
    BY <1>4, Zenon DEF UnblockIf
  <2>2. q \o <<>> = q
    BY <1>2
  <2> QED BY <1>2, <1>3, <2>1, <2>2, Zenon DEF Flushed
<1>5. CASE pc[line[i]] = "wait"
  <2> DEFINE n == Len(q)
             x == Unblock(line[i])
             r == q \o <<x>>
  <2>1. UnblockIf(line[i]) = <<x>>
    BY <1>5, Zenon DEF UnblockIf
  <2>2. x \in Step /\ x.op = "unblock" /\ x.thread = line[i]
    BY <1>1, SMTT(30) DEF Unblock, Step
  <2> HIDE DEF x
  <2>3. /\ r \in Seq(Step) /\ n \in Nat /\ DOMAIN r = 1 .. n + 1 /\ DOMAIN q = 1 .. n
        /\ r[n + 1] = x /\ \A j \in 1 .. n : r[j] = q[j]
    BY <1>2, <2>2, SMTT(30)
  <2> HIDE DEF r, n
  <2>4. \A j \in DOMAIN r : j = n + 1 \/ j \in DOMAIN q
    BY <2>3
  <2>5. \A j \in DOMAIN q : r[j] = q[j] /\ r[j] # x
    BY <1>3, <2>2, <2>3, Zenon
  <2>6. \A j \in DOMAIN r : /\ r[j].op = "unblock" /\ pc[r[j].thread] = "wait"
                            /\ \E k \in 1 .. i : r[j].thread = line[k]
    <3> SUFFICES ASSUME NEW j \in DOMAIN r
                 PROVE  /\ r[j].op = "unblock" /\ pc[r[j].thread] = "wait"
                        /\ \E k \in 1 .. i : r[j].thread = line[k]
      OBVIOUS
    <3>1. CASE j = n + 1
      <4>1. r[j] = x
        BY <2>3, <3>1, Zenon
      <4> QED BY <1>1, <1>5, <2>2, <4>1, Zenon
    <3>2. CASE j \in DOMAIN q
      <4>1. r[j] = q[j]
        BY <2>5, <3>2, Zenon
      <4>2. /\ q[j].op = "unblock" /\ pc[q[j].thread] = "wait"
            /\ \E k \in 1 .. i : q[j].thread = line[k]
        BY <1>2, <1>3, <3>2, Zenon
      <4> QED BY <4>1, <4>2, Zenon
    <3> QED BY <2>4, <3>1, <3>2, SMTT(30)
  <2>7. \A j, k \in DOMAIN r : r[j] = r[k] => j = k
    <3> SUFFICES ASSUME NEW j \in DOMAIN r, NEW k \in DOMAIN r, r[j] = r[k] PROVE j = k
      BY Zenon
    <3>1. CASE j \in DOMAIN q /\ k \in DOMAIN q
      BY <1>2, <2>5, <3>1, Zenon
    <3>2. CASE j = n + 1
      <4>1. r[k] = x
        BY <2>3, <3>2, Zenon
      <4>2. k \notin DOMAIN q
        BY <2>5, <4>1, Zenon
      <4> QED BY <2>4, <3>2, <4>2, Zenon
    <3>3. CASE k = n + 1
      <4>1. r[j] = x
        BY <2>3, <3>3, Zenon
      <4>2. j \notin DOMAIN q
        BY <2>5, <4>1, Zenon
      <4> QED BY <2>4, <3>3, <4>2, Zenon
    <3> QED BY <2>4, <3>1, <3>2, <3>3, Zenon
  <2>8. Flushed(line, i, r)
    BY <2>3, <2>6, <2>7, Zenon DEF Flushed
  <2> QED BY <2>1, <2>8, Zenon DEF r
<1> QED BY <1>4, <1>5

LEMMA UnblockLineIs ==
  ASSUME LeastNat, NEW line \in Seq(Thread), IsInjective(line)
  PROVE  Flushed(line, Len(line), UnblockLine(line))
<1> DEFINE N == Len(line)
           X == Seq(Step)
           G == [k \in (1 .. N) \X X |-> k[2] \o UnblockIf(line[k[1]])]
           Is(g) == g = [i \in 0 .. N |-> IF i = 0 THEN <<>> ELSE g[i - 1] \o UnblockIf(line[i])]
           w == CHOOSE g : Is(g)
<1>1. N \in Nat /\ <<>> \in X /\ \A i \in 1 .. N : line[i] \in Thread
  OBVIOUS
<1>2. UnblockLine(line) = w[N]
  BY Zenon DEF UnblockLine
<1>3. \A q \in X : \A i \in 1 .. N : q \o UnblockIf(line[i]) \in X
  <2> SUFFICES ASSUME NEW q \in X, NEW i \in 1 .. N PROVE q \o UnblockIf(line[i]) \in X
    OBVIOUS
  <2>1. Unblock(line[i]) \in Step
    BY <1>1 DEF Unblock, Step
  <2>2. <<Unblock(line[i])>> \in X
    BY <2>1
  <2>3. UnblockIf(line[i]) \in X
    BY <1>1, <2>2, Zenon DEF UnblockIf
  <2> HIDE DEF N
  <2> QED BY <2>3
<1> HIDE DEF N, X
<1>4. G \in [(1 .. N) \X X -> X]
  <2>1. \A k \in (1 .. N) \X X : k[1] \in 1 .. N /\ k[2] \in X
    OBVIOUS
  <2> QED BY <1>3, <2>1, Zenon
<1>5. PICK f \in [0 .. N -> X] : IsIteration(N, <<>>, G, f)
  <2> HIDE DEF G
  <2> QED BY <1>1, <1>4, RecursionExists, Zenon
<1>6. f[0] = <<>> /\ \A n \in 1 .. N : f[n] = G[<<n, f[n - 1]>>]
  BY <1>5, Zenon DEF IsIteration
<1>7. \A n \in 1 .. N : n - 1 \in 0 .. N /\ n # 0 /\ n \in 0 .. N
  BY <1>1
<1>8. 0 \in 0 .. N /\ \A n \in 0 .. N : n = 0 \/ n \in 1 .. N
  BY <1>1
<1>9. \A n \in 1 .. N : f[n] = f[n - 1] \o UnblockIf(line[n])
  <2> SUFFICES ASSUME NEW n \in 1 .. N PROVE f[n] = f[n - 1] \o UnblockIf(line[n])
    BY Zenon
  <2>1. f[n - 1] \in X
    BY <1>5, <1>7
  <2>2. <<n, f[n - 1]>> \in (1 .. N) \X X
    BY <2>1
  <2>3. G[<<n, f[n - 1]>>] = f[n - 1] \o UnblockIf(line[n])
    BY <2>2, Zenon
  <2> QED BY <1>6, <2>3, Zenon
<1>10. Is(f)
  <2>1. \A i \in 0 .. N : f[i] = IF i = 0 THEN <<>> ELSE f[i - 1] \o UnblockIf(line[i])
    BY <1>6, <1>7, <1>8, <1>9, Zenon
  <2> HIDE DEF G
  <2> QED BY <1>5, <2>1, Zenon
<1> HIDE DEF Is
<1>11. Is(w)
  BY <1>10, Zenon
<1> HIDE DEF w
<1>12. \A i \in 0 .. N : w[i] = IF i = 0 THEN <<>> ELSE w[i - 1] \o UnblockIf(line[i])
  BY <1>11, Zenon DEF Is
<1>13. w[0] = <<>> /\ \A i \in 1 .. N : w[i] = w[i - 1] \o UnblockIf(line[i])
  BY <1>7, <1>8, <1>12, Zenon
<1> DEFINE T == {i \in 0 .. N : Flushed(line, i, w[i])}
<1>14. 0 \in T
  <2>1. Flushed(line, 0, <<>>)
    BY DEF Flushed
  <2> QED BY <1>8, <1>13, <2>1
<1>15. \A i \in 1 .. N : i - 1 \in T => i \in T
  <2> SUFFICES ASSUME NEW i \in 1 .. N, i - 1 \in T PROVE i \in T
    OBVIOUS
  <2>1. Flushed(line, i - 1, w[i - 1]) /\ i \in 1 .. Len(line)
    BY Zenon DEF N
  <2>2. Flushed(line, i, w[i - 1] \o UnblockIf(line[i]))
    BY <2>1, FlushedOneMore
  <2> QED BY <1>7, <1>13, <2>2, Zenon
<1>16. 0 .. N \subseteq T
  <2> HIDE DEF T
  <2> QED BY <1>1, <1>14, <1>15, Induction, Zenon
<1>17. Flushed(line, N, w[N])
  <2>1. N \in 0 .. N
    BY <1>1
  <2> QED BY <1>16, <2>1, Zenon
<1> QED BY <1>2, <1>17, Zenon DEF N

LEMMA FlushSteps ==
  ASSUME LeastNat, NEW line \in Seq(Thread), IsInjective(line), NEW o \in Thread
  PROVE  LET unblock == UnblockLine(line)
         IN Fitting(IF unblock = <<>> THEN <<>> ELSE Append(unblock, Update(o)), Range(line))
<1> DEFINE q == UnblockLine(line)
           n == Len(q)
           x == Update(o)
           r == Append(q, x)
<1>1. Flushed(line, Len(line), q)
  BY UnblockLineIs, Zenon
<1> HIDE DEF q
<1>2. q \in Seq(Step) /\ (\A j \in DOMAIN q : q[j].op = "unblock" /\ pc[q[j].thread] = "wait")
      /\ \A j, k \in DOMAIN q : q[j] = q[k] => j = k
  BY <1>1, Zenon DEF Flushed
<1>3. \A j \in DOMAIN q : q[j].thread \in Range(line)
  <2>1. \A k \in 1 .. Len(line) : line[k] \in Range(line)
    BY DEF Range
  <2> QED BY <1>1, <2>1, Zenon DEF Flushed
<1>4. x \in Step /\ x.op = "update"
  BY SMTT(30) DEF Update, Step
<1> HIDE DEF x
<1>5. /\ r \in Seq(Step) /\ n \in Nat /\ DOMAIN r = 1 .. n + 1 /\ DOMAIN q = 1 .. n
      /\ r[n + 1] = x /\ \A j \in 1 .. n : r[j] = q[j]
  BY <1>2, <1>4
<1> HIDE DEF r, n
<1>6. n + 1 \in Nat /\ \A j \in DOMAIN r : j = n + 1 \/ j \in DOMAIN q
  BY <1>5
<1>7. \A j \in DOMAIN q : r[j] = q[j] /\ r[j].op = "unblock"
  BY <1>2, <1>5, Zenon
<1>8. TwoUpdates(r)
  <2>1. \A j \in DOMAIN r : r[j].op = "update" => j = n + 1
    BY <1>6, <1>7
  <2>2. \A j \in DOMAIN r : r[j].op = "update" => j \in {n + 1, n + 1}
    BY <2>1
  <2> QED BY <1>6, <2>2, Zenon DEF TwoUpdates
<1>9. \A i \in DOMAIN r : r[i].op = "unblock" =>
        /\ r[i].thread \in Range(line) /\ pc[r[i].thread] = "wait"
        /\ \A j \in DOMAIN r : r[j] = r[i] => j = i
  <2> SUFFICES ASSUME NEW i \in DOMAIN r, r[i].op = "unblock"
               PROVE  /\ r[i].thread \in Range(line) /\ pc[r[i].thread] = "wait"
                      /\ \A j \in DOMAIN r : r[j] = r[i] => j = i
    OBVIOUS
  <2>1. i \in DOMAIN q
    BY <1>4, <1>5, <1>6
  <2>2. r[i] = q[i]
    BY <1>7, <2>1, Zenon
  <2>3. r[i].thread \in Range(line) /\ pc[r[i].thread] = "wait"
    BY <1>2, <1>3, <2>1, <2>2, Zenon
  <2>4. ASSUME NEW j \in DOMAIN r, r[j] = r[i] PROVE j = i
    <3>1. j \in DOMAIN q
      BY <1>4, <1>5, <1>6, <2>4
    <3> QED BY <1>2, <1>7, <2>1, <2>4, <3>1, Zenon
  <2> QED BY <2>3, <2>4, Zenon
<1>10. Fitting(r, Range(line))
  BY <1>5, <1>8, <1>9, Zenon DEF Fitting
<1>11. Fitting(<<>>, Range(line))
  <2>1. DOMAIN <<>> = {} /\ <<>> \in Seq(Step) /\ 0 \in Nat
    OBVIOUS
  <2> QED BY <2>1 DEF Fitting, TwoUpdates
<1> QED BY <1>10, <1>11, Zenon DEF q, r, x

LEMMA SettledGood ==
  ASSUME NEW s \in State, OneQueue(s), NoCircle(s), NEW r, NEW n, Settled(s, r, n)
  PROVE  Good(r)
<1>1. SamePlaces(s, r) /\ r \in State
  BY Zenon DEF Settled, SamePlaces
<1>2. OneQueue(r) /\ NoCircle(r)
  BY <1>1, PlacesKept, Zenon
<1> QED BY <1>1, <1>2, Zenon DEF Good, Settled
==============================================================================
