--------------------------- MODULE CoreMutexProof ----------------------------
(***************************************************************************)
(* Proofs about the mutexes of CoreMutex, for every set of threads and of  *)
(* mutexes: what a waiting thread is told, who owns a mutex, and that the  *)
(* incremental propagation of priorities computes the priorities that the  *)
(* protocols define.                                                       *)
(***************************************************************************)
EXTENDS CoreMutexSteps

------------------------------------------------------------------------------
(***************************************************************************)
(* One lemma for each operation.                                           *)
(***************************************************************************)
Kept ==
  /\ MutexInv'
  /\ KeepsInformed \/ DropsUpdates

\* An operation on m of context c that ends no wait.
StillIn(c, m, r) ==
  /\ Good(r)
  /\ \A n \in Mutex : Range(r.queue[n]) = Range(queue[n])
  /\ \A n \in Mutex : n # m => r.owner[n] = owner[n]
  /\ m \in Mutex => /\ \/ r.owner[m] = owner[m]
                       \/ owner[m] \in {None, c} /\ r.owner[m] \in {None, c}
                    /\ r.owner[m] # None \/ queue[m] = <<>>
  /\ Len(r.update) <= 2
  /\ \A u \in Thread : r.prio[u] = prio[u] \/ Waiting(u) \/ Update(u) \in Range(r.update)

LEMMA StillKeeps ==
  ASSUME MutexInv, NEW c \in Context, CanCall(c), NEW m, NEW r, StillIn(c, m, r),
         Becomes(r), Later(c, r.update), UNCHANGED <<pc, wanted, status, blocked, sched>>
  PROVE  Kept
<1>1. Good(r) /\ r \in State
  BY Zenon DEF StillIn, Good
<1>2. /\ PriorityInv' /\ owner' = r.owner /\ prio' = r.prio
      /\ \A t, n : OnQueue(t, n)' <=> On(r, t, n)
  BY <1>1, BecomesGood
<1>3. Fitting(r.update, {})
  <2>1. r.update \in Seq(Updates) /\ Len(r.update) <= 2
    BY <1>1, Zenon DEF State, StillIn
  <2> QED BY <2>1, UpdatesFit, Zenon
<1>4. Leave(m, {})
  <2>1. \A u \in Thread, n \in Mutex : OnQueue(u, n)' <=> OnQueue(u, n)
    BY <1>2, Zenon DEF StillIn, On, OnQueue
  <2> QED BY <1>2, <2>1, Zenon DEF Leave, StillIn
<1>5. NewOwner(c, m, {})
  <2> SUFFICES ASSUME m \in Mutex
               PROVE  /\ \/ owner'[m] = owner[m]
                         \/ owner[m] \in {None, c} /\ owner'[m] \in {None, c} \cup {}
                      /\ (\E u \in Thread : OnQueue(u, m)') => owner'[m] # None
    BY Zenon DEF NewOwner
  <2>1. queue[m] = <<>> => \A u \in Thread : ~OnQueue(u, m)'
    <3>1. Range(<<>>) = {}
      BY DEF Range
    <3> QED BY <1>2, <3>1, Zenon DEF StillIn, On
  <2> QED BY <1>2, <2>1, Zenon DEF StillIn
<1>6. Outcome(m, {})
  <2>1. /\ wanted \in [Thread -> Mutex \cup {None}]
        /\ status \in [Thread -> {"SUCCESSFUL", "TIMEOUT", "UNAVAILABLE"}]
    BY Zenon DEF MutexInv, WaitInv, WaitTypes
  <2> QED BY <2>1, Zenon DEF Outcome
<1>7. MutexInv'
  BY <1>2, <1>3, <1>4, <1>5, <1>6, LeaveKeeps
<1>8. KeepsInformed
  <2>1. \A u \in Thread : prio'[u] = prio[u] \/ Waiting(u) \/ Update(u) \in Range(r.update)
    BY <1>2, Zenon DEF StillIn
  <2>2. WaitInv
    BY Zenon DEF MutexInv
  <2> QED BY <2>1, <2>2, OperatesTells
<1> QED BY <1>7, <1>8, Zenon DEF Kept

\* The owner of a mutex without ceiling and without waiting threads changes.
LEMMA FreeOwner ==
  ASSUME NEW s, Good(s), NEW m \in Mutex, m \notin Ceiling, s.queue[m] = <<>>,
         NEW x \in Thread \cup {None}
  PROVE  LET r == [s EXCEPT !.owner[m] = x] IN Good(r) /\ OwnerSet(s, m, x, r)
<1> DEFINE r == [s EXCEPT !.owner[m] = x]
<1>1. s \in State /\ OneQueue(s) /\ NoCircle(s) /\ (\A n \in Mutex : LineFits(s, n))
      /\ \A u \in Thread : Fits(s, u)
  BY Zenon DEF Good
<1>2. OwnerSet(s, m, x, r)
  BY <1>1, OwnerSetIs, Zenon
<1> HIDE DEF r
<1>3. OwnerSetKeeps(s, m, x, r)
  BY <1>1, <1>2, OwnerSetFits, Zenon
<1>4. \A u \in Thread : Fits(r, u)
  BY <1>1, <1>3, Zenon DEF OwnerSetKeeps
<1>5. \A n \in Mutex : LineFits(r, n)
  BY <1>1, <1>3, Zenon DEF OwnerSetKeeps
<1>6. \A t \in Thread : \A n \in Mutex : On(r, t, n) => On(s, t, n)
  BY <1>3, Zenon DEF OwnerSetKeeps
<1>7. \A t \in Thread : \A n \in Mutex : On(r, t, n) => r.owner[n] = s.owner[n]
  <2>1. \A t : ~On(s, t, m)
    BY DEF On, Range
  <2> QED BY <1>2, <1>6, <2>1, Zenon DEF OwnerSet
<1>8. OneQueue(r) /\ NoCircle(r)
  BY <1>1, <1>6, <1>7, FewerWait, Zenon
<1>9. Good(r)
  BY <1>2, <1>4, <1>5, <1>8, Zenon DEF Good, OwnerSet
<1> QED BY <1>2, <1>9, Zenon DEF r

\* Nothing is still to do, as before.
LEMMA NothingLater ==
  ASSUME WaitInv, NEW c \in Context, CanCall(c), UNCHANGED todo
  PROVE  Later(c, <<>>)
<1>1. todo[c] = <<>>
  BY CallerIs, Zenon
<1> QED BY <1>1 DEF WaitInv, WaitTypes, Later

LEMMA FreeOwnerKeeps ==
  ASSUME MutexInv, NEW t \in Thread, CanCall(t), NEW m \in Mutex, m \notin Ceiling,
         queue[m] = <<>>, owner[m] \in {None, t},
         NEW x \in {None, t}, owner' = [owner EXCEPT ![m] = x],
         UNCHANGED <<pc, wanted, status, blocked, ceiling, real, prio, qprio,
                     queue, sched, todo>>
  PROVE  Kept
<1> DEFINE r == [Now EXCEPT !.owner[m] = x]
<1>1. /\ Now.owner = owner /\ Now.prio = prio /\ Now.queue = queue /\ Now.update = <<>>
      /\ Now.ceiling = ceiling /\ Now.real = real /\ Now.qprio = qprio
  BY NowIs, Zenon
<1>2. Good(Now) /\ WaitInv /\ x \in Thread \cup {None} /\ t \in Context
  BY DEF MutexInv, PriorityInv, Context
<1>3. Good(r) /\ OwnerSet(Now, m, x, r)
  BY <1>1, <1>2, FreeOwner, Zenon
<1> HIDE DEF r
<1>4. /\ r.owner = [owner EXCEPT ![m] = x] /\ r.owner[m] = x
      /\ (\A n \in Mutex : n # m => r.owner[n] = owner[n])
      /\ r.ceiling = ceiling /\ r.real = real /\ r.prio = prio
      /\ r.qprio = qprio /\ r.queue = queue /\ r.update = <<>>
  BY <1>1, <1>3, Zenon DEF OwnerSet
<1>5. Becomes(r)
  BY <1>4, Zenon DEF Becomes
<1>6. Later(t, r.update)
  BY <1>2, <1>4, NothingLater
<1>7. StillIn(t, m, r)
  <2>1. Len(r.update) <= 2
    BY <1>4
  <2> QED BY <1>3, <1>4, <2>1, Zenon DEF StillIn
<1> QED BY <1>2, <1>5, <1>6, <1>7, StillKeeps

LEMMA SeizeKeeps ==
  ASSUME MutexInv, NEW t \in Thread, NEW m \in Mutex, Seize(t, m)
  PROVE  Kept
<1>1. queue[m] = <<>>
  BY Zenon DEF Seize, MutexInv, WaitInv, OwnerWhileWaiting
<1> QED BY Zenon, <1>1, FreeOwnerKeeps DEF Seize

LEMMA SurrenderUnusedKeeps ==
  ASSUME MutexInv, NEW t \in Thread, NEW m \in Mutex, SurrenderUnused(t, m)
  PROVE  Kept
BY Zenon, FreeOwnerKeeps DEF SurrenderUnused

LEMMA NestedKeeps ==
  ASSUME MutexInv, NEW t \in Thread, CanCall(t),
         UNCHANGED <<pc, wanted, status, blocked, owner, ceiling, real, prio, qprio,
                     queue, sched, todo>>
  PROVE  Kept
<1>1. /\ Now.owner = owner /\ Now.prio = prio /\ Now.queue = queue /\ Now.update = <<>>
      /\ Now.ceiling = ceiling /\ Now.real = real /\ Now.qprio = qprio
  BY NowIs, Zenon
<1>2. Good(Now) /\ WaitInv /\ t \in Context
  BY DEF MutexInv, PriorityInv, Context
<1>3. Becomes(Now)
  BY <1>1, Zenon DEF Becomes
<1>4. Later(t, Now.update)
  BY <1>1, <1>2, NothingLater
<1>5. StillIn(t, None, Now)
  <2>1. Len(Now.update) <= 2
    BY <1>1
  <2>2. None \notin Mutex
    BY CoreMutexAssumption
  <2> QED BY <1>1, <1>2, <2>1, <2>2, Zenon DEF StillIn
<1> QED BY <1>2, <1>3, <1>4, <1>5, StillKeeps

LEMMA SeizeNestedKeeps ==
  ASSUME MutexInv, NEW t \in Thread, NEW m \in Mutex, SeizeNested(t, m)
  PROVE  Kept
BY Zenon, NestedKeeps DEF SeizeNested

LEMMA SurrenderNestedKeeps ==
  ASSUME MutexInv, NEW t \in Thread, NEW m \in Mutex, SurrenderNested(t, m)
  PROVE  Kept
BY Zenon, NestedKeeps DEF SurrenderNested

\* An operation sets some values and then applies the priorities.
LEMMA SettledStill ==
  ASSUME NEW c, NEW m, NEW s \in State, OneQueue(s), NoCircle(s),
         s.queue = queue, s.prio = prio, s.update = <<>>,
         \A n \in Mutex : n # m => s.owner[n] = owner[n],
         m \in Mutex => /\ \/ s.owner[m] = owner[m]
                           \/ owner[m] \in {None, c} /\ s.owner[m] \in {None, c}
                        /\ s.owner[m] # None \/ queue[m] = <<>>,
         NEW r, NEW n \in {1, 2}, Settled(s, r, n)
  PROVE  StillIn(c, m, r)
<1>1. Good(r)
  BY SettledGood
<1>2. SamePlaces(s, r) /\ Told(s, r, n)
  BY Zenon DEF Settled
<1>3. Len(r.update) <= 2
  <2>1. r.update \in Seq(Updates)
    BY <1>2 DEF SamePlaces, State
  <2>2. Len(s.update) = 0 /\ Len(r.update) \in Nat
    BY <2>1
  <2>3. Len(r.update) <= Len(s.update) + n
    BY <1>2, Zenon DEF Told
  <2> QED BY <2>2, <2>3
<1>4. \A u \in Thread : r.prio[u] = prio[u] \/ Waiting(u) \/ Update(u) \in Range(r.update)
  BY <1>2, Zenon DEF Told, Waits, Waiting, On, OnQueue
<1> QED BY <1>1, <1>2, <1>3, <1>4, Zenon DEF StillIn, SamePlaces

LEMMA SeizeCeilingKeeps ==
  ASSUME LeastNat, Counting(Thread), MutexInv, NEW t \in Thread, NEW m \in Mutex,
         SeizeCeiling(t, m)
  PROVE  Kept
<1> DEFINE s == [Now EXCEPT !.owner[m] = t]
           r == ApplyPriority(s, t)
<1>1. /\ Now.owner = owner /\ Now.prio = prio /\ Now.queue = queue /\ Now.update = <<>>
      /\ \A u : Waits(Now, u) <=> Waiting(u)
  BY NowIs, Zenon
<1>2. Good(Now) /\ WaitInv /\ t \in Context
  BY DEF MutexInv, PriorityInv, Context
<1>3. CanCall(t) /\ m \in Ceiling /\ owner[m] = None
  BY Zenon DEF SeizeCeiling
<1>4. ~Waits(Now, t)
  BY <1>1, <1>2, <1>3, CallerIs
<1>5. /\ Now \in State /\ OneQueue(Now) /\ NoCircle(Now)
      /\ (\A n \in Mutex : LineFits(Now, n)) /\ (\A u \in Thread : Fits(Now, u))
  BY <1>2, Zenon DEF Good
<1>6. \A n \in Mutex : On(Now, t, n) => n = m
  BY <1>4, Zenon DEF Waits
<1>7. OwnerSet(Now, m, t, s) /\ Settled(s, r, 1)
  BY <1>1, <1>3, <1>5, <1>6, CeilingTaken
<1>8. Becomes(r) /\ Later(t, r.update) /\ UNCHANGED <<pc, wanted, status, blocked, sched>>
  BY Zenon DEF SeizeCeiling
<1> HIDE DEF r, s
<1>9. queue[m] = <<>>
  BY <1>2, <1>3, Zenon DEF WaitInv, OwnerWhileWaiting
<1>10. /\ s \in State /\ s.queue = queue /\ s.prio = prio /\ s.update = <<>>
       /\ s.owner[m] = t /\ \A n \in Mutex : n # m => s.owner[n] = owner[n]
  BY <1>1, <1>7, Zenon DEF OwnerSet
<1>11. OneQueue(s) /\ NoCircle(s)
  <2>1. \A u : \A n \in Mutex : On(s, u, n) <=> On(Now, u, n)
    BY <1>1, <1>10, Zenon DEF On
  <2>2. \A u \in Thread : ~On(s, u, m)
    BY <1>9, <1>10 DEF On, Range
  <2>3. \A u \in Thread : \A n \in Mutex : On(s, u, n) => s.owner[n] = Now.owner[n]
    BY <1>1, <1>10, <2>2, Zenon
  <2> QED BY <1>5, <2>1, <2>3, FewerWait, Zenon
<1>12. StillIn(t, m, r)
  BY <1>3, <1>7, <1>9, <1>10, <1>11, SettledStill, Zenon
<1> QED BY <1>2, <1>3, <1>8, <1>12, StillKeeps, Zenon

\* The application changes a value that contributes to the priority of thread x.
ValueSet(s, x, r) ==
  /\ r \in State
  /\ r.owner = s.owner /\ r.prio = s.prio /\ r.qprio = s.qprio
  /\ r.queue = s.queue /\ r.update = s.update
  /\ \A u \in Thread : u # x => r.real[u] = s.real[u]
  /\ \A m \in Mutex : s.owner[m] \in Thread \ {x} => r.ceiling[m] = s.ceiling[m]

LEMMA RealSetIs ==
  ASSUME NEW s \in State, NEW t \in Thread, NEW p \in Nat
  PROVE  ValueSet(s, t, [s EXCEPT !.real[t] = p])
<1> DEFINE o == [s.real EXCEPT ![t] = p]
           r == [s EXCEPT !.real = o]
<1>1. [s EXCEPT !.real[t] = p] = r
  BY DEF State
<1>2. /\ o \in [Thread -> Nat]
      /\ \A n \in Thread : n # t => o[n] = s.real[n]
  BY DEF State
<1> HIDE DEF o
<1>3. /\ r \in State /\ r.real = o
      /\ r.ceiling = s.ceiling /\ r.owner = s.owner /\ r.prio = s.prio
      /\ r.qprio = s.qprio /\ r.queue = s.queue /\ r.update = s.update
  BY Zenon, <1>2 DEF State
<1> HIDE DEF r
<1>4. ValueSet(s, t, r)
  BY <1>2, <1>3, Zenon DEF ValueSet
<1> QED BY <1>1, <1>4, Zenon

LEMMA CeilingSetIs ==
  ASSUME NEW s \in State, NEW m \in Mutex, NEW p \in Nat
  PROVE  ValueSet(s, s.owner[m], [s EXCEPT !.ceiling[m] = p])
<1> DEFINE o == [s.ceiling EXCEPT ![m] = p]
           r == [s EXCEPT !.ceiling = o]
<1>1. [s EXCEPT !.ceiling[m] = p] = r
  BY DEF State
<1>2. /\ o \in [Mutex -> Nat]
      /\ \A n \in Mutex : n # m => o[n] = s.ceiling[n]
  BY DEF State
<1> HIDE DEF o
<1>3. /\ r \in State /\ r.ceiling = o
      /\ r.real = s.real /\ r.owner = s.owner /\ r.prio = s.prio
      /\ r.qprio = s.qprio /\ r.queue = s.queue /\ r.update = s.update
  BY Zenon, <1>2 DEF State
<1> HIDE DEF r
<1>4. \A n \in Mutex : s.owner[n] \in Thread \ {s.owner[m]} => n # m
  BY Zenon
<1>5. ValueSet(s, s.owner[m], r)
  BY <1>2, <1>3, <1>4, Zenon DEF ValueSet
<1> QED BY <1>1, <1>5, Zenon

LEMMA ValueKeeps ==
  ASSUME LeastNat, Counting(Thread), MutexInv, NEW t \in Thread, CanCall(t),
         NEW x \in Thread \cup {None}, NEW s, ValueSet(Now, x, s),
         Becomes(ApplyPriority(s, x)), Later(t, ApplyPriority(s, x).update),
         UNCHANGED <<pc, wanted, status, blocked, sched>>
  PROVE  Kept
<1> DEFINE r == ApplyPriority(s, x)
<1>1. /\ Now.owner = owner /\ Now.prio = prio /\ Now.queue = queue /\ Now.update = <<>>
  BY NowIs, Zenon
<1>2. Good(Now) /\ WaitInv /\ t \in Context
  BY DEF MutexInv, PriorityInv, Context
<1>3. /\ Now \in State /\ OneQueue(Now) /\ NoCircle(Now)
      /\ (\A n \in Mutex : LineFits(Now, n)) /\ (\A u \in Thread : Fits(Now, u))
  BY <1>2, Zenon DEF Good
<1>4. /\ s \in State /\ s.owner = owner /\ s.prio = prio /\ s.queue = queue
      /\ s.update = <<>> /\ s.qprio = Now.qprio
      /\ (\A u \in Thread : u # x => s.real[u] = Now.real[u])
      /\ \A n \in Mutex : owner[n] \in Thread \ {x} => s.ceiling[n] = Now.ceiling[n]
  BY <1>1, Zenon DEF ValueSet
<1>5. OneQueue(s) /\ NoCircle(s)
  <2>1. \A u : \A n \in Mutex : On(s, u, n) <=> On(Now, u, n)
    BY <1>1, <1>4, Zenon DEF On
  <2>2. s.owner = Now.owner
    BY <1>1, <1>4, Zenon
  <2> QED BY <1>3, <2>1, <2>2, FewerWait, Zenon
<1>6. \A n \in Mutex : LineFits(s, n)
  BY <1>1, <1>3, <1>4, Zenon DEF LineFits
<1>7. ASSUME NEW u \in Thread, u # x
      PROVE  Fits(s, u)
  <2>1. \A n \in Mutex : owner[n] = u => s.ceiling[n] = Now.ceiling[n]
    BY <1>4, <1>7, Zenon
  <2>2. Ceiling \subseteq Mutex /\ Inherit \subseteq Mutex
    BY CoreMutexAssumption
  <2>3. Contributions(s, u) = Contributions(Now, u)
    BY <1>1, <1>4, <1>7, <2>1, <2>2, ContributionsSame
  <2> QED BY <1>1, <1>3, <1>4, <2>3, Zenon DEF Fits
<1>8. Settled(s, r, 2)
  BY <1>4, <1>5, <1>6, <1>7, ApplyPriorityIs, Zenon
<1> HIDE DEF r
<1>9. StillIn(t, None, r)
  <2>1. None \notin Mutex
    BY CoreMutexAssumption
  <2>2. \A n \in Mutex : n # None => s.owner[n] = owner[n]
    BY <1>4, Zenon
  <2> QED BY <1>4, <1>5, <1>8, <2>1, <2>2, SettledStill, Zenon
<1> QED BY <1>2, <1>9, StillKeeps, Zenon DEF r

LEMMA SetPriorityKeeps ==
  ASSUME LeastNat, Counting(Thread), MutexInv, NEW t \in Thread, NEW u \in Thread,
         NEW p \in NewPriority, SetPriority(t, u, p)
  PROVE  Kept
<1> DEFINE s == [Now EXCEPT !.real[u] = p]
<1>1. ValueSet(Now, u, s)
  <2>1. p \in Nat /\ Now \in State
    BY CoreMutexAssumption DEF MutexInv, PriorityInv, Good
  <2> QED BY <2>1, RealSetIs, Zenon
<1>2. /\ CanCall(t) /\ Becomes(ApplyPriority(s, u)) /\ Later(t, ApplyPriority(s, u).update)
      /\ UNCHANGED <<pc, wanted, status, blocked, sched>>
  BY Zenon DEF SetPriority
<1> HIDE DEF s
<1>3. u \in Thread \cup {None}
  OBVIOUS
<1> QED BY <1>1, <1>2, <1>3, ValueKeeps, Zenon

LEMMA SetCeilingKeeps ==
  ASSUME LeastNat, Counting(Thread), MutexInv, NEW t \in Thread, NEW m \in Mutex,
         NEW p \in NewCeiling, SetCeiling(t, m, p)
  PROVE  Kept
<1> DEFINE s == [Now EXCEPT !.ceiling[m] = p]
<1>1. Now \in State /\ Now.owner = owner
  BY NowIs, Zenon DEF MutexInv, PriorityInv, Good
<1>2. ValueSet(Now, owner[m], s)
  <2>1. p \in Nat
    BY CoreMutexAssumption
  <2> QED BY <1>1, <2>1, CeilingSetIs
<1>3. /\ CanCall(t) /\ Becomes(ApplyPriority(s, owner[m]))
      /\ Later(t, ApplyPriority(s, owner[m]).update)
      /\ UNCHANGED <<pc, wanted, status, blocked, sched>>
  BY Zenon DEF SetCeiling
<1> HIDE DEF s
<1>4. owner[m] \in Thread \cup {None}
  BY <1>1 DEF State
<1> QED BY <1>2, <1>3, <1>4, ValueKeeps, Zenon

\* An operation on m of context c that ends the waits of the threads U.
LeftIn(c, m, U, r) ==
  /\ Good(r)
  /\ InLine(Now, m, Range(queue[m]) \ U, r)
  /\ \A n \in Mutex : n # m => r.owner[n] = owner[n]
  /\ \/ r.owner[m] = owner[m]
     \/ owner[m] \in {None, c} /\ r.owner[m] \in {None, c} \cup U
  /\ r.owner[m] # None \/ Range(queue[m]) = {}

LEMMA LeftKeeps ==
  ASSUME MutexInv, NEW c \in Context, CanCall(c), NEW m \in Mutex, NEW U,
         U \subseteq Range(queue[m]), NEW r, LeftIn(c, m, U, r), Becomes(r),
         NEW steps, Later(c, steps), Fitting(steps, U),
         UNCHANGED <<pc, blocked, sched>>, Outcome(m, U),
         \/ DropsUpdates
         \/ \A u \in Thread : r.prio[u] = prio[u] \/ Waiting(u) \/ Update(u) \in Range(steps)
  PROVE  Kept
<1>1. Good(r) /\ InLine(Now, m, Range(queue[m]) \ U, r)
  BY Zenon DEF LeftIn
<1>2. /\ PriorityInv' /\ owner' = r.owner /\ prio' = r.prio
      /\ \A t, n : OnQueue(t, n)' <=> On(r, t, n)
  BY <1>1, BecomesGood, Zenon
<1>3. Now.queue = queue
  BY NowIs, Zenon
<1>4. Leave(m, U)
  <2>1. ASSUME NEW u \in Thread, NEW n \in Mutex
        PROVE  OnQueue(u, n)' <=> OnQueue(u, n) /\ (n = m => u \notin U)
    <3>1. CASE n = m
      BY <1>1, <1>2, <3>1, Zenon DEF InLine, On, OnQueue
    <3>2. CASE n # m
      BY <1>1, <1>2, <1>3, <3>2, Zenon DEF InLine, On, OnQueue
    <3> QED BY <3>1, <3>2, Zenon
  <2> QED BY <1>2, <2>1, Zenon DEF Leave, LeftIn
<1>5. NewOwner(c, m, U)
  <2>1. Range(queue[m]) = {} => \A u \in Thread : ~OnQueue(u, m)'
    BY <1>1, <1>2, Zenon DEF InLine, On
  <2> QED BY <1>2, <2>1, Zenon DEF LeftIn, NewOwner
<1>6. MutexInv'
  BY <1>2, <1>4, <1>5, LeaveKeeps, Zenon
<1>7. ASSUME ~DropsUpdates
      PROVE  KeepsInformed
  <2>1. \A u \in Thread : prio'[u] = prio[u] \/ Waiting(u) \/ Update(u) \in Range(steps)
    BY <1>2, <1>7, Zenon
  <2>2. WaitInv
    BY Zenon DEF MutexInv
  <2> QED BY <2>1, <2>2, OperatesTells, Zenon
<1> QED BY <1>6, <1>7, Zenon DEF Kept

LEMMA SameOutcome ==
  ASSUME WaitInv, UNCHANGED <<wanted, status>>, NEW m, NEW U,
         \A u \in U : owner'[m] = u /\ status[u] = "SUCCESSFUL"
  PROVE  Outcome(m, U)
<1>1. /\ wanted \in [Thread -> Mutex \cup {None}]
      /\ status \in [Thread -> {"SUCCESSFUL", "TIMEOUT", "UNAVAILABLE"}]
  BY Zenon DEF WaitInv, WaitTypes
<1> QED BY <1>1, Zenon DEF Outcome

\* The first waiting thread becomes the owner.
LEMMA HandoverKeeps ==
  ASSUME MutexInv, NEW t \in Thread, CanCall(t), NEW m \in Mutex, owner[m] = t,
         NEW new \in Range(queue[m]), NEW r, Surrendered(Now, m, new, r), Becomes(r),
         NEW steps, Later(t, steps), Fitting(steps, {new}),
         Range(r.update) \subseteq Range(steps),
         UNCHANGED <<pc, wanted, status, blocked, sched>>
  PROVE  Kept
<1>1. /\ Now.owner = owner /\ Now.prio = prio /\ Now.queue = queue
      /\ \A u : Waits(Now, u) <=> Waiting(u)
  BY NowIs, Zenon
<1>2. /\ Now \in State /\ WaitInv /\ t \in Context
  BY Zenon DEF MutexInv, PriorityInv, Context, Good
<1>3. owner \in [Mutex -> Thread \cup {None}] /\ queue[m] \in Seq(Thread)
  BY <1>1, <1>2 DEF State
<1>4. new \in Thread /\ new # None
  BY <1>3, CoreMutexAssumption DEF Range
<1>5. r.owner[m] = new /\ \A n \in Mutex : n # m => r.owner[n] = owner[n]
  BY <1>1, <1>3, Zenon DEF Surrendered
<1>6. LeftIn(t, m, {new}, r)
  BY <1>1, <1>4, <1>5, Zenon DEF LeftIn, Surrendered
<1>7. status[new] = "SUCCESSFUL"
  BY <1>2, <1>4, Zenon DEF WaitInv, OnQueueWaits, OnQueue
<1>8. owner' = r.owner
  BY Zenon DEF Becomes
<1>9. Outcome(m, {new})
  BY <1>2, <1>5, <1>7, <1>8, SameOutcome
<1>10. \A u \in Thread : r.prio[u] = prio[u] \/ Waiting(u) \/ Update(u) \in Range(steps)
  BY <1>1, Zenon DEF Surrendered
<1>11. {new} \subseteq Range(queue[m])
  BY Zenon
<1> QED BY <1>2, <1>6, <1>9, <1>10, <1>11, LeftKeeps, Zenon

\* The first thread of a queue.
LEMMA FirstIs ==
  ASSUME Good(Now), NEW m \in Mutex, queue[m] # <<>>
  PROVE  Head(queue[m]) \in Thread /\ Head(queue[m]) \in Range(queue[m])
<1>1. /\ Now.queue = queue /\ Now.prio = prio
  BY NowIs, Zenon
<1>2. queue[m] \in Seq(Thread) /\ prio \in [Thread -> Nat]
  BY <1>1 DEF Good, State
<1>3. Sorted(prio, queue[m])
  BY <1>1, Zenon DEF Good, LineFits
<1> QED BY <1>2, <1>3, HeadFirst

LEMMA SurrenderKeeps ==
  ASSUME LeastNat, MutexInv, NEW t \in Thread, NEW m \in Mutex, Surrender(t, m)
  PROVE  Kept
<1> DEFINE new == Head(queue[m])
           r == QueueSurrender(Now, m, t)
<1>1. /\ Now.owner = owner /\ Now.prio = prio /\ Now.queue = queue /\ Now.update = <<>>
      /\ \A u : Waits(Now, u) <=> Waiting(u)
  BY NowIs, Zenon
<1>2. Good(Now) /\ WaitInv /\ t \in Context
  BY DEF MutexInv, PriorityInv, Context
<1>3. /\ CanCall(t) /\ m \notin Ceiling /\ owner[m] = t /\ queue[m] # <<>> /\ Becomes(r)
      /\ Later(t, r.update \o UnblockIf(new)) /\ UNCHANGED <<pc, wanted, status, blocked, sched>>
  BY Zenon DEF Surrender
<1>4. ~Waits(Now, t)
  BY <1>1, <1>2, <1>3, CallerIs
<1>5. Surrendered(Now, m, new, r)
  BY <1>1, <1>2, <1>3, <1>4, QueueSurrenderIs, Zenon
<1>6. new \in Thread /\ new \in Range(queue[m])
  BY <1>2, <1>3, FirstIs, Zenon
<1> HIDE DEF r, new
<1>7. r.update \in Seq(Updates) /\ Len(r.update) <= 2
  <2>1. r.update \in Seq(Updates)
    BY <1>5, Zenon DEF Surrendered, Good, State
  <2>2. Len(r.update) <= Len(Now.update) + 2
    BY <1>5, Zenon DEF Surrendered
  <2> QED BY <1>1, <2>1, <2>2
<1>8. /\ Fitting(r.update \o UnblockIf(new), {new})
      /\ Range(r.update) \subseteq Range(r.update \o UnblockIf(new))
  BY <1>6, <1>7, UpdatesThenUnblock, Zenon
<1> DEFINE steps == r.update \o UnblockIf(new)
<1> HIDE DEF steps
<1>9. Later(t, steps) /\ Fitting(steps, {new}) /\ Range(r.update) \subseteq Range(steps)
  BY <1>3, <1>8, Zenon DEF steps
<1> QED BY <1>3, <1>5, <1>6, <1>9, HandoverKeeps, Zenon

LEMMA SurrenderCeilingKeeps ==
  ASSUME LeastNat, Counting(Thread), MutexInv, NEW t \in Thread, NEW m \in Mutex,
         SurrenderCeiling(t, m)
  PROVE  Kept
<1> DEFINE new == IF queue[m] = <<>> THEN None ELSE Head(queue[m])
           s1 == ApplyPriority([Now EXCEPT !.owner[m] = None], t)
           s2 == ApplyPriority([s1 EXCEPT !.owner[m] = new], new)
           r == QueueExtract(s2, m, new)
           unblock == IF new = None THEN <<>> ELSE UnblockIf(new)
<1>1. /\ Now.owner = owner /\ Now.prio = prio /\ Now.queue = queue /\ Now.update = <<>>
      /\ \A u : Waits(Now, u) <=> Waiting(u)
  BY NowIs, Zenon
<1>2. Good(Now) /\ WaitInv /\ t \in Context
  BY DEF MutexInv, PriorityInv, Context
<1>3. /\ CanCall(t) /\ m \in Ceiling /\ owner[m] = t /\ Becomes(r)
      /\ Later(t, unblock \o r.update) /\ UNCHANGED <<pc, wanted, status, blocked, sched>>
  BY Zenon DEF SurrenderCeiling
<1>4. ~Waits(Now, t)
  BY <1>1, <1>2, <1>3, CallerIs
<1>5. new = IF Now.queue[m] = <<>> THEN None ELSE Head(Now.queue[m])
  BY <1>1, Zenon
<1> HIDE DEF new
<1>6. Surrendered(Now, m, new, r)
  BY Zenon, <1>1, <1>2, <1>3, <1>4, <1>5, CeilingSurrenderIs
<1> HIDE DEF r, s1, s2
<1>7. r.update \in Seq(Updates) /\ Len(r.update) <= 2
  <2>1. r.update \in Seq(Updates)
    BY <1>6, Zenon DEF Surrendered, Good, State
  <2>2. Len(r.update) <= Len(Now.update) + 2
    BY <1>6, Zenon DEF Surrendered
  <2> QED BY <1>1, <2>1, <2>2
<1>8. CASE queue[m] = <<>>
  <2>1. new = None /\ unblock = <<>>
    BY <1>8, Zenon DEF new
  <2>2. unblock \o r.update = r.update
    BY <1>7, <2>1
  <2>3. Range(queue[m]) = {} /\ Range(r.queue[m]) = {}
    <3>1. Range(<<>>) = {}
      BY DEF Range
    <3>2. Range(r.queue[m]) = Range(Now.queue[m]) \ {new}
      BY <1>6, Zenon DEF Surrendered, InLine
    <3> QED BY <1>1, <1>8, <3>1, <3>2, Zenon
  <2>4. \A n \in Mutex : Range(r.queue[n]) = Range(queue[n])
    BY <1>1, <1>6, <2>3, Zenon DEF Surrendered, InLine
  <2>5. owner \in [Mutex -> Thread \cup {None}]
    BY <1>1, <1>2 DEF Good, State
  <2>6. r.owner[m] = None /\ \A n \in Mutex : n # m => r.owner[n] = owner[n]
    BY <1>1, <1>6, <2>1, <2>5, Zenon DEF Surrendered
  <2>7. StillIn(t, m, r)
    BY <1>1, <1>3, <1>6, <1>7, <1>8, <2>4, <2>6, Zenon DEF StillIn, Surrendered
  <2>8. Later(t, r.update)
    BY <1>3, <2>2, Zenon
  <2> QED BY <1>2, <1>3, <2>7, <2>8, StillKeeps, Zenon
<1>9. CASE queue[m] # <<>>
  <2>1. new \in Thread /\ new \in Range(queue[m])
    BY <1>2, <1>9, FirstIs, Zenon DEF new
  <2>2. unblock = UnblockIf(new)
    BY <2>1, CoreMutexAssumption
  <2>3. /\ Fitting(UnblockIf(new) \o r.update, {new})
        /\ Range(r.update) \subseteq Range(UnblockIf(new) \o r.update)
    BY <1>7, <2>1, UnblockThenUpdates, Zenon
  <2> DEFINE steps == unblock \o r.update
  <2>4. Later(t, steps) /\ Fitting(steps, {new}) /\ Range(r.update) \subseteq Range(steps)
    BY <1>3, <2>2, <2>3, Zenon
  <2> HIDE DEF steps
  <2> QED BY <1>3, <1>6, <2>1, <2>4, HandoverKeeps, Zenon
<1> QED BY <1>8, <1>9, Zenon

\* Threads leave the queue of m without getting the mutex.
Expelled(c, m, U, r) ==
  /\ LeftIn(c, m, U, r)
  /\ \A u \in U : u \in Thread /\ r.owner[m] # u
  /\ r.update \in Seq(Updates) /\ Len(r.update) <= 2
  /\ \A u \in Thread : r.prio[u] = prio[u] \/ Waiting(u) \/ Update(u) \in Range(r.update)

LEMMA ExpelledIs ==
  ASSUME MutexInv, NEW c, NEW m \in Mutex, queue[m] # <<>>, NEW U, U \subseteq Range(queue[m]),
         NEW r, Moved(Now, m, Range(queue[m]) \ U, r)
  PROVE  Expelled(c, m, U, r)
<1>1. /\ Now.owner = owner /\ Now.prio = prio /\ Now.queue = queue /\ Now.update = <<>>
      /\ (\A u, n : On(Now, u, n) <=> OnQueue(u, n))
      /\ \A u : Waits(Now, u) <=> Waiting(u)
  BY NowIs, Zenon
<1>2. Good(Now) /\ WaitInv
  BY DEF MutexInv, PriorityInv
<1>3. r.owner = owner
  BY <1>1, Zenon DEF Moved
<1>4. owner[m] # None
  BY <1>2, Zenon DEF WaitInv, OwnerWhileWaiting
<1>5. LeftIn(c, m, U, r)
  BY <1>3, <1>4, Zenon DEF LeftIn, Moved
<1>6. ASSUME NEW u \in U
      PROVE  u \in Thread /\ r.owner[m] # u
  <2>1. queue[m] \in Seq(Thread)
    BY <1>1, <1>2 DEF Good, State
  <2>2. u \in Thread /\ {u} \in SUBSET Thread
    BY <1>6, <2>1 DEF Range
  <2>3. NoCircle(Now) /\ On(Now, u, m)
    BY <1>1, <1>2, <1>6, Zenon DEF Good, OnQueue
  <2>4. Now.owner[m] \notin {u}
    BY <2>2, <2>3, Zenon DEF NoCircle
  <2> QED BY <1>1, <1>3, <2>2, <2>4, Zenon
<1>7. r.update \in Seq(Updates) /\ Len(r.update) <= 2
  <2>1. r.update \in Seq(Updates)
    BY Zenon DEF Moved, Good, State
  <2>2. Len(r.update) <= Len(Now.update) + 1
    BY Zenon DEF Moved
  <2> QED BY <1>1, <2>1, <2>2
<1>8. ASSUME NEW u \in Thread
      PROVE  r.prio[u] = prio[u] \/ Waiting(u) \/ Update(u) \in Range(r.update)
  <2>1. u \in Range(queue[m]) => Waiting(u)
    BY Zenon DEF Waiting, OnQueue
  <2> QED BY <1>1, <2>1, Zenon DEF Moved
<1> QED BY <1>5, <1>6, <1>7, <1>8, Zenon DEF Expelled

\* The thread t that waits for a mutex is extracted from its queue.
Extracted(c, t, m, r) == Expelled(c, m, {t}, r) /\ {t} \subseteq Range(queue[m])

LEMMA ExtractedIs ==
  ASSUME LeastNat, Counting(Thread), MutexInv, NEW c, NEW t \in Thread, NEW m,
         m = WaitsFor(Now, t), m # None
  PROVE  m \in Mutex /\ Extracted(c, t, m, QueueExtract(Now, m, t))
<1>1. Now.queue = queue /\ \A u, n : On(Now, u, n) <=> OnQueue(u, n)
  BY NowIs, Zenon
<1>2. m \in Mutex /\ t \in Range(queue[m])
  BY <1>1, WaitsForIs, Zenon DEF OnQueue
<1>3. Moved(Now, m, Range(queue[m]) \ {t}, QueueExtract(Now, m, t))
  BY <1>1, <1>2, QueueExtractIs DEF MutexInv, PriorityInv
<1>4. {t} \subseteq Range(queue[m]) /\ queue[m] # <<>>
  BY <1>2 DEF Range
<1> QED BY <1>2, <1>3, <1>4, ExpelledIs, Zenon DEF Extracted

LEMMA TimeoutKeeps ==
  ASSUME LeastNat, Counting(Thread), MutexInv, NEW k \in Clock, NEW t \in Thread,
         Timeout(k, t)
  PROVE  Kept
<1> DEFINE m == WaitsFor(Now, t)
           r == QueueExtract(Now, m, t)
           steps == r.update \o UnblockIf(t)
<1>1. /\ CanCall(k) /\ m # None /\ Becomes(r) /\ Later(k, steps)
      /\ UNCHANGED <<pc, blocked, sched>>
      /\ wanted' = wanted /\ status' = [status EXCEPT ![t] = "TIMEOUT"]
  BY Zenon DEF Timeout
<1>2. m \in Mutex /\ Extracted(k, t, m, r)
  BY <1>1, ExtractedIs
<1> HIDE DEF m, r
<1>3. /\ LeftIn(k, m, {t}, r) /\ r.owner[m] # t /\ {t} \subseteq Range(queue[m])
      /\ r.update \in Seq(Updates) /\ Len(r.update) <= 2
      /\ \A u \in Thread : r.prio[u] = prio[u] \/ Waiting(u) \/ Update(u) \in Range(r.update)
  BY <1>2, Zenon DEF Extracted, Expelled
<1>4. Fitting(steps, {t}) /\ Range(r.update) \subseteq Range(steps)
  BY <1>3, UpdatesThenUnblock
<1> HIDE DEF steps
<1>5. Outcome(m, {t})
  <2>1. /\ wanted \in [Thread -> Mutex \cup {None}]
        /\ status \in [Thread -> {"SUCCESSFUL", "TIMEOUT", "UNAVAILABLE"}]
    BY Zenon DEF MutexInv, WaitInv, WaitTypes
  <2>2. owner' = r.owner
    BY <1>1, Zenon DEF Becomes
  <2>3. /\ status' \in [Thread -> {"SUCCESSFUL", "TIMEOUT", "UNAVAILABLE"}]
        /\ status'[t] = "TIMEOUT" /\ \A u \in Thread : u # t => status'[u] = status[u]
    BY <1>1, <2>1
  <2>4. "TIMEOUT" # "SUCCESSFUL"
    OBVIOUS
  <2> QED BY <1>1, <1>3, <2>1, <2>2, <2>3, <2>4, Zenon DEF Outcome
<1>6. k \in Context
  BY DEF Context
<1>7. \A u \in Thread : r.prio[u] = prio[u] \/ Waiting(u) \/ Update(u) \in Range(steps)
  BY <1>3, <1>4, Zenon
<1> QED BY <1>1, <1>2, <1>3, <1>4, <1>5, <1>6, <1>7, LeftKeeps, Zenon

LEMMA ThreadQueueExtractKeeps ==
  ASSUME LeastNat, Counting(Thread), MutexInv, NEW c \in Thread, NEW t \in Thread,
         ThreadQueueExtract(c, t)
  PROVE  Kept
<1> DEFINE m == WaitsFor(Now, t)
           r == QueueExtract(Now, m, t)
<1>1. /\ Extracts /\ CanCall(c) /\ m # None /\ Becomes(r) /\ Later(c, UnblockIf(t))
      /\ UNCHANGED <<pc, blocked, sched>>
      /\ status' = status /\ wanted' = [wanted EXCEPT ![t] = None]
  BY Zenon DEF ThreadQueueExtract
<1>2. m \in Mutex /\ Extracted(c, t, m, r)
  BY <1>1, ExtractedIs
<1> HIDE DEF m, r
<1>3. LeftIn(c, m, {t}, r) /\ {t} \subseteq Range(queue[m])
  BY <1>2, Zenon DEF Extracted, Expelled
<1>4. Fitting(UnblockIf(t), {t})
  <2>1. <<>> \in Seq(Updates) /\ Len(<<>>) <= 2
    OBVIOUS
  <2>2. Fitting(<<>> \o UnblockIf(t), {t})
    BY Zenon, <2>1, UpdatesThenUnblock
  <2>3. <<>> \o UnblockIf(t) = UnblockIf(t)
    BY DEF UnblockIf
  <2> QED BY <2>2, <2>3, Zenon
<1>5. Outcome(m, {t})
  <2>1. /\ wanted \in [Thread -> Mutex \cup {None}]
        /\ status \in [Thread -> {"SUCCESSFUL", "TIMEOUT", "UNAVAILABLE"}]
    BY Zenon DEF MutexInv, WaitInv, WaitTypes
  <2>3. /\ wanted' \in [Thread -> Mutex \cup {None}]
        /\ wanted'[t] = None /\ \A u \in Thread : u # t => wanted'[u] = wanted[u]
    BY <1>1, <2>1
  <2> QED BY <1>1, <2>1, <2>3, Zenon DEF Outcome
<1>6. c \in Context
  BY DEF Context
<1>7. DropsUpdates
  BY Zenon DEF DropsUpdates
<1> QED BY <1>1, <1>2, <1>3, <1>4, <1>5, <1>6, <1>7, LeftKeeps, Zenon

LEMMA FlushKeeps ==
  ASSUME LeastNat, Counting(Thread), MutexInv, NEW t \in Thread, NEW m \in Mutex,
         Flush(t, m)
  PROVE  Kept
<1> DEFINE r == Requeue(Now, m, <<>>)
           unblock == UnblockLine(queue[m])
           steps == IF unblock = <<>> THEN <<>> ELSE Append(unblock, Update(owner[m]))
           U == Range(queue[m])
<1>1. /\ Now.owner = owner /\ Now.queue = queue
  BY NowIs, Zenon
<1>2. /\ Flushes /\ CanCall(t) /\ queue[m] # <<>> /\ Becomes(r) /\ Later(t, steps)
      /\ UNCHANGED <<pc, blocked, sched>> /\ wanted' = wanted
      /\ status' = [u \in Thread |-> IF u \in Range(queue[m])
                                     THEN "UNAVAILABLE" ELSE status[u]]
  BY <1>1, Zenon DEF Flush, Requeue
<1>3. Good(Now) /\ WaitInv /\ t \in Context
  BY DEF MutexInv, PriorityInv, Context
<1>4. Moved(Now, m, {}, r)
  <2>1. /\ <<>> \in Seq(Thread) /\ IsInjective(<<>>) /\ Sorted(Now.prio, <<>>)
        /\ Range(<<>>) = {}
    BY DEF IsInjective, Sorted, Range
  <2> QED BY Zenon, <1>3, <2>1, ShorterLine
<1> HIDE DEF r
<1>5. Expelled(t, m, U, r)
  <2>1. Range(queue[m]) \ U = {}
    OBVIOUS
  <2> QED BY <1>2, <1>4, <2>1, ExpelledIs, Zenon
<1>6. LeftIn(t, m, U, r) /\ \A u \in U : u \in Thread /\ r.owner[m] # u
  BY <1>5, Zenon DEF Expelled
<1>7. Fitting(steps, U)
  <2>1. queue[m] \in Seq(Thread) /\ owner[m] \in Thread \cup {None}
    BY <1>1, <1>3 DEF Good, State
  <2>2. IsInjective(queue[m])
    BY <1>1, <1>3, Zenon DEF Good, LineFits
  <2>3. owner[m] \in Thread
    BY <1>2, <1>3, <2>1, Zenon DEF WaitInv, OwnerWhileWaiting
  <2> QED BY <2>1, <2>2, <2>3, FlushSteps
<1> HIDE DEF steps
<1>8. Outcome(m, U)
  <2>1. /\ wanted \in [Thread -> Mutex \cup {None}]
        /\ status \in [Thread -> {"SUCCESSFUL", "TIMEOUT", "UNAVAILABLE"}]
    BY <1>3, Zenon DEF WaitInv, WaitTypes
  <2>2. owner' = r.owner
    BY <1>2, Zenon DEF Becomes
  <2>3. /\ status' \in [Thread -> {"SUCCESSFUL", "TIMEOUT", "UNAVAILABLE"}]
        /\ \A u \in Thread : u \in U => status'[u] = "UNAVAILABLE"
        /\ \A u \in Thread : u \notin U => status'[u] = status[u]
    BY <1>2, <2>1, Zenon
  <2>4. "UNAVAILABLE" # "SUCCESSFUL"
    OBVIOUS
  <2> HIDE DEF U
  <2> QED BY <1>2, <1>6, <2>1, <2>2, <2>3, <2>4, Zenon DEF Outcome
<1>9. DropsUpdates
  BY Zenon DEF DropsUpdates
<1> QED BY <1>2, <1>3, <1>6, <1>7, <1>8, <1>9, LeftKeeps, Zenon

LEMMA SeizeWaitKeeps ==
  ASSUME LeastNat, Counting(Thread), Counting(Mutex), MutexInv, NEW t \in Thread,
         NEW m \in Mutex, SeizeWait(t, m)
  PROVE  Kept
<1> DEFINE r == QueueEnqueue(Now, m, t)
<1>1. /\ Now.owner = owner /\ Now.prio = prio /\ Now.queue = queue /\ Now.update = <<>>
      /\ (\A u, n : On(Now, u, n) <=> OnQueue(u, n))
      /\ \A u : Waits(Now, u) <=> Waiting(u)
  BY NowIs, Zenon
<1>2. /\ CanCall(t) /\ owner[m] # None /\ ~ClosesPath(t, m) /\ Becomes(r)
      /\ Later(t, r.update) /\ UNCHANGED <<blocked, sched>>
      /\ pc' = [pc EXCEPT ![t] = "commit"] /\ wanted' = [wanted EXCEPT ![t] = m]
      /\ status' = [status EXCEPT ![t] = "SUCCESSFUL"]
  BY Zenon DEF SeizeWait
<1>3. Good(Now) /\ WaitInv /\ t \in Context /\ OwnerWhileWaiting
  BY DEF MutexInv, PriorityInv, Context, WaitInv
<1>4. ~Waits(Now, t)
  BY <1>1, <1>2, <1>3, CallerIs, Zenon
<1>5. Moved(Now, m, Range(queue[m]) \cup {t}, r)
  <2>1. PICK T : ClosedAbove(Now, m, T) /\ t \notin T
    BY <1>2, <1>3, PathCloses
  <2> QED BY <1>1, <1>3, <1>4, <2>1, QueueEnqueueIs, Zenon
<1> HIDE DEF r
<1>6. Good(r) /\ r.owner = owner /\ InLine(Now, m, Range(queue[m]) \cup {t}, r)
  BY <1>1, <1>5, Zenon DEF Moved
<1>7. /\ PriorityInv' /\ owner' = owner /\ prio' = r.prio
      /\ \A u, n : OnQueue(u, n)' <=> On(r, u, n)
  BY <1>2, <1>6, BecomesGood, Zenon
<1>8. \A u : \A n \in Mutex : OnQueue(u, n)' <=> OnQueue(u, n) \/ (u = t /\ n = m)
  <2> SUFFICES ASSUME NEW u, NEW n \in Mutex
               PROVE  On(r, u, n) <=> OnQueue(u, n) \/ (u = t /\ n = m)
    BY <1>7, Zenon
  <2>1. CASE n = m
    BY <1>6, <2>1 DEF InLine, On, OnQueue
  <2>2. CASE n # m
    BY <1>1, <1>6, <2>2, Zenon DEF InLine, On, OnQueue
  <2> QED BY <2>1, <2>2, Zenon
<1>9. /\ pc \in [Thread -> {"run", "commit", "wait"}]
      /\ wanted \in [Thread -> Mutex \cup {None}]
      /\ status \in [Thread -> {"SUCCESSFUL", "TIMEOUT", "UNAVAILABLE"}]
      /\ blocked \in [Thread -> BOOLEAN] /\ sched \in [Thread -> Nat]
      /\ todo \in [Context -> Seq(Step)]
  BY <1>3, Zenon DEF WaitInv, WaitTypes
<1>10. /\ pc'[t] = "commit" /\ wanted'[t] = m /\ status'[t] = "SUCCESSFUL"
       /\ \A u \in Thread : u # t => /\ pc'[u] = pc[u] /\ wanted'[u] = wanted[u]
                                     /\ status'[u] = status[u]
  BY <1>2, <1>9, Zenon
<1>11. r.update \in Seq(Updates) /\ Len(r.update) <= 2
  <2>1. r.update \in Seq(Updates)
    BY <1>6 DEF Good, State
  <2>2. Len(r.update) <= Len(Now.update) + 1
    BY <1>5, Zenon DEF Moved
  <2> QED BY <1>1, <2>1, <2>2
<1>12. Fitting(r.update, {})
  BY <1>11, UpdatesFit, Zenon
<1>13. WaitTypes'
  <2>1. todo' \in [Context -> Seq(Step)]
    BY Zenon, <1>2, <1>9, <1>12 DEF Later, Fitting
  <2>2. /\ pc' \in [Thread -> {"run", "commit", "wait"}]
        /\ wanted' \in [Thread -> Mutex \cup {None}]
        /\ status' \in [Thread -> {"SUCCESSFUL", "TIMEOUT", "UNAVAILABLE"}]
    BY <1>2, <1>9, Zenon
  <2> QED BY <1>2, <1>9, <2>1, <2>2, Zenon DEF WaitTypes
<1>14. OwnerWhileWaiting'
  <2> SUFFICES ASSUME NEW n \in Mutex, owner[n] = None
               PROVE  r.queue[n] = <<>>
    <3>1. queue' = r.queue
      BY <1>2, Zenon DEF Becomes
    <3> QED BY <1>7, <3>1, Zenon DEF OwnerWhileWaiting
  <2>1. n # m /\ queue[n] = <<>>
    BY <1>2, <1>3, Zenon DEF OwnerWhileWaiting
  <2>2. Range(r.queue[n]) = Range(queue[n])
    BY <1>1, <1>6, <2>1, Zenon DEF InLine
  <2>3. r.queue[n] \in Seq(Thread)
    BY <1>6 DEF Good, State
  <2>4. Range(queue[n]) = {}
    BY <2>1 DEF Range
  <2>5. r.queue[n] # <<>> => r.queue[n][1] \in Range(r.queue[n])
    BY <2>3 DEF Range
  <2> QED BY <2>2, <2>4, <2>5, Zenon
<1>15. Operates(t, r.update, {})
  <2>1. \A u \in Thread : u # t => (Waiting(u)' <=> Waiting(u))
    BY <1>8, Zenon DEF Waiting
  <2>2. Waiting(t)'
    BY <1>8, Zenon DEF Waiting
  <2>3. \A u \in Thread, n \in Mutex :
          OnQueue(u, n)' =>
            \/ OnQueue(u, n) /\ wanted'[u] = wanted[u] /\ status'[u] = status[u]
            \/ u = t /\ pc'[u] = "commit" /\ wanted'[u] = n /\ status'[u] = "SUCCESSFUL"
    <3>1. \A n \in Mutex : ~OnQueue(t, n)
      BY <1>1, <1>4, Zenon DEF Waits
    <3> QED BY <1>8, <1>10, <3>1, Zenon
  <2>4. \A u \in Thread :
          u # t /\ ~Waiting(u)' /\ wanted'[u] # None =>
            \/ /\ ~Waiting(u) /\ wanted'[u] = wanted[u] /\ status'[u] = status[u]
               /\ owner'[wanted[u]] = u <=> owner[wanted[u]] = u
            \/ Waiting(u) /\ (owner'[wanted'[u]] = u <=> status'[u] = "SUCCESSFUL")
    BY <1>7, <1>10, <2>1, Zenon
  <2> QED BY <1>2, <1>10, <1>12, <2>2, <2>3, <2>4, Zenon DEF Operates
<1>16. WaitInv'
  <2>1. {} \subseteq Thread
    OBVIOUS
  <2> QED BY <1>2, <1>3, <1>13, <1>14, <1>15, <2>1, OperatesKeeps, SMTT(30)
<1>17. KeepsInformed
  <2>1. \A u \in Thread : \/ prio'[u] = prio[u] \/ Waiting(u) \/ pc'[u] = "commit"
                          \/ Update(u) \in Range(r.update)
    <3>1. \A u : u \in Range(queue[m]) => Waiting(u)
      BY Zenon DEF Waiting, OnQueue
    <3>2. \A u \in Thread : u \in Range(queue[m]) \cup {t} => Waiting(u) \/ pc'[u] = "commit"
      BY <1>10, <3>1, Zenon
    <3> QED BY <1>1, <1>5, <1>7, <3>2, Zenon DEF Moved
  <2> QED BY <1>2, <1>3, <1>10, <2>1, OperatesTells, Zenon
<1> QED BY <1>7, <1>16, <1>17, Zenon DEF Kept, MutexInv

LEMMA NowSame ==
  ASSUME UNCHANGED <<owner, ceiling, real, prio, qprio, queue>>
  PROVE  /\ Now' = Now
         /\ (\A t, m : OnQueue(t, m)' <=> OnQueue(t, m))
         /\ \A t : Waiting(t)' <=> Waiting(t)
BY Zenon DEF Now, Waiting, OnQueue

\* A thread that is still to be unblocked.
LEMMA PendingIs ==
  ASSUME WaitInv, NEW d \in Context, NEW i \in DOMAIN todo[d], todo[d][i].op = "unblock",
         NEW x, todo[d][i].thread = x
  PROVE  /\ x \in Thread /\ pc[x] = "wait" /\ blocked[x] /\ ~Waiting(x)
         /\ \A e \in Context : \A j \in DOMAIN todo[e] :
              todo[e][j] = todo[d][i] => e = d /\ j = i
<1>1. todo[d] \in Seq(Step)
  BY DEF WaitInv, WaitTypes
<1>2. todo[d][i] \in Step
  BY <1>1
<1>3. x \in Thread
  BY <1>2 DEF Step
<1> QED BY <1>3, Zenon DEF WaitInv, UnblockPending

LEMMA PendingKept ==
  ASSUME WaitInv, UNCHANGED todo, \A u : Waiting(u)' <=> Waiting(u),
         \A u \in Thread : pc[u] = "wait" /\ blocked[u] => pc'[u] = "wait" /\ blocked'[u]
  PROVE  UnblockPending'
<1>1. ASSUME NEW d \in Context, NEW i \in DOMAIN todo'[d], todo'[d][i].op = "unblock",
             NEW x, todo'[d][i].thread = x
      PROVE  /\ pc'[x] = "wait" /\ blocked'[x] /\ ~Waiting(x)'
             /\ \A e \in Context : \A j \in DOMAIN todo'[e] :
                  todo'[e][j] = todo'[d][i] => e = d /\ j = i
  <2>1. i \in DOMAIN todo[d] /\ todo[d][i].op = "unblock" /\ todo[d][i].thread = x
    BY <1>1, Zenon
  <2>2. /\ x \in Thread /\ pc[x] = "wait" /\ blocked[x] /\ ~Waiting(x)
        /\ \A e \in Context : \A j \in DOMAIN todo[e] :
             todo[e][j] = todo[d][i] => e = d /\ j = i
    BY <2>1, PendingIs
  <2> QED BY <2>2, Zenon
<1>2. StillPending
  BY <1>1, Zenon DEF StillPending, PendingAt
<1> QED BY <1>2, PendingFrom, Zenon

LEMMA CommitKeeps ==
  ASSUME MutexInv, NEW t \in Thread, Commit(t)
  PROVE  Kept
<1>1. /\ pc[t] = "commit" /\ pc' = [pc EXCEPT ![t] = "wait"]
      /\ blocked' = [blocked EXCEPT ![t] = WaitsFor(Now, t) # None]
      /\ sched' = IF WaitsFor(Now, t) # None THEN sched ELSE [sched EXCEPT ![t] = prio[t]]
      /\ UNCHANGED <<wanted, status, owner, ceiling, real, prio, qprio, queue, todo>>
  BY Zenon DEF Commit
<1>2. /\ Now' = Now
      /\ (\A u, m : OnQueue(u, m)' <=> OnQueue(u, m))
      /\ \A u : Waiting(u)' <=> Waiting(u)
  BY <1>1, NowSame, Zenon
<1>3. Good(Now) /\ WaitInv /\ PriorityInv'
  BY <1>2, Zenon DEF MutexInv, PriorityInv
<1>4. (WaitsFor(Now, t) # None) <=> Waiting(t)
  BY NowIs, WaitsForIs, Zenon
<1>5. /\ pc \in [Thread -> {"run", "commit", "wait"}] /\ blocked \in [Thread -> BOOLEAN]
      /\ sched \in [Thread -> Nat] /\ prio \in [Thread -> Nat]
  <2>1. prio = Now.prio /\ Now.prio \in [Thread -> Nat]
    BY <1>3, NowIs DEF Good, State
  <2> QED BY <1>3, <2>1, Zenon DEF WaitInv, WaitTypes
<1>6. /\ pc' \in [Thread -> {"run", "commit", "wait"}] /\ pc'[t] = "wait"
      /\ \A u \in Thread : u # t => pc'[u] = pc[u]
  BY <1>1, <1>5
<1>7. /\ blocked' \in [Thread -> BOOLEAN] /\ (blocked'[t] <=> Waiting(t))
      /\ \A u \in Thread : u # t => blocked'[u] = blocked[u]
  <2>1. (WaitsFor(Now, t) # None) \in BOOLEAN
    OBVIOUS
  <2>2. /\ blocked' \in [Thread -> BOOLEAN] /\ blocked'[t] = (WaitsFor(Now, t) # None)
    BY <1>1, <1>5, <2>1
  <2>3. \A u \in Thread : u # t => blocked'[u] = blocked[u]
    BY <1>1, <1>5, Zenon
  <2> QED BY <1>4, <2>2, <2>3, Zenon
<1>8. /\ sched' \in [Thread -> Nat]
      /\ Waiting(t) \/ sched'[t] = prio[t]
      /\ \A u \in Thread : u # t => sched'[u] = sched[u]
  BY <1>1, <1>4, <1>5
<1>9. WaitTypes'
  BY <1>1, <1>3, <1>6, <1>7, <1>8, Zenon DEF WaitInv, WaitTypes
<1>10. OwnerWhileWaiting'
  BY <1>1, <1>3, Zenon DEF WaitInv, OwnerWhileWaiting
<1>11. OnQueueWaits'
  <2>1. \A m \in Mutex : OnQueue(t, m) => Waiting(t)
    BY Zenon DEF Waiting
  <2>2. ASSUME NEW u \in Thread, NEW m \in Mutex, OnQueue(u, m)
        PROVE  pc'[u] = "commit" \/ (pc'[u] = "wait" /\ blocked'[u])
    <3>1. CASE u = t
      BY <1>6, <1>7, <2>1, <2>2, <3>1, Zenon
    <3>2. CASE u # t
      BY <1>3, <1>6, <1>7, <2>2, <3>2, Zenon DEF WaitInv, OnQueueWaits
    <3> QED BY <3>1, <3>2, Zenon
  <2> QED BY <1>1, <1>2, <1>3, <2>2, Zenon DEF WaitInv, OnQueueWaits
<1>12. Decided'
  <2>1. \A u \in Thread : pc'[u] # "run" => pc[u] # "run"
    <3>1. "commit" # "run"
      OBVIOUS
    <3> QED BY <1>1, <1>6, <3>1, Zenon
  <2> QED BY <1>1, <1>2, <1>3, <2>1, Zenon DEF WaitInv, Decided
<1>13. UnblockPending'
  <2>1. \A u \in Thread : pc[u] = "wait" /\ blocked[u] => pc'[u] = "wait" /\ blocked'[u]
    <3>1. "commit" # "wait"
      OBVIOUS
    <3> QED BY <1>1, <1>6, <1>7, <3>1, Zenon
  <2> QED BY <1>1, <1>2, <1>3, <2>1, PendingKept, Zenon
<1>14. \A c \in Context : TwoUpdates(todo'[c])
  BY <1>1, <1>3, Zenon DEF WaitInv
<1>15. MutexInv'
  BY <1>3, <1>9, <1>10, <1>11, <1>12, <1>13, <1>14, Zenon DEF MutexInv, WaitInv
<1>16. KeepsInformed
  <2>1. \A u \in Thread : u # t =>
          /\ pc'[u] = pc[u] /\ blocked'[u] = blocked[u] /\ sched'[u] = sched[u]
    BY <1>6, <1>7, <1>8, Zenon
  <2>2. blocked'[t] \/ sched'[t] = prio'[t]
    BY <1>1, <1>7, <1>8, Zenon
  <2>3. todo' = todo /\ prio' = prio
    BY <1>1, Zenon
  <2> QED BY <2>1, <2>2, <2>3, Zenon DEF KeepsInformed, Informed
<1> QED BY <1>15, <1>16, Zenon DEF Kept

LEMMA ReturnKeeps ==
  ASSUME MutexInv, NEW t \in Thread, Return(t)
  PROVE  Kept
<1>1. /\ pc[t] = "wait" /\ ~blocked[t] /\ pc' = [pc EXCEPT ![t] = "run"]
      /\ wanted' = [wanted EXCEPT ![t] = None]
      /\ status' = [status EXCEPT ![t] = "SUCCESSFUL"]
      /\ UNCHANGED <<blocked, owner, ceiling, real, prio, qprio, queue, sched, todo>>
  BY Zenon DEF Return
<1>2. /\ Now' = Now
      /\ (\A u, m : OnQueue(u, m)' <=> OnQueue(u, m))
      /\ \A u : Waiting(u)' <=> Waiting(u)
  BY <1>1, NowSame, Zenon
<1>3. WaitInv /\ PriorityInv'
  BY <1>2, Zenon DEF MutexInv, PriorityInv
<1>4. /\ pc \in [Thread -> {"run", "commit", "wait"}]
      /\ wanted \in [Thread -> Mutex \cup {None}]
      /\ status \in [Thread -> {"SUCCESSFUL", "TIMEOUT", "UNAVAILABLE"}]
  BY <1>3, Zenon DEF WaitInv, WaitTypes
<1>5. /\ pc' \in [Thread -> {"run", "commit", "wait"}] /\ pc'[t] = "run"
      /\ wanted' \in [Thread -> Mutex \cup {None}]
      /\ status' \in [Thread -> {"SUCCESSFUL", "TIMEOUT", "UNAVAILABLE"}]
  BY <1>1, <1>4
<1>6. \A u \in Thread : u # t => /\ pc'[u] = pc[u] /\ wanted'[u] = wanted[u]
                                 /\ status'[u] = status[u]
  BY <1>1, <1>4, Zenon
<1>7. "wait" # "commit" /\ \A m \in Mutex : ~OnQueue(t, m)
  BY <1>1, <1>3 DEF WaitInv, OnQueueWaits
<1>8. WaitTypes'
  BY <1>1, <1>3, <1>5, Zenon DEF WaitInv, WaitTypes
<1>9. OwnerWhileWaiting'
  BY <1>1, <1>3, Zenon DEF WaitInv, OwnerWhileWaiting
<1>10. OnQueueWaits'
  BY <1>1, <1>2, <1>3, <1>6, <1>7, Zenon DEF WaitInv, OnQueueWaits
<1>11. Decided'
  <2>1. wanted'[t] = None
    BY <1>1, <1>4
  <2>2. Decided
    BY <1>3, Zenon DEF WaitInv
  <2> SUFFICES ASSUME NEW u \in Thread, pc'[u] # "run", ~Waiting(u)', wanted'[u] # None
               PROVE  owner'[wanted'[u]] = u <=> status'[u] = "SUCCESSFUL"
    BY Zenon DEF Decided
  <2>3. u # t
    BY <2>1, Zenon
  <2> QED BY <1>1, <1>2, <1>6, <2>2, <2>3, Zenon DEF Decided
<1>12. UnblockPending'
  <2>1. \A u \in Thread : pc[u] = "wait" /\ blocked[u] => pc'[u] = "wait" /\ blocked'[u]
    BY <1>1, <1>6, Zenon
  <2> QED BY <1>1, <1>2, <1>3, <2>1, PendingKept, Zenon
<1>13. \A c \in Context : TwoUpdates(todo'[c])
  BY <1>1, <1>3, Zenon DEF WaitInv
<1>14. MutexInv'
  BY <1>3, <1>8, <1>9, <1>10, <1>11, <1>12, <1>13, Zenon DEF MutexInv, WaitInv
<1>15. KeepsInformed
  BY <1>1, <1>6, <1>7, Zenon DEF KeepsInformed, Informed
<1> QED BY <1>14, <1>15, Zenon DEF Kept

LEMMA TailTwoUpdates ==
  ASSUME NEW q \in Seq(Step), q # <<>>, TwoUpdates(q)
  PROVE  /\ Tail(q) \in Seq(Step)
         /\ \A i \in DOMAIN Tail(q) : i + 1 \in DOMAIN q /\ i + 1 # 1 /\ Tail(q)[i] = q[i + 1]
         /\ TwoUpdates(Tail(q))
<1>1. Tail(q) \in Seq(Step) /\ Len(Tail(q)) = Len(q) - 1 /\ Len(q) \in Nat /\ Len(q) >= 1
  OBVIOUS
<1>2. \A i \in 1 .. Len(q) - 1 : Tail(q)[i] = q[i + 1]
  OBVIOUS
<1>3. DOMAIN Tail(q) = 1 .. Len(q) - 1 /\ DOMAIN q = 1 .. Len(q)
  BY <1>1
<1>4. \A i \in DOMAIN Tail(q) : i + 1 \in DOMAIN q /\ i + 1 # 1 /\ Tail(q)[i] = q[i + 1]
  BY <1>1, <1>2, <1>3
<1>5. TwoUpdates(Tail(q))
  <2>1. PICK a \in Nat, b \in Nat : \A i \in DOMAIN q : q[i].op = "update" => i \in {a, b}
    BY Zenon DEF TwoUpdates
  <2> DEFINE a1 == IF a = 0 THEN 0 ELSE a - 1
             b1 == IF b = 0 THEN 0 ELSE b - 1
  <2>2. a1 \in Nat /\ b1 \in Nat
    OBVIOUS
  <2>3. ASSUME NEW i \in DOMAIN Tail(q), Tail(q)[i].op = "update"
        PROVE  i \in {a1, b1}
    <3>1. i + 1 \in {a, b}
      BY <1>4, <2>1, <2>3, Zenon
    <3>2. i \in Nat
      BY <1>3
    <3> QED BY <3>1, <3>2
  <2> HIDE DEF a1, b1
  <2> QED BY <2>2, <2>3, Zenon DEF TwoUpdates
<1> QED BY <1>1, <1>4, <1>5

\* The first step of context c is done.  Entry i of context d was this entry:
Before(c, d, i) == IF d = c THEN i + 1 ELSE i

OneStep(c) ==
  /\ todo' \in [Context -> Seq(Step)]
  /\ \A d \in Context : TwoUpdates(todo'[d])
  /\ \A d \in Context : \A i \in DOMAIN todo'[d] :
       /\ Before(c, d, i) \in DOMAIN todo[d]
       /\ todo'[d][i] = todo[d][Before(c, d, i)]
       /\ ~(d = c /\ Before(c, d, i) = 1)
       /\ \A j \in DOMAIN todo'[d] : Before(c, d, j) = Before(c, d, i) => j = i
  /\ \A d \in Context : \A k \in DOMAIN todo[d] :
       \/ d = c /\ k = 1
       \/ \E i \in DOMAIN todo'[d] : todo'[d][i] = todo[d][k]

LEMMA OneStepIs ==
  ASSUME WaitInv, NEW c \in Context, todo[c] # <<>>,
         todo' = [todo EXCEPT ![c] = Tail(todo[c])]
  PROVE  OneStep(c)
<1>1. todo \in [Context -> Seq(Step)] /\ \A d \in Context : TwoUpdates(todo[d])
  BY Zenon DEF WaitInv, WaitTypes
<1> DEFINE q == todo[c]
<1>2. q \in Seq(Step) /\ q # <<>> /\ TwoUpdates(q)
  BY <1>1
<1>3. todo'[c] = Tail(q) /\ \A d \in Context : d # c => todo'[d] = todo[d]
  BY <1>1
<1> HIDE DEF q
<1>4. /\ Tail(q) \in Seq(Step)
      /\ \A i \in DOMAIN Tail(q) : i + 1 \in DOMAIN q /\ i + 1 # 1 /\ Tail(q)[i] = q[i + 1]
      /\ TwoUpdates(Tail(q))
  BY <1>2, TailTwoUpdates
<1>5. todo' \in [Context -> Seq(Step)]
  BY <1>1, <1>4 DEF q
<1>6. \A d \in Context : TwoUpdates(todo'[d])
  BY <1>1, <1>3, <1>4, Zenon
<1>7. ASSUME NEW d \in Context, NEW i \in DOMAIN todo'[d]
      PROVE  /\ Before(c, d, i) \in DOMAIN todo[d]
             /\ todo'[d][i] = todo[d][Before(c, d, i)]
             /\ ~(d = c /\ Before(c, d, i) = 1)
             /\ \A j \in DOMAIN todo'[d] : Before(c, d, j) = Before(c, d, i) => j = i
  <2>1. CASE d = c
    <3>1. \A j \in DOMAIN todo'[d] : Before(c, d, j) = j + 1
      BY <2>1, Zenon DEF Before
    <3>2. i \in DOMAIN Tail(q) /\ todo[d] = q /\ todo'[d] = Tail(q)
      BY <1>3, <1>7, <2>1, Zenon DEF q
    <3>3. \A j \in DOMAIN todo'[d] : j \in Nat
      BY <1>5
    <3>4. \A j \in DOMAIN todo'[d] : j + 1 = i + 1 => j = i
      BY <1>7, <3>3
    <3> QED BY <1>4, <1>7, <3>1, <3>2, <3>4, Zenon
  <2>2. CASE d # c
    BY <1>3, <1>7, <2>2, Zenon DEF Before
  <2> QED BY <2>1, <2>2, Zenon
<1>8. ASSUME NEW d \in Context, NEW k \in DOMAIN todo[d], ~(d = c /\ k = 1)
      PROVE  \E i \in DOMAIN todo'[d] : todo'[d][i] = todo[d][k]
  <2>1. CASE d = c
    <3>1. k \in DOMAIN q /\ k # 1 /\ todo[d] = q /\ todo'[d] = Tail(q)
      BY <1>3, <1>8, <2>1, Zenon DEF q
    <3>2. k - 1 \in DOMAIN Tail(q) /\ Tail(q)[k - 1] = q[k]
      BY <1>2, <3>1
    <3> QED BY <3>1, <3>2, Zenon
  <2>2. CASE d # c
    BY <1>3, <1>8, <2>2, Zenon
  <2> QED BY <2>1, <2>2, Zenon
<1> QED BY <1>5, <1>6, <1>7, <1>8, ZenonT(30) DEF OneStep

LEMMA DoNextKeeps ==
  ASSUME MutexInv, NEW c \in Context, DoNext(c)
  PROVE  Kept
<1> DEFINE step == todo[c][1]
           x == step.thread
<1>1. /\ UNCHANGED <<pc, wanted, status, owner, ceiling, real, prio, qprio, queue>>
      /\ todo[c] # <<>> /\ todo' = [todo EXCEPT ![c] = Tail(todo[c])]
      /\ \/ Head(todo[c]).op = "update" /\ UpdatePriority(c, Head(todo[c]).thread)
         \/ Head(todo[c]).op = "unblock" /\ UnblockThread(c, Head(todo[c]).thread)
  BY Zenon DEF DoNext
<1>2. /\ Now' = Now
      /\ (\A u, m : OnQueue(u, m)' <=> OnQueue(u, m))
      /\ \A u : Waiting(u)' <=> Waiting(u)
  BY <1>1, NowSame, Zenon
<1>3. Good(Now) /\ WaitInv /\ PriorityInv'
  BY <1>2, Zenon DEF MutexInv, PriorityInv
<1>4. OneStep(c)
  BY <1>1, <1>3, OneStepIs, Zenon
<1>5. /\ todo \in [Context -> Seq(Step)] /\ blocked \in [Thread -> BOOLEAN]
      /\ sched \in [Thread -> Nat] /\ prio \in [Thread -> Nat]
  <2>1. prio = Now.prio /\ Now.prio \in [Thread -> Nat]
    BY <1>3, NowIs DEF Good, State
  <2> QED BY <1>3, <2>1, Zenon DEF WaitInv, WaitTypes
<1>6. 1 \in DOMAIN todo[c] /\ Head(todo[c]) = step /\ step \in Step
  <2>1. todo[c] \in Seq(Step)
    BY <1>5
  <2> QED BY <1>1, <2>1
<1>7. x \in Thread /\ step = [op |-> step.op, thread |-> x]
  BY <1>6 DEF Step
<1>8. /\ blocked' \in [Thread -> BOOLEAN] /\ sched' \in [Thread -> Nat]
      /\ (\A u \in Thread : u # x => sched'[u] = sched[u] /\ blocked'[u] = blocked[u])
      /\ (blocked'[x] \/ sched'[x] = prio[x])
      /\ (step.op = "unblock" \/ blocked' = blocked)
  <2> HIDE DEF step, x
  <2>1. CASE step.op = "update" /\ UpdatePriority(c, x)
    BY <1>5, <1>7, <2>1 DEF UpdatePriority
  <2>2. CASE step.op = "unblock" /\ UnblockThread(c, x)
    BY <1>5, <1>7, <2>2 DEF UnblockThread
  <2> QED BY <1>1, <1>6, <2>1, <2>2, Zenon DEF x
<1>9. WaitTypes'
  BY <1>1, <1>3, <1>4, <1>8, Zenon DEF WaitInv, WaitTypes, OneStep
<1>10. OwnerWhileWaiting' /\ Decided'
  BY <1>1, <1>2, <1>3, Zenon DEF WaitInv, OwnerWhileWaiting, Decided
<1>11. step.op = "unblock" => ~Waiting(x)
  BY <1>3, <1>6, PendingIs
<1>12. OnQueueWaits'
  <2>1. ASSUME NEW u \in Thread, NEW m \in Mutex, OnQueue(u, m)
        PROVE  blocked'[u] = blocked[u]
    <3>1. u = x => step.op # "unblock"
      BY <1>11, <2>1, Zenon DEF Waiting
    <3> QED BY <1>8, <3>1, Zenon
  <2> QED BY <1>1, <1>2, <1>3, <2>1, Zenon DEF WaitInv, OnQueueWaits
<1>13. UnblockPending'
  <2>1. ASSUME NEW d \in Context, NEW i \in DOMAIN todo'[d], todo'[d][i].op = "unblock",
               NEW y, todo'[d][i].thread = y
        PROVE  /\ pc'[y] = "wait" /\ blocked'[y] /\ ~Waiting(y)'
               /\ \A e \in Context : \A j \in DOMAIN todo'[e] :
                    todo'[e][j] = todo'[d][i] => e = d /\ j = i
    <3> DEFINE k == Before(c, d, i)
    <3>1. /\ k \in DOMAIN todo[d] /\ todo'[d][i] = todo[d][k] /\ ~(d = c /\ k = 1)
          /\ \A j \in DOMAIN todo'[d] : Before(c, d, j) = k => j = i
      BY <1>4, <2>1, Zenon DEF OneStep
    <3> HIDE DEF k
    <3>2. todo[d][k].op = "unblock" /\ todo[d][k].thread = y
      BY <2>1, <3>1, Zenon
    <3>3. /\ y \in Thread /\ pc[y] = "wait" /\ blocked[y] /\ ~Waiting(y)
          /\ \A e \in Context : \A j \in DOMAIN todo[e] :
               todo[e][j] = todo[d][k] => e = d /\ j = k
      BY <1>3, <3>1, <3>2, PendingIs
    <3>4. y = x => step.op # "unblock"
      <4> SUFFICES ASSUME y = x, step.op = "unblock"
                   PROVE  step = todo[d][k]
        BY <1>6, <3>1, <3>3, Zenon
      <4>1. todo[d][k] \in Step
        BY <1>5, <3>1
      <4>2. todo[d][k] = [op |-> todo[d][k].op, thread |-> todo[d][k].thread]
        BY <4>1, Zenon DEF Step
      <4> QED BY <1>7, <3>2, <4>2, Zenon
    <3>5. blocked'[y]
      BY <1>8, <3>3, <3>4, Zenon
    <3>6. ASSUME NEW e \in Context, NEW j \in DOMAIN todo'[e], todo'[e][j] = todo'[d][i]
          PROVE  e = d /\ j = i
      <4>1. Before(c, e, j) \in DOMAIN todo[e] /\ todo'[e][j] = todo[e][Before(c, e, j)]
        BY <1>4, <3>6, Zenon DEF OneStep
      <4>2. e = d /\ Before(c, e, j) = k
        BY <3>1, <3>3, <3>6, <4>1, Zenon
      <4> QED BY <3>1, <3>6, <4>2, Zenon
    <3> QED BY <1>1, <1>2, <3>3, <3>5, <3>6, Zenon
  <2>2. StillPending
    BY <2>1, Zenon DEF StillPending, PendingAt
  <2> QED BY <2>2, PendingFrom, Zenon
<1>14. \A d \in Context : TwoUpdates(todo'[d])
  BY <1>4, Zenon DEF OneStep
<1>15. MutexInv'
  BY <1>3, <1>9, <1>10, <1>12, <1>13, <1>14, Zenon DEF MutexInv, WaitInv
<1>16. KeepsInformed
  <2> SUFFICES ASSUME NEW u \in Thread, Informed(u)
               PROVE  \/ blocked'[u] \/ pc'[u] = "commit"
                      \/ \E d \in Context : \E i \in DOMAIN todo'[d] : todo'[d][i].thread = u
                      \/ sched'[u] = prio'[u]
    BY Zenon DEF KeepsInformed, Informed
  <2>1. CASE u = x
    BY <1>1, <1>8, <2>1, Zenon
  <2>2. CASE u # x
    <3>1. /\ pc'[u] = pc[u] /\ prio'[u] = prio[u]
          /\ sched'[u] = sched[u] /\ blocked'[u] = blocked[u]
      BY <1>1, <1>8, <2>2, Zenon
    <3>2. ASSUME NEW d \in Context, NEW k \in DOMAIN todo[d], todo[d][k].thread = u
          PROVE  \E i \in DOMAIN todo'[d] : todo'[d][i].thread = u
      <4>1. ~(d = c /\ k = 1)
        BY <2>2, <3>2, Zenon
      <4>2. \E i \in DOMAIN todo'[d] : todo'[d][i] = todo[d][k]
        BY <1>4, <4>1, Zenon DEF OneStep
      <4>3. PICK i \in DOMAIN todo'[d] : todo'[d][i] = todo[d][k]
        BY <4>2, Zenon
      <4>4. todo'[d][i].thread = u
        BY <3>2, <4>3, Zenon
      <4> QED BY <4>4, Zenon
    <3> QED BY <3>1, <3>2, Zenon DEF Informed
  <2> QED BY <2>1, <2>2, Zenon
<1> QED BY <1>15, <1>16, Zenon DEF Kept

------------------------------------------------------------------------------
(***************************************************************************)
(* The invariant.                                                          *)
(***************************************************************************)
LEMMA InitMutexInv ==
  ASSUME LeastNat, Init
  PROVE  MutexInv
<1>1. /\ Now.owner = owner /\ Now.prio = prio /\ Now.queue = queue /\ Now.update = <<>>
      /\ Now.ceiling = ceiling /\ Now.real = real /\ Now.qprio = qprio
      /\ (\A t, m : On(Now, t, m) <=> OnQueue(t, m))
      /\ \A t : Waits(Now, t) <=> Waiting(t)
  BY NowIs, Zenon
<1>2. None \notin Thread /\ Inherit \subseteq Mutex /\ Ceiling \subseteq Mutex
      /\ InitialPriority \in [Thread -> Nat] /\ InitialCeiling \in [Mutex -> Nat]
  BY CoreMutexAssumption
<1>3. \A m \in Mutex : owner[m] = None /\ queue[m] = <<>>
  BY DEF Init
<1>4. Now \in State
  BY <1>2 DEF Init, Now, State
<1>5. \A t, m : m \in Mutex => ~OnQueue(t, m)
  BY <1>3 DEF OnQueue, Range
<1>6. OneQueue(Now) /\ NoCircle(Now)
  BY <1>1, <1>5, Zenon DEF OneQueue, NoCircle
<1>7. \A m \in Mutex : LineFits(Now, m)
  <2>1. IsInjective(<<>>) /\ \A p : Sorted(p, <<>>)
    BY DEF IsInjective, Sorted
  <2> QED BY <1>1, <1>3, <2>1, Zenon DEF LineFits
<1>8. ASSUME NEW t \in Thread
      PROVE  Fits(Now, t)
  <2>1. Contributions(Now, t) = {real[t]}
    BY <1>1, <1>2, <1>3, Zenon DEF Contributions
  <2>2. real[t] \in Nat /\ prio[t] = real[t]
    BY <1>2 DEF Init
  <2>3. Min({real[t]}) = real[t]
    BY <2>2, MinUnique
  <2> QED BY <1>1, <2>1, <2>2, <2>3, Zenon DEF Fits
<1>9. PriorityInv
  BY <1>4, <1>6, <1>7, <1>8, Zenon DEF PriorityInv, Good
<1>10. WaitTypes
  BY <1>2 DEF Init, WaitTypes
<1>11. OwnerWhileWaiting /\ OnQueueWaits
  BY <1>3, <1>5, Zenon DEF OwnerWhileWaiting, OnQueueWaits
<1>12. Decided
  BY DEF Init, Decided
<1>13. \A c \in Context : todo[c] = <<>>
  BY DEF Init
<1>14. UnblockPending
  BY <1>13 DEF UnblockPending
<1>15. \A c \in Context : TwoUpdates(todo[c])
  BY <1>13 DEF TwoUpdates
<1>16. MutexInv
  BY <1>9, <1>10, <1>11, <1>12, <1>14, <1>15, Zenon DEF MutexInv, WaitInv
<1> QED BY <1>16

LEMMA OperationKeeps ==
  ASSUME LeastNat, Counting(Thread), Counting(Mutex), MutexInv,
         NEW t \in Thread, NEW m \in Mutex, MutexOperation(t, m)
  PROVE  Kept
<1>1. CASE Seize(t, m)
  BY <1>1, SeizeKeeps, Zenon
<1>2. CASE SeizeCeiling(t, m)
  BY <1>2, SeizeCeilingKeeps, Zenon
<1>3. CASE SeizeNested(t, m)
  BY <1>3, SeizeNestedKeeps, Zenon
<1>4. CASE SeizeWait(t, m)
  BY <1>4, SeizeWaitKeeps, Zenon
<1>5. CASE SurrenderNested(t, m)
  BY <1>5, SurrenderNestedKeeps, Zenon
<1>6. CASE SurrenderUnused(t, m)
  BY <1>6, SurrenderUnusedKeeps, Zenon
<1>7. CASE Surrender(t, m)
  BY <1>7, SurrenderKeeps, Zenon
<1>8. CASE SurrenderCeiling(t, m)
  BY <1>8, SurrenderCeilingKeeps, Zenon
<1>9. CASE Flush(t, m)
  BY <1>9, FlushKeeps, Zenon
<1> QED BY <1>1, <1>2, <1>3, <1>4, <1>5, <1>6, <1>7, <1>8, <1>9, Zenon DEF MutexOperation

LEMMA NextKeeps ==
  ASSUME LeastNat, Counting(Thread), Counting(Mutex), MutexInv, Next
  PROVE  Kept
<1>1. ASSUME NEW t \in Thread, Commit(t) PROVE Kept
  BY <1>1, CommitKeeps, Zenon
<1>2. ASSUME NEW t \in Thread, Return(t) PROVE Kept
  BY <1>2, ReturnKeeps, Zenon
<1>3. ASSUME NEW t \in Thread, NEW m \in Mutex, MutexOperation(t, m) PROVE Kept
  BY <1>3, OperationKeeps, Zenon
<1>4. ASSUME NEW t \in Thread, NEW m \in Mutex, NEW p \in NewCeiling, SetCeiling(t, m, p)
      PROVE  Kept
  BY <1>4, SetCeilingKeeps, Zenon
<1>5. ASSUME NEW t \in Thread, NEW u \in Thread, NEW p \in NewPriority, SetPriority(t, u, p)
      PROVE  Kept
  BY <1>5, SetPriorityKeeps, Zenon
<1>6. ASSUME NEW t \in Thread, NEW u \in Thread, ThreadQueueExtract(t, u) PROVE Kept
  BY <1>6, ThreadQueueExtractKeeps, Zenon
<1>7. ASSUME NEW k \in Clock, NEW t \in Thread, Timeout(k, t) PROVE Kept
  BY <1>7, TimeoutKeeps, Zenon
<1>8. ASSUME NEW c \in Context, DoNext(c) PROVE Kept
  BY <1>8, DoNextKeeps, Zenon
<1> QED BY <1>1, <1>2, <1>3, <1>4, <1>5, <1>6, <1>7, <1>8, Zenon DEF Next

LEMMA StutterKeeps ==
  ASSUME MutexInv, UNCHANGED vars
  PROVE  Kept
<1>1. UNCHANGED <<pc, wanted, status, blocked, owner, ceiling, real, prio, qprio, queue,
                  sched, todo>>
  BY DEF vars
<1>2. /\ Now' = Now
      /\ (\A u, m : OnQueue(u, m)' <=> OnQueue(u, m))
      /\ \A u : Waiting(u)' <=> Waiting(u)
  BY <1>1, NowSame, Zenon
<1>3. WaitInv /\ PriorityInv'
  BY <1>2, Zenon DEF MutexInv, PriorityInv
<1>4. WaitTypes' /\ OwnerWhileWaiting'
  BY <1>1, <1>3, Zenon DEF WaitInv, WaitTypes, OwnerWhileWaiting
<1>5. OnQueueWaits' /\ Decided'
  BY <1>1, <1>2, <1>3, Zenon DEF WaitInv, OnQueueWaits, Decided
<1>6. UnblockPending'
  BY <1>1, <1>2, <1>3, PendingKept, SMTT(30)
<1>7. \A c \in Context : TwoUpdates(todo'[c])
  BY <1>1, <1>3, Zenon DEF WaitInv
<1>8. KeepsInformed
  BY <1>1, Zenon DEF KeepsInformed, Informed
<1> QED BY <1>3, <1>4, <1>5, <1>6, <1>7, <1>8, Zenon DEF Kept, MutexInv, WaitInv

------------------------------------------------------------------------------
(***************************************************************************)
(* From the owner of each queue to the whole tree of waiting threads.      *)
(***************************************************************************)

\* What the priority of a thread is bounded by, and where it comes from.
LEMMA PriorityBounds ==
  ASSUME LeastNat, Good(Now), NEW u \in Thread
  PROVE  /\ prio[u] \in Nat /\ real[u] \in Nat /\ prio[u] <= real[u]
         /\ \A m \in Ceiling : owner[m] = u => ceiling[m] \in Nat /\ prio[u] <= ceiling[m]
         /\ \A m \in Inherit : owner[m] = u =>
              \A w \in Range(queue[m]) : w \in Thread /\ prio[u] <= prio[w]
         /\ \/ prio[u] = real[u]
            \/ \E m \in Ceiling : owner[m] = u /\ prio[u] = ceiling[m]
            \/ \E m \in Inherit : /\ owner[m] = u
                                  /\ \E w \in Range(queue[m]) : prio[u] = prio[w]
<1> DEFINE C == Contributions(Now, u)
<1>1. /\ Now.owner = owner /\ Now.prio = prio /\ Now.queue = queue
      /\ Now.ceiling = ceiling /\ Now.real = real /\ Now.qprio = qprio
  BY NowIs, Zenon
<1>2. Now \in State /\ (\A m \in Mutex : LineFits(Now, m)) /\ Fits(Now, u)
  BY Zenon DEF Good
<1>3. Ceiling \subseteq Mutex /\ Inherit \subseteq Mutex
  BY CoreMutexAssumption
<1>4. C \in SUBSET Nat /\ real[u] \in C
  BY <1>1, <1>2, ContributionsNat, Zenon
<1>5. C = {real[u]} \cup {ceiling[m] : m \in {n \in Mutex : owner[n] = u} \cap Ceiling}
          \cup {qprio[m] : m \in {n \in {k \in Mutex : owner[k] = u} \cap Inherit :
                                    queue[n] # <<>>}}
  BY <1>1, Zenon DEF Contributions
<1>6. prio[u] = Min(C)
  BY <1>1, <1>2, Zenon DEF Fits
<1> HIDE DEF C
<1>7. prio[u] \in C /\ prio[u] \in Nat /\ \A x \in C : prio[u] <= x
  BY <1>4, <1>6, MinIs
<1>8. ASSUME NEW m \in Inherit, queue[m] # <<>>
      PROVE  /\ Head(queue[m]) \in Range(queue[m]) /\ qprio[m] = prio[Head(queue[m])]
             /\ \A w \in Range(queue[m]) : w \in Thread /\ qprio[m] <= prio[w]
  <2>1. queue[m] \in Seq(Thread) /\ prio \in [Thread -> Nat] /\ m \in Mutex
    BY <1>1, <1>2, <1>3 DEF State
  <2>2. Sorted(prio, queue[m]) /\ qprio[m] = prio[Head(queue[m])]
    BY <1>1, <1>2, <1>8, <2>1, Zenon DEF LineFits
  <2>3. /\ Head(queue[m]) \in Range(queue[m])
        /\ \A w \in Range(queue[m]) : prio[Head(queue[m])] <= prio[w]
    BY <1>8, <2>1, <2>2, HeadFirst, SMTT(30)
  <2>4. \A w \in Range(queue[m]) : w \in Thread
    BY <2>1 DEF Range
  <2> QED BY <2>2, <2>3, <2>4, Zenon
<1>9. ASSUME NEW m \in Ceiling, owner[m] = u
      PROVE  ceiling[m] \in Nat /\ prio[u] <= ceiling[m]
  <2>1. ceiling[m] \in C
    BY <1>3, <1>5, <1>9
  <2> QED BY Zenon, <1>4, <1>7, <2>1
<1>10. ASSUME NEW m \in Inherit, owner[m] = u, NEW w \in Range(queue[m])
       PROVE  w \in Thread /\ prio[u] <= prio[w]
  <2>1. queue[m] # <<>>
    BY <1>10 DEF Range
  <2>2. qprio[m] \in C
    BY <1>3, <1>5, <1>10, <2>1, SMTT(30)
  <2>3. w \in Thread /\ qprio[m] <= prio[w]
    BY <1>8, <2>1, <1>10
  <2>4. prio[u] <= qprio[m] /\ qprio[m] \in Nat
    BY Zenon, <1>4, <1>7, <2>2
  <2>5. prio[w] \in Nat
    BY <1>1, <1>2, <2>3, SMTT(30) DEF State
  <2> QED BY <1>7, <2>3, <2>4, <2>5, SMTT(30)
<1>11. \/ prio[u] = real[u]
       \/ \E m \in Ceiling : owner[m] = u /\ prio[u] = ceiling[m]
       \/ \E m \in Inherit : /\ owner[m] = u
                             /\ \E w \in Range(queue[m]) : prio[u] = prio[w]
  <2>1. CASE prio[u] = real[u]
    BY <2>1
  <2>2. CASE \E m \in Ceiling : owner[m] = u /\ prio[u] = ceiling[m]
    BY <2>2
  <2>3. CASE \E m \in Inherit : owner[m] = u /\ queue[m] # <<>> /\ prio[u] = qprio[m]
    <3>1. PICK m \in Inherit : owner[m] = u /\ queue[m] # <<>> /\ prio[u] = qprio[m]
      BY <2>3, SMTT(30)
    <3>2. Head(queue[m]) \in Range(queue[m]) /\ qprio[m] = prio[Head(queue[m])]
      BY <1>8, <3>1, SMTT(30)
    <3> QED BY <3>1, <3>2, Zenon
  <2> QED BY <1>5, <1>7, <2>1, <2>2, <2>3, Zenon
<1>12. real[u] \in Nat /\ prio[u] <= real[u]
  BY <1>4, <1>7
<1> QED BY <1>7, <1>9, <1>10, <1>11, <1>12, Zenon

\* Another thread of E waits for each thread of E, which cannot be.
Pursued(s, E) ==
  \A u \in E : \E w \in E : \E m \in Mutex : On(s, w, m) /\ s.owner[m] = u

LEMMA ChainEnds ==
  ASSUME LeastNat, Counting(Thread), NEW s \in State, OneQueue(s), NoCircle(s),
         NEW E \in SUBSET Thread, NEW t \in E, Pursued(s, E)
  PROVE  FALSE
<1> DEFINE N == Cardinality(Thread)
           P(w, u) == \E m \in Mutex : On(s, w, m) /\ s.owner[m] = u
           next(u) == CHOOSE w \in E : P(w, u)
           G == [k \in (1 .. N) \X E |-> next(k[2])]
<1>1. N \in Nat /\ \A f \in [0 .. N -> Thread] : \E i, j \in 0 .. N : i < j /\ f[i] = f[j]
  BY Zenon DEF Counting
<1> HIDE DEF N
<1>2. \A u \in E : next(u) \in E /\ P(next(u), u)
  <2> HIDE DEF P
  <2> SUFFICES ASSUME NEW u \in E PROVE next(u) \in E /\ P(next(u), u)
    OBVIOUS
  <2>1. \E w \in E : P(w, u)
    BY Zenon DEF P, Pursued
  <2> QED BY <2>1, Zenon
<1> HIDE DEF P, next
<1>3. G \in [(1 .. N) \X E -> E]
  <2>1. \A k \in (1 .. N) \X E : k[2] \in E
    OBVIOUS
  <2> QED BY <1>2, <2>1, Zenon
<1>4. PICK f \in [0 .. N -> E] : IsIteration(N, t, G, f)
  <2> HIDE DEF G
  <2> QED BY Zenon, <1>1, <1>3, RecursionExists
<1>5. \A n \in 1 .. N : P(f[n], f[n - 1])
  <2> SUFFICES ASSUME NEW n \in 1 .. N PROVE P(f[n], f[n - 1])
    OBVIOUS
  <2>1. n - 1 \in 0 .. N
    BY <1>1
  <2>2. f[n - 1] \in E
    BY <1>4, <2>1, SMTT(30)
  <2>3. G[<<n, f[n - 1]>>] = next(f[n - 1])
    BY <2>2
  <2>4. f[n] = G[<<n, f[n - 1]>>]
    BY <1>4, Zenon DEF IsIteration
  <2> QED BY <1>2, <2>2, <2>3, <2>4, Zenon
<1> DEFINE a == [k \in 0 .. N |-> f[N - k]]
<1>6. \A k \in 0 .. N : N - k \in 0 .. N
  BY <1>1
<1>7. a \in [0 .. N -> Thread]
  BY <1>4, <1>6, Zenon
<1>8. PICK i \in 0 .. N, j \in 0 .. N : i < j /\ a[i] = a[j]
  <2> HIDE DEF a
  <2> QED BY <1>1, <1>7, Zenon
<1>9. \A k \in 1 .. N : P(a[k - 1], a[k])
  <2> SUFFICES ASSUME NEW k \in 1 .. N PROVE P(a[k - 1], a[k])
    BY Zenon
  <2>1. k - 1 \in 0 .. N /\ k \in 0 .. N /\ N - k + 1 \in 1 .. N
        /\ N - (k - 1) = N - k + 1 /\ (N - k + 1) - 1 = N - k
    BY <1>1
  <2>2. a[k - 1] = f[N - k + 1] /\ a[k] = f[N - k]
    BY <2>1
  <2>3. P(f[N - k + 1], f[(N - k + 1) - 1])
    BY <1>5, <2>1, Zenon
  <2> QED BY <2>1, <2>2, <2>3
<1> HIDE DEF a
<1>10. \A k \in 1 .. N : \E m \in Mutex : On(s, a[k - 1], m) /\ s.owner[m] = a[k]
  BY <1>9, Zenon DEF P
<1>11. \A k \in 0 .. N : a[k] \in Thread
  BY <1>7, Zenon
<1>12. N \in Nat /\ i \in 0 .. N /\ j \in 0 .. N /\ i < j
  BY <1>1, <1>8, Zenon
<1>13. IsWalk(s, N, a)
  BY <1>10, <1>11, Zenon DEF IsWalk
<1>14. a[i] # a[j]
  BY <1>12, <1>13, WalkOpen
<1> QED BY <1>8, <1>14, Zenon

\* The threads that a thread delays.
LEMMA DelayedByIs ==
  ASSUME Good(Now), NEW t \in Thread
  PROVE  /\ DelayedBy(t) \subseteq Thread
         /\ t \in DelayedBy(t)
         /\ \A m \in Inherit : owner[m] \in DelayedBy(t) => Range(queue[m]) \subseteq DelayedBy(t)
         /\ \A D \in SUBSET Thread :
              t \in D /\ (\A m \in Inherit : owner[m] \in D => Range(queue[m]) \subseteq D)
                => DelayedBy(t) \subseteq D
<1> DEFINE closed == {D \in SUBSET Thread :
                        /\ t \in D
                        /\ \A m \in Inherit : owner[m] \in D => Range(queue[m]) \subseteq D}
           B == DelayedBy(t)
<1>1. B = {u \in Thread : \A D \in closed : u \in D}
  BY Zenon DEF DelayedBy
<1>2. \A D \in SUBSET Thread :
        t \in D /\ (\A m \in Inherit : owner[m] \in D => Range(queue[m]) \subseteq D)
          => D \in closed
  OBVIOUS
<1>3. \A D \in closed : /\ t \in D
                        /\ \A m \in Inherit : owner[m] \in D => Range(queue[m]) \subseteq D
  OBVIOUS
<1> HIDE DEF closed, B
<1>4. \A m \in Inherit : Range(queue[m]) \subseteq Thread
  <2>1. Now.queue = queue /\ Inherit \subseteq Mutex
    BY NowIs, CoreMutexAssumption
  <2> QED BY <2>1 DEF Good, State, Range
<1>5. B \subseteq Thread /\ t \in B
  BY <1>1, <1>3, Zenon
<1>6. ASSUME NEW m \in Inherit, owner[m] \in B, NEW w \in Range(queue[m])
      PROVE  w \in B
  <2>1. w \in Thread
    BY <1>4, <1>6, Zenon
  <2>2. \A D \in closed : w \in D
    BY <1>1, <1>3, <1>6, Zenon
  <2> QED BY <1>1, <2>1, <2>2, Zenon
<1>7. \A D \in closed : B \subseteq D
  BY <1>1, Zenon
<1> QED BY <1>2, <1>5, <1>6, <1>7, Zenon DEF B

LEMMA LocalGlobal ==
  ASSUME LeastNat, Counting(Thread), Good(Now)
  PROVE  PriorityIsInherited
<1> SUFFICES ASSUME NEW t \in Thread
             PROVE  prio[t] = PriorityByDefinition(t)
  BY Zenon DEF PriorityIsInherited
<1> DEFINE B == DelayedBy(t)
           V == {real[u] : u \in B} \cup {ceiling[m] : m \in {n \in Ceiling : owner[n] \in B}}
<1>1. /\ B \subseteq Thread /\ t \in B
      /\ \A m \in Inherit : owner[m] \in B => Range(queue[m]) \subseteq B
      /\ \A D \in SUBSET Thread :
           t \in D /\ (\A m \in Inherit : owner[m] \in D => Range(queue[m]) \subseteq D)
             => B \subseteq D
  BY DelayedByIs, Zenon
<1>2. PriorityByDefinition(t) = Min(V)
  BY Zenon DEF PriorityByDefinition
<1> HIDE DEF B
<1>3. \A u \in Thread :
         /\ prio[u] \in Nat /\ real[u] \in Nat /\ prio[u] <= real[u]
         /\ \A m \in Ceiling : owner[m] = u => ceiling[m] \in Nat /\ prio[u] <= ceiling[m]
         /\ \A m \in Inherit : owner[m] = u =>
              \A w \in Range(queue[m]) : w \in Thread /\ prio[u] <= prio[w]
         /\ \/ prio[u] = real[u]
            \/ \E m \in Ceiling : owner[m] = u /\ prio[u] = ceiling[m]
            \/ \E m \in Inherit : /\ owner[m] = u
                                  /\ \E w \in Range(queue[m]) : prio[u] = prio[w]
  BY PriorityBounds
<1> DEFINE S == {u \in Thread : prio[t] <= prio[u]}
<1>4. B \subseteq S
  <2>1. S \in SUBSET Thread /\ t \in S
    BY <1>3
  <2>2. ASSUME NEW m \in Inherit, owner[m] \in S, NEW w \in Range(queue[m])
        PROVE  w \in S
    <3>1. owner[m] \in Thread /\ prio[t] <= prio[owner[m]] /\ prio[owner[m]] \in Nat
      BY <1>3, <2>2
    <3>2. w \in Thread /\ prio[owner[m]] <= prio[w]
      BY <1>3, <2>2, <3>1, Zenon
    <3>3. prio[w] \in Nat /\ prio[t] \in Nat
      BY <1>3, <3>2
    <3>4. prio[t] <= prio[w]
      BY <3>1, <3>2, <3>3
    <3> QED BY <3>2, <3>4, SMTT(30)
  <2> HIDE DEF S
  <2> QED BY <1>1, <2>1, <2>2, Zenon
<1>5. \A u \in B : u \in Thread /\ prio[t] <= prio[u]
  BY <1>4
<1>6. V \in SUBSET Nat /\ \A y \in V : prio[t] <= y
  <2>1. ASSUME NEW u \in B
        PROVE  real[u] \in Nat /\ prio[t] <= real[u]
    BY <1>3, <1>5, <2>1, SMTT(30)
  <2>2. ASSUME NEW m \in Ceiling, owner[m] \in B
        PROVE  ceiling[m] \in Nat /\ prio[t] <= ceiling[m]
    <3>1. /\ ceiling[m] \in Nat /\ prio[owner[m]] <= ceiling[m] /\ prio[t] <= prio[owner[m]]
          /\ prio[owner[m]] \in Nat /\ prio[t] \in Nat
      BY <1>3, <1>5, <2>2, SMTT(30)
    <3> QED BY <3>1, SMTT(30)
  <2> QED BY <2>1, <2>2, SMTT(30)
<1>7. prio[t] \in V
  <2> SUFFICES ASSUME prio[t] \notin V PROVE FALSE
    OBVIOUS
  <2> DEFINE E == {u \in B : prio[u] = prio[t]}
  <2>1. E \in SUBSET Thread /\ t \in E
    BY <1>1
  <2>2. ASSUME NEW u \in E
        PROVE  \E w \in E : \E m \in Mutex : On(Now, w, m) /\ Now.owner[m] = u
    <3>1. u \in B /\ prio[u] = prio[t] /\ u \in Thread
      BY <1>5, <2>2, SMTT(30)
    <3>2. prio[u] # real[u] /\ \A m \in Ceiling : owner[m] = u => prio[u] # ceiling[m]
      BY <3>1
    <3>3. PICK m \in Inherit : owner[m] = u /\ \E w \in Range(queue[m]) : prio[u] = prio[w]
      BY <1>3, <3>1, <3>2, Zenon
    <3>4. PICK w \in Range(queue[m]) : prio[u] = prio[w]
      BY <3>3, Zenon
    <3>5. w \in B /\ m \in Mutex
      BY <1>1, <3>1, <3>3, <3>4, CoreMutexAssumption, Zenon
    <3>6. w \in E
      BY <3>1, <3>4, <3>5, SMTT(30)
    <3>7. On(Now, w, m) /\ Now.owner[m] = u
      BY <3>3, <3>4, NowIs, Zenon DEF OnQueue
    <3> QED BY <3>5, <3>6, <3>7, Zenon
  <2>3. Now \in State /\ OneQueue(Now) /\ NoCircle(Now)
    BY Zenon DEF Good
  <2> HIDE DEF E
  <2>4. Pursued(Now, E)
    BY <2>2, Zenon DEF Pursued
  <2> QED BY <2>1, <2>3, <2>4, ChainEnds, SMTT(30)
<1> HIDE DEF V
<1> QED BY Zenon, <1>2, <1>6, <1>7, MinUnique

------------------------------------------------------------------------------
(***************************************************************************)
(* The theorems.  The facts about numbers and finite sets that the lemmas  *)
(* take as hypotheses come from the library.                               *)
(***************************************************************************)
Library == INSTANCE FiniteSetTheorems

\* The library means the same by its own instances of the two definitions.
LEMMA SameSets ==
  \A S : /\ Library!IsFiniteSet(S) <=> IsFiniteSet(S)
         /\ Library!Cardinality(S) = Cardinality(S)
<1>1. \A S : Library!IsFiniteSet(S) <=> IsFiniteSet(S)
  BY DEF Library!IsFiniteSet, IsFiniteSet
<1>2. \A S : Library!Cardinality(S) = Cardinality(S)
  BY DEF Library!Cardinality, Cardinality
<1> QED BY <1>1, <1>2, SMTT(30)

LEMMA LeastNatHolds == LeastNat
<1> SUFFICES ASSUME NEW I \in SUBSET Nat, I # {}
             PROVE  \E x \in I : \A y \in I : x <= y
  BY Zenon DEF LeastNat
<1>1. PICK x \in I : \A y \in I : ~(<<y, x>> \in Library!OpToRel(<, Nat))
  BY Library!NatLessThanWellFounded, Library!WFMin, I \subseteq Nat, Zenon
<1>2. \A y \in I : ~(y < x)
  BY <1>1, Zenon DEF Library!OpToRel
<1> QED BY <1>2

LEMMA CountingHolds ==
  ASSUME NEW X, IsFiniteSet(X)
  PROVE  Counting(X)
<1> DEFINE N == Cardinality(X)
<1>1. N \in Nat
  BY SameSets, Library!FS_CardinalityType, SMTT(30)
<1>2. IsFiniteSet(0 .. N) /\ Cardinality(0 .. N) = N + 1
  <2>1. /\ IsFiniteSet(0 .. N)
        /\ Cardinality(0 .. N) = IF 0 > N THEN 0 ELSE N - 0 + 1
    BY <1>1, SameSets, Library!FS_Interval, SMTT(30)
  <2> QED BY <1>1, <2>1, SMTT(30)
<1> HIDE DEF N
<1>3. ASSUME NEW f \in [0 .. N -> X]
      PROVE  \E i, j \in 0 .. N : i < j /\ f[i] = f[j]
  <2>1. Cardinality(X) < Cardinality(0 .. N)
    BY <1>1, <1>2, SMTT(30) DEF N
  <2>2. PICK x \in 0 .. N, y \in 0 .. N : x # y /\ f[x] = f[y]
    BY Zenon, <1>2, <1>3, <2>1, SameSets, Library!FS_PigeonHole
  <2>3. CASE x < y
    BY <2>2, <2>3, Zenon
  <2>4. CASE y < x
    BY <2>2, <2>4, Zenon
  <2> QED BY <1>1, <2>2, <2>3, <2>4, SMTT(30)
<1> QED BY <1>1, <1>3, Zenon DEF Counting, N

LEMMA MutexInvariant == Spec => []MutexInv
<1>1. Init => MutexInv
  BY LeastNatHolds, InitMutexInv, Zenon
<1>2. MutexInv /\ [Next]_vars => MutexInv'
  <2>1. Counting(Thread) /\ Counting(Mutex)
    BY CountingHolds, CoreMutexAssumption, SMTT(30)
  <2>2. MutexInv /\ Next => MutexInv'
    BY <2>1, LeastNatHolds, NextKeeps, Zenon DEF Kept
  <2>3. MutexInv /\ UNCHANGED vars => MutexInv'
    BY StutterKeeps, Zenon DEF Kept
  <2> QED BY <2>2, <2>3, Zenon
<1> QED BY <1>1, <1>2, PTL DEF Spec

\* The incremental propagation of _Thread_Priority_perform_actions() gives every
\* thread the priority that the protocols define, for any number of threads and
\* mutexes: the urgency of a waiting thread reaches all the owners on its path.
THEOREM Inheritance == Spec => []PriorityIsInherited
<1>1. MutexInv => PriorityIsInherited
  BY LeastNatHolds, CountingHolds, LocalGlobal, CoreMutexAssumption, SMTT(30) DEF MutexInv, PriorityInv
<1> QED BY <1>1, MutexInvariant, PTL

\* A mutex that is not locked has no waiting threads.
THEOREM NoOrphans == Spec => []OwnerWhileWaiting
<1>1. MutexInv => OwnerWhileWaiting
  BY Zenon DEF MutexInv, WaitInv
<1> QED BY <1>1, MutexInvariant, PTL

\* A thread whose seize ends successfully is the owner, one whose seize ends with
\* a timeout or a flush is not: who dequeues the thread decides about the wait.
THEOREM OutcomeIsRight == Spec => []StatusMatchesOwner
<1>1. MutexInv => StatusMatchesOwner
  <2> SUFFICES ASSUME MutexInv, NEW t \in Thread,
                      pc[t] = "wait", WaitsFor(Now, t) = None, wanted[t] # None
               PROVE  owner[wanted[t]] = t <=> status[t] = "SUCCESSFUL"
    BY Zenon DEF StatusMatchesOwner
  <2>1. ~Waiting(t)
    BY WaitsForIs, NowIs, Zenon
  <2>2. pc[t] # "run"
    BY SMTT(30)
  <2> QED BY <2>1, <2>2, Zenon DEF MutexInv, WaitInv, Decided
<1> QED BY <1>1, MutexInvariant, PTL

\* The priority update set of a thread queue context has room for all the updates
\* that an operation registers.
THEOREM RoomForUpdates == Spec => []UpdateSetFits
<1>1. MutexInv => UpdateSetFits
  <2> SUFFICES ASSUME MutexInv, NEW c \in Context
               PROVE  Cardinality({i \in DOMAIN todo[c] : todo[c][i].op = "update"}) <= 2
    BY Zenon DEF UpdateSetFits
  <2> DEFINE U == {i \in DOMAIN todo[c] : todo[c][i].op = "update"}
  <2>1. PICK a \in Nat, b \in Nat : \A i \in DOMAIN todo[c] :
               todo[c][i].op = "update" => i \in {a, b}
    BY Zenon DEF MutexInv, WaitInv, TwoUpdates
  <2>2. U \subseteq {a} \cup {b}
    BY <2>1
  <2> HIDE DEF U
  <2>3. IsFiniteSet({a}) /\ Cardinality({a}) = 1
    BY Zenon, SameSets, Library!FS_Singleton
  <2>4. /\ IsFiniteSet({a} \cup {b})
        /\ Cardinality({a} \cup {b}) = IF b \in {a} THEN 1 ELSE 1 + 1
    BY Zenon, <2>3, SameSets, Library!FS_AddElement
  <2>5. IsFiniteSet(U) /\ Cardinality(U) <= Cardinality({a} \cup {b})
    BY Zenon, <2>2, <2>4, SameSets, Library!FS_Subset
  <2>6. Cardinality(U) \in Nat
    BY <2>5, SameSets, Library!FS_CardinalityType, SMTT(30)
  <2>7. Cardinality(U) <= 2
    BY <2>4, <2>5, <2>6, SMTT(30)
  <2> QED BY <2>7 DEF U
<1> QED BY <1>1, MutexInvariant, PTL

\* No operation other than a flush or a restart leaves the scheduler with an old
\* priority of a thread that nobody will correct, on any number of processors.
THEOREM SchedulerUpToDate == Spec => SchedulerIsTold
<1>1. MutexInv /\ [Next]_vars => [KeepsInformed \/ DropsUpdates]_vars
  <2>1. Counting(Thread) /\ Counting(Mutex)
    BY CountingHolds, CoreMutexAssumption
  <2>2. MutexInv /\ Next => KeepsInformed \/ DropsUpdates
    BY <2>1, LeastNatHolds, NextKeeps, Zenon DEF Kept
  <2> QED BY <2>2, Zenon
<1> QED BY <1>1, MutexInvariant, PTL DEF Spec, SchedulerIsTold
====
