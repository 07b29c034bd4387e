--------------------------- MODULE MCBarrierRWLock ---------------------------
(***************************************************************************)
(* Small instances of CoreRWLock and of CoreBarrier for TLC in one run: the *)
(* threads use a read-write lock, or a barrier that has its own queue.     *)
(***************************************************************************)
EXTENDS CoreRWLock, BarrierBounds, TLC

CONSTANT BarrierQueue

VARIABLES number, limit, exists, posix, untimed, object

Barrier == INSTANCE CoreBarrier WITH Queue <- BarrierQueue, open <- exists

PriorityEqual == [t \in Thread |-> 1]

Symmetry == Permutations(Thread)

lockOnly == <<rwVars, object>>
barrierOnly == <<number, limit, exists, posix, untimed, object>>

EitherInit ==
  /\ Init
  /\ Barrier!Init
  /\ \/ object = "barrier"
     \/ object = "lock" /\ posix = [q \in BarrierQueue |-> TRUE]

EitherNext ==
  \/ object = "lock" /\ Next /\ UNCHANGED barrierOnly
  \/ object = "barrier" /\ Barrier!Next /\ UNCHANGED lockOnly

EitherSpec == EitherInit /\ [][EitherNext]_<<vars, barrierOnly>>

\* OpensInTime of CoreBarrier: an automatic barrier opens in time.
OpensInTime == Barrier!OpensInTime

\* NoOrphanedWaiter of CoreBarrier: no thread waits at a barrier that is gone.
NoOrphanedWaiter == Barrier!NoOrphanedWaiter
==============================================================================
