\* Barriers and read-write locks on a multiprocessor, with the clock tick.
SPECIFICATION EitherSpec
CONSTANTS
  Thread = {t1, t2, t3}
  Isr = {i1}
  Clock = {k1}
  Queue = {q1}
  BarrierQueue = {q2}
  None = None
  Smp = TRUE
  Timespec = FALSE
  Fifo = TRUE
  Priority <- PriorityEqual
  ReadBound = 2
  MaximumCount = 2
  WaitBound = 3
SYMMETRY Symmetry
INVARIANTS
  OpensInTime
  NoOrphanedWaiter
  LockMatchesCallers
  NoWaitForUnlocked
PROPERTY
  WriterNotPassed
CHECK_DEADLOCK FALSE
