\* Counting semaphores on a multiprocessor, with the priority discipline.
SPECIFICATION Spec
CONSTANTS
  t1 = t1
  t2 = t2
  t3 = t3
  Thread = {t1, t2, t3}
  Isr = {}
  Clock = {k1}
  Queue = {q1}
  None = None
  Smp = TRUE
  Fifo = FALSE
  Timespec = FALSE
  Priority <- PriorityPair
  MaximumCount = 1
SYMMETRY Symmetry
INVARIANTS
  NoUnitWhileWaiting
  NoLostWakeup
  NoStrayWakeup
  LinearOrder
PROPERTY
  ImplementsCountingSemaphore
CHECK_DEADLOCK FALSE
