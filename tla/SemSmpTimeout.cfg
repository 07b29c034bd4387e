SPECIFICATION Spec
CONSTANTS
  t1 = t1
  t2 = t2
  t3 = t3
  Thread = {t1, t2}
  Isr = {i1}
  Clock = {k1}
  Queue = {q1}
  None = None
  Smp = TRUE
  Fifo = TRUE
  Timespec = TRUE
  Priority <- PriorityPair
  MaximumCount = 1
INVARIANT
  WatchdogInactiveAtInsert
CHECK_DEADLOCK FALSE
