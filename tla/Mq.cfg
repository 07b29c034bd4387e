\* Classic and POSIX message queues: threads and an interrupt that send,
\* timeouts, broadcast, flush and deletion.
SPECIFICATION Spec
CONSTANTS
  None = None
  Thread = {t1, t2}
  Isr = {i1}
  Clock = {k1}
  Queue = {q1}
  Smp = TRUE
  Timespec = TRUE
  Fifo = TRUE
  Priority <- PriorityEqual
  Message = {m1, m2, m3}
  MessagePriority = {1, 2}
  MaximumPending = 2
  BroadcastBound = 2
SYMMETRY Symmetry
INVARIANTS
  WaitersOfOneKind
  BuffersConserved
  ReceiveReportsTruth
PROPERTIES
  NoOvertaking
  NoMessageLost
CHECK_DEADLOCK FALSE
