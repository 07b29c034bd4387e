\* Events and periods of two tasks on a uniprocessor.
SPECIFICATION FairSpec
CONSTANTS
  t1 = t1
  t2 = t2
  Thread = {t1, t2}
  Isr = {i1}
  Clock = {k1}
  Queue <- Waits
  None = None
  Smp = FALSE
  Fifo = TRUE
  Timespec = FALSE
  Priority <- EqualPriority
  Event = {e1, e2}
  EventClass = {"EVENT"}
  Receiver = {t1}
  Period = {p1}
  PostponedMaximum = 1
INVARIANTS
  NoSatisfiedWaiter
  EventsMatchStatus
  ActiveIffTimed
  TimerBelongsToWait
PROPERTIES
  TimedWaitEnds
  PeriodEnds
