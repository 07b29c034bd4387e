\* A multiprocessor and a uniprocessor.
SPECIFICATION BothSpec
CONSTANTS
  t1 = t1
  t2 = t2
  t3 = t3
  m1 = m1
  m2 = m2
  m3 = m3
  Thread = {t1, t2, t3}
  Clock = {k1}
  Mutex = {m1, m2, m3}
  Inherit = {m1, m2}
  Ceiling = {m3}
  None = None
  Smp = FALSE
  InitialPriority <- PriorityPair
  InitialCeiling <- CeilingMiddle
  NewPriority = {1}
  NewCeiling = {}
  NestBound <- NestFirst
  Flushes = TRUE
  Extracts = TRUE
SYMMETRY Symmetry
INVARIANTS
  PriorityIsInherited
  UpdateSetFits
  StatusMatchesOwner
  OwnerWhileWaiting
PROPERTY
  SchedulerIsTold
