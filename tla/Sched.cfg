SPECIFICATION Spec
CONSTANTS
  t1 = t1
  t2 = t2
  t3 = t3
  t4 = t4
  t5 = t5
  s1 = s1
  s2 = s2
  c1 = c1
  c2 = c2
  None = None
  Thread = {t1, t2, t3, t4, t5}
  Instance = {s1, s2}
  Cpu = {c1, c2}
  LateRelease = FALSE
  HelpPriority = {1}
  Priority = {1, 2}
  Application <- Both
SYMMETRY Symmetry
INVARIANTS
  ScheduledOnce
  EveryProcessorServed
  NoPriorityInversion
