\* The wait lock: threads, mutexes, and timeouts on other processors.
SPECIFICATION Spec
CONSTANTS
  Thread = {t1, t2, t3}
  Handler = {h1}
  Queue = {a, b, c, s}
  Owned = {a, b, c}
  None = None
SYMMETRY Symmetry
INVARIANTS
  NoLockCycle
  WaitLockIsRight
  NoStaleRequest
  OneAtATime
  NoWaitCycle
