CONSTANTS
  Tasks = {t1, t2, t3}
  Cpus = {c1, c2}
  Idle = Idle
SPECIFICATION Spec
INVARIANTS TypeOK MutualExclusion FreeMutexHasWaker StatusMatchesCpu
CHECK_DEADLOCK FALSE
