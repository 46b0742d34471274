\* An upgradeable reader and a writer on one CPU.
CONSTANTS
  Tasks = {t1, t2}
  Cpus = {c1}
  Idle = Idle
  MAX_READER = 3
  Kinds = {"write", "upread"}
SPECIFICATION Spec
INVARIANT FreeLockHasWaker
CHECK_DEADLOCK FALSE
