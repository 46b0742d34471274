\* One CPU, readers and writers only: tasks interleave where they yield.
CONSTANTS
  Tasks = {t1, t2, t3}
  Cpus = {c1}
  Idle = Idle
  MAX_READER = 3
  Kinds = {"read", "write"}
SPECIFICATION FairSpec
INVARIANTS FreeLockHasWaker
PROPERTIES SomebodyEnters
