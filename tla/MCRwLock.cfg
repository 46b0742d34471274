CONSTANTS
  MAX_READER = 3
  Threads = {t1, t2, t3, t4, t5}
SPECIFICATION Spec
INVARIANTS LockInv WordCounts Exclusion
PROPERTY ImplementsRwLock
