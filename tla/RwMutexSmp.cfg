\* Two CPUs, every kind of guard.  A panic stops the kernel.
CONSTANTS
  Tasks = {t1, t2, t3}
  Cpus = {c1, c2}
  Idle = Idle
  MAX_READER = 3
  Kinds = {"read", "write", "upread"}
SPECIFICATION Spec
INVARIANT TypeOK
PROPERTY ImplementsSpinning
CHECK_DEADLOCK FALSE
SYMMETRY Symmetry
