\* Two tasks on two CPUs.
CONSTANTS
  Tasks = {t1, t2}
  Cpus = {c1, c2}
  Idle = Idle
SPECIFICATION Spec
INVARIANT NoPanic
CHECK_DEADLOCK FALSE
