\* Two CPUs.
CONSTANTS
  i1 = i1
  i2 = i2
  t3 = t3
  c1 = c1
  c2 = c2
  None = None
  Tasks = {i1, i2, t1}
  Cpus = {c1, c2}
  IdleTask <- SmpIdle
  Affinity <- SmpAffinity
SPECIFICATION Spec
INVARIANT SwitchesToNext
\* Once all tasks have exited only the idle threads are left, and nothing happens.
CHECK_DEADLOCK FALSE
