\* Two readers and a writer on two CPUs.
CONSTANTS
  Readers = {r1, r2}
  Writers = {w1}
  Threads = {r1, r2, w1}
  Pollees = {"prod", "cons"}
  Capacity = 1
  NumCpus = 2
SPECIFICATION Spec
INVARIANTS TypeOK SleeperHasNoEvent
\* When both ends are dropped nothing more happens.
CHECK_DEADLOCK FALSE
