\* A reader and a writer, each on a CPU.
CONSTANTS
  Readers = {r1}
  Writers = {w1}
  Threads = {r1, w1}
  Pollees = {"prod", "cons"}
  Capacity = 2
  NumCpus = 2
SPECIFICATION Spec
INVARIANT PolleeReflectsRing
\* When both ends are dropped nothing more happens.
CHECK_DEADLOCK FALSE
