\* A reader and a writer on one CPU.
CONSTANTS
  Readers = {r1}
  Writers = {w1}
  Threads = {r1, w1}
  Pollees = {"prod", "cons"}
  Capacity = 2
  NumCpus = 1
SPECIFICATION FairSpec
INVARIANTS PolleeReflectsRing
PROPERTIES WaiterServed DropReleasesWaiters
\* When both ends are dropped nothing more happens.
CHECK_DEADLOCK FALSE
