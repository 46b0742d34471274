\* One CPU, four tasks: the only interleaving is at yield_now and schedule.
CONSTANTS
  Tasks = {t1, t2, t3, t4}
  Cpus = {c1}
  Idle = Idle
SPECIFICATION FairSpec
INVARIANTS MutualExclusion FreeMutexHasWaker  SleeperCanBeWoken NoPanic
PROPERTIES SomebodyEnters WakeupTaken
