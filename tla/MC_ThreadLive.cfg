SPECIFICATION FairSpec
CONSTANTS
  main = main
  idle = idle
  reaper = reaper
  t1 = t1
  t2 = t2
  Threads <- OnePage
  NoThread = NoThread
  WaitQueues = {q}
  Quantum = 0
  TickModulus = 1
  SleepMillis = {}
  TICKS_PER_SEC = 1
  MillisPerSec = 1
  MaxDestructors = 1
  OwnersOnly = TRUE
PROPERTIES
  RunnableRuns
  JoinersReturn
  DeadAreDestroyed
