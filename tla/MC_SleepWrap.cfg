SPECIFICATION SleepSpec
CONSTANTS
  main = main
  idle = idle
  reaper = reaper
  t1 = t1
  Threads <- OnePage
  NoThread = NoThread
  WaitQueues = {}
  Quantum = 0
  TickModulus = 8
  SleepMillis = {1, 3}
  TICKS_PER_SEC = 2
  MillisPerSec = 3
  MaxDestructors = 0
  OwnersOnly = TRUE
INVARIANT NoEarlyWake
