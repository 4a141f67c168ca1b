SPECIFICATION MutexSpec
CONSTANTS
  main = main
  idle = idle
  reaper = reaper
  t1 = t1
  t2 = t2
  Threads <- TwoPages
  NoThread = NoThread
  mutex = mutex
  WaitQueues = {mutex}
  Quantum = 0
  TickModulus = 1
  SleepMillis = {}
  TICKS_PER_SEC = 1
  MillisPerSec = 1
  MaxDestructors = 0
  OwnersOnly = TRUE
SYMMETRY PageSymmetry
INVARIANTS
  HolderAlone
  WaitersNotForgotten
  PreemptionFlagOwned
  AssertionsHold
PROPERTY Implements
