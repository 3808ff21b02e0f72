SPECIFICATION FairSpec
CONSTANTS
  NumThreads = 2
  IdxMod = 8
  DefaultElm = 4
  FirstPos = 7
  Rounds = 1
  BatchMax = 2
  MaxTasks = 4
CHECK_DEADLOCK FALSE
INVARIANTS OrderKept NoSleepOverWork
PROPERTIES PoolSpec TasksRun
