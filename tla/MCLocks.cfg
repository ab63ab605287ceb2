SPECIFICATION FairSpec
CONSTANTS
  t1 = t1
  t2 = t2
  t3 = t3
  t4 = t4
  c1 = c1
  c2 = c2
  Threads <- MCFour
  Conds <- MCTwoConds
  NoThread = NoThread
  NoCond = NoCond
INVARIANTS LockRight
PROPERTIES MonitorSpec WokenLeave FreeLockIsTaken
CHECK_DEADLOCK FALSE
