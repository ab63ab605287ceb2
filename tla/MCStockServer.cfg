CONSTANTS
  t1 = t1
  t2 = t2
  t3 = t3
  Workers <- MCWorkers
  Stocks = {1, 2}
  Ids = {1, 2, 3}
  Amounts = {1}
  Initial <- MCInitial
  MAX_COUNT = 1
SPECIFICATION FairSpec
CHECK_DEADLOCK FALSE
INVARIANTS LocksRight
PROPERTIES TableSpec LockProgress
