SPECIFICATION Spec
CONSTANTS
  t1 = t1
  t2 = t2
  main = main
  Garbled = Garbled
  Workers <- MCWorkers
  Stocks = {1, 2}
  MAX_VERSION = 2
  MAX_DRIFT = 2
SYMMETRY MCSymmetry
INVARIANTS CountRight SavedWhenQuiet SigintSaves 
CHECK_DEADLOCK FALSE
