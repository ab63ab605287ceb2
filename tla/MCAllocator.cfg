CONSTANTS
  CHUNKSIZE = 6
  BUFFER = 2
  MAX_HEAP = 28
  Sizes = {1, 5}
SPECIFICATION HeapSpec
INVARIANTS HeapRight Served
PROPERTIES ExtendOnlyWhenFull
CHECK_DEADLOCK FALSE
