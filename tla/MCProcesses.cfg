SPECIFICATION FairSpec
CONSTANTS
  main = main
  a = a
  b = b
  NoFile = NoFile
  NoProc = NoProc
  Procs <- MCThree
  root = main
  Statuses <- MCStatuses
  MAX_FD = 2
CHECK_DEADLOCK FALSE
INVARIANTS FamilyRight ExitHandshake
PROPERTIES ReapedAfterExit CallsReturn
