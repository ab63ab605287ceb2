CONSTANTS
  p1 = p1
  p2 = p2
  p3 = p3
  p4 = p4
  Pids <- MCPids
  JOBS = 2
SPECIFICATION ShellSpec
INVARIANTS PromptAfterForeground HandlerDrains
PROPERTIES BlockedWaitSucceeds WaitEnds
CHECK_DEADLOCK FALSE
