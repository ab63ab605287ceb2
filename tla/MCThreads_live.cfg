SPECIFICATION FairSpec
CONSTANTS
  main = main
  idle = idle
  a = a
  b = b
  io = io
  tid_lock = tid_lock
  NoSema = NoSema
  NoThread = NoThread
  Threads <- MCThreads
  initial_thread = main
  idle_thread = idle
  Semas <- MCSemas
  DeviceSemas <- MCNoDevice
  InitialValue <- MCInitial
  PRI_MIN = 0
  PRI_MAX = 2
  PRI_DEFAULT = 1
  TIME_SLICE = 1
  Priorities <- MCPriorities
  SleepTicks <- MCSleepOne
  MaxValue = 0
PROPERTIES EveryoneRuns
