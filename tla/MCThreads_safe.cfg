SPECIFICATION Spec
CONSTANTS
  main = main
  idle = idle
  a = a
  b = b
  io = io
  tid_lock = tid_lock
  NoSema = NoSema
  NoThread = NoThread
  Threads <- MCThreads
  initial_thread = main
  idle_thread = idle
  Semas <- MCSemas
  DeviceSemas <- MCDevice
  InitialValue <- MCInitial
  PRI_MIN = 0
  PRI_MAX = 2
  PRI_DEFAULT = 1
  TIME_SLICE = 2
  Priorities <- MCPriorities
  SleepTicks <- MCSleeps
  MaxValue = 2
SYMMETRY MCSymmetry
INVARIANTS ListsRight NoLostWakeup
PROPERTIES SwitchToHighest SemaphoreSpec SleepersWakeOnTime
