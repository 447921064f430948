CONSTANTS
  Nodes <- MCNodes
  Handle <- MCHandle
  Observers = {o, z}
  LayoutObservers = {z}
  MaxTimersPerPump = 1
  MaxFramesPerPump = 1
  MaxTimers = 2
  MaxFrames = 2
  MaxTasks = 3
  MaxPending = 2
  MaxRecords = 2
  Delays = {1}
  OldestLag = 3
  LastId = 3
  LastCall = 5
SPECIFICATION MCSpec
PROPERTIES
  ClearedNeverFires
  TimersFire
  QueuesDrain
CHECK_DEADLOCK FALSE
