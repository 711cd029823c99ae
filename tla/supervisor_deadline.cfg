SPECIFICATION FairSpec
CONSTANTS
  BufCap = 1
  PipeCap = 1
  MaxRestarts = 1
  Window = 1
  HardRss = TRUE
  SlowParent = TRUE
  SinkPanics = FALSE
  KillMayStall = FALSE
  EventKinds = {"row"}
  MaxCalls = 2
  MaxRows = 1
  MaxTime = 1
PROPERTIES
  DeadlinesBite
CHECK_DEADLOCK FALSE
