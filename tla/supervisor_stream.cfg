SPECIFICATION Spec
CONSTANTS
  BufCap = 1
  PipeCap = 1
  MaxRestarts = 3
  Window = 2
  HardRss = TRUE
  SlowParent = TRUE
  SinkPanics = TRUE
  KillMayStall = TRUE
  EventKinds = {"row", "diagnostic", "garbage"}
  MaxCalls = 2
  MaxRows = 2
  MaxTime = 0
INVARIANTS
  TypeOK
  NothingLeftOver
  LifecycleAccounting
PROPERTIES
  SpawnAfterReap
  ImplementsService
CHECK_DEADLOCK FALSE
