SPECIFICATION Spec
CONSTANTS
  k1 = k1
  k2 = k2
  k3 = k3
  Keys <- MCKeys
  Unknown = Unknown
  MaxWorkers = 2
  Budget = 3
  Ceiling = 3
  QueueWait = TRUE
  IdleCycle = TRUE
  Samples = {1, 3}
  MaxCalls = 5
SYMMETRY Symmetry
INVARIANT
  CommandsStayPut
CHECK_DEADLOCK FALSE
