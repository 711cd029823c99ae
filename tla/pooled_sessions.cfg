SPECIFICATION BooksSpec
CONSTANTS
  k1 = k1
  k2 = k2
  k3 = k3
  Keys <- MCKeys
  Unknown = Unknown
  MaxWorkers = 2
  Budget = 3
  Ceiling = 3
  QueueWait = TRUE
  IdleCycle = TRUE
  Samples = {1, 3}
  MaxCalls = 5
  c1 = c1
  c2 = c2
  c3 = c3
  Configs <- MCConfigs
  Residue <- MCResidue
  Setups <- MCSetups
  Limits = {"imports", "residue", "requests"}
  MaxImports = 3
  MaxResidue = 4
  MaxRequests = 5
  MaxEpoch = 2
  MaxTurns = 6
SYMMETRY Symmetry
INVARIANTS
  TypeOK
  AdmissionsBounded
  LeasesEndClean
  CommandsAreFenced
  ReuseTypeOK
  BudgetsHold
  PoolsAgree
  NoStaleSession
CHECK_DEADLOCK FALSE
