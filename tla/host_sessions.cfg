SPECIFICATION Spec
CONSTANTS
  t1 = t1
  t2 = t2
  k1 = k1
  k2 = k2
  n1 = n1
  Owners = {t1, t2}
  IdSpace = 3
  Methods = {"kernel_check", "process_module_query"}
  Shims = {"process_module_query"}
  Declared = {n1}
  Batches <- MCBatches
  MaxCalls = 1
  Keys = {k1, k2}
  Registering = {k1}
  Capacity = 1
  FreshImports = 2
  RssLimited = FALSE
  MaxOpens = 3
SYMMETRY Symmetric
INVARIANTS
  TypeOK
  SessionsAreCurrent
  NothingIsLost
CHECK_DEADLOCK FALSE
