SPECIFICATION Spec
CONSTANTS
  t1 = t1
  t2 = t2
  e1 = e1
  e2 = e2
  f1 = f1
  f2 = f2
  s1 = s1
  s2 = s2
  m1 = m1
  o1 = o1
  o2 = o2
  None = None
  Reimported = Reimported
  Threads = {t1, t2}
  Envs = {e1, e2}
  Files = {f1, f2}
  Sources = {s1, s2, m1}
  Options = {o1, o2}
  Modules = {m1}
  Class <- MCClass
  Requests <- MCRequests
  Incomplete <- MCIncomplete
  Size <- MCSize
  MaxEntries = 2
  MaxBytes = 2
  Ttl = 2
  MaxAsks = 3
  MaxClears = 1
  MaxTime = 2
SYMMETRY Symmetric
INVARIANTS
  TypeOK
  AnswersAreFresh
PROPERTY
  CacheHoldsItsOwn
CHECK_DEADLOCK FALSE
