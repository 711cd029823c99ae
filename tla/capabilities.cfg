SPECIFICATION CapabilitiesSpec
CONSTANTS
  Keys = {"shims", "capability"}
  Manifested = {"capability"}
  Methods <- MCMethods
  Targets <- MCTargets
  Verdicts = {"Accepted", "Rejected", "NeedsBuild"}
  Ceiling = 2
  Readings = {0, 1, 2}
  MaxRows = 2
  MaxCalls = 3
  Canonical <- MCCanonical
  DefaultPolicy = "default"
  BadParts = {"-", ","}
  Starts <- MCStarts
  Settings <- MCSettings
  Plans <- MCPlans
  WorkPlans <- MCWorkPlans
  Places <- MCPlaces
  MaxSettings = 1
  b1 = b1
  b2 = b2
  Builders = {b1, b2}
  Loaders = {l1}
  Files = {"Cap.lean", "Lib.lean"}
  Options <- AllOptions
  Tools = {"runtime", "other"}
  RuntimeTool = "runtime"
  MaxBuilds = 2
  MaxOpens = 1
  MaxChanges = 1
  MaxBuildCrashes = 1
SYMMETRY BuilderSymmetry
INVARIANTS
  HandlesAnswer
  VerdictsAreEarned
  CheckForetellsOpen
  OpensAsAsked
  KeysMeetSessions
  CacheIsHonest
PROPERTY
  ManifestsServe
CHECK_DEADLOCK FALSE
