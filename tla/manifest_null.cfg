SPECIFICATION ArtifactsSpec
CONSTANTS
    Builders = {b1, b2}
    Loaders = {l1}
    Files = {"Cap.lean"}
    Options <- AllOptions
    Tools = {"runtime", "other"}
    RuntimeTool = "runtime"
    MaxBuilds = 2
    MaxOpens = 1
    MaxChanges = 0
    MaxBuildCrashes = 0
CHECK_DEADLOCK FALSE
INVARIANT WrittenIsReadable
