SPECIFICATION Spec
CONSTANTS
    p1 = p1
    p2 = p2
    Procs = {p1, p2}
    Labels <- AllLabels
    Entries <- AllEntries
    Sanitize <- Names
    Requests <- TwoEntries
    Payload <- Includes
    PayloadPackages = TRUE
    Sentinels <- Generated
    MaxCalls = 2
    MaxCrashes = 0
    MaxFaults = 0
SYMMETRY ProcSymmetry
CHECK_DEADLOCK FALSE
PROPERTY InstallsAreAtomic
