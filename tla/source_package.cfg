SPECIFICATION Spec
CONSTANTS
    p1 = p1
    p2 = p2
    Procs = {p1, p2}
    Labels <- AllLabels
    Entries <- AllEntries
    Sanitize <- Names
    Requests <- AllRequests
    Payload <- Includes
    PayloadPackages = TRUE
    Sentinels <- Generated
    MaxCalls = 3
    MaxCrashes = 1
    MaxFaults = 1
SYMMETRY ProcSymmetry
CHECK_DEADLOCK FALSE
INVARIANT TypeOK
PROPERTY CallsEndRightly
