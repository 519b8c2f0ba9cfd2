SPECIFICATION LiveSpec
CONSTANTS
    i1 = i1
    i2 = i2
    Imports = {i1, i2}
    Modes <- AppendOnly
    Requests <- RefreshRequests
    Existing = TRUE
    Ends = {"succeeded", "cancelled"}
    RetainLast = 1
    PassSize = 2
    MaxJobs = 4
    MaxServing = 1
    Faults = {"crash", "compute"}
    MaxFaults = 1
INVARIANTS
    NoDuplicates
PROPERTIES
    Settles
CHECK_DEADLOCK FALSE
