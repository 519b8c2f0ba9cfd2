SPECIFICATION Spec
CONSTANTS
    i1 = i1
    i2 = i2
    Imports = {i1, i2}
    Modes <- MCModes
    Requests <- MCRequests
    Existing = FALSE
    Ends = {"succeeded", "failed"}
    RetainLast = 3
    PassSize = 2
    MaxJobs = 5
    MaxServing = 2
    Faults = {"crash", "error"}
    MaxFaults = 1
INVARIANTS
    TypeOK
    RowsOnce
    NoDanglingFile
    SucceededIsThere
PROPERTIES
    KeepsContents
CHECK_DEADLOCK FALSE
