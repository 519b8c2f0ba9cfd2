SPECIFICATION Spec
CONSTANTS
    i1 = i1
    i2 = i2
    Imports = {i1, i2}
    Modes <- MCModes
    Requests <- OnceEach
    Existing = FALSE
    Ends = {"succeeded", "failed"}
    RetainLast = 1
    PassSize = 2
    MaxJobs = 3
    MaxServing = 1
    Faults = {}
    MaxFaults = 0
INVARIANT OnlyEmptyTaken
CHECK_DEADLOCK FALSE
