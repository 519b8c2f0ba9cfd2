SPECIFICATION Spec
CONSTANTS
    Program <- EffectsProgram
    MaxRetries = 1
    MaxExpiries = 2
    MaxMails = 1
    MaxBlips = 1
INVARIANTS
    TypeOK
    NeverTwice
    SameResult
    CompletedIsWhole
CHECK_DEADLOCK FALSE
