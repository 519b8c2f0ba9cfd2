SPECIFICATION Spec
CONSTANTS
    Run = {r1, r2, r3}
    NoRun = NoRun
    Dated = {r1}
    Name = {reply}
    MaxRetries = 1
    MaxSignals = 1
SYMMETRY RunSymmetry
INVARIANTS
    TypeOK
    NoLostWakeup
    ReportedOnce
    OrphansAreStopping
    FlaggedNeverSleeps
PROPERTY Supervised
