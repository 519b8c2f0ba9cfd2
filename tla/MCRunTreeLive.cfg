SPECIFICATION FairSpec
CONSTANTS
    Run = {r1, r2}
    NoRun = NoRun
    Dated = {r1}
    Name = {reply}
    MaxRetries = 1
    MaxSignals = 1
PROPERTIES
    CancelledRunEnds
