SPECIFICATION MailSpec
CONSTANTS
    Run = {r1, r2, r3}
    NoRun = NoRun
    Dated = {r1}
    Name = {reply}
    MaxRetries = 1
    MaxSignals = 1
    Agent = {a1}
    Msg = {m1, m2}
    NoAgent = NoAgent
SYMMETRY MailSymmetry
INVARIANTS
    MailTypeOK
    OneReader
    AckedNeverBack
PROPERTIES
    MailHasReader
    NothingVanishes
