SPECIFICATION FairSpec
CONSTANTS
    NCalls = 2
    Decision = {"approve", "deny"}
    Turns <- SomeTurns
    MaxRetries = 1
    MaxExpiries = 1
    MaxBlips = 1
INVARIANTS
    TypeOK
    RunsOnce
    HeldToDecision
    ToldOnce
PROPERTY TurnEnds
CHECK_DEADLOCK FALSE
