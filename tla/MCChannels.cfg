SPECIFICATION Spec
CONSTANTS
    listener = listener
    answerer = answerer
    People = {p1}
    Agents = {listener, answerer}
    Everyone = Everyone
    System = System
    Mode <- MCMode
    Attended = {listener}
    Budgeted = {listener}
    Addressings <- MCAddressings
    Breaker = 2
    Rethinks = 1
    ReadLimit = 2
    MaxActs = 4
INVARIANTS
    TypeOK
    AgentsFallSilent
    NeverRepeatsItself
    ErasedEverywhere
    SilenceIsExplained
    MentionIsKept
CHECK_DEADLOCK FALSE
