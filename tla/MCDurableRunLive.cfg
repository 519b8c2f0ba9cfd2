SPECIFICATION FairSpec
CONSTANTS
    Program <- AskProgram
    MaxRetries = 1
    MaxExpiries = 1
    MaxMails = 1
    MaxBlips = 1
PROPERTY RunEnds
CHECK_DEADLOCK FALSE
