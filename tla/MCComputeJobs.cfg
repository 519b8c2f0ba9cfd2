\* One controller on SQLite, two jobs, faults of every kind.
SPECIFICATION LiveSpec
CONSTANTS
  Jobs = {j1, j2}
  Controllers = {c1}
  MaxAttempts = 2
  MaxQueue = 2
  Concurrency = 1
  Slots = 1
  MaxClaims = 3
  Faults = {"crash", "close", "worker", "database"}
  MaxFaults = 1
INVARIANTS TypeOK RunningIsFollowed WithinLimits
PROPERTIES KeepsContract JobEnds
CHECK_DEADLOCK FALSE
