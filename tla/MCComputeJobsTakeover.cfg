\* Two controllers on PostgreSQL: the leader loses its session, not its life.
SPECIFICATION TakeoverSpec
CONSTANTS
  Jobs = {j1}
  Controllers = {c1, c2}
  MaxAttempts = 2
  MaxQueue = 1
  Concurrency = 1
  Slots = 1
  MaxClaims = 3
  Faults = {"session"}
  MaxFaults = 1
INVARIANT CancelledWhenAsked
CHECK_DEADLOCK FALSE
