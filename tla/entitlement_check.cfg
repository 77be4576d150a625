SPECIFICATION FairSpec
CONSTANTS
  w1 = w1
  w2 = w2
  Worker = {w1, w2}
  MaxAttempts = 2
  Warning = 2
  Limit = 3
  MaxUsage = 3
  MaxFaults = 2
  MaxRequeues = 1
CHECK_DEADLOCK FALSE
INVARIANTS
  TypeOK
  EventLogAgrees
PROPERTIES
  CompletionCovers
  StateAdvances
  EventuallyDrained
