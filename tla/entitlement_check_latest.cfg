SPECIFICATION FairSpec
CONSTANTS
  w1 = w1
  w2 = w2
  Worker = {w1}
  MaxAttempts = 2
  Warning = 2
  Limit = 3
  MaxUsage = 2
  MaxFaults = 0
  MaxRequeues = 0
CHECK_DEADLOCK FALSE
PROPERTY StateCatchesUp
