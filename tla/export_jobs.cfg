SPECIFICATION FairSpec
CONSTANTS
  j1 = j1
  w1 = w1
  w2 = w2
  Job = {j1}
  Worker = {w1, w2}
  MaxAttempts = 2
  MaxRetries = 2
  MaxFaults = 3
CHECK_DEADLOCK FALSE
INVARIANTS
  TypeOK
  DownloadableUntilExpiry
  CompletedByLastClaim
  EveryFileAccountedFor
PROPERTY EventuallySettled
