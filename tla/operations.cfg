SPECIFICATION FairSpec
CONSTANTS
  Client = {c1, c2}
  MaxEvents = 2
  MaxVersion = 3
  Worker = {w1, w2}
  Drift = {"d1", "d2"}
  MaxAttempts = 2
  MaxRuns = 2
  MaxRequeues = 1
  MaxFaults = 1
  Plan = {p1, p2}
  Caller = {u1, u2}
  MaxTime = 4
  MaxCalls = 3
  MaxUpdates = 1
  RateEvents = 2
  MaxWindow = 1
CHECK_DEADLOCK FALSE
INVARIANTS
  TypeOK
  CounterCountsAccepted
  ScanIsRight
  OneCurrentPlan
  WindowWithinLimit
PROPERTIES
  DriftAnnouncedOnce
  NotificationSettles
  DeliverySettles
