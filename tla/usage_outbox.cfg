SPECIFICATION FairSpec
CONSTANTS
  w1 = w1
  w2 = w2
  e1 = e1
  e2 = e2
  Worker = {w1, w2}
  Event = {e1, e2}
  MaxAttempts = 2
CHECK_DEADLOCK FALSE
INVARIANTS
  TypeOK
PROPERTIES
  FanoutPromise
  LeaseProtects
  EventuallySettled
