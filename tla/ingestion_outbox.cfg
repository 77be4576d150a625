SPECIFICATION Spec
CONSTANTS
  c1 = c1
  c2 = c2
  c3 = c3
  k1 = k1
  k2 = k2
  b1 = b1
  b2 = b2
  NoBulk = NoBulk
  Client = {c1, c2, c3}
  Key = {k1, k2}
  BulkKey = {b1, b2}
  Request <- MixedRequests
  MaxSubmissions = 4
CHECK_DEADLOCK FALSE
INVARIANT EventsHaveOutboxRecords
