SPECIFICATION Spec
CONSTANTS
  e1 = e1
  e2 = e2
  g1 = g1
  Evaluator = {e1, e2}
  Group = {g1}
  MaxAttempts = 2
  MaxChanges = 3
  MaxFaults = 1
CHECK_DEADLOCK FALSE
INVARIANT ResolvedIsRecorded
