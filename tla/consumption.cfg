SPECIFICATION Spec
CONSTANTS
  c1 = c1
  c2 = c2
  c3 = c3
  k1 = k1
  k2 = k2
  p1 = p1
  p2 = p2
  NoPlan = NoPlan
  Client = {c1, c2}
  Key = {k1, k2}
  Plan = {p1, p2}
  PlanLimit <- NarrowedPlans
  Quantity = {1}
  MaxRows = 2
  MaxFaults = 1
SYMMETRY RequestSymmetry
CONSTRAINT HardFirst
INVARIANTS
  TypeOK
  GrantsWithinLimit
  AcceptedHasEvent
  ReplayStable
  RejectionGrantsNothing
  CounterMatchesEvents
  AssessedUnderHardLimit
