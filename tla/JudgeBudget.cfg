SPECIFICATION Spec
CONSTANTS
  j1 = j1
  j2 = j2
  j3 = j3
  other = other
  inner = inner
  Judges = {j1, j2, j3, inner}
  SessionOf <- MCSessionOf
  Nested = {inner}
  Goalless = {}
  Cap = 2
  Ceiling = 2
  Costs = {0, 2}
  MaxCost = 2
  CanFail = TRUE
SYMMETRY Symmetry
INVARIANTS
  CapWithinOverlap
  CeilingWithinOverlap
  PaidIsOnTheLedger
CHECK_DEADLOCK FALSE
