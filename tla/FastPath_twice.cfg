SPECIFICATION Spec
CONSTANTS
  Reqs = {c1, c2}
  Acqs = {1, 2, 3}
  MaxSession = 2
  MaxLapses = 0
CHECK_DEADLOCK FALSE
INVARIANTS
  AppliedOnce
