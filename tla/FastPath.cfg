SPECIFICATION FairSpec
CONSTANTS
  Reqs = {c1, c2}
  Acqs = {1, 2, 3}
  MaxSession = 2
  MaxLapses = 1
CHECK_DEADLOCK FALSE
INVARIANTS
  AppliedOnceUnlessUnclear
  ReportsAreTrue
PROPERTIES
  AuthSpec
  EveryRequestEnds
