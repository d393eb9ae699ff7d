SPECIFICATION FairSpec
CONSTANTS
  Reqs = {r1, r2, r3}
  Keys = {k1}
  NoKey = NoKey
  NoReq = NoReq
  Max = 2
  MaxVersion = 2
  MaxProbes = 1
INVARIANTS
  WorkConserving
  NoOrphan
PROPERTIES
  AnswersMonotone
  EveryCallSettles
