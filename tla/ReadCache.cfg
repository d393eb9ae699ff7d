SPECIFICATION CacheFairSpec
CONSTANTS
  Readers = {r1, r2}
  Loads = {1, 2}
  Ttl = 1
  Stale = 1
  MaxVersion = 2
INVARIANTS
  LoadsAreLive
PROPERTIES
  ServedWithinWindow
  AnswersMonotone
  EveryReadEnds
