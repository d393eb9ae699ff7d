SPECIFICATION ResourceFairSpec
CONSTANTS
  Components = {c1, c2}
  Loads = {l1, l2, l3}
  NoLoad = NoLoad
  Newest = 2
INVARIANTS FreshSinceUnlessLate PendingIsLoading
PROPERTIES EveryComponentServed
