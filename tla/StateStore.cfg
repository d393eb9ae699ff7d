SPECIFICATION FairSpec
CONSTANTS
  MaxUpdates = 4
INVARIANTS
  SignalSaves
PROPERTIES
  PromiseSpec
  EventuallyDurable
