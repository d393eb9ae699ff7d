SPECIFICATION Spec
CONSTANTS
  a = a
  b = b
  o1 = o1
  o2 = o2
  Orgs = {o1, o2}
  Labels = {a, b}
  Opened <- MCOpened
  Scope <- MCScope
  s1 = s1
  s2 = s2
  Slots = {s1, s2}
  None = None
  MaxAsks = 2
  MaxTabs = 1
  MaxClock = 2
SYMMETRY SlotSymmetry
PROPERTIES SaveSparesTheRest CleanMeansSent CreateSparesOwn RenameKeepsFiles
CHECK_DEADLOCK FALSE
