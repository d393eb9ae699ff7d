SPECIFICATION Spec
CONSTANTS
  Orgs = {prod, sandbox}
  Objects <- MCObjects
  Ids <- MCIds
  ObjectOf <- MCObjectOf
  Fields = {f, g}
  Slots = {s1, s2}
  MaxEvents = 3
  RowsPerPage = 2
  MaxRecordIds = 2
  MaxQueryPages = 2
  MaxQueryRecords = 2
  None = None
SYMMETRY SlotSymmetry
CHECK_DEADLOCK FALSE
INVARIANTS ResultsAreWhole WritesAreMeant RowsTellTheOrg
