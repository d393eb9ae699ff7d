SPECIFICATION Spec
CONSTANTS
  Comparisons = {c1, c2}
  Ops = {o1}
  MaxComparisons = 1
  MaxRecords = 1
  TypeDirMap <- MCTypeDirMap
  Requests <- MCRequests
  SourceFiles <- MCSource
  TargetFiles <- MCTarget
  MaxVersion = 2
  MaxRestarts = 1
  None = None
INVARIANTS ReviewsTellTheTruth PackagesAreAsReviewed AcceptedIsRecorded DiffTellsTruth
PROPERTY ValidationNeverCommits
CHECK_DEADLOCK FALSE
