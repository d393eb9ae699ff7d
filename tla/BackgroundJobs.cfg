SPECIFICATION FairSpec
CONSTANTS
  Retrievals = {r1, r2}
  MaxWork = 2
  MaxRestarts = 1
INVARIANTS SuccessIsDownloadable StripTellsTruth
PROPERTIES RetrievalIsShown DeployIsReported
CHECK_DEADLOCK FALSE
