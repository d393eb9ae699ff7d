SPECIFICATION UpdaterFairSpec
CONSTANTS
  Clicks = {c1, c2}
  Newest = 3
  Signed = {1, 3}
  Compatible = {1, 2}
INVARIANTS InstalledIsVerified
PROPERTY UpdateSettles
CHECK_DEADLOCK FALSE
