SPECIFICATION FairSpec
CONSTANTS
  prod = prod
  dev = dev
  differs = differs
  extra = extra
  Targets = {prod, dev}
  Sandboxes = {dev}
  Rows = {differs, extra}
  Status <- MCStatus
  None = None
  MaxCompares = 2
  MaxWork = 3
INVARIANTS PaneIsOfActiveRow HistoryTellsOutcome
PROPERTIES ShipsAsReviewed MonitoredToTheEnd
