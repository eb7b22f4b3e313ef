CONSTANTS
  Keys = {k1}
  Calls = {c1}
  ResultTtl = 2
  PendingTtl = 2
  ReportDelay = 1
  MaxWait = 1
  Faults = {}
  Purging = TRUE
  Evicting = FALSE
  EdgeTtl = 2
SPECIFICATION EdgeSpec
INVARIANT PurgeClearsCache
