CONSTANTS
  Keys = {k1}
  Calls = {c1, c2}
  ResultTtl = 1
  PendingTtl = 2
  ReportDelay = 1
  MaxWait = 1
  Faults = {"error", "reject"}
  Purging = TRUE
  Evicting = TRUE
SPECIFICATION FairSpec
PROPERTIES WaitersEnd KeyNeverStuck CallsEnd
