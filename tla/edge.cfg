CONSTANTS
  Keys = {k1}
  Calls = {c1, c2}
  ResultTtl = 2
  PendingTtl = 2
  ReportDelay = 1
  MaxWait = 1
  Faults = {"reject"}
  Purging = TRUE
  Evicting = TRUE
  EdgeTtl = 2
SPECIFICATION EdgeSpec
SYMMETRY Symmetry
INVARIANTS EdgeTypeOK CachedAnswers PurgeHolds
