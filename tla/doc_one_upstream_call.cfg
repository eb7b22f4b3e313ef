CONSTANTS
  Keys = {k1}
  Calls = {c1, c2, c3}
  ResultTtl = 2
  PendingTtl = 4
  ReportDelay = 1
  MaxWait = 2
  Faults = {}
  Purging = FALSE
  Evicting = FALSE
SPECIFICATION Spec
INVARIANT OneUpstreamCall
