CONSTANTS
  Keys = {k1}
  Calls = {c1, c2, c3}
  ResultTtl = 1
  PendingTtl = 2
  ReportDelay = 1
  MaxWait = 1
  Faults = {"reject"}
  Purging = TRUE
  Evicting = TRUE
SPECIFICATION Spec
SYMMETRY Symmetry
INVARIANTS TypeOK DedupInv Observed SingleFlight ServedFresh
PROPERTIES OutcomeKept LeaseSpec
