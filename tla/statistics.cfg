CONSTANTS
  Senders = {s1, s2, s3}
  Observations <- Mix
  SampleLimit = 2
  MaxStatsHours = 2
  Retention = 2
  AlarmPeriod = 1
  AlarmLag = 1
  MaxHour = 5
SPECIFICATION Spec
SYMMETRY Symmetry
INVARIANTS StatsTypeOK WindowExact PercentilesExact StorageBounded
CHECK_DEADLOCK FALSE
