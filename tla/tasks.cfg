CONSTANTS
  b1 = b1
  b2 = b2
  b3 = b3
  Batches = {b1, b2, b3}
  Items <- Lists
  Ids = {1, 2}
  Decoded = {"getBalance"}
  Methods = {"getBalance", "getBlock"}
  Attempts = 2
  Times = {1}
  Capacity = 2
  Preheats <- Warm
  Concurrency = 2
  PreheatTimes = {3}
  Action = "getBalance"
  MaxResets = 1
SPECIFICATION PairSpec
INVARIANTS TasksTypeOK BatchAnswered MetricsExact PreheatExact
CHECK_DEADLOCK FALSE
