CONSTANTS
  Calls = {c1, c2}
  Hashes = {h1}
  Attempts = 2
  Delay = 1
  Timeout = 2
  ParamTtl = 4
SPECIFICATION FairSpec
INVARIANTS TypeOK RetriedFirst MetricsExact StoredIsFound
PROPERTIES ProxiedEnds
