CONSTANTS
  u1 = u1
  u2 = u2
  Clients = {u1, u2}
  MaxMinute = 0
  Retained = 2
  Requests = {r1}
  Inputs <- Reads
  Limit = 60
  Servable = {1}
  Origins = FALSE
  ApiKey = FALSE
SPECIFICATION Spec
INVARIANT LatestIsShort
CHECK_DEADLOCK FALSE
