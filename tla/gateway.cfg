CONSTANTS
  u1 = u1
  u2 = u2
  Clients = {u1, u2}
  MaxMinute = 1
  Retained = 0
  Requests = {r1, r2, r3, r4}
  Inputs <- Mixed
  Limit = 2
  Servable = {1}
  Origins = TRUE
  ApiKey = TRUE
SPECIFICATION MixedSpec
SYMMETRY Symmetry
INVARIANTS GatewayTypeOK WindowBound NoFalseRejection ChargedExactly OnlyServable
CHECK_DEADLOCK FALSE
