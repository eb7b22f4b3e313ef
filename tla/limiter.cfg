CONSTANTS
  Calls = {c1, c2, c3, c4, c5}
  Chains = {h1, h2}
  Endpoints = 2
  MaxRpc = 2
  QueueTtl = 1
SPECIFICATION HomeSpec
INVARIANTS TypeOK SlotsCounted CapRespected QueueExact NoIdleSlot FailsHonestly
PROPERTIES Fifo PoolSpec WaitersEnd
