CONSTANTS
  DramSize = 8
  CacheLine = 2
  DmaAlign = 1
  Images <- SpreadImages
  Sizes = {1, 3}
  ArgLens = {1}
  Queues = {q0, q1}
  MaxLaunches = 0
  MaxSerial = 3
  Budgets <- LoadsOnly
  Nobody = Nobody
SPECIFICATION Spec
INVARIANT LoadSparesAllocations
CHECK_DEADLOCK FALSE
