CONSTANTS
  DramSize = 8
  CacheLine = 2
  DmaAlign = 1
  Images <- BaseImages
  Sizes = {1}
  ArgLens = {1, 2}
  Queues = {q0, q1}
  MaxLaunches = 2
  MaxSerial = 4
  Budgets <- CallerBudgets
  Nobody = Nobody
SPECIFICATION Spec
SYMMETRY Symmetry
INVARIANTS
  MemoryPartitioned
  NoSharedLine
  ArgsStable
  ArgsBufferHeld
PROPERTY OnlyHolderWrites
CHECK_DEADLOCK FALSE
