CONSTANTS
  N = 6
  Cap = 2
  IndexWidth = 4
  MaxLaunches = 2
  Reloads = TRUE
  Unwritten <- NeverWritten
SPECIFICATION FairSpec
INVARIANTS
  InOrder
PROPERTIES
  ImplementsFifo
  Finishes
CHECK_DEADLOCK FALSE
