CONSTANTS
  Frames = {f1, f2, f3}
  Halves = {2}
  CmdPieces = 1
  Queues = {q0}
  MaxTransfers = 2
  MaxTotal = 2
  PinnedSizes = {}
  Rejects = "any"
  None = None
SPECIFICATION Spec
INVARIANT DmaOnlyIntoHeldMemory
CHECK_DEADLOCK FALSE
