CONSTANTS
  Frames = {f1, f2, f3}
  Halves = {1, 3}
  CmdPieces = 2
  Queues = {q0}
  MaxTransfers = 2
  MaxTotal = 4
  PinnedSizes <- TwoCommands
  Rejects = "last"
  None = None
SPECIFICATION FairSpec
INVARIANTS
  DmaOnlyIntoHeldMemory
  DataIntact
  MappingsAccounted
  CapacityRespected
PROPERTY TransfersReturn
CHECK_DEADLOCK FALSE
