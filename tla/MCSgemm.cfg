CONSTANTS
  TileM = 2
  TileN = 2
  TileK = 2
  MinionsPerShire = 2
  Available = {0, 1}
  MaxShires = 3
  Problems <- SmallProblems
  Unwritten = Unwritten
SPECIFICATION FairSpec
INVARIANTS
  StoredWhole
  ResultComplete
  OneWriter
  StoresInside
PROPERTIES
  Returns
CHECK_DEADLOCK FALSE
