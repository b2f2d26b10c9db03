SPECIFICATION SpmdSpec
CONSTANTS
  Setups <- WorkingSetups
  MaskBits = 3
  ShireMinions = 2
  Elements = 6
  Units = 6
INVARIANTS
  PassMeansWritten
  NoFalseFailure
  OneWriterInside
CHECK_DEADLOCK FALSE
