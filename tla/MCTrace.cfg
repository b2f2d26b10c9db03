CONSTANTS
  NumHarts = 2
  Stride = 12
  StdHeader = 2
  SizeHeader = 1
  EntryHeader = 2
  Align = 2
  StringMax = 4
  Lengths = {0, 1, 4}
  MaxTexts = 2
  CopiedLengths <- CopiedSome
  None = None
SPECIFICATION FairSpec
INVARIANTS
  PartitionsPrivate
  DecodedAsRecorded
PROPERTIES
  DecodingEnds
CHECK_DEADLOCK FALSE
