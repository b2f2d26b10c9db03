CONSTANTS
  PayloadWords = 1
  LineWords = 2
  Iterations = 2
  MaxEpochs = 2
  MaxReplacements = 1
  Levels <- LevelPairs
  None = None
SPECIFICATION FairSpec
INVARIANTS
  PayloadFresh
  InStep
  RetiredToDdr
PROPERTIES
  Finishes
CHECK_DEADLOCK FALSE
