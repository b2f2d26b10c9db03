CONSTANTS
  Commands = {c1, c2, c3}
  NumTags = 2
  None = None
SPECIFICATION FairSpec
INVARIANTS
  OwnResponse
  TagsAccounted
  NoResponseLost
PROPERTIES
  ImplementsChannel
  WaitsEnd
CHECK_DEADLOCK FALSE
