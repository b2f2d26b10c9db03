SPECIFICATION FairSpec
CONSTANTS
  None = None
  Commands <- MCCommands
  CqsOf <- MCCqsOf
  Oversize <- MCOversize
  NumSqs = 1
  NumCqs = 2
  SqCap = 1
  CqCap = 1
  Workers = 1
  MaxResets = 1
  OpensWhileAsked = FALSE
INVARIANTS
  FailsForAReason
PROPERTIES
  ImplementsChannel
  ReturnsRestarted
  CallsReturn
CHECK_DEADLOCK FALSE
