CONSTANTS
  U16Max = 110
  U32Max = 15
  CacheLine = 4
  DmaLimits <- Devices
  TransferLengths = {1, 4, 9}
  TraceRegions = {3, 16}
  Statuses = {0, 2, 15}
  Cuts = {0, 8, 16, 36, 64}
  Absent = Absent
  Garbled = Garbled
SPECIFICATION MessagesSpec
INVARIANTS
  LaunchUnderstood
  TransferComplete
  ResultAsAnswered
CHECK_DEADLOCK FALSE
