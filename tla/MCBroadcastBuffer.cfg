SPECIFICATION BufferSpec
CONSTANTS
  PacketSizes = {1, 2, 3}
  AppendOnly = TRUE
  AskAhead = TRUE
  Unknown = {8}
  MaxReceived = 12
INVARIANTS
  BufferTypeOK
  BufferKeepsAll
  BodyFollowsHeader
  TotalTicksIsLast
  NothingSkipped
CHECK_DEADLOCK FALSE
