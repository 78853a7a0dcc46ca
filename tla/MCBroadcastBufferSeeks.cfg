SPECIFICATION BufferSpec
CONSTANTS
  PacketSizes = {1, 2, 3}
  AppendOnly = FALSE
  AskAhead = TRUE
  Unknown = {}
  MaxReceived = 6
INVARIANTS
  BufferKeepsAll
CHECK_DEADLOCK FALSE
