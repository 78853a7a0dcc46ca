SPECIFICATION Spec
CONSTANTS
  DEFAULT_FULL_PACKET_INTERVAL = 1
  TickRatio = 2
  FullPacketSlack = 0
  Indexes = {1, 2}
  MaxState = 0
  MaxVersion = 2
  BaselineMayChange = TRUE
  MaxBody = 6
  MaxTroubled = 0
  MaxCalls = 1
INVARIANTS
  SegmentsReproduceParse
CHECK_DEADLOCK FALSE
