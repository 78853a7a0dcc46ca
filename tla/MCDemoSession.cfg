SPECIFICATION Spec
CONSTANTS
  DEFAULT_FULL_PACKET_INTERVAL = 1
  TickRatio = 2
  FullPacketSlack = 1
  Indexes = {1}
  MaxState = 1
  MaxVersion = 1
  BaselineMayChange = FALSE
  MaxBody = 6
  MaxTroubled = 4
  MaxCalls = 2
INVARIANTS
  TypeOK
  StopsWhereAsked
  StateIsRecorded
  RestIsVisited
  SegmentsReproduceParse
CHECK_DEADLOCK FALSE
