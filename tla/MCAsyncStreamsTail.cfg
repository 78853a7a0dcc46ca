SPECIFICATION Spec
CONSTANTS
  Streams = {"PacketChannelDemoStream"}
  Capacity = 2
  DEMO_HEADER_SIZE = 4
  VarintHeaders = {1, 3}
  BROADCAST_CMD_HEADER_SIZE = 2
  EmptyPackets = FALSE
  BodySizes = {0, 2}
  MaxCommands = 3
  MAX_HEADER = 3
  MaxDrops = 0
INVARIANT NoCommandLeft
CHECK_DEADLOCK FALSE
