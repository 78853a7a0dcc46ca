SPECIFICATION FairSpec
CONSTANTS
  Streams = {"PacketChannelDemoStream", "PacketChannelBroadcastStream", "AsyncDemoFile", "AsyncBroadcastStream"}
  Capacity = 2
  DEMO_HEADER_SIZE = 4
  VarintHeaders = {1, 3}
  BROADCAST_CMD_HEADER_SIZE = 2
  EmptyPackets = FALSE
  BodySizes = {0, 1, 3}
  MaxCommands = 2
  MAX_HEADER = 3
  MaxDrops = 2
INVARIANTS TypeOK AsSent BytesAccountedFor EndIsTheEnd
PROPERTY NothingWaits
CHECK_DEADLOCK FALSE
