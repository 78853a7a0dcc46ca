SPECIFICATION FieldsSpec
CONSTANTS
  SendTables <- MCSendTables
  Serializer <- MCSerializer
  GameName <- MCGameName
  Paths <- MCPaths
  Streams <- MCStreams
  MaxDeltas = 2
  MaxFields = 3
INVARIANTS FieldsTypeOK PathsAreSent SkipKeepsUp SlotsAreKept EntityIsSent
CHECK_DEADLOCK FALSE
