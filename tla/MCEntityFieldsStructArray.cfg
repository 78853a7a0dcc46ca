SPECIFICATION FieldsSpec
CONSTANTS
  SendTables <- MCStructArrayTables
  Serializer <- MCSerializer
  GameName <- MCGameName
  Paths <- MCStructArrayPaths
  Streams <- MCStreams
  MaxDeltas = 2
  MaxFields = 3
INVARIANT EntityIsSent
CHECK_DEADLOCK FALSE
