CONSTANTS
  Files <- MCFiles
  MaxCalls = 3
  MaxCommands = 3
  HeaderSize = 2
  BodySizes = {0, 3}
SPECIFICATION Spec
INVARIANTS
  TypeOK
  GivenAsRecorded
  EndIsTheFiles
PROPERTIES
  TicksAreLast
  IsCommandStream
CHECK_DEADLOCK FALSE
