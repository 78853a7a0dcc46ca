SPECIFICATION Spec
CONSTANTS
  HISTORY_SIZE = 2
  Keys <- MCKeys
  Classes <- MCClass
  NoText <- MCNoText
  NoKey = NoKey
  Data = {0, 1}
  None = None
  MaxItems = 2
  MaxEntries = 4
VIEW MCView
INVARIANTS TypeOK RingIsList ItemsAreSent BaselineIsTable
