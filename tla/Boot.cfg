SPECIFICATION Spec
CONSTANTS
  Tables <- MCTables
  Firmwares <- MCFirmwares
  HigherHalf = 10000
  ArraySlots = 63
  CharValues = 16
  ShortValues = 32
  IntValues = 64
  LongValues = 256
  PointerBytes = 1
  NtoaBuffer = 6
  BufferBytes = 13
  FifoBytes = 2
  UartStates <- MCUartStates
  ByteValues = 9
  TssAddresses <- MCTssAddresses
  BootSegments <- MCBootSegments
  Screens <- MCScreens
  TagLists <- MCTagLists
  Shapes <- MCShapes
  Calls <- MCCalls
  CPUs <- MCCPUs
CHECK_DEADLOCK FALSE
INVARIANTS
  TypeOK
  OnlyVerifiedTables
  ListedTableFound
  RecordsCollected
  ArraysFit
  TextAsInC
  NoCharacterLost
  SegmentsUsable
  PixelsOnCurve
PROPERTIES
  BootEnds
