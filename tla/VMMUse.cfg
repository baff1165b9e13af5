SPECIFICATION Spec
CONSTANTS
  Entries = 5
  Levels = 3
  Pages <- MCPages
  MemoryMaps <- MCMemoryMaps
  LowPages = 25
  CodePages = 3
  DataBase = 50
  CodeBase = 110
  Memories <- MCZeroMemory
  Contents <- MCZero
  Addresses <- MCAddresses
  Watched <- MCWatched
  MapFlags <- MCAnyFlags
  MaxTaken = 2
  MaxDirectories = 2
  UnmapUnmapped = FALSE
CHECK_DEADLOCK FALSE
INVARIANTS
  TypeOK
  TablesExclusive
  TLBCoherent
  FaultOnlyWithoutMemory
  NoTableLost
PROPERTY ImplementsAddressSpace
