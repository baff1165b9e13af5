SPECIFICATION Spec
CONSTANTS
  Entries = 5
  Levels = 3
  Pages <- MCPages
  MemoryMaps <- MCMemoryMaps
  LowPages = 25
  CodePages = 3
  DataBase = 50
  CodeBase = 110
  Memories <- MCStaleMemory
  Contents <- MCZero
  Addresses <- MCAddresses
  Watched <- MCWatched
  MapFlags <- MCReadWrite
  MaxTaken = 1
  MaxDirectories = 1
  UnmapUnmapped = FALSE
CHECK_DEADLOCK FALSE
INVARIANT OnlyMappedPages
