CONSTANTS
  c1 = c1
  c2 = c2
  c3 = c3
  c4 = c4
  Clients = {c1, c2, c3}
  Requests = {1, 5, 32}
  MetaBytes = 4
  MaxPower = 8
  SlabPages = 2
  MemMaps <- MCMaps
  PageSize = 32
  ByteBits = 2
  KbFactor = 4
  AddrPages = 64
  HigherHalf = 32
  IntMod = 32
  CounterMod = 64
  SlabCount = 4
  Size <- MCSize
  MaxSlabSize = 16
  RangeBytes = 8
SYMMETRY MCSymmetry
SPECIFICATION Spec
CHECK_DEADLOCK FALSE
INVARIANTS TypeOK FreeFindsAllocator BlocksDisjoint PagesAccounted
