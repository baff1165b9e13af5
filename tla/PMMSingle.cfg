CONSTANTS
  c1 = c1
  c2 = c2
  c3 = c3
  c4 = c4
  Clients <- MCClients
  MemMaps <- AllMaps
  PageCounts = {1}
  PageSize = 2
  ByteBits = 2
  KbFactor = 4
  AddrPages = 64
  HigherHalf = 32
  IntMod = 16
  CounterMod = 64
SPECIFICATION Spec
CHECK_DEADLOCK FALSE
INVARIANTS TypeOK NullPageReserved PageConservation BitmapSafe WritesAtBitmapEnd NeverRefusesFreePage
PROPERTY ImplementsPageAllocator
