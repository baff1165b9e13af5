CONSTANTS
  c1 = c1
  c2 = c2
  c3 = c3
  c4 = c4
  Clients <- MCClients
  Requests = {2, 4, 8, 16}
  SlabCount = 3
  Size <- MCSize
  MaxSlabSize = 8
  RangeBytes = 4
  PageBytes = 16
  AddrBytes = 256
  PageSupplies <- GrantedPages
SYMMETRY MCSymmetry
SPECIFICATION Spec
CHECK_DEADLOCK FALSE
INVARIANTS TypeOK NoOverlap RangeConserved
