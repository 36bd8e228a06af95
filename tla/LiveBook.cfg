SPECIFICATION Spec
CONSTANTS
  None = None
  MaxQty = 2
  MaxTick = 3
  MaxOrders = 9
  MaxLeftovers = 1
  placeAttempts = 1
  MaxFills = 2
  Worlds <- All
INVARIANTS TypeOK NeverLoosened
