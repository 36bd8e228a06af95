SPECIFICATION Spec
CONSTANTS
  None = None
  Lots = 6
  MinQty = 1
  TrailGap = 2
  MinGap = 1
  Levels <- MarkLevels
  MaxEntries = 2
  MaxFaults = 2
  Passes = {tick, cycle}
  Worlds <- All
SYMMETRY PassSymmetry
INVARIANTS TypeOK PartialsBounded StoreAgrees
PROPERTIES Ratchet
