SPECIFICATION Spec
CONSTANTS
  Prices = {1, 2, 3}
  MAX_BUFFER = 2
  Depth = 1
  MaxUpdates = 5
  MaxFaults = 2
  Worlds <- All
INVARIANTS TypeOK LiveIsExact SomebodyRebuilds
