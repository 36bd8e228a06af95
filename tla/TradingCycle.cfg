SPECIFICATION Spec
CONSTANTS
  BTC = BTC
  ETH = ETH
  SOL = SOL
  Symbols = {BTC, ETH, SOL}
  None = None
  Equities = {8, 9, 10}
  BucketSize = 2
  MaxDrawdownPct = 10
  MaxPositions = 1
  MaxQty = 2
  MaxToggles = 2
  Worlds <- All
INVARIANTS TypeOK HaltLetsOneThrough EntriesBounded SkipSound
PROPERTY HaltAndPeakKept
