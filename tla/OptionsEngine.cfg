SPECIFICATION LiveSpec
CONSTANTS
  BTC = BTC
  ETH = ETH
  Underlyings = {BTC, ETH}
  Qty = 2
  MaxOpen = 1
  Worlds <- Tolerated
  MaxEntries = 2
  MaxCrashes = 1
  NoU = NoU
  NoSnap = NoSnap
INVARIANTS TypeOK NothingUntracked ExposureCapped LotsAccounted
PROPERTIES TimeExits EntryResolved
