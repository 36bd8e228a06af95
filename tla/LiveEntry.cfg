SPECIFICATION Spec
CONSTANTS
  e1 = e1
  e2 = e2
  BTC = BTC
  ETH = ETH
  Entries = {e1, e2}
  Symbols = {BTC}
  SymbolOf <- OneSymbol
  WithTp = {e1}
  Qty = 3
  Legs = {l1, l2, l3, l4}
  Env = {"lost_place"}
  NoEntry = NoEntry
  NoLeg = NoLeg
SYMMETRY LegSymmetry
INVARIANTS TypeOK ResolvedProtected SingleExposure
PROPERTY NeverUncovered
