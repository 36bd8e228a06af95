SPECIFICATION FairSpec
CONSTANTS
  e1 = e1
  e2 = e2
  BTC = BTC
  ETH = ETH
  Entries = {e1}
  Symbols = {BTC}
  SymbolOf <- OneSymbol
  WithTp = {}
  Qty = 2
  Legs = {l1, l2, l3}
  Env = {"trigger", "operator", "cleanup_fail"}
  NoEntry = NoEntry
  NoLeg = NoLeg
INVARIANT NoLegLeftBehind
PROPERTY SlotFreed
