SPECIFICATION Spec
CONSTANTS
  None = None
  btc = btc
  eth = eth
  Symbols <- Coins
  Prices <- MarkPrices
  Initial = 40
  Slip = 1
  FeeDiv = 4
  FundingDiv = 4
  LiqPct = 49
  Interval = 2
  MaxTrades = 2
  MaxClock = 4
  MaxFills = 3
  MaxFaults = 2
  Worlds <- All
INVARIANTS TypeOK EquityIsCash FundingOnce ResetForgets MovedOnce
