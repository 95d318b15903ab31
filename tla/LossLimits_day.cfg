CONSTANTS
  Markets = {m1, m2}
  NoMarket = NoMarket
  Cash = 8
  Payout = 2
  MaxOrder = 2
  MaxPosition = 2
  MaxExposure = 3
  MaxOpen = 2
  MaxDailyLoss = 1
  DailyLossPct = 50
  DrawdownPct = 40
  MaxConsecutive = 2
  ExitsWhenKilled = TRUE
  MaxTrades = 5
  MaxDays = 1
  MaxRestarts = 1
SPECIFICATION Spec
INVARIANTS
  
  StreakBounded
PROPERTIES
  BreachLasts
CHECK_DEADLOCK FALSE
SYMMETRY MarketSymmetry
