CONSTANTS
  Market = {m1, m2}
  Outcome = {up, down}
  MaxOrders = 2
  Modes = {TRUE, FALSE}
  Limits = {1, 2}
  Prices = {1, 2}
  BuyLimit = 2
  SellFloor = 2
  Payout = 4
  Fee = 1
  Cash0 = 7
  MaxOrderSize = 2
  MaxPosition = 4
  MaxExposure = 5
  MaxOpen = 2
  Reserve = 1
  MaxReversals = 1
SPECIFICATION Spec
SYMMETRY WindowSymmetry
INVARIANTS
  CashConserved
  LedgersAgree
  PendingIsExact
  NoFalseHalt
  OneSideOnly
  ExposureBounded
  AccountingHolds
PROPERTIES
  ReversalsCaught
CHECK_DEADLOCK FALSE
