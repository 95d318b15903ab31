SPECIFICATION Spec
CONSTANTS
  early = early
  gap = gap
  Matched = {early}
  Missing = {gap}
  N = 3
  StreamPrices = {1}
  Prices = {1, 2}
  Resolving = {2}
  MinWindows = 2
  Policy = "evidence_gated"
  Keep = 2
  Lookback = 1
  MaxTime = 6
  MaxFaults = 1
INVARIANT WrongPriceIsNoticed
PROPERTIES StreamTradesHaveEvidence
CHECK_DEADLOCK FALSE
