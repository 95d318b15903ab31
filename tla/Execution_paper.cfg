CONSTANTS
  Decision = {d1, d2}
  NoDecision = NoDecision
  MaxInFlight = 2
  Size = 2
  MaxCrashes = 1
  KeepsHistory = TRUE
SPECIFICATION Spec
SYMMETRY DecisionSymmetry
INVARIANTS
  FillsAppliedOnce
  EventsAreKnown
CHECK_DEADLOCK FALSE
