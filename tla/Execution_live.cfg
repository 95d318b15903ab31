CONSTANTS
  Decision = {d1, d2}
  NoDecision = NoDecision
  MaxInFlight = 2
  Size = 2
  MaxCrashes = 1
  KeepsHistory = FALSE
SPECIFICATION FairSpec
INVARIANTS
  WriteAhead
  MemoryMirrorsStore
  ClosedComplete
PROPERTIES
  NoSubmitWhileUnknown
  ImplementsOrderOnce
  
  
CHECK_DEADLOCK FALSE
