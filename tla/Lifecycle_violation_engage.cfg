CONSTANTS
  Faults = {"stall", "kill"}
  MaxRecoveries = 1
  MaxCommands = 0
  MaxRestarts = 0
SPECIFICATION Spec
PROPERTIES
  EngageReachesState
