CONSTANTS
  Faults = {"stream", "evidence", "exception", "stall"}
  MaxRecoveries = 1
  MaxCommands = 0
  MaxRestarts = 0
SPECIFICATION FairSpec
PROPERTIES
  RecoversWithStreams
  
