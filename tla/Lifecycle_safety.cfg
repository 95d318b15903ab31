CONSTANTS
  Faults = {"stale", "account", "mismatch", "order", "storage", "kill", "stall"}
  MaxRecoveries = 1
  MaxCommands = 1
  MaxRestarts = 1
SPECIFICATION Spec
INVARIANTS
  SevereHaltsAreManual
  TradingIsReconciled
  
  OneEntryOverrun
PROPERTIES
  LockedUntilRestart
  ImplementsTradingPermit
