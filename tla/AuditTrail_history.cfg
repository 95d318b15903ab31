CONSTANTS
  Commands = {c1}
  MaxChanges = 6
  MaxRestarts = 2
SPECIFICATION Spec
INVARIANTS ChainHolds 
CHECK_DEADLOCK FALSE
