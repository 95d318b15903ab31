CONSTANTS
  Servers = {s1, s2}
  Tokens = {a, b}
  PerMinute = 1
  Minute = 2
  TTL = 1
  MaxInFlight = 1
  MaxTime = 4
  MaxProposals = 3
  MaxBreaks = 1
  MaxRestarts = 1
SPECIFICATION FairSpec
INVARIANTS  RateBounded
 
CHECK_DEADLOCK FALSE
