SPECIFICATION FairSpec
CONSTANTS
  up = up
  Tokens = {up}
  MinSamples = 2
  SlowAnswers = FALSE
  MaxVersion = 2
  MaxBuffer = 3
  MaxLosses = 2
  MaxBad = 1
 
PROPERTIES ImplementsQuoteFeed StreamHeals
CHECK_DEADLOCK FALSE
