SPECIFICATION FairSpec
CONSTANTS
  Symbol = {AAPL}
  MaxAttempts = 2
  MaxLoad = 1
  MaxBreaks = 1
  MaxSilence = 0
CHECK_DEADLOCK FALSE
PROPERTY
  ReconnectsEnd
