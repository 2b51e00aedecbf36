SPECIFICATION Spec
CONSTANTS
  Symbol = {AAPL, GOOGL}
  MaxAttempts = 1
  MaxLoad = 2
  MaxBreaks = 1
  MaxSilence = 3
SYMMETRY Symmetry
CHECK_DEADLOCK FALSE
PROPERTY
  OnlyProcessedAreCleared
