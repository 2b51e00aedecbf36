SPECIFICATION Spec
CONSTANTS
  Symbol = {AAPL, GOOGL}
  MaxAttempts = 2
  MaxLoad = 1
  MaxBreaks = 2
  MaxSilence = 3
SYMMETRY Symmetry
CHECK_DEADLOCK FALSE
INVARIANTS
  TypeOK
  PendingOnItsWay
  StillTrying
  SubscribedAtServer
