SPECIFICATION FairSpec
CONSTANTS
  Symbol = {AAPL, GOOGL}
  MaxAttempts = 1
  MaxLoad = 2
  MaxBreaks = 1
  MaxSilence = 0
CHECK_DEADLOCK FALSE
INVARIANT
  SubscribedAtServer
PROPERTIES
  ConnectsOrGivesUp
  PendingReachesService
  StopReturns
