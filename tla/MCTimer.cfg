SPECIFICATION FairSpec
CONSTANTS
  loop = loop
  main = main
  LoopThread = loop
  Callers <- Both
  MaxSets = 3
  MaxCancels = 3
  MaxTicks = 2
  MaxDepth = 4
INVARIANTS TypeOK OneShotOnce CancelledOnce NoEarlyFire NoIdleTimer
PROPERTIES SilentWhenOver ExpiredIsTold
CHECK_DEADLOCK FALSE
