SPECIFICATION FairSpec
CONSTANTS
  f1 = f1
  f2 = f2
  Fds <- MCFds
  MaxEvents = 2
  MaxInputs = 3
PROPERTIES StopReturns Settles
CHECK_DEADLOCK FALSE
