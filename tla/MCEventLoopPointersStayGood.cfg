SPECIFICATION Spec
CONSTANTS
  f1 = f1
  f2 = f2
  Fds <- MCFds
  MaxEvents = 2
  MaxInputs = 4
INVARIANTS PointersStayGood
CHECK_DEADLOCK FALSE
