SPECIFICATION Spec
CONSTANTS
  loop = loop
  main = main
  LoopThread = loop
  Callers <- LoopOnly
  MaxSets = 2
  MaxCancels = 2
  MaxTicks = 2
  MaxDepth = 3
INVARIANTS RestartIsTold
CHECK_DEADLOCK FALSE
