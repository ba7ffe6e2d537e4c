SPECIFICATION PartsSpec
CONSTANTS
  Messages <- TwoMessages
  Wishes = {1, 3}
  ReadBuffer = 2
  SendSpace = 2
  SizeLimit = 16
  MaxSends = 3
  MaxArriving = 3
  MaxConnects = 2
  WSAError = 10054
  MaxFd = 3
  MaxStarts = 2
  MaxOpens = 2
  WinNotifiers = {n}
  WinTimers = {t}
  WinSockets = {s}
  WinTable = a
  WinStopFd = stop
  WinChangeFd = change
  MaxWait = 3
  MaxChanges = 2
  MaxPending = 2
  Interfaces = {1, 2}
  Senders = {p, q}
  Ttls = {3, 256}
  MaxCalls = 2
  MaxMoves = 1
  Inputs <- AlgorithmInputs
  LargestUIntMax = 255
  LargestIntMin <- Int8Min
  IntMax = 15
  RightMargin = 12
  RealDigits = 4
INVARIANTS PartsTypeOK WholeMessages NothingSkipped NoneLeaked ClosesOwn WinNoLostWake SentAsTold
PROPERTIES StreamSpec EchoComes  ValuesAgree TextsAndAdaptersAgree
CHECK_DEADLOCK FALSE
