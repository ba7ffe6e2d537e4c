SPECIFICATION Spec
CONSTANTS
  a1 = a1
  a2 = a2
  x1 = x1
  x2 = x2
  x3 = x3
  None = None
  Adapters <- MCAdapters
  Addresses <- MCAddresses
  MaxChanges = 4
  MaxStarts = 2
INVARIANTS AlwaysHeard
CHECK_DEADLOCK FALSE
