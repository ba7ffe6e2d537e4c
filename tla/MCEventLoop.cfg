SPECIFICATION Spec
CONSTANTS
  f1 = f1
  f2 = f2
  Fds <- MCFds
  MaxEvents = 2
  MaxInputs = 4
SYMMETRY FdSymmetry
INVARIANTS TypeOK NoLostEdge NoLostChange NoLostStop
CHECK_DEADLOCK FALSE
