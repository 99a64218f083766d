SPECIFICATION Spec
CONSTANTS
  Task = {k1, k2, k3, k4}
  Workers = 2
  MaxCompensating = 1
  MaxQueue = 2
  MaxNesting = 1
  OsRefusesThreads = FALSE
SYMMETRY TaskSymmetry
INVARIANTS WorkersAccounted NoLostWakeup Drained SoftCap
CHECK_DEADLOCK FALSE
