SPECIFICATION Spec
CONSTANTS
  Clients = {c1, c2}
  Parallel = 2
  Threshold = 2
  Base = 1
  Cap = 2
  ShiftGuard = 3
  TTL = 2
  MaxTracked = 1
  Sample = 1
  MaxTime = 4
  MaxEvictions = 2
SYMMETRY MCSymmetry
INVARIANTS
  GuessesBounded
CHECK_DEADLOCK FALSE
