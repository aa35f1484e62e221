SPECIFICATION Spec
CONSTANTS
  Clients = {c1, c2, c3}
  Parallel = 2
  Threshold = 2
  Base = 1
  Cap = 2
  ShiftGuard = 3
  TTL = 2
  MaxTracked = 2
  Sample = 1
  MaxTime = 2
  MaxEvictions = 1
SYMMETRY MCSymmetry
INVARIANTS
  GuessesBounded
  TableBounded
  LockoutsEnd
CHECK_DEADLOCK FALSE
