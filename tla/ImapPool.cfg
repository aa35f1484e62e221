SPECIFICATION Spec
CONSTANTS
  Callers = {a, b, c}
  Conns = {c1, c2, c3, c4}
  Configured = inbox
  Destinations = {archive}
  None = none
SYMMETRY Symmetry
INVARIANTS
  IInv
  OwnedOnce
  NoConnectionLeaks
  OnlyCrossedMovesStray
