SPECIFICATION Spec
CONSTANTS
  Callers = {a, b}
  Conns = {c1, c2, c3}
  Configured = inbox
  Destinations = {archive}
  None = none
INVARIANT ConfiguredWhenActing
