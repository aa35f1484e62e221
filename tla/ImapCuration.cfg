SPECIFICATION Spec
CONSTANTS
  Callers = {a, b}
  m1 = m1
  m2 = m2
  n1 = n1
  Mail = {m1, m2}
  Incoming = {n1}
  Listing <- MCListing
  InitFolders <- MCInitFolders
  Declares <- MCDeclares
  Prefix <- MCPrefix
  Targets <- MCTargets
  Requests <- MCRequests
  Modes = {"move+uidplus", "move", "uidplus", "none"}
  Anonymous = {m2}
  MaxAttempts = 2
  TripAfter = 1
  MaxCalls = 2
  MaxMishaps = 1
  MaxOthers = 1
  Nobody = nobody
SYMMETRY Symmetry
INVARIANTS
  NothingLost
  ReportsAreTrue
  OnlyUnclassedMistakesCount
PROPERTIES
  DestinationsSurvive
CHECK_DEADLOCK FALSE
