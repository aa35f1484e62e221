SPECIFICATION FairSpec
CONSTANTS
  DefaultMin = 2
  DefaultMax = 4
  Overrides <- MCOverrides
  Credentials = {"password", "oauth2"}
  MaxWaited = 20
INVARIANT NoStorm
PROPERTIES
  RejectionIsLast
  StaysInformed
CHECK_DEADLOCK FALSE
