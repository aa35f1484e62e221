SPECIFICATION FairSpec
CONSTANTS
  MaxAttempts = 3
  Logins = {"none", "plain", "oauth2"}
INVARIANTS
  OnlyLostRepliesDuplicate
PROPERTIES
  PermanentIsFinal
  SendAnswers
  KeepsContract
CHECK_DEADLOCK FALSE
