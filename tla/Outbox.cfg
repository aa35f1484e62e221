SPECIFICATION Spec
CONSTANTS
  Ids = {i1, i2}
  Worker = worker
  Handlers = {handler}
  Clients = {cli}
  Nobody = nobody
  NoId = noId
  MaxRetries = 1
  Mishaps = {"crash", "fault", "damage"}
  MaxMishaps = 3
SYMMETRY Symmetry
CONSTRAINT FewMishaps
INVARIANTS
  IInv
  InFlightUndisturbed
  StatusMissesOnlyARetry
  NoMessageLost
  OneSendPerDecision
  AttemptsCoverSends
PROPERTIES
  SentIsFinal
  CleanRepair
