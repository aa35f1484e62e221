SPECIFICATION FairSpec
CONSTANTS
  Ids = {i1}
  Worker = worker
  Handlers = {handler}
  Clients = {cli}
  Nobody = nobody
  NoId = noId
  MaxRetries = 2
  Mishaps = {"crash"}
  MaxMishaps = 2
PROPERTIES
  QueuedIsProcessed
  RetryIsAnswered
  ImplementsLifecycle
