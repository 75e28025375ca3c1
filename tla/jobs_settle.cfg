SPECIFICATION FairSpec
CONSTANTS
  Workers = {w1}
  Jobs = {j1}
  Handlers = {h1}
  Poller = poller
  Tokens = {1, 2, 3, 4, 5, 6, 7}
  None = None
  MaxAttempts = 2
  TTL = 1
  MaxLag = 1
  MaxFaults = 1
  MaxCrashes = 2
  Prompt = TRUE
PROPERTY ImplementsLifecycle
PROPERTY EveryJobSettles
