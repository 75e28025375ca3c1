SPECIFICATION Spec
CONSTANTS
  Workers = {w1}
  Jobs = {j1}
  Handlers = {h1,h2}
  Poller = poller
  Tokens = {1, 2, 3, 4, 5, 6, 7}
  None = None
  MaxAttempts = 2
  TTL = 1
  MaxLag = 0
  MaxFaults = 0
  MaxCrashes = 0
  Prompt = TRUE
INVARIANT RequeuedOnlyWhenAllowed
