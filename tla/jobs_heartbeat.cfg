SPECIFICATION Spec
CONSTANTS
  Workers = {w1}
  Jobs = {j1}
  Handlers = {}
  Poller = poller
  Tokens = {1, 2, 3, 4, 5, 6, 7}
  None = None
  MaxAttempts = 1
  TTL = 3
  MaxLag = 0
  MaxFaults = 0
  MaxCrashes = 0
  Prompt = TRUE
INVARIANT SlowJobKeepsLease
