SPECIFICATION FairSpec
CONSTANTS
  Workers = {w1, w2}
  Jobs = {j1}
  Handlers = {}
  Poller = poller
  Tokens = {1, 2, 3, 4, 5, 6, 7}
  None = None
  MaxAttempts = 2
  TTL = 1
  MaxLag = 1
  MaxFaults = 0
  MaxCrashes = 1
  Prompt = TRUE
INVARIANTS TypeOK ExecutorHoldsJob CompletedOnce HolderIffLeased RetryBudget
PROPERTY ClaimTakesFreeJob
PROPERTY EveryJobEnds
