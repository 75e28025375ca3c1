SPECIFICATION FairSpec
CONSTANTS
  Connections = {c1}
  Nothing = Nothing
  Shutdown = Shutdown
  QueueSize = 2
  MinDelta = 2
  MaxEvents = 3
  MaxAsks = 1
  MaxRestarts = 1
  MaxOthers = 1
INVARIANTS TypeOK ProjectionIsPrefix ReturnedIsCurrent FeedIsCurrent NoHole
PROPERTIES SenderGoesOn SenderEnds
CHECK_DEADLOCK FALSE
