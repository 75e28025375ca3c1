SPECIFICATION Spec
CONSTANTS
  Processes = {p1}
  Requests = {r1}
  Poller = poller
  Manual = {}
  Stages = 2
  MaxDispatch = 2
  MaxLog = 5
  MaxCrashes = 0
INVARIANT OutcomeIsTrue
CHECK_DEADLOCK FALSE
