SPECIFICATION Spec
CONSTANTS
  Processes = {p1}
  Requests = {r1}
  Poller = poller
  Manual = {}
  Stages = 1
  MaxDispatch = 1
  MaxLog = 5
  MaxCrashes = 0
INVARIANT RefusedOnlyWhenOvertaken
CHECK_DEADLOCK FALSE
