SPECIFICATION Spec
CONSTANTS
  Processes = {p1, p2}
  Requests = {r1}
  Poller = poller
  Manual = {m1}
  Stages = 2
  MaxDispatch = 2
  MaxLog = 3
  MaxCrashes = 1
SYMMETRY SessionSymmetry
INVARIANTS TypeOK StartedOnce FollowupIsWanted OneOutcomeEach StagesAdvance
CHECK_DEADLOCK FALSE
CONSTRAINT FewBusy
