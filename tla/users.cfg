SPECIFICATION Spec
CONSTANTS
  Users = {u1, u2}
  Sessions = {s1, s2}
  Requests = {k1, k2}
  Nothing = Nothing
  u1 = u1
  u2 = u2
  s1 = s1
  s2 = s2
  k1 = k1
  k2 = k2
  MaxTurns = 2
  MaxFaults = 1
  MaxCrashes = 1
INVARIANTS TypeOK CreatedFirst LinkedIsStarted AnsweredUserIsKnown ProfilesGrow
CHECK_DEADLOCK FALSE
SYMMETRY MCSymmetry
CONSTRAINT FewTurns
