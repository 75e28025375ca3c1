SPECIFICATION Spec
CONSTANTS
  Streams = {s1, s2}
  Clients = {c1, c2, c3}
  MaxBatch = 2
  MaxAppends = 1
  AnyVersion = AnyVersion
  NoRequest = NoRequest
SYMMETRY ClientSymmetry
INVARIANTS TypeOK NoVersionGap VersionOrderIsTimeOrder
PROPERTIES AppendsFollowExpected ImplementsLog
CHECK_DEADLOCK FALSE
