SPECIFICATION FairSpec
CONSTANTS
  Request = {q1, q2}
  Projector = {p1, p2}
  MaxTasks = 3
  MaxFaults = 1
INVARIANTS
  OpenRowsAreBounded
PROPERTIES
  LiveRowIsKept
  InboxSettles
