SPECIFICATION FairSpec
CONSTANTS
  Request = {q1}
  Dispatcher = {d1, d2}
  MaxTasks = 3
  MaxFaults = 1
INVARIANTS
  CustomerFollowsDecisions
PROPERTIES
  DecisionsAreApplied
