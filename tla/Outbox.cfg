SPECIFICATION RelaySpec
CONSTANTS
  Row <- MCRow
  Poison <- MCPoison
  Replica = {r1, r2}
  BatchSize = 2
  MaxFaults = 2
INVARIANTS
  ExclusiveClaim
  NoLostEvent
  SurplusCopiesAreFaults
PROPERTIES
  HealthyRowsPublished
