SPECIFICATION Spec
CONSTANTS
  Entry = {e1, e2}
  Rebuild = {b1, b2}
  Nobody = Nobody
  LastDate = 3
  MaxClock = 5
SYMMETRY Interchangeable
INVARIANTS
  CountedOnce
  MissingIsDirty
PROPERTIES
  RebuildIsComplete
