SPECIFICATION StoreSpec
CONSTANTS
  Calls = {c1, c2, c3, c4}
  Retention = 1
  MaxEvents = 2
  MaxTime = 3
SYMMETRY Symmetry
INVARIANTS
  LostOnlyToOverlap
PROPERTY OwnEventIsStored
CHECK_DEADLOCK FALSE
