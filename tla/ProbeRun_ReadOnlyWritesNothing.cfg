SPECIFICATION Spec
CONSTANTS
  Plans <- LockPlans
  Observations <- MCObservations
  Options <- DefaultOptions
INVARIANT ReadOnlyWritesNothing
CHECK_DEADLOCK FALSE
