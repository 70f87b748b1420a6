SPECIFICATION Spec
CONSTANTS
  Plans <- MCPlans
  Observations <- MCObservations
  Options <- MCOptions
INVARIANTS
  EveryObjectTracked
  LeftoversAreListed
  ProceedMeansRequiredPassed
  LedgerAgrees
CHECK_DEADLOCK FALSE
