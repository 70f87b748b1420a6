SPECIFICATION Spec
CONSTANTS
  None = None
  Inputs <- MCInputs
  Latencies = {10, 12}
INVARIANTS
  SimulatedCountsAreFixed
  RecommendationIsEarned
PROPERTY SimulatedRunEnds
CHECK_DEADLOCK FALSE
