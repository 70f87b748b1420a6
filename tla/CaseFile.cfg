SPECIFICATION CaseSpec
CONSTANTS
  p1 = p1
  p2 = p2
  Processes = {p1, p2}
  Reviews <- MCReviews
  Adjudications = {"PASS"}
  Outcomes <- MCOutcomes
  MaxCommands = 4
SYMMETRY Symmetry
INVARIANTS
  LifecycleBorneOut
  LossNeedsInterference
  OnlyKnownOriginsCount
  GeneratedReadyOnlyIfWiped
  GatedIsTrustedInCorpus
CHECK_DEADLOCK FALSE
