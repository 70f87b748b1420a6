SPECIFICATION Spec
CONSTANTS
  None = None
  NoBackup = NoBackup
  NoRow = NoRow
  RelaxedName <- MCRelaxedName
  Thresholds <- MCThresholds
  KeyRank <- MCKeyRank
  Families <- MCFamilies
  TopNs = {1, 2}
  MaxVaried = 2
  MaxInventory = 3
  MaxBackups = 2
INVARIANTS
  TestedEngineAgrees
  StrongCandidatesShareNoBackup
  OrderMattersOnlyWhereFlagged
  DecommissionedHasNoTaker
  StrongIsCutLast
CHECK_DEADLOCK FALSE
