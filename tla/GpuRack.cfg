SPECIFICATION Spec
CONSTANTS
  Absent = Absent
  Unreadable = Unreadable
  None = None
  NoInventory = NoInventory
  NoFile = NoFile
  Nodes <- MCNodes
  Racks <- MCRacks
  Evidence <- MCEvidence
  Recollected <- MCRecollected
  RunsOn <- MCRunsOn
  Spare <- MCSpare
INVARIANTS
  MultinodeIsEarned
  LossNeverReleases
  FilesAgree
  UntouchedIsVouchedFor
CHECK_DEADLOCK FALSE
