SPECIFICATION LintSpec
CONSTANTS
  None = None
  NoSystem = NoSystem
  ShortName <- MCShortName
  SrvKind <- MCSrvKind
  HostKind <- MCHostKind
  WeakNames = {"db2.c"}
  InternalNames = {"_ldap.c", "sql1.c", "db2.c", "files.c", "share.c"}
  PrivateIps = {"10.1", "10.2", "10.3", "10.9"}
  Rank <- MCRank
  Dotted <- MCDotted
  MinQueryCount = 2
  MinClients = 2
  RepeatedCount = 2
  Inputs <- MCInputs
  MaxRows = 3
  MaxVaried = 2
INVARIANTS
  StatusesAgree
  PassIsBorneOut
  ComparisonAgrees
CHECK_DEADLOCK FALSE
