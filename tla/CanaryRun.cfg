SPECIFICATION Spec
CONSTANTS
  UserOrder <- MCUserOrder
  DocOrder <- MCDocOrder
  Groups <- MCGroups
  Collection <- MCCollection
  Marks <- MCMarks
  Seeded = {"d1", "d2", "d3"}
  DefaultTotal = 20
  Policies <- MCPolicies
  Options <- MCOptions
  Responses <- MCResponses
INVARIANTS
  LeakBlocksRelease
  ReleaseNeedsBothWays
  DeniedIsNeverAllowed
  BoundariesAgree
CHECK_DEADLOCK FALSE
