SPECIFICATION Spec
CONSTANTS
  AdminAccess = "admin_access"
  VpnAccess = "vpn_access"
  Inputs <- MCInputs
  MaxRecords = 3
  MaxFollowed = 2
INVARIANTS
  NullRouteHitsOneService
  DegradeSparesCritical
  PassLeavesNothingOpen
  MatchedMeansTakenBack
CHECK_DEADLOCK FALSE
