SPECIFICATION CaptureSpec
CONSTANTS
  SensitiveNames = {"number"}
  ScreenEvents <- MCScreenEvents
  ActionEvents <- MCActionEvents
  ChangedScreens <- MCChangedScreens
  OldTrace <- MCOldTrace
  Maps <- MCMaps
  OptionSets <- MCOptionSets
  MaxEvents = 5
  MaxFollowed = 3
INVARIANTS
  ContractIsOfAWholeSession
  OwnReplayFailsOnlyFor
  CompatibleReplays
  PackageKeepsReplay
CHECK_DEADLOCK FALSE
