SPECIFICATION Spec
CONSTANTS
  deployer = deployer
  other = other
  pilot = pilot
  NoOne = NoOne
  N = 3
  Keys <- MCKeys
  Owners <- MCOwners
  Admin = deployer
  FirstOwner = pilot
  MaxAtOnce = 2
INVARIANTS
  OneCapPerOracle
  RecordedCapIsLive
  RecordedOwnersAreReal
CHECK_DEADLOCK FALSE
