SPECIFICATION Spec
CONSTANTS
  r1 = r1
  r2 = r2
  NoResource = NoResource
  Resources <- MCResources
  MaxRestarts = 1
  Environments <- MCHasty
INVARIANT
  GoneWithResource
CHECK_DEADLOCK FALSE
