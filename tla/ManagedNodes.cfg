SPECIFICATION FairSpec
CONSTANTS
  r1 = r1
  r2 = r2
  NoResource = NoResource
  Resources <- MCResources
  MaxRestarts = 1
  Environments <- MCEnvironments
INVARIANTS
  TypeOK
  OneVM
  GoneInOrder
  CreatedIsTrue
PROPERTIES
  Settles
CHECK_DEADLOCK FALSE
