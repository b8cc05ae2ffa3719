SPECIFICATION FairSpec
CONSTANTS
  AutoNames = {1, 2}
  ManagedNames = {3}
  MaxNodeSize = 3
  AddressSpace = 16
  Interfaces <- MCInterfaces
  Networking <- MCNetworking
  MaxCrashes = 2
  MaxConnects = 2
  Environments <- MCEnvironments
INVARIANTS
  TypeOK
  DropsOnlyUnlisted
  DiscoveryFinds
  AddressesDistinct
  NoPanic
PROPERTIES
  StartsAgain
CHECK_DEADLOCK FALSE
