SPECIFICATION Spec
CONSTANTS
  c1 = c1
  c2 = c2
  c3 = c3
  Callers = {c1, c2, c3}
  NoCaller = NoCaller
  Objects = {1, 2, 3}
  MinNodeSize = 0
  MaxNodeSize = 2
  MaxCreatedNodePerCycle = 2
  FrontEnd = "externalgrpc"
  Requests = {"increase", "delete", "cleanup", "refresh"}
  Faults = {"launch"}
SYMMETRY CallerSymmetry
INVARIANTS
  TypeOK
  GroupInv
  NameLoopFinds
  NoVMLost
  DistinctIndexes
  CleanupLeavesNothing
  QuiescentConsistent
CHECK_DEADLOCK FALSE
