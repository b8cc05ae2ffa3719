SPECIFICATION Spec
CONSTANTS
  c1 = c1
  c2 = c2
  c3 = c3
  Callers = {c1, c2}
  NoCaller = NoCaller
  Objects = {1, 2, 3}
  MinNodeSize = 0
  MaxNodeSize = 2
  MaxCreatedNodePerCycle = 0
  FrontEnd = "externalgrpc"
  Requests = {"increase", "decrease", "cleanup"}
  Faults = {"create", "launch"}
SYMMETRY CallerSymmetry
INVARIANTS
  WaitGroupBalanced
  NoLaunchOnceDeleted
CHECK_DEADLOCK FALSE
