SPECIFICATION Spec
CONSTANTS
  c1 = c1
  c2 = c2
  c3 = c3
  Callers = {c1, c2, c3}
  NoCaller = NoCaller
  Objects = {1, 2, 3, 4}
  MinNodeSize = 0
  MaxNodeSize = 2
  MaxCreatedNodePerCycle = 1
  FrontEnd = "grpc"
  Requests = {"increase", "decrease", "delete", "cleanup", "overlap"}
  Faults = {"launch"}
SYMMETRY CallerSymmetry
INVARIANTS
  AutoscaledBound
  WaitGroupNotReused
CHECK_DEADLOCK FALSE
