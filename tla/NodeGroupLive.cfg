SPECIFICATION FairSpec
CONSTANTS
  c1 = c1
  c2 = c2
  c3 = c3
  Callers = {c1, c2}
  NoCaller = NoCaller
  Objects = {1, 2}
  MinNodeSize = 0
  MaxNodeSize = 2
  MaxCreatedNodePerCycle = 1
  FrontEnd = "grpc"
  Requests = {"increase", "decrease", "managed", "cleanup"}
  Faults = {}
PROPERTIES
  CallsReturn
CHECK_DEADLOCK FALSE
