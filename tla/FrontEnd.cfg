SPECIFICATION Spec
CONSTANTS
  Nil = Nil
  Callers = {c1, c2}
  GroupIds = {"a", "b"}
  Nodes = {"a1", "a2", "a3"}
  Owner <- MCOwner
  MaxNodeSize = 2
  Leading = {"a1"}
  Configurations <- MCConfigurations
SYMMETRY CallerSymmetry
INVARIANTS
  TypeOK
  InstancesCounted
  GroupsUsable
  NoVMForgotten
CHECK_DEADLOCK FALSE
