CONSTANTS
  Nil = Nil
  c1 = c1
  c2 = c2
  Callers = {c1, c2}
  MaxVMs = 2
  Environments <- EnvironmentsAll

SPECIFICATION Spec

SYMMETRY Symmetry

INVARIANTS
  LaunchFailureCleaned
  OneVMPerName
  DeletedLeavesNothing

CHECK_DEADLOCK FALSE
