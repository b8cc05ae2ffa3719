SPECIFICATION Spec
CONSTANTS
  Callers = {n1, n2, n3}
  Environments <- MCEnvironments
INVARIANTS
  TypeOK
  DeletedIsGone
  FailedLaunchLeavesNoVM
  CanBeDeleted
PROPERTIES
  DrainedBeforePowerOff
  ImplementsLife
CHECK_DEADLOCK FALSE
