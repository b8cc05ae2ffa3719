SPECIFICATION FairSpec
CONSTANTS
  Pods = {"web", "db", "orphan", "ds"}
  Kind <- MCKind
  MaxWrites = 1
  MaxMinutes = 2
  Environments <- MCEnvironments
INVARIANTS
  DrainedIsGone
  GivesUpInTime
PROPERTIES
  NoLostUpdate
  CallsReturn
CHECK_DEADLOCK FALSE
