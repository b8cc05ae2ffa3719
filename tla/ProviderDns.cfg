CONSTANTS
  Nil = Nil
  c1 = c1
  c2 = c2
  Callers = {c1, c2}
  MaxVMs = 2
  Environments <- EnvironmentsAws

SPECIFICATION Spec

SYMMETRY Symmetry

INVARIANTS
  NoPanic

CHECK_DEADLOCK FALSE
