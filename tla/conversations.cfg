CONSTANTS
  MaxTurns = 2
  Keys = {k1, k2}
  Procs = {p, q, r}
  Commanded = {1}
  MaxClaims = 2
  MaxRevision = 3
  Shapes <- MCShapes
SPECIFICATION Spec
SYMMETRY Symmetric
CHECK_DEADLOCK FALSE
INVARIANTS TypeOK OneOwner SettledIsOver
PROPERTY ReviewedOwnerOnly
