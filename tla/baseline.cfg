SPECIFICATION Spec
CONSTANTS
  s = s
  c1 = c1
  c2 = c2
  Procs = {s, c1, c2}
  Sessions = {s}
INVARIANT Readable
INVARIANT CompleteIsGone
PROPERTY VerdictStays
PROPERTY LedgerSpec
SYMMETRY Symmetry
CHECK_DEADLOCK FALSE
