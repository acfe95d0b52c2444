CONSTANTS
  a = a  b = b  s1 = s1  s2 = s2  s3 = s3  o = o  x = x  y = y
  Agents = {a, b}
  Runs = {s1, s2, s3, o, x, y}
  Slots = {s1, s2, s3}
  Plans <- MCPlans
  Limits <- MCLimits
  Envelope <- MCEnvelope
  Usage = {0, 4}
  MaxSeconds = 1
  Results = {"not_run"}
  Clients = {c1, c2}
  Asked = {2}
  MaxCrashes = 1
SPECIFICATION Spec
SYMMETRY Symmetric
CHECK_DEADLOCK FALSE
INVARIANTS TypeOK SpendingIsCovered OneOwner
PROPERTY TokenLedgerSpec
