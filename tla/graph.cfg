CONSTANTS
  Nodes = {1, 2}
  Plans <- MCPlans
  Drivers = {d1, d2}
  First = d1
  Cancellers = {c1}
  Recoverers = {c1}
  MaxGen = 2
SPECIFICATION Spec
CHECK_DEADLOCK FALSE
INVARIANTS TypeOK OneDriverWorks JoinedFromAll EndedRunIsClean WaitingCanResume OneVerifier
PROPERTY TaskGraphSpec
