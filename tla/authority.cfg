SPECIFICATION Spec
CONSTANTS
  k1 = k1
  k2 = k2
  s1 = s1
  d1 = d1
  d2 = d2
  u1 = u1
  u2 = u2
  Keys = {k1, k2}
  NoKey = NoKey
  Scopes = {s1}
  KeyStage <- TwoKeyStage
  KeyAction <- TwoKeyAction
  KeyScope <- TwoKeyScope
  MaxAgents = 1
  ApprovalTTL = 1
  Never = Never
  Users = {u1}
  Commands = {"once", "run", "always", "revoke_grant", "revoke_rule", "recover"}
  MaxRev = 2
  Drivers = {d1}
  MaxTime = 2
CHECK_DEADLOCK FALSE
INVARIANTS
  OneUseIsOneReservation
  AuthorizedDispatch
PROPERTIES
  RevokedGrantReservesNothing
