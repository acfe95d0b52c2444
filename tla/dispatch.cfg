SPECIFICATION FairSpec
CONSTANTS
  k1 = k1
  k2 = k2
  s1 = s1
  d1 = d1
  d2 = d2
  u1 = u1
  u2 = u2
  Keys = {k1}
  NoKey = NoKey
  Scopes = {s1}
  KeyStage <- OneKeyStage
  KeyAction <- ProbeAction
  KeyScope <- OneKeyScope
  MaxAgents = 2
  ApprovalTTL = 1
  Never = Never
  Users = {u1}
  Commands = {"once", "cancel"}
  MaxRev = 0
  Drivers = {d1, d2}
  MaxTime = 1
CHECK_DEADLOCK FALSE
INVARIANT TypeOK
PROPERTIES
  LedgerSpec
  EveryCallEnds
