SPECIFICATION Spec
CONSTANTS
  k1 = k1
  k2 = k2
  s1 = s1
  d1 = d1
  d2 = d2
  u1 = u1
  u2 = u2
  Keys = {k1}
  NoKey = NoKey
  Scopes = {s1}
  KeyStage <- OneKeyStage
  KeyAction <- CommandAction
  KeyScope <- OneKeyScope
  MaxAgents = 1
  ApprovalTTL = 1
  Never = Never
  Users = {u1, u2}
  Commands = {"always", "revoke_rule", "reset", "configure", "edit",
              "deny", "cancel"}
  MaxRev = 3
  Drivers = {d1}
  MaxTime = 1
CHECK_DEADLOCK FALSE
INVARIANT EveryQuestionIsAsked
PROPERTY NoPolicyUpdateIsLost
