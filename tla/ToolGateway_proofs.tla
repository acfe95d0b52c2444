------------------------- MODULE ToolGateway_proofs -------------------------
(***************************************************************************)
(* Proofs about ToolGateway, for any number of drivers, keys and users:    *)
(* types; dispatch at most once and never after the end of the run; the    *)
(* ledger it implements; a policy file no stale command takes back;        *)
(* authorization of what is dispatched, from what each call knows at each  *)
(* of its steps; and, with one driver, that every question is asked.       *)
(***************************************************************************)
EXTENDS ToolGateway, FiniteSetTheorems, TLAPS

\* Taking a use that is there leaves a grant.
LEMMA UseTakenType ==
  ASSUME grants \in [Keys -> Grant], NEW g \in Keys \cup {NoKey}, HasUse(g)
  PROVE  UseTaken(g) \in [Keys -> Grant]
<1>1. CASE g \notin Keys
  BY <1>1 DEF UseTaken
<1>2. CASE g \in Keys
  <2>1. grants[g].uses \in {1, Never}
    BY <1>2 DEF HasUse, Grant
  <2>2. (IF grants[g].uses = Never THEN Never ELSE grants[g].uses - 1)
          \in {0, 1, Never}
    BY <2>1
  <2> QED
    BY <1>2, <2>2 DEF UseTaken, Grant
<1> QED
  BY <1>1, <1>2

\* Every operation of the store preserves the types, whatever its caller.
LEMMA StoreOpTypes ==
  ASSUME StoreTypeOK
  PROVE  /\ \A row0 \in RunRow : SaveRun(row0) => StoreTypeOK'
         /\ \A a \in AgentIds \cup {NoAgent}, s \in AgentStatus :
              SaveAgent(a, s) => StoreTypeOK'
         /\ \A k \in Keys :
              /\ \A a \in AgentIds \cup {NoAgent} :
                   /\ ReserveIntent(k, a) => StoreTypeOK'
                   /\ CreateApprovalAndPause(k, a) => StoreTypeOK'
                   /\ \A g \in Keys \cup {NoKey} :
                        /\ ConsumeMatchingGrantAndReserve(g, k, a) => StoreTypeOK'
                        /\ ReserveTrustRuleIntent(g, k, a) => StoreTypeOK'
              /\ ConsumeGrantAndReserve(k) => StoreTypeOK'
              /\ ClaimForDispatch(k) => StoreTypeOK'
              /\ CompleteIntent(k) => StoreTypeOK'
              /\ DenyIntent(k) => StoreTypeOK'
              /\ ResolveDenied(k) => StoreTypeOK'
              /\ RevokeGrant(k) => StoreTypeOK'
         /\ \A g \in Keys \cup {NoKey}, choice \in Choices \cup {"none"} :
              ResolveApproved(g, choice) => StoreTypeOK'
         /\ UNCHANGED storeVars => StoreTypeOK'
<1> USE DEF StoreTypeOK
<1>1. ASSUME NEW row0 \in RunRow, SaveRun(row0)
      PROVE  StoreTypeOK'
  BY <1>1 DEF SaveRun
<1>2. ASSUME NEW a \in AgentIds \cup {NoAgent}, NEW s \in AgentStatus,
             SaveAgent(a, s)
      PROVE  StoreTypeOK'
  BY <1>2 DEF SaveAgent
<1>3. ASSUME NEW k \in Keys, NEW a \in AgentIds \cup {NoAgent},
             ReserveIntent(k, a)
      PROVE  StoreTypeOK'
  BY <1>3 DEF ReserveIntent, NewIntent, Intent, IntentStatus
<1>4. ASSUME NEW k \in Keys, NEW a \in AgentIds \cup {NoAgent},
             CreateApprovalAndPause(k, a)
      PROVE  StoreTypeOK'
  <2>1. CASE ~Absent(k)
    BY <1>4, <2>1 DEF CreateApprovalAndPause, storeVars
  <2>2. CASE Absent(k)
    <3>1. NewIntent("pending_approval", a, k, NoKey) \in Intent
      BY DEF NewIntent, Intent, IntentStatus
    <3>2. intents' \in [Keys -> Intent]
      BY <1>4, <2>2, <3>1 DEF CreateApprovalAndPause
    <3>3. [status |-> "pending", choice |-> "none",
           expires |-> clock + ApprovalTTL] \in Request
      BY KeysAssumption DEF Request
    <3>4. requests' \in [Keys -> Request]
      BY <1>4, <2>2, <3>3 DEF CreateApprovalAndPause
    <3>5. run' \in RunRow
      BY <1>4, <2>2 DEF CreateApprovalAndPause, RunRow, RunStatus
    <3> QED
      BY <1>4, <2>2, <3>2, <3>4, <3>5 DEF CreateApprovalAndPause
  <2> QED
    BY <2>1, <2>2
<1>5. ASSUME NEW k \in Keys, ConsumeGrantAndReserve(k)
      PROVE  StoreTypeOK'
  <2>1. CASE intents[k].status = "pending_approval"
    <3>1. grants' \in [Keys -> Grant]
      BY <1>5, <2>1, UseTakenType DEF ConsumeGrantAndReserve, CanConsume
    <3>2. intents' \in [Keys -> Intent]
      BY <1>5, <2>1 DEF ConsumeGrantAndReserve, Intent, IntentStatus
    <3> QED
      BY <1>5, <3>1, <3>2 DEF ConsumeGrantAndReserve
  <2>2. CASE intents[k].status # "pending_approval"
    BY <1>5, <2>2 DEF ConsumeGrantAndReserve
  <2> QED
    BY <2>1, <2>2
<1>6. ASSUME NEW g \in Keys \cup {NoKey}, NEW k \in Keys,
             NEW a \in AgentIds \cup {NoAgent},
             ConsumeMatchingGrantAndReserve(g, k, a)
      PROVE  StoreTypeOK'
  <2>1. grants' \in [Keys -> Grant]
    BY <1>6, UseTakenType DEF ConsumeMatchingGrantAndReserve, CanConsumeMatching
  <2>2. NewIntent("reserved", a, g, NoKey) \in Intent
    BY DEF NewIntent, Intent, IntentStatus
  <2>3. intents' \in [Keys -> Intent]
    BY <1>6, <2>2 DEF ConsumeMatchingGrantAndReserve
  <2> QED
    BY <1>6, <2>1, <2>3 DEF ConsumeMatchingGrantAndReserve
<1>7. ASSUME NEW g \in Keys \cup {NoKey}, NEW k \in Keys,
             NEW a \in AgentIds \cup {NoAgent},
             ReserveTrustRuleIntent(g, k, a)
      PROVE  StoreTypeOK'
  BY <1>7 DEF ReserveTrustRuleIntent, NewIntent, Intent, IntentStatus
<1>8. ASSUME NEW k \in Keys, ClaimForDispatch(k)
      PROVE  StoreTypeOK'
  BY <1>8 DEF ClaimForDispatch
<1>9. ASSUME NEW k \in Keys, CompleteIntent(k)
      PROVE  StoreTypeOK'
  BY <1>9 DEF CompleteIntent, Intent, IntentStatus
<1>10. ASSUME NEW k \in Keys, DenyIntent(k)
       PROVE  StoreTypeOK'
  BY <1>10 DEF DenyIntent, Intent, IntentStatus
<1>11. ASSUME NEW g \in Keys \cup {NoKey}, NEW choice \in Choices \cup {"none"},
             ResolveApproved(g, choice)
       PROVE  StoreTypeOK'
  <2>1. requests' \in [Keys -> Request]
    BY <1>11 DEF ResolveApproved, Request, Choices
  <2>2. g \in Keys => requests[g].expires \in Nat
    BY DEF Request
  <2>3. g \in Keys => Earlier(requests[g].expires, clock + ApprovalTTL) \in Nat
    BY <2>2, KeysAssumption DEF Earlier
  <2>4. grants' \in [Keys -> Grant]
    BY <1>11, <2>3, KeysAssumption DEF ResolveApproved, Grant, Choices
  <2> QED
    BY <1>11, <2>1, <2>4 DEF ResolveApproved
<1>12. ASSUME NEW k \in Keys, ResolveDenied(k)
       PROVE  StoreTypeOK'
  <2>1. requests' \in [Keys -> Request]
    BY <1>12 DEF ResolveDenied, Request
  <2>2. intents' \in [Keys -> Intent]
    BY <1>12 DEF ResolveDenied, Intent, IntentStatus
  <2> QED
    BY <1>12, <2>1, <2>2 DEF ResolveDenied
<1>13. ASSUME NEW k \in Keys, RevokeGrant(k)
       PROVE  StoreTypeOK'
  BY <1>13 DEF RevokeGrant, Grant
<1>14. ASSUME UNCHANGED storeVars
       PROVE  StoreTypeOK'
  BY <1>14 DEF storeVars
<1> HIDE DEF StoreTypeOK
<1>15. \A a \in AgentIds \cup {NoAgent}, s \in AgentStatus :
         SaveAgent(a, s) => StoreTypeOK'
  BY <1>2
<1>16. ASSUME NEW k \in Keys
       PROVE  /\ \A a \in AgentIds \cup {NoAgent} :
                   /\ ReserveIntent(k, a) => StoreTypeOK'
                   /\ CreateApprovalAndPause(k, a) => StoreTypeOK'
                   /\ \A g \in Keys \cup {NoKey} :
                        /\ ConsumeMatchingGrantAndReserve(g, k, a) => StoreTypeOK'
                        /\ ReserveTrustRuleIntent(g, k, a) => StoreTypeOK'
              /\ ConsumeGrantAndReserve(k) => StoreTypeOK'
              /\ ClaimForDispatch(k) => StoreTypeOK'
              /\ CompleteIntent(k) => StoreTypeOK'
              /\ DenyIntent(k) => StoreTypeOK'
              /\ ResolveDenied(k) => StoreTypeOK'
              /\ RevokeGrant(k) => StoreTypeOK'
  <2>1. ASSUME NEW a \in AgentIds \cup {NoAgent}
        PROVE  /\ ReserveIntent(k, a) => StoreTypeOK'
               /\ CreateApprovalAndPause(k, a) => StoreTypeOK'
               /\ \A g \in Keys \cup {NoKey} :
                    /\ ConsumeMatchingGrantAndReserve(g, k, a) => StoreTypeOK'
                    /\ ReserveTrustRuleIntent(g, k, a) => StoreTypeOK'
    BY <1>3, <1>4, <1>6, <1>7
  <2> QED
    BY <2>1, <1>5, <1>8, <1>9, <1>10, <1>12, <1>13
<1>17. \A g \in Keys \cup {NoKey}, choice \in Choices \cup {"none"} :
         ResolveApproved(g, choice) => StoreTypeOK'
  BY <1>11
<1> QED
  BY <1>1, <1>14, <1>15, <1>16, <1>17

-----------------------------------------------------------------------------
(* The user's processes.                                                   *)

UserState == [op : UserOps, key : Keys \cup {NoKey},
              choice : Choices \cup {"none"}, base : Policy,
              cutoff : Nat, todo : SUBSET Keys, lifted : SUBSET Scopes]

LEMMA IdleUserType == InitialPolicy \in Policy /\ IdleUser \in UserState
<1>1. InitialPolicy \in Policy
  BY DEF InitialPolicy, Policy, RuleStatus, NoCutoff
<1>2. IdleUser \in UserState
  BY <1>1 DEF IdleUser, UserState, UserOps, NoCutoff
<1> QED
  BY <1>1, <1>2

\* A publication writes the policy it is given, or nothing.
LEMMA PublishTypes ==
  ASSUME PolicyTypeOK, NEW u \in Users, NEW policy \in Policy,
         NEW next \in UserState, Publish(u, policy, next)
  PROVE  PolicyTypeOK'
<1>1. CASE trust.rev = user[u].base.rev
  <2>1. trust' = [policy EXCEPT !.rev = trust.rev + 1]
    BY <1>1 DEF Publish
  <2>2. trust' \in Policy
    <3>1. trust.rev + 1 \in Nat
      BY DEF PolicyTypeOK, Policy
    <3> QED
      BY <2>1, <3>1 DEF Policy
  <2>3. user' \in [Users -> UserState]
    BY <1>1 DEF Publish, Goto, PolicyTypeOK, UserState
  <2> QED
    BY <2>2, <2>3 DEF PolicyTypeOK, UserState
<1>2. CASE trust.rev # user[u].base.rev
  BY <1>2, IdleUserType DEF Publish, Goto, PolicyTypeOK, UserState
<1> QED
  BY <1>1, <1>2

\* Steps that move the user's process and publish nothing.
LEMMA GotoTypes ==
  ASSUME PolicyTypeOK, NEW u \in Users, NEW state \in UserState,
         Goto(u, state), UNCHANGED trust
  PROVE  PolicyTypeOK'
BY DEF PolicyTypeOK, Goto, UserState

LEMMA PolicyTypes ==
  ASSUME StoreTypeOK, PolicyTypeOK, PolicyNext
  PROVE  StoreTypeOK' /\ PolicyTypeOK'
<1>0. /\ \A u \in Users : user[u] \in UserState
      /\ trust \in Policy
      /\ IdleUser \in UserState /\ InitialPolicy \in Policy
  BY IdleUserType DEF PolicyTypeOK, UserState
<1>1. ASSUME NEW u \in Users, NEW k \in Keys, NEW choice \in Choices,
             ApproveBegin(u, k, choice)
      PROVE  StoreTypeOK' /\ PolicyTypeOK'
  <2>1. [IdleUser EXCEPT !.key = k, !.choice = choice,
           !.op = IF choice = "always" THEN "stage_load" ELSE "resolving"]
          \in UserState
    BY <1>0 DEF UserState, UserOps
  <2> QED
    BY <1>1, <2>1, GotoTypes DEF ApproveBegin, storeVars, StoreTypeOK
<1>2. ASSUME NEW u \in Users, StageLoad(u)
      PROVE  StoreTypeOK' /\ PolicyTypeOK'
  <2>1. /\ [user[u] EXCEPT !.op = "resolving"] \in UserState
        /\ [user[u] EXCEPT !.op = "stage_publish", !.base = trust] \in UserState
    BY <1>0 DEF UserState, UserOps
  <2> QED
    BY <1>0, <1>2, <2>1, GotoTypes DEF StageLoad, storeVars, StoreTypeOK
<1>3. ASSUME NEW u \in Users, StagePublish(u)
      PROVE  StoreTypeOK' /\ PolicyTypeOK'
  <2>1. [user[u].base EXCEPT !.rules[user[u].key] = "active"] \in Policy
    BY <1>0 DEF UserState, Policy, RuleStatus
  <2>2. [user[u] EXCEPT !.op = "resolving", !.base = InitialPolicy] \in UserState
    BY <1>0 DEF UserState, UserOps
  <2> QED
    BY <1>3, <2>1, <2>2, PublishTypes DEF StagePublish, storeVars, StoreTypeOK
<1>4. ASSUME NEW u \in Users, ApproveResolve(u)
      PROVE  StoreTypeOK' /\ PolicyTypeOK'
  <2>1. PolicyTypeOK'
    BY <1>0, <1>4, GotoTypes DEF ApproveResolve
  <2>2. StoreTypeOK'
    BY <1>0, <1>4, StoreOpTypes DEF ApproveResolve, UserState, storeVars, StoreTypeOK
  <2> QED
    BY <2>1, <2>2
<1>5. ASSUME NEW u \in Users, NEW k \in Keys,
             \/ DenyRequest(u, k)
             \/ UserRevokesGrant(u, k)
      PROVE  StoreTypeOK' /\ PolicyTypeOK'
  BY <1>5, StoreOpTypes DEF DenyRequest, UserRevokesGrant, policyVars, PolicyTypeOK
<1>6. ASSUME NEW u \in Users,
             \/ \E r \in Keys : RevokeRuleLoad(u, r)
             \/ \E s \in Scopes : RevokeDenyLoad(u, s)
      PROVE  StoreTypeOK' /\ PolicyTypeOK'
  <2>1. /\ \A r \in Keys :
             [IdleUser EXCEPT !.op = "rule_publish", !.key = r, !.base = trust]
               \in UserState
        /\ \A s \in Scopes :
             [IdleUser EXCEPT !.op = "rule_publish", !.lifted = {s}, !.base = trust]
               \in UserState
    BY <1>0 DEF UserState, UserOps
  <2>2. CASE \E r \in Keys : RevokeRuleLoad(u, r)
    BY <2>1, <2>2, GotoTypes DEF RevokeRuleLoad, storeVars, StoreTypeOK
  <2>3. CASE \E s \in Scopes : RevokeDenyLoad(u, s)
    BY <2>1, <2>3, GotoTypes DEF RevokeDenyLoad, storeVars, StoreTypeOK
  <2> QED
    BY <1>6, <2>2, <2>3
<1>7. ASSUME NEW u \in Users, RevokeRulePublish(u)
      PROVE  StoreTypeOK' /\ PolicyTypeOK'
  <2> DEFINE policy == [user[u].base EXCEPT
                   !.rules = [k \in Keys |-> IF k = user[u].key THEN "revoked"
                                             ELSE @[k]],
                   !.denied = @ \ user[u].lifted]
  <2>1. policy \in Policy
    <3>1. user[u].base \in Policy
      BY <1>0 DEF UserState
    <3>2. /\ [k \in Keys |-> IF k = user[u].key THEN "revoked"
                             ELSE user[u].base.rules[k]] \in [Keys -> RuleStatus]
          /\ user[u].base.denied \ user[u].lifted \in SUBSET Scopes
      BY <3>1 DEF Policy, RuleStatus
    <3> QED
      BY <3>1, <3>2 DEF Policy
  <2>2. Publish(u, policy, IdleUser)
    BY <1>7 DEF RevokeRulePublish
  <2> HIDE DEF policy
  <2> QED
    BY <1>0, <1>7, <2>1, <2>2, PublishTypes DEF RevokeRulePublish, storeVars, StoreTypeOK
<1>8. ASSUME NEW u \in Users, ResetLoad(u)
      PROVE  StoreTypeOK' /\ PolicyTypeOK'
  <2>1. ResetTimes \subseteq Nat
    BY <1>0 DEF ResetTimes, StoreTypeOK, Grant, Policy
  <2>2. PICK cutoff \in ResetTimes :
          Goto(u, [IdleUser EXCEPT !.op = "reset_publish", !.base = trust,
                     !.cutoff = cutoff,
                     !.todo = {g \in Keys : Issued(g) /\ ~grants[g].revoked}])
    BY <1>8 DEF ResetLoad
  <2>3. [IdleUser EXCEPT !.op = "reset_publish", !.base = trust,
           !.cutoff = cutoff,
           !.todo = {g \in Keys : Issued(g) /\ ~grants[g].revoked}] \in UserState
    BY <1>0, <2>1 DEF UserState, UserOps
  <2> QED
    BY <1>8, <2>2, <2>3, GotoTypes DEF ResetLoad, storeVars, StoreTypeOK
<1>9. ASSUME NEW u \in Users, ResetPublish(u)
      PROVE  StoreTypeOK' /\ PolicyTypeOK'
  <2> DEFINE policy == [user[u].base EXCEPT
                   !.rules = [k \in Keys |-> IF @[k] = "active" THEN "revoked"
                                             ELSE @[k]],
                   !.denied = {}, !.cutoff = user[u].cutoff]
             next == IF user[u].todo = {} THEN IdleUser
                     ELSE [IdleUser EXCEPT !.op = "reset_grants",
                                           !.todo = user[u].todo]
  <2>1. policy \in Policy
    <3>1. user[u].base \in Policy /\ user[u].cutoff \in Nat
      BY <1>0 DEF UserState
    <3>2. [k \in Keys |-> IF user[u].base.rules[k] = "active" THEN "revoked"
                          ELSE user[u].base.rules[k]] \in [Keys -> RuleStatus]
      BY <3>1 DEF Policy, RuleStatus
    <3> QED
      BY <3>1, <3>2 DEF Policy
  <2>2. next \in UserState
    BY <1>0 DEF UserState, UserOps
  <2>3. Publish(u, policy, next)
    BY <1>9 DEF ResetPublish
  <2> HIDE DEF policy, next
  <2> QED
    BY <1>9, <2>1, <2>2, <2>3, PublishTypes DEF ResetPublish, storeVars, StoreTypeOK
<1>10. ASSUME NEW u \in Users, NEW g \in Keys, ResetGrant(u, g)
       PROVE  StoreTypeOK' /\ PolicyTypeOK'
  <2>1. [user[u] EXCEPT !.todo = @ \ {g}] \in UserState
    BY <1>0 DEF UserState
  <2>2. PolicyTypeOK'
    BY <1>0, <1>10, <2>1, GotoTypes DEF ResetGrant
  <2> QED
    BY <1>10, <2>2, StoreOpTypes DEF ResetGrant
<1>11. ASSUME NEW u \in Users, ConfigureLoad(u)
       PROVE  StoreTypeOK' /\ PolicyTypeOK'
  <2>1. [IdleUser EXCEPT !.op = "configure", !.base = trust] \in UserState
    BY <1>0 DEF UserState, UserOps
  <2> QED
    BY <1>11, <2>1, GotoTypes DEF ConfigureLoad, storeVars, StoreTypeOK
<1>12. ASSUME NEW u \in Users, ConfigurePublish(u)
       PROVE  StoreTypeOK' /\ PolicyTypeOK'
  <2>1. [user[u].base EXCEPT !.mode = IF @ = "safe" THEN "balanced" ELSE "safe"]
          \in Policy
    BY <1>0 DEF UserState, Policy
  <2> QED
    BY <1>0, <1>12, <2>1, PublishTypes DEF ConfigurePublish, storeVars, StoreTypeOK
<1>13. ASSUME NEW u \in Users, UserCrash(u)
       PROVE  StoreTypeOK' /\ PolicyTypeOK'
  BY <1>0, <1>13, GotoTypes DEF UserCrash, storeVars, StoreTypeOK
<1>14. ASSUME NEW s \in Scopes, WriteDenyRule(s)
       PROVE  StoreTypeOK' /\ PolicyTypeOK'
  <2>1. trust.rev + 1 \in Nat /\ trust.denied \cup {s} \in SUBSET Scopes
    BY <1>0 DEF Policy
  <2>2. trust' = [trust EXCEPT !.denied = trust.denied \cup {s},
                               !.rev = trust.rev + 1]
    BY <1>14 DEF WriteDenyRule
  <2>3. trust' \in Policy
    BY <1>0, <2>1, <2>2 DEF Policy
  <2> QED
    BY <1>14, <2>3 DEF WriteDenyRule, PolicyTypeOK, storeVars, StoreTypeOK
<1> QED
  BY <1>1, <1>2, <1>3, <1>4, <1>5, <1>6, <1>7, <1>8, <1>9, <1>10, <1>11,
     <1>12, <1>13, <1>14 DEF PolicyNext

-----------------------------------------------------------------------------
(* The drivers.                                                            *)

CallState == [key : Keys \cup {NoKey}, found : IntentStatus, own : BOOLEAN,
              policy : Policy,
              decision : [kind : DecisionKinds, by : Keys \cup {NoKey}]]

CallTypeOK ==
  /\ pc \in [Drivers -> DriverPC \cup GatewayPC]
  /\ call \in [Drivers -> CallState]
  /\ \A d \in Drivers : pc[d] \in GatewayPC => call[d].key \in Keys

RunnerTypeOK ==
  /\ row \in [Drivers -> RunRow]
  /\ agent \in [Drivers -> [id : AgentIds \cup {NoAgent}, stage : AgentStages]]
  /\ minted \in 0..MaxAgents

LEMMA DriverTypeParts ==
  DriverTypeOK <=> CallTypeOK /\ RunnerTypeOK /\ effects \in [Keys -> Nat]
BY DEF DriverTypeOK, CallTypeOK, RunnerTypeOK, CallState

LEMMA IdleCallType == IdleCall \in CallState
BY IdleUserType DEF IdleCall, CallState, Decision, DecisionKinds, NoCutoff, IntentStatus

\* The three ways a step moves a driver.
LEMMA EndCallTypes ==
  ASSUME CallTypeOK, NEW d \in Drivers, NEW label \in DriverPC, EndCall(d, label)
  PROVE  CallTypeOK'
<1>1. label \notin GatewayPC
  BY DEF DriverPC, GatewayPC
<1> QED
  BY <1>1, IdleCallType DEF CallTypeOK, EndCall, To

LEMMA OnwardTypes ==
  ASSUME CallTypeOK, NEW d \in Drivers, NEW label \in DriverPC \cup GatewayPC,
         label \in GatewayPC => pc[d] \in GatewayPC, Onward(d, label)
  PROVE  CallTypeOK'
BY DEF CallTypeOK, Onward, To

LEMMA MoveTypes ==
  ASSUME CallTypeOK, NEW d \in Drivers, NEW label \in GatewayPC,
         NEW c \in CallState, c.key \in Keys,
         To(d, label), call' = [call EXCEPT ![d] = c]
  PROVE  CallTypeOK'
BY DEF CallTypeOK, To

\* A decision of the broker is one of the five kinds, by a key or by none.
LEMMA EvaluationType ==
  ASSUME NEW p, NEW k, NEW own, NEW e \in Evaluations(p, k, own)
  PROVE  e \in [kind : DecisionKinds, by : Keys \cup {NoKey}]
BY DEF Evaluations, Decision, DecisionKinds

\* A call that does not fail at its decision goes on inside the gateway.
LEMMA RouteType ==
  ASSUME NEW d, NEW e, Route(d, e) # "failed"
  PROVE  Route(d, e) \in GatewayPC
BY DEF Route, GatewayPC

\* Most steps of a call change the store and the call only.
LEMMA CallStepTypes ==
  ASSUME TypeOK, StoreTypeOK', CallTypeOK',
         UNCHANGED <<policyVars, runnerVars, effects>>
  PROVE  TypeOK'
<1>1. PolicyTypeOK'
  BY DEF TypeOK, PolicyTypeOK, policyVars
<1>2. RunnerTypeOK' /\ effects' \in [Keys -> Nat]
  BY DriverTypeParts DEF TypeOK, RunnerTypeOK, runnerVars
<1>3. DriverTypeOK'
  BY <1>2, DriverTypeParts DEF DriverTypeOK, CallTypeOK, RunnerTypeOK, CallState
<1> QED
  BY <1>1, <1>3 DEF TypeOK

\* A step that reserves sets own and goes on to label.
LEMMA ReservedTypes ==
  ASSUME CallTypeOK, NEW d \in Drivers, pc[d] \in GatewayPC,
         NEW label \in GatewayPC, NEW own \in BOOLEAN,
         To(d, label), call' = [call EXCEPT ![d].own = own]
  PROVE  CallTypeOK'
<1> DEFINE c == [call[d] EXCEPT !.own = own]
<1>1. c \in CallState /\ c.key \in Keys
  BY DEF CallTypeOK, CallState
<1>2. call' = [call EXCEPT ![d] = c]
  BY DEF CallTypeOK
<1> HIDE DEF c
<1> QED
  BY <1>1, <1>2, MoveTypes

LEMMA ExecuteStepTypes ==
  ASSUME TypeOK, NEW d \in Drivers, ExecuteStep(d)
  PROVE  TypeOK'
<1> DEFINE k == call[d].key
<1>0. /\ StoreTypeOK /\ CallTypeOK /\ agent[d].id \in AgentIds \cup {NoAgent}
      /\ call[d] \in CallState /\ trust \in Policy
      /\ pc[d] \in GatewayPC => k \in Keys
  BY DriverTypeParts DEF TypeOK, CallTypeOK, RunnerTypeOK, PolicyTypeOK
<1>K. \A label \in GatewayPC : At(d, label) => pc[d] \in GatewayPC /\ k \in Keys
  BY <1>0 DEF At
<1>S. UNCHANGED storeVars => StoreTypeOK'
  BY <1>0, StoreOpTypes
<1>1. CASE FindIntent(d)
  <2>1. k \in Keys
    BY <1>1, <1>K DEF FindIntent, GatewayPC
  <2>2. CallTypeOK'
    <3>1. CASE intents[k].status = "executed"
      BY <1>0, <1>1, <3>1, EndCallTypes DEF FindIntent, DriverPC
    <3>2. CASE intents[k].status = "denied"
      BY <1>0, <1>1, <3>2, EndCallTypes DEF FindIntent, DriverPC
    <3>3. CASE intents[k].status \notin {"executed", "denied"}
      <4> DEFINE c == [call[d] EXCEPT !.found = intents[k].status,
                                      !.own = intents[k].status # "none"]
      <4>1. c \in CallState /\ c.key \in Keys
        BY <1>0, <2>1 DEF CallState, StoreTypeOK, Intent
      <4>2. To(d, "load") /\ call' = [call EXCEPT ![d] = c]
        BY <1>0, <1>1, <3>3 DEF FindIntent, CallTypeOK
      <4> HIDE DEF c
      <4> QED
        BY <1>0, <4>1, <4>2, MoveTypes DEF GatewayPC
    <3> QED
      BY <3>1, <3>2, <3>3
  <2> QED
    BY <1>1, <1>S, <2>2, CallStepTypes DEF FindIntent
<1>2. CASE LoadPolicy(d)
  <2>1. k \in Keys
    BY <1>2, <1>K DEF LoadPolicy, GatewayPC
  <2>2. CallTypeOK'
    <3>1. CASE InContext(k)
      <4> DEFINE c == [call[d] EXCEPT !.policy = trust]
      <4>1. c \in CallState /\ c.key \in Keys
        BY <1>0, <2>1 DEF CallState
      <4>2. To(d, "decide") /\ call' = [call EXCEPT ![d] = c]
        BY <1>0, <1>2, <3>1 DEF LoadPolicy, CallTypeOK
      <4> HIDE DEF c
      <4> QED
        BY <1>0, <4>1, <4>2, MoveTypes DEF GatewayPC
    <3>2. CASE ~InContext(k)
      BY <1>0, <1>2, <3>2, EndCallTypes DEF LoadPolicy, DriverPC
    <3> QED
      BY <3>1, <3>2
  <2> QED
    BY <1>2, <1>S, <2>2, CallStepTypes DEF LoadPolicy
<1>3. CASE Decide(d)
  <2>1. k \in Keys
    BY <1>3, <1>K DEF Decide, GatewayPC
  <2>2. PICK e \in Evaluations(call[d].policy, k, call[d].own) :
          IF Route(d, e) = "failed" THEN EndCall(d, "failed")
          ELSE /\ To(d, Route(d, e))
               /\ call' = [call EXCEPT ![d].decision = e,
                                       ![d].policy = InitialPolicy]
    BY <1>3 DEF Decide
  <2>3. CallTypeOK'
    <3>1. CASE Route(d, e) = "failed"
      BY <1>0, <2>2, <3>1, EndCallTypes DEF DriverPC
    <3>2. CASE Route(d, e) # "failed"
      <4> DEFINE c == [call[d] EXCEPT !.decision = e,
                                      !.policy = InitialPolicy]
      <4>1. c \in CallState /\ c.key \in Keys
        BY <1>0, <2>1, EvaluationType, IdleUserType DEF CallState, Policy
      <4>2. To(d, Route(d, e)) /\ call' = [call EXCEPT ![d] = c]
        BY <1>0, <2>2, <3>2 DEF CallTypeOK
      <4> HIDE DEF c
      <4> QED
        BY <1>0, <3>2, <4>1, <4>2, MoveTypes, RouteType
    <3> QED
      BY <3>1, <3>2
  <2> QED
    BY <1>3, <1>S, <2>3, CallStepTypes DEF Decide
<1>4. CASE DenyReserve(d)
  <2>1. StoreTypeOK'
    BY <1>0, <1>4, <1>K, StoreOpTypes DEF DenyReserve, GatewayPC
  <2>2. CallTypeOK'
    BY <1>0, <1>4, ReservedTypes DEF DenyReserve, GatewayPC, At, Absent
  <2> QED
    BY <1>4, <2>1, <2>2, CallStepTypes DEF DenyReserve
<1>5. CASE DenyMark(d)
  <2>1. StoreTypeOK'
    BY <1>0, <1>5, <1>K, <1>S, StoreOpTypes DEF DenyMark, GatewayPC
  <2>2. CallTypeOK'
    BY <1>0, <1>5, EndCallTypes DEF DenyMark, DriverPC
  <2> QED
    BY <1>5, <2>1, <2>2, CallStepTypes DEF DenyMark
<1>6. CASE CheckRequest(d)
  <2>1. CallTypeOK'
    <3>1. \/ \E label \in {"paused", "denied", "failed"} : EndCall(d, label)
          \/ At(d, "check") /\ Onward(d, "consume")
      BY <1>6, Zenon DEF CheckRequest
    <3> QED
      BY <1>0, <3>1, EndCallTypes, OnwardTypes DEF DriverPC, GatewayPC, At
  <2> QED
    BY <1>6, <1>S, <2>1, CallStepTypes DEF CheckRequest
<1>7. CASE ConsumeGrant(d)
  <2>1. StoreTypeOK'
    BY <1>0, <1>7, <1>K, <1>S, StoreOpTypes DEF ConsumeGrant, GatewayPC
  <2>2. CallTypeOK'
    BY <1>0, <1>7, EndCallTypes, OnwardTypes
       DEF ConsumeGrant, DriverPC, GatewayPC, At
  <2> QED
    BY <1>7, <2>1, <2>2, CallStepTypes DEF ConsumeGrant
<1>8. CASE Pause(d)
  <2>1. StoreTypeOK'
    BY <1>0, <1>8, <1>K, <1>S, StoreOpTypes DEF Pause, GatewayPC
  <2>2. CallTypeOK'
    BY <1>0, <1>8, EndCallTypes DEF Pause, DriverPC
  <2> QED
    BY <1>8, <2>1, <2>2, CallStepTypes DEF Pause
<1>9. CASE ConsumeMatching(d)
  <2>0. call[d].decision.by \in Keys \cup {NoKey}
    BY <1>0 DEF CallState
  <2>1. StoreTypeOK'
    BY <1>0, <1>9, <1>K, <1>S, <2>0, StoreOpTypes DEF ConsumeMatching, GatewayPC
  <2>2. CallTypeOK'
    BY <1>0, <1>9, EndCallTypes, ReservedTypes
       DEF ConsumeMatching, DriverPC, GatewayPC, At
  <2> QED
    BY <1>9, <2>1, <2>2, CallStepTypes DEF ConsumeMatching
<1>10. CASE ReserveByRule(d)
  <2>0. call[d].decision.by \in Keys \cup {NoKey}
    BY <1>0 DEF CallState
  <2>1. StoreTypeOK'
    BY <1>0, <1>10, <1>K, <1>S, <2>0, StoreOpTypes DEF ReserveByRule, GatewayPC
  <2>2. CallTypeOK'
    BY <1>0, <1>10, EndCallTypes, ReservedTypes
       DEF ReserveByRule, DriverPC, GatewayPC, At
  <2> QED
    BY <1>10, <2>1, <2>2, CallStepTypes DEF ReserveByRule
<1>11. CASE Reserve(d)
  <2>1. StoreTypeOK'
    BY <1>0, <1>11, <1>K, StoreOpTypes DEF Reserve, GatewayPC
  <2>2. CallTypeOK'
    BY <1>0, <1>11, ReservedTypes DEF Reserve, GatewayPC, At, Absent
  <2> QED
    BY <1>11, <2>1, <2>2, CallStepTypes DEF Reserve
<1>12. CASE Claim(d)
  <2>1. StoreTypeOK'
    BY <1>0, <1>12, <1>K, <1>S, StoreOpTypes DEF Claim, GatewayPC
  <2>2. CallTypeOK'
    BY <1>0, <1>12, EndCallTypes, OnwardTypes DEF Claim, DriverPC, GatewayPC, At
  <2> QED
    BY <1>12, <2>1, <2>2, CallStepTypes DEF Claim
<1>13. CASE LostClaim(d)
  <2>1. CallTypeOK'
    BY <1>0, <1>13, EndCallTypes DEF LostClaim, DriverPC
  <2> QED
    BY <1>13, <1>S, <2>1, CallStepTypes DEF LostClaim
<1>14. CASE Execute(d)
  <2>1. CallTypeOK'
    BY <1>0, <1>14, EndCallTypes, OnwardTypes DEF Execute, DriverPC, GatewayPC, At
  <2>2. effects' \in [Keys -> Nat]
    BY <1>14 DEF Execute, TypeOK, DriverTypeOK
  <2>3. PolicyTypeOK'
    BY <1>14 DEF Execute, TypeOK, PolicyTypeOK, policyVars
  <2>4. RunnerTypeOK'
    BY <1>14, DriverTypeParts DEF Execute, TypeOK, RunnerTypeOK, runnerVars
  <2>5. DriverTypeOK'
    BY <2>1, <2>2, <2>4 DEF DriverTypeOK, CallTypeOK, RunnerTypeOK, CallState
  <2> QED
    BY <1>14, <1>S, <2>3, <2>5 DEF Execute, TypeOK
<1>15. CASE Complete(d)
  <2>1. StoreTypeOK'
    BY <1>0, <1>15, <1>K, StoreOpTypes DEF Complete, GatewayPC
  <2>2. CallTypeOK'
    BY <1>0, <1>15, EndCallTypes DEF Complete, DriverPC
  <2> QED
    BY <1>15, <2>1, <2>2, CallStepTypes DEF Complete
<1> QED
  BY <1>1, <1>2, <1>3, <1>4, <1>5, <1>6, <1>7, <1>8, <1>9, <1>10, <1>11,
     <1>12, <1>13, <1>14, <1>15 DEF ExecuteStep

Worker == [id : AgentIds \cup {NoAgent}, stage : AgentStages]

LEMMA IdleWorkerTypes == NoRow \in RunRow /\ NoWorker \in Worker
BY DEF NoRow, NoWorker, Worker, RunRow, RunStatus, WorkflowStage, AgentStages

LEMMA LeaveTypes ==
  ASSUME CallTypeOK, RunnerTypeOK, NEW d \in Drivers, Leave(d)
  PROVE  /\ CallTypeOK'
         /\ row' \in [Drivers -> RunRow] /\ agent' \in [Drivers -> Worker]
<1>1. CallTypeOK'
  BY EndCallTypes DEF Leave, DriverPC
<1> QED
  BY <1>1, IdleWorkerTypes DEF Leave, RunnerTypeOK, Worker

LEMMA PrepareTypes ==
  ASSUME CallTypeOK, RunnerTypeOK, NEW d \in Drivers, NEW label \in DriverPC,
         NEW copy \in RunRow, Prepare(d, label, copy)
  PROVE  CallTypeOK' /\ row' \in [Drivers -> RunRow]
<1>1. CallTypeOK'
  BY OnwardTypes DEF Prepare, DriverPC, GatewayPC
<1> QED
  BY <1>1 DEF Prepare, RunnerTypeOK

LEMMA RunnerStepTypes ==
  ASSUME TypeOK, StoreTypeOK', CallTypeOK', row' \in [Drivers -> RunRow],
         agent' \in [Drivers -> Worker], minted' \in 0..MaxAgents,
         UNCHANGED <<policyVars, effects>>
  PROVE  TypeOK'
<1>1. PolicyTypeOK'
  BY DEF TypeOK, PolicyTypeOK, policyVars
<1>2. DriverTypeOK'
  BY DEF TypeOK, DriverTypeOK, CallTypeOK, CallState, Worker
<1> QED
  BY <1>1, <1>2 DEF TypeOK

LEMMA ResumedType ==
  ASSUME NEW copy \in RunRow
  PROVE  Resumed(copy) \in RunRow
BY DEF Resumed, RunRow, RunStatus

\* A step that only moves the driver and may write an agent row.
LEMMA SetAgentTypes ==
  ASSUME TypeOK, NEW d \in Drivers, NEW status \in AgentStatus,
         NEW label \in DriverPC, SetAgent(d, status, label)
  PROVE  TypeOK'
<1>0. /\ StoreTypeOK /\ CallTypeOK /\ RunnerTypeOK
      /\ agent[d].id \in AgentIds \cup {NoAgent}
  BY DriverTypeParts DEF TypeOK, RunnerTypeOK
<1>1. StoreTypeOK'
  BY <1>0, StoreOpTypes DEF SetAgent
<1>2. CallTypeOK'
  BY <1>0, OnwardTypes DEF SetAgent, DriverPC, GatewayPC
<1> QED
  BY <1>0, <1>1, <1>2, RunnerStepTypes DEF SetAgent, RunnerTypeOK, Worker

LEMMA SaveCopyTypes ==
  ASSUME TypeOK, NEW d \in Drivers, NEW saved \in DriverPC, SaveCopy(d, saved),
         UNCHANGED <<policyVars, minted, effects>>
  PROVE  TypeOK'
<1>0. /\ StoreTypeOK /\ CallTypeOK /\ RunnerTypeOK /\ row[d] \in RunRow
  BY DriverTypeParts DEF TypeOK, RunnerTypeOK
<1>1. StoreTypeOK'
  BY <1>0, StoreOpTypes DEF SaveCopy
<1>2. CallTypeOK' /\ row' \in [Drivers -> RunRow]
  BY <1>0, PrepareTypes, IdleWorkerTypes DEF SaveCopy, DriverPC
<1> QED
  BY <1>0, <1>1, <1>2, RunnerStepTypes DEF SaveCopy, RunnerTypeOK, Worker

LEMMA DriverStepTypes ==
  ASSUME TypeOK, NEW d \in Drivers,
         (\E k \in Keys : RequestTool(d, k)) \/ DriverStep(d)
  PROVE  TypeOK'
<1>0. /\ StoreTypeOK /\ CallTypeOK /\ RunnerTypeOK
      /\ run \in RunRow /\ row[d] \in RunRow /\ agent[d] \in Worker
      /\ row \in [Drivers -> RunRow] /\ agent \in [Drivers -> Worker]
      /\ minted \in 0..MaxAgents
  BY DriverTypeParts DEF TypeOK, RunnerTypeOK, StoreTypeOK, Worker
<1>S. UNCHANGED storeVars => StoreTypeOK'
  BY <1>0, StoreOpTypes
<1> USE DEF DriverPC
<1>1. ASSUME NEW k \in Keys, RequestTool(d, k)
      PROVE  TypeOK'
  <2> DEFINE c == [IdleCall EXCEPT !.key = k]
  <2>1. c \in CallState /\ c.key \in Keys
    BY IdleCallType DEF CallState
  <2>2. CallTypeOK'
    <3>1. To(d, "find") /\ call' = [call EXCEPT ![d] = c]
      BY <1>1 DEF RequestTool
    <3> HIDE DEF c
    <3> QED
      BY <1>0, <2>1, <3>1, MoveTypes DEF GatewayPC
  <2> QED
    BY <1>1, <1>S, <2>2, CallStepTypes DEF RequestTool
<1>2. CASE Resume(d)
  <2>1. CallTypeOK' /\ row' \in [Drivers -> RunRow]
    <3>1. CASE Onward(d, "driving") /\ UNCHANGED row
      BY <1>0, <3>1, OnwardTypes DEF GatewayPC
    <3>2. Resumed(run) \in RunRow
      BY <1>0, ResumedType
    <3>3. [run EXCEPT !.status = "rejected"] \in RunRow
      BY <1>0 DEF RunRow, RunStatus
    <3>4. ASSUME PausedAnd("approved")
          PROVE  [run EXCEPT !.checkpoint["implementing"] =
                    intents[run.pending].agent] \in RunRow
      <4>1. run.pending \in Keys
        BY <1>0, <3>4 DEF PausedAnd, RunRow
      <4>2. intents[run.pending].agent \in AgentIds \cup {NoAgent}
        BY <1>0, <4>1 DEF StoreTypeOK, Intent
      <4> QED
        BY <1>0, <4>2 DEF RunRow
    <3> QED
      BY <1>0, <1>2, <3>1, <3>2, <3>3, <3>4, PrepareTypes DEF Resume
  <2> QED
    BY <1>0, <1>2, <1>S, <2>1, RunnerStepTypes DEF Resume
<1>17. CASE SaveAdopted(d)
  <2>1. StoreTypeOK'
    BY <1>0, <1>17, <1>S, StoreOpTypes DEF SaveAdopted
  <2>2. /\ CallTypeOK' /\ row' \in [Drivers -> RunRow]
        /\ agent' \in [Drivers -> Worker]
    BY <1>0, <1>17, PrepareTypes, LeaveTypes, ResumedType DEF SaveAdopted
  <2> QED
    BY <1>0, <1>17, <2>1, <2>2, RunnerStepTypes DEF SaveAdopted
<1>3. CASE SaveResumed(d)
  <2>1. StoreTypeOK'
    BY <1>0, <1>3, <1>S, StoreOpTypes DEF SaveResumed
  <2>2. /\ CallTypeOK' /\ row' \in [Drivers -> RunRow]
        /\ agent' \in [Drivers -> Worker]
    BY <1>0, <1>3, PrepareTypes, LeaveTypes, IdleWorkerTypes DEF SaveResumed
  <2> QED
    BY <1>0, <1>3, <2>1, <2>2, RunnerStepTypes DEF SaveResumed
<1>4. CASE BeginAgent(d)
  <2>1. /\ CallTypeOK' /\ row' \in [Drivers -> RunRow]
        /\ agent' \in [Drivers -> Worker] /\ minted' \in 0..MaxAgents
    <3>1. CASE run.status = "paused_for_approval" \/ run.stage \notin AgentStages
      BY <1>0, <1>4, <3>1, LeaveTypes DEF BeginAgent
    <3>2. CASE /\ ~(run.status = "paused_for_approval" \/ run.stage \notin AgentStages)
               /\ run.checkpoint[run.stage] # NoAgent
      <4>1. [id |-> run.checkpoint[run.stage], stage |-> run.stage] \in Worker
        BY <1>0, <3>2 DEF RunRow, Worker
      <4> QED
        BY <1>0, <1>4, <3>2, <4>1, OnwardTypes DEF BeginAgent, GatewayPC
    <3>3. CASE /\ ~(run.status = "paused_for_approval" \/ run.stage \notin AgentStages)
               /\ run.checkpoint[run.stage] = NoAgent
      <4>1. minted' = minted + 1 /\ minted < MaxAgents
        BY <1>4, <3>3 DEF BeginAgent
      <4>2. minted' \in 1..MaxAgents
        BY <1>0, <4>1, KeysAssumption
      <4>3. [id |-> minted', stage |-> run.stage] \in Worker
        BY <3>3, <4>2 DEF Worker, AgentIds
      <4> QED
        BY <1>0, <1>4, <3>3, <4>2, <4>3, OnwardTypes DEF BeginAgent, GatewayPC
    <3> QED
      BY <3>1, <3>2, <3>3
  <2> QED
    BY <1>4, <1>S, <2>1, RunnerStepTypes DEF BeginAgent
<1>5. CASE Checkpoint(d)
  <2>1. [run EXCEPT !.checkpoint[agent[d].stage] = agent[d].id] \in RunRow
    BY <1>0 DEF RunRow, Worker
  <2>2. CallTypeOK' /\ row' \in [Drivers -> RunRow]
    BY <1>0, <1>5, <2>1, PrepareTypes DEF Checkpoint
  <2> QED
    BY <1>0, <1>5, <1>S, <2>2, RunnerStepTypes DEF Checkpoint
<1>6. CASE SaveCheckpoint(d) \/ SaveReport(d) \/ AdvanceStage(d)
  BY <1>6, SaveCopyTypes DEF SaveCheckpoint, SaveReport, AdvanceStage
<1>7. CASE StartAgent(d) \/ AgentCompletes(d)
  BY <1>7, SetAgentTypes DEF StartAgent, AgentCompletes, AgentStatus
<1>8. CASE AgentFails(d)
  <2>1. CallTypeOK'
    BY <1>0, <1>8, OnwardTypes DEF AgentFails, GatewayPC
  <2> QED
    BY <1>0, <1>8, <1>S, <2>1, RunnerStepTypes DEF AgentFails
<1>9. CASE ReadForReport(d)
  <2>1. [run EXCEPT !.checkpoint[agent[d].stage] = NoAgent] \in RunRow
    BY <1>0 DEF RunRow, Worker
  <2>2. CallTypeOK' /\ row' \in [Drivers -> RunRow]
    BY <1>0, <1>9, <2>1, PrepareTypes, OnwardTypes DEF ReadForReport, GatewayPC
  <2> QED
    BY <1>0, <1>9, <1>S, <2>2, RunnerStepTypes DEF ReadForReport
<1>10. CASE LeaveStage(d)
  <2>1. \A stage \in {"verifying", "presenting"} :
          [run EXCEPT !.status = "running", !.stage = stage] \in RunRow
    BY <1>0 DEF RunRow, RunStatus, WorkflowStage
  <2>2. [run EXCEPT !.status = "rejected"] \in RunRow
    BY <1>0 DEF RunRow, RunStatus
  <2>3. /\ CallTypeOK' /\ row' \in [Drivers -> RunRow]
        /\ agent' \in [Drivers -> Worker]
    BY <1>0, <1>10, <2>1, <2>2, PrepareTypes, LeaveTypes DEF LeaveStage
  <2> QED
    BY <1>0, <1>10, <1>S, <2>3, RunnerStepTypes DEF LeaveStage
<1>11. CASE RejectVerdict(d)
  <2>1. StoreTypeOK'
    BY <1>0, <1>11, <1>S, StoreOpTypes DEF RejectVerdict
  <2>2. /\ CallTypeOK' /\ row' \in [Drivers -> RunRow]
        /\ agent' \in [Drivers -> Worker]
    BY <1>0, <1>11, PrepareTypes, LeaveTypes, IdleWorkerTypes DEF RejectVerdict
  <2> QED
    BY <1>0, <1>11, <2>1, <2>2, RunnerStepTypes DEF RejectVerdict
<1>12. CASE AgentStops(d)
  <2>1. CASE At(d, "denied") /\ SetAgent(d, "failed", "reject_run")
    BY <2>1, SetAgentTypes DEF AgentStatus
  <2>2. CASE At(d, "failed") /\ SetAgent(d, "failed", "fail_run")
    BY <2>2, SetAgentTypes DEF AgentStatus
  <2>3. ASSUME NEW status \in {"paused", "cancelled"},
               SaveAgent(agent[d].id, status), Leave(d),
               UNCHANGED <<policyVars, minted, effects>>
        PROVE  TypeOK'
    <3>1. StoreTypeOK'
      BY <1>0, <2>3, StoreOpTypes DEF AgentStatus, Worker
    <3> QED
      BY <1>0, <2>3, <3>1, LeaveTypes, RunnerStepTypes
  <2> QED
    BY <1>12, <2>1, <2>2, <2>3 DEF AgentStops
<1>13. CASE RejectRun(d)
  <2>1. [run EXCEPT !.status = "rejected"] \in RunRow
    BY <1>0 DEF RunRow, RunStatus
  <2>2. CallTypeOK' /\ row' \in [Drivers -> RunRow]
    BY <1>0, <1>13, <2>1, PrepareTypes DEF RejectRun
  <2> QED
    BY <1>0, <1>13, <1>S, <2>2, RunnerStepTypes DEF RejectRun
<1>14. CASE FailRun(d)
  <2>1. [run EXCEPT !.status = "failed"] \in RunRow
    BY <1>0 DEF RunRow, RunStatus
  <2>2. /\ CallTypeOK' /\ row' \in [Drivers -> RunRow]
        /\ agent' \in [Drivers -> Worker]
    BY <1>0, <1>14, <2>1, PrepareTypes, LeaveTypes DEF FailRun
  <2> QED
    BY <1>0, <1>14, <1>S, <2>2, RunnerStepTypes DEF FailRun
<1>15. CASE SaveFailed(d)
  <2>1. StoreTypeOK'
    BY <1>0, <1>15, <1>S, StoreOpTypes DEF SaveFailed, SaveLast
  <2> QED
    BY <1>0, <1>15, <2>1, LeaveTypes, RunnerStepTypes DEF SaveFailed, SaveLast
<1>16. CASE Crash(d)
  BY <1>0, <1>16, <1>S, LeaveTypes, RunnerStepTypes DEF Crash
<1> QED
  BY <1>1, <1>2, <1>3, <1>4, <1>5, <1>6, <1>7, <1>8, <1>9, <1>10, <1>11,
     <1>12, <1>13, <1>14, <1>15, <1>16, <1>17 DEF DriverStep

-----------------------------------------------------------------------------
(* Type correctness.                                                       *)

LEMMA InitTypes == Init => TypeOK
<1> SUFFICES ASSUME Init PROVE TypeOK
  OBVIOUS
<1>1. StoreTypeOK
  <2>1. run \in RunRow
    BY DEF Init, StoreInit, RunRow, RunStatus, WorkflowStage
  <2>2. NoIntent \in Intent /\ NoRequest \in Request /\ NoGrant \in Grant
    BY DEF NoIntent, NewIntent, Intent, IntentStatus, NoRequest, Request,
           NoGrant, Grant
  <2> QED
    BY <2>1, <2>2 DEF Init, StoreInit, StoreTypeOK, AgentStatus
<1>2. PolicyTypeOK
  BY IdleUserType DEF Init, PolicyInit, PolicyTypeOK, UserState
<1>3. CallTypeOK /\ RunnerTypeOK /\ effects \in [Keys -> Nat]
  BY IdleCallType, IdleWorkerTypes, KeysAssumption
     DEF Init, CallTypeOK, RunnerTypeOK, DriverPC, GatewayPC, Worker
<1> QED
  BY <1>1, <1>2, <1>3, DriverTypeParts DEF TypeOK

\* A step of another process leaves what the drivers hold.
LEMMA OtherStepTypes ==
  ASSUME TypeOK, StoreTypeOK', PolicyTypeOK', UNCHANGED driverVars
  PROVE  TypeOK'
BY DEF TypeOK, DriverTypeOK, driverVars

LEMMA StepTypes ==
  ASSUME TypeOK, [Next]_vars
  PROVE  TypeOK'
<1>0. StoreTypeOK /\ PolicyTypeOK
  BY DEF TypeOK
<1>P. UNCHANGED policyVars => PolicyTypeOK'
  BY <1>0 DEF PolicyTypeOK, policyVars
<1>1. CASE \E d \in Drivers : \/ \E k \in Keys : RequestTool(d, k)
                              \/ ExecuteStep(d)
                              \/ DriverStep(d)
  BY <1>1, ExecuteStepTypes, DriverStepTypes
<1>2. CASE PolicyNext /\ UNCHANGED driverVars
  BY <1>0, <1>2, PolicyTypes, OtherStepTypes
<1>3. CASE Cancel \/ Recover
  <2>1. /\ [run EXCEPT !.status = "cancelled"] \in RunRow
        /\ [run EXCEPT !.status = "failed"] \in RunRow
    BY <1>0 DEF StoreTypeOK, RunRow, RunStatus
  <2>2. StoreTypeOK'
    BY <1>0, <1>3, <2>1, StoreOpTypes DEF Cancel, Recover
  <2> QED
    BY <1>3, <1>P, <2>2, OtherStepTypes DEF Cancel, Recover
<1>4. CASE Tick
  <2>1. clock' \in Nat
    BY <1>0, <1>4 DEF Tick, StoreTypeOK
  <2>2. StoreTypeOK'
    BY <1>0, <1>4, <2>1 DEF Tick, StoreTypeOK
  <2> QED
    BY <1>4, <1>P, <2>2, OtherStepTypes DEF Tick
<1>5. CASE UNCHANGED vars
  <2>1. StoreTypeOK'
    BY <1>0, <1>5, StoreOpTypes DEF vars
  <2> QED
    BY <1>5, <1>P, <2>1, OtherStepTypes DEF vars
<1> QED
  BY <1>1, <1>2, <1>3, <1>4, <1>5 DEF Next

\* Every variable keeps its type, for any drivers, users, keys and bounds: no
\* command writes a row of the store that the code could not read back.
THEOREM TypeCorrect == Spec => []TypeOK
<1>1. Init => TypeOK
  BY InitTypes
<1>2. TypeOK /\ [Next]_vars => TypeOK'
  BY StepTypes
<1> QED
  BY <1>1, <1>2, PTL DEF Spec

-----------------------------------------------------------------------------
(* At-most-once dispatch.                                                  *)

\* A step that claims nothing and runs nothing keeps the exclusion, provided
\* no driver enters the executor and those in it keep their call.
LEMMA NotDispatching ==
  ASSUME DispatchExclusive, UNCHANGED <<claims, effects>>,
         \A d \in Drivers : At(d, "execute")' =>
           At(d, "execute") /\ call'[d].key = call[d].key
  PROVE  DispatchExclusive'
BY DEF DispatchExclusive, At

\* The driver d moved to a step other than the executor.
LEMMA MovedAway ==
  ASSUME TypeOK, NEW d \in Drivers, NEW label, label # "execute", To(d, label),
         \/ UNCHANGED call
         \/ \E c : call' = [call EXCEPT ![d] = c]
  PROVE  \A e \in Drivers : At(e, "execute")' =>
           At(e, "execute") /\ call'[e].key = call[e].key
BY DEF At, To, TypeOK, DriverTypeOK

\* The store's operations other than the claim leave the claims.
LEMMA StoreOpClaims ==
  /\ \A row0 : SaveRun(row0) => UNCHANGED claims
  /\ \A a, s : SaveAgent(a, s) => UNCHANGED claims
  /\ \A k, a : /\ ReserveIntent(k, a) => UNCHANGED claims
               /\ CreateApprovalAndPause(k, a) => UNCHANGED claims
  /\ \A g, k, a : /\ ConsumeMatchingGrantAndReserve(g, k, a) => UNCHANGED claims
                  /\ ReserveTrustRuleIntent(g, k, a) => UNCHANGED claims
  /\ \A k : /\ ConsumeGrantAndReserve(k) => UNCHANGED claims
            /\ CompleteIntent(k) => UNCHANGED claims
            /\ DenyIntent(k) => UNCHANGED claims
            /\ ResolveDenied(k) => UNCHANGED claims
            /\ RevokeGrant(k) => UNCHANGED claims
            /\ \A choice : ResolveApproved(k, choice) => UNCHANGED claims
  /\ UNCHANGED storeVars => UNCHANGED claims
BY DEF SaveRun, SaveAgent, ReserveIntent, CreateApprovalAndPause,
       ConsumeMatchingGrantAndReserve, ReserveTrustRuleIntent,
       ConsumeGrantAndReserve, CompleteIntent, DenyIntent, ResolveDenied,
       RevokeGrant, ResolveApproved, storeVars

\* The steps of a call but its claim and its execution claim nothing and do
\* not enter the executor.
LEMMA QuietCallSteps ==
  ASSUME TypeOK, NEW d \in Drivers,
         \/ FindIntent(d) \/ LoadPolicy(d) \/ Decide(d)
         \/ DenyReserve(d) \/ DenyMark(d) \/ CheckRequest(d) \/ ConsumeGrant(d)
         \/ Pause(d) \/ ConsumeMatching(d) \/ ReserveByRule(d) \/ Reserve(d)
         \/ LostClaim(d) \/ Complete(d)
  PROVE  /\ UNCHANGED <<claims, effects>>
         /\ \A e \in Drivers : At(e, "execute")' =>
              At(e, "execute") /\ call'[e].key = call[e].key
<1>1. UNCHANGED <<claims, effects>>
  BY StoreOpClaims
     DEF FindIntent, LoadPolicy, Decide, DenyReserve, DenyMark, CheckRequest,
         ConsumeGrant, Pause, ConsumeMatching, ReserveByRule, Reserve,
         LostClaim, Complete
<1>2. \E label : /\ label # "execute" /\ To(d, label)
                 /\ \/ UNCHANGED call
                    \/ \E c : call' = [call EXCEPT ![d] = c]
  <2>1. CASE FindIntent(d)
    BY <2>1 DEF FindIntent, EndCall, TypeOK, DriverTypeOK
  <2>2. CASE LoadPolicy(d)
    BY <2>2 DEF LoadPolicy, EndCall
  <2>3. CASE Decide(d)
    <3>1. \A e : Route(d, e) # "execute"
      BY DEF Route
    <3> QED
      BY <2>3, <3>1 DEF Decide, EndCall
  <2>4. CASE DenyReserve(d) \/ ConsumeMatching(d) \/ ReserveByRule(d) \/ Reserve(d)
    BY <2>4 DEF DenyReserve, ConsumeMatching, ReserveByRule, Reserve, EndCall
  <2>5. CASE DenyMark(d) \/ CheckRequest(d) \/ ConsumeGrant(d) \/ Pause(d)
             \/ LostClaim(d) \/ Complete(d)
    BY <2>5 DEF DenyMark, CheckRequest, ConsumeGrant, Pause, LostClaim,
                Complete, EndCall, Onward
  <2> QED
    BY <2>1, <2>2, <2>3, <2>4, <2>5
<1> QED
  BY <1>1, <1>2, MovedAway

LEMMA QuietDriverSteps ==
  ASSUME TypeOK, NEW d \in Drivers,
         (\E k \in Keys : RequestTool(d, k)) \/ DriverStep(d)
  PROVE  /\ UNCHANGED <<claims, effects>>
         /\ \A e \in Drivers : At(e, "execute")' =>
              At(e, "execute") /\ call'[e].key = call[e].key
<1>1. UNCHANGED <<claims, effects>>
  BY StoreOpClaims
     DEF RequestTool, DriverStep, Resume, SaveAdopted, SaveResumed, BeginAgent, Checkpoint,
         SaveCheckpoint, StartAgent, AgentCompletes, AgentFails, ReadForReport,
         SaveReport, LeaveStage, AdvanceStage, RejectVerdict, AgentStops,
         RejectRun, FailRun, SaveFailed, Crash, SetAgent, SaveCopy, SaveLast
<1>2. \E label : /\ label # "execute" /\ To(d, label)
                 /\ \/ UNCHANGED call
                    \/ \E c : call' = [call EXCEPT ![d] = c]
  <2>1. CASE \E k \in Keys : RequestTool(d, k)
    BY <2>1 DEF RequestTool
  <2>2. CASE Resume(d) \/ SaveAdopted(d) \/ SaveResumed(d) \/ BeginAgent(d) \/ Checkpoint(d)
             \/ SaveCheckpoint(d)
    BY <2>2 DEF Resume, SaveAdopted, SaveResumed, BeginAgent, Checkpoint, SaveCheckpoint,
                SaveCopy, Prepare, Onward, Leave, EndCall
  <2>3. CASE StartAgent(d) \/ AgentCompletes(d) \/ AgentFails(d) \/ AgentStops(d)
    BY <2>3 DEF StartAgent, AgentCompletes, AgentFails, AgentStops, SetAgent,
                Onward, Leave, EndCall
  <2>4. CASE ReadForReport(d) \/ SaveReport(d) \/ LeaveStage(d)
             \/ AdvanceStage(d) \/ RejectVerdict(d)
    BY <2>4 DEF ReadForReport, SaveReport, LeaveStage, AdvanceStage,
                RejectVerdict, SaveCopy, Prepare, Onward, Leave, EndCall
  <2>5. CASE RejectRun(d) \/ FailRun(d) \/ SaveFailed(d) \/ Crash(d)
    BY <2>5 DEF RejectRun, FailRun, SaveFailed, Crash, SaveLast, Prepare,
                Onward, Leave, EndCall
  <2> QED
    BY <2>1, <2>2, <2>3, <2>4, <2>5 DEF DriverStep
<1> QED
  BY <1>1, <1>2, MovedAway

LEMMA PolicyClaims == PolicyNext => UNCHANGED claims
BY StoreOpClaims
   DEF PolicyNext, ApproveBegin, StageLoad, StagePublish, ApproveResolve,
       DenyRequest, UserRevokesGrant, RevokeRuleLoad, RevokeDenyLoad,
       RevokeRulePublish, ResetLoad, ResetPublish, ResetGrant, ConfigureLoad,
       ConfigurePublish, WriteDenyRule, UserCrash

LEMMA ExclusiveStep ==
  ASSUME TypeOK, DispatchExclusive, [Next]_vars
  PROVE  DispatchExclusive'
<1>1. ASSUME NEW d \in Drivers, Claim(d)
      PROVE  DispatchExclusive'
  <2>0. call[d].key \in Keys /\ At(d, "claim")
    BY <1>1 DEF Claim, At, TypeOK, DriverTypeOK, GatewayPC
  <2>1. CASE ClaimForDispatch(call[d].key) /\ Onward(d, "execute")
    <3>1. /\ call[d].key \notin claims
          /\ claims' = claims \cup {call[d].key}
          /\ effects' = effects /\ call' = call
          /\ pc' = [pc EXCEPT ![d] = "execute"]
      BY <1>1, <2>1 DEF Claim, ClaimForDispatch, CanClaim, Onward, To
    <3> QED
      BY <2>0, <3>1 DEF DispatchExclusive, At, TypeOK, DriverTypeOK
  <2>2. CASE UNCHANGED storeVars
             /\ \E label \in {"lost", "failed"} :
                  Onward(d, label) \/ EndCall(d, label)
    <3>1. UNCHANGED <<claims, effects>>
      BY <1>1, <2>2 DEF Claim, storeVars
    <3>2. \A e \in Drivers : At(e, "execute")' =>
            At(e, "execute") /\ call'[e].key = call[e].key
      BY <2>2, MovedAway DEF Onward, EndCall
    <3> QED
      BY <3>1, <3>2, NotDispatching
  <2> QED
    BY <1>1, <2>1, <2>2 DEF Claim
<1>2. ASSUME NEW d \in Drivers, Execute(d)
      PROVE  DispatchExclusive'
  <2>1. /\ At(d, "execute") /\ call[d].key \in Keys
        /\ effects[call[d].key] = 0 /\ call[d].key \in claims
        /\ UNCHANGED claims
    BY <1>2 DEF Execute, At, TypeOK, DriverTypeOK, GatewayPC, DispatchExclusive,
                storeVars
  <2>2. \/ effects' = [effects EXCEPT ![call[d].key] = 1]
        \/ effects' = effects
    BY <1>2, <2>1 DEF Execute, TypeOK, DriverTypeOK
  <2>3. \A e \in Drivers : At(e, "execute")' =>
          e # d /\ At(e, "execute") /\ call'[e].key = call[e].key
    BY <1>2 DEF Execute, Onward, EndCall, To, At, TypeOK, DriverTypeOK
  <2>4. \A e \in Drivers \ {d} : At(e, "execute") => call[e].key # call[d].key
    BY <2>1 DEF DispatchExclusive
  <2>5. ASSUME NEW e \in Drivers, At(e, "execute")'
        PROVE  /\ call'[e].key \in claims'
               /\ effects'[call'[e].key] = 0
               /\ \A f \in Drivers \ {e} :
                    At(f, "execute")' => call'[f].key # call'[e].key
    <3>1. /\ e # d /\ At(e, "execute") /\ call'[e].key = call[e].key
          /\ call[e].key \in Keys
      BY <2>3, <2>5 DEF TypeOK, DriverTypeOK, At, GatewayPC
    <3>2. call[e].key \in claims /\ effects[call[e].key] = 0
      BY <3>1 DEF DispatchExclusive
    <3>3. effects'[call[e].key] = effects[call[e].key]
      BY <2>2, <2>4, <3>1 DEF TypeOK, DriverTypeOK
    <3>4. \A f \in Drivers \ {e} :
            At(f, "execute")' => call'[f].key # call'[e].key
      BY <2>3, <3>1 DEF DispatchExclusive
    <3> QED
      BY <2>1, <3>1, <3>2, <3>3, <3>4
  <2>6. \A k \in Keys : effects'[k] # 0 => effects'[k] = 1 /\ k \in claims'
    BY <2>1, <2>2 DEF DispatchExclusive, TypeOK, DriverTypeOK
  <2> QED
    BY <2>5, <2>6 DEF DispatchExclusive, At
<1>3. ASSUME NEW d \in Drivers, ExecuteStep(d), ~Claim(d), ~Execute(d)
      PROVE  DispatchExclusive'
  BY <1>3, QuietCallSteps, NotDispatching DEF ExecuteStep
<1>4. ASSUME NEW d \in Drivers, (\E k \in Keys : RequestTool(d, k)) \/ DriverStep(d)
      PROVE  DispatchExclusive'
  BY <1>4, QuietDriverSteps, NotDispatching
<1>5. CASE \/ PolicyNext /\ UNCHANGED driverVars
           \/ Cancel \/ Recover \/ Tick \/ UNCHANGED vars
  <2>1. UNCHANGED <<claims, effects, pc, call>>
    BY <1>5, PolicyClaims, StoreOpClaims
       DEF Cancel, Recover, Tick, vars, driverVars, storeVars
  <2> QED
    BY <2>1, NotDispatching DEF At
<1> QED
  BY <1>1, <1>2, <1>3, <1>4, <1>5 DEF Next

LEMMA InitExclusive == Init => DispatchExclusive
BY DEF Init, StoreInit, DispatchExclusive, At

\* However many processes drive the run, at most one of them is inside the
\* executor for a call, it holds the call's permanent claim, and the call has
\* not taken effect before.
THEOREM ExclusiveDispatch == Spec => []DispatchExclusive
<1>1. TypeOK /\ DispatchExclusive /\ [Next]_vars => DispatchExclusive'
  BY ExclusiveStep
<1> QED
  BY <1>1, InitExclusive, TypeCorrect, PTL DEF Spec

\* No interleaving of drivers, crashes, replays, approvals and revocations
\* makes the executor run a logical tool call twice.
THEOREM AtMostOnce == Spec => []AtMostOnceDispatch
<1>1. TypeOK /\ DispatchExclusive => AtMostOnceDispatch
  BY DEF TypeOK, DriverTypeOK, DispatchExclusive, AtMostOnceDispatch
<1> QED
  BY <1>1, ExclusiveDispatch, TypeCorrect, PTL

-----------------------------------------------------------------------------
(* The end of a run is a fence.                                            *)

\* The transition table lets nothing leave a terminal status.
LEMMA TerminalIsFinal ==
  ASSUME NEW from, NEW to, from[1] \in Terminal, ValidTransition(from, to)
  PROVE  to = from
<1>1. \A edge \in Allowed : edge[1][1] \notin Terminal
  BY DEF Allowed, Forward, Pauses, Terminal
<1>2. <<from, to>> \notin Allowed
  BY <1>1
<1> QED
  BY <1>2 DEF ValidTransition

LEMMA EndedStore ==
  ASSUME StoreTypeOK, run.status \in Terminal
  PROVE  /\ \A row0 : SaveRun(row0) => run'.status = run.status
         /\ \A k, a : CreateApprovalAndPause(k, a) => run'.status = run.status
         /\ \A k : ~CanClaim(k)
<1>1. \A row0 : SaveRun(row0) => run'.status = run.status
  <2> SUFFICES ASSUME NEW row0, SaveRun(row0) PROVE run'.status = run.status
    OBVIOUS
  <2>1. <<row0.status, row0.stage>> = <<run.status, run.stage>>
    BY TerminalIsFinal DEF SaveRun, CanSaveRun
  <2> QED
    BY <2>1 DEF SaveRun
<1>2. \A k, a : CreateApprovalAndPause(k, a) => run'.status = run.status
  <2>1. ~CanPause
    <3>1. CanPause => <<"paused_for_approval", run.stage>> = <<run.status, run.stage>>
      BY TerminalIsFinal DEF CanPause
    <3> QED
      BY <3>1 DEF Terminal
  <2> QED
    BY <2>1 DEF CreateApprovalAndPause, storeVars
<1>3. \A k : ~CanClaim(k)
  BY DEF CanClaim, Terminal
<1> QED
  BY <1>1, <1>2, <1>3

\* Every step of the system leaves the run alone, saves a copy of it, or
\* pauses it.
RunStep ==
  \/ UNCHANGED run
  \/ \E row0 : SaveRun(row0)
  \/ \E k, a : CreateApprovalAndPause(k, a)

LEMMA StoreOpRun ==
  /\ \A a, s : SaveAgent(a, s) => UNCHANGED run
  /\ \A k, a : ReserveIntent(k, a) => UNCHANGED run
  /\ \A g, k, a : /\ ConsumeMatchingGrantAndReserve(g, k, a) => UNCHANGED run
                  /\ ReserveTrustRuleIntent(g, k, a) => UNCHANGED run
  /\ \A k : /\ ConsumeGrantAndReserve(k) => UNCHANGED run
            /\ ClaimForDispatch(k) => UNCHANGED run
            /\ CompleteIntent(k) => UNCHANGED run
            /\ DenyIntent(k) => UNCHANGED run
            /\ ResolveDenied(k) => UNCHANGED run
            /\ RevokeGrant(k) => UNCHANGED run
            /\ \A choice : ResolveApproved(k, choice) => UNCHANGED run
  /\ UNCHANGED storeVars => UNCHANGED run
BY DEF SaveAgent, ReserveIntent, ConsumeMatchingGrantAndReserve,
       ReserveTrustRuleIntent, ConsumeGrantAndReserve, ClaimForDispatch,
       CompleteIntent, DenyIntent, ResolveDenied, RevokeGrant,
       ResolveApproved, storeVars

LEMMA EveryStepIsARunStep == [Next]_vars => RunStep
<1>1. ASSUME NEW d \in Drivers, ExecuteStep(d)
      PROVE  RunStep
  BY <1>1, StoreOpRun
     DEF RunStep, ExecuteStep, FindIntent, LoadPolicy, Decide, DenyReserve,
         DenyMark, CheckRequest, ConsumeGrant, Pause, ConsumeMatching,
         ReserveByRule, Reserve, Claim, LostClaim, Execute, Complete
<1>2. ASSUME NEW d \in Drivers, (\E k \in Keys : RequestTool(d, k)) \/ DriverStep(d)
      PROVE  RunStep
  BY <1>2, StoreOpRun
     DEF RunStep, RequestTool, DriverStep, Resume, SaveAdopted, SaveResumed, BeginAgent,
         Checkpoint, SaveCheckpoint, StartAgent, AgentCompletes, AgentFails,
         ReadForReport, SaveReport, LeaveStage, AdvanceStage, RejectVerdict,
         AgentStops, RejectRun, FailRun, SaveFailed, Crash, SetAgent, SaveCopy,
         SaveLast
<1>3. ASSUME PolicyNext
      PROVE  RunStep
  BY <1>3, StoreOpRun
     DEF RunStep, PolicyNext, ApproveBegin, StageLoad, StagePublish,
         ApproveResolve, DenyRequest, UserRevokesGrant, RevokeRuleLoad,
         RevokeDenyLoad, RevokeRulePublish, ResetLoad, ResetPublish, ResetGrant,
         ConfigureLoad, ConfigurePublish, WriteDenyRule, UserCrash
<1>4. Cancel \/ Recover \/ Tick \/ UNCHANGED vars => RunStep
  BY StoreOpRun DEF RunStep, Cancel, Recover, Tick, vars
<1> QED
  BY <1>1, <1>2, <1>3, <1>4 DEF Next

\* What a step does to the ledger of dispatches: it claims a new call, it lets
\* a claimed call take effect, or it touches neither.
LEMMA LedgerStep ==
  ASSUME TypeOK, DispatchExclusive, [Next]_vars
  PROVE  \/ UNCHANGED <<claims, effects>>
         \/ \E k \in Keys : /\ CanClaim(k) /\ claims' = claims \cup {k}
                            /\ UNCHANGED <<run, effects>>
         \/ \E k \in Keys : /\ k \in claims /\ effects[k] = 0
                            /\ effects' = [effects EXCEPT ![k] = 1]
                            /\ UNCHANGED <<run, claims>>
<1>1. ASSUME NEW d \in Drivers, Claim(d)
      PROVE  \/ UNCHANGED <<claims, effects>>
             \/ \E k \in Keys : /\ CanClaim(k) /\ claims' = claims \cup {k}
                                /\ UNCHANGED <<run, effects>>
  BY <1>1 DEF Claim, ClaimForDispatch, At, TypeOK, DriverTypeOK, GatewayPC, storeVars
<1>2. ASSUME NEW d \in Drivers, Execute(d)
      PROVE  \/ UNCHANGED <<claims, effects>>
             \/ \E k \in Keys : /\ k \in claims /\ effects[k] = 0
                                /\ effects' = [effects EXCEPT ![k] = 1]
                                /\ UNCHANGED <<run, claims>>
  <2>1. /\ call[d].key \in Keys /\ call[d].key \in claims
        /\ effects[call[d].key] = 0 /\ UNCHANGED <<run, claims>>
    BY <1>2 DEF Execute, At, TypeOK, DriverTypeOK, GatewayPC, DispatchExclusive,
                storeVars
  <2>2. \/ effects' = effects
        \/ effects' = [effects EXCEPT ![call[d].key] = 1]
    BY <1>2, <2>1 DEF Execute, TypeOK, DriverTypeOK
  <2> QED
    BY <2>1, <2>2
<1>3. ASSUME NEW d \in Drivers, ExecuteStep(d), ~Claim(d), ~Execute(d)
      PROVE  UNCHANGED <<claims, effects>>
  BY <1>3, QuietCallSteps DEF ExecuteStep
<1>4. ASSUME NEW d \in Drivers, (\E k \in Keys : RequestTool(d, k)) \/ DriverStep(d)
      PROVE  UNCHANGED <<claims, effects>>
  BY <1>4, QuietDriverSteps
<1>5. CASE \/ PolicyNext /\ UNCHANGED driverVars
           \/ Cancel \/ Recover \/ Tick \/ UNCHANGED vars
  BY <1>5, PolicyClaims, StoreOpClaims
     DEF Cancel, Recover, Tick, vars, driverVars, storeVars
<1> QED
  BY <1>1, <1>2, <1>3, <1>4, <1>5 DEF Next

LEMMA EndedStep ==
  ASSUME TypeOK, DispatchExclusive, [Next]_vars, run.status \in Terminal
  PROVE  claims' = claims /\ run'.status = run.status
<1>1. StoreTypeOK
  BY DEF TypeOK
<1>2. run'.status = run.status
  BY <1>1, EndedStore, EveryStepIsARunStep DEF RunStep
<1>3. claims' = claims
  BY <1>1, EndedStore, LedgerStep
<1> QED
  BY <1>2, <1>3

\* Once a run is cancelled, failed or rejected, no driver that is still at
\* work claims a call for dispatch, and no stale copy it saves revives the run.
THEOREM EndedRunIsFenced == Spec => EndedRunDispatchesNothing
<1>1. TypeOK /\ DispatchExclusive /\ [Next]_vars
        => [EndIsFinal]_vars
  BY EndedStep DEF EndIsFinal
<1> QED
  BY <1>1, TypeCorrect, ExclusiveDispatch, PTL DEF Spec, EndedRunDispatchesNothing

\* The gateway, with its store, policy, drivers and users, implements the
\* dispatch ledger.
THEOREM ImplementsLedger == Spec => LedgerSpec
<1>1. Init => Ledger!Init
  BY DEF Init, StoreInit, Ledger!Init, Terminal
<1>2. TypeOK /\ DispatchExclusive /\ [Next]_vars => [Ledger!Next]_(Ledger!ledgerVars)
  <2> SUFFICES ASSUME TypeOK, DispatchExclusive, [Next]_vars
               PROVE  [Ledger!Next]_(Ledger!ledgerVars)
    OBVIOUS
  <2> USE DEF Ledger!Next, Ledger!ledgerVars
  <2>1. CASE UNCHANGED <<claims, effects>>
    <3>1. run.status \in Terminal => run'.status = run.status
      BY EndedStep
    <3>2. \/ (run.status \notin Terminal) = (run'.status \notin Terminal)
          \/ run.status \notin Terminal /\ run'.status \in Terminal
      BY <3>1
    <3>3. CASE (run.status \notin Terminal) = (run'.status \notin Terminal)
      BY <2>1, <3>3 DEF Terminal
    <3>4. CASE run.status \notin Terminal /\ run'.status \in Terminal
      BY <2>1, <3>4 DEF Ledger!Close, Terminal
    <3> QED
      BY <3>2, <3>3, <3>4
  <2>2. ASSUME NEW k \in Keys, CanClaim(k), claims' = claims \cup {k},
               UNCHANGED <<run, effects>>
        PROVE  Ledger!Claim(k)
    BY <2>2 DEF Ledger!Claim, CanClaim, Terminal
  <2>3. ASSUME NEW k \in Keys, k \in claims, effects[k] = 0,
               effects' = [effects EXCEPT ![k] = 1], UNCHANGED <<run, claims>>
        PROVE  Ledger!TakeEffect(k)
    BY <2>3 DEF Ledger!TakeEffect, Terminal
  <2> QED
    BY <2>1, <2>2, <2>3, LedgerStep
<1> QED
  BY <1>1, <1>2, TypeCorrect, ExclusiveDispatch, PTL DEF Spec, LedgerSpec, Ledger!Spec

-----------------------------------------------------------------------------
(* The trust policy: what a command loaded is current when it publishes.   *)

Publishing == {"stage_publish", "rule_publish", "reset_publish", "configure"}

\* A revision names one policy: a process that is about to publish holds an
\* earlier revision, which loses, or the policy that is on disk.
Loaded ==
  \A u \in Users : user[u].op \in Publishing =>
    /\ user[u].base.rev <= trust.rev
    /\ user[u].base.rev = trust.rev => user[u].base = trust
    /\ user[u].op = "reset_publish" => user[u].cutoff >= user[u].base.cutoff
    /\ user[u].op = "stage_publish" =>
         user[u].base.rules[user[u].key] # "revoked"

\* A step that moves the user's process and publishes nothing keeps Loaded,
\* if what the process holds then is the policy on disk.
LEMMA GotoLoaded ==
  ASSUME PolicyTypeOK, Loaded, UNCHANGED trust, NEW u \in Users, NEW state,
         Goto(u, state),
         state.op \in Publishing =>
           /\ state.base = trust
           /\ state.op = "reset_publish" => state.cutoff >= state.base.cutoff
           /\ state.op = "stage_publish" =>
                state.base.rules[state.key] # "revoked"
  PROVE  Loaded' /\ DecisionsStay
<1>1. trust.rev \in Nat /\ trust.cutoff \in Nat
  BY DEF PolicyTypeOK, Policy
<1>2. DecisionsStay
  BY <1>1 DEF DecisionsStay
<1>3. ASSUME NEW v \in Users, user'[v].op \in Publishing
      PROVE  /\ user'[v].base.rev <= trust'.rev
             /\ user'[v].base.rev = trust'.rev => user'[v].base = trust'
             /\ user'[v].op = "reset_publish" =>
                  user'[v].cutoff >= user'[v].base.cutoff
             /\ user'[v].op = "stage_publish" =>
                  user'[v].base.rules[user'[v].key] # "revoked"
  <2>1. CASE v = u
    BY <1>1, <1>3, <2>1 DEF Goto, PolicyTypeOK
  <2>2. CASE v # u
    <3>1. user'[v] = user[v]
      BY <2>2 DEF Goto, PolicyTypeOK
    <3> QED
      BY <1>3, <3>1 DEF Loaded
  <2> QED
    BY <2>1, <2>2
<1> QED
  BY <1>2, <1>3 DEF Loaded

\* A publication that keeps the decisions of the policy its process loaded
\* keeps those of the policy it replaces: they are the same, or it loses.
LEMMA PublishLoaded ==
  ASSUME PolicyTypeOK, Loaded, NEW u \in Users, user[u].op \in Publishing,
         NEW policy \in Policy, NEW next, next.op \notin Publishing,
         Publish(u, policy, next),
         policy.cutoff >= user[u].base.cutoff,
         \/ user[u].op = "reset_publish"
         \/ user[u].base.denied \ policy.denied \subseteq user[u].lifted,
         user[u].op = "configure" \/ policy.mode = user[u].base.mode,
         \A k \in Keys : user[u].base.rules[k] = "revoked" =>
                           policy.rules[k] = "revoked"
  PROVE  Loaded' /\ DecisionsStay
<1>0. /\ trust \in Policy /\ trust.rev \in Nat /\ trust.cutoff \in Nat
      /\ IdleUser.op \notin Publishing
  BY DEF PolicyTypeOK, Policy, IdleUser, Publishing
<1>1. CASE trust.rev = user[u].base.rev
  <2>1. trust' = [policy EXCEPT !.rev = trust.rev + 1] /\ Goto(u, next)
    BY <1>1 DEF Publish
  <2>2. /\ trust'.rev = trust.rev + 1
        /\ trust'.cutoff = policy.cutoff
        /\ trust'.denied = policy.denied /\ trust'.mode = policy.mode
        /\ trust'.rules = policy.rules
    BY <2>1 DEF Policy
  <2>3. DecisionsStay
    <3>1. user[u].base = trust /\ IsCurrent(u)
      BY <1>1 DEF Loaded, IsCurrent
    <3> QED
      BY <2>2, <3>1 DEF DecisionsStay
  <2>4. ASSUME NEW v \in Users, user'[v].op \in Publishing
        PROVE  /\ user'[v].base.rev <= trust'.rev
               /\ user'[v].base.rev # trust'.rev
               /\ user'[v].op = "reset_publish" =>
                    user'[v].cutoff >= user'[v].base.cutoff
               /\ user'[v].op = "stage_publish" =>
                    user'[v].base.rules[user'[v].key] # "revoked"
    <3>1. v # u /\ user'[v] = user[v]
      BY <2>1, <2>4 DEF Goto, PolicyTypeOK
    <3>2. user[v].base.rev \in Nat
      BY DEF PolicyTypeOK, Policy
    <3> QED
      BY <1>0, <2>2, <2>4, <3>1, <3>2 DEF Loaded
  <2> QED
    BY <2>3, <2>4 DEF Loaded
<1>2. CASE trust.rev # user[u].base.rev
  <2>1. Goto(u, IdleUser) /\ UNCHANGED trust
    BY <1>2 DEF Publish
  <2> QED
    BY <1>0, <2>1, GotoLoaded
<1> QED
  BY <1>1, <1>2

LEMMA PolicyKeepsDecisions ==
  ASSUME StoreTypeOK, PolicyTypeOK, Loaded, PolicyNext
  PROVE  Loaded' /\ DecisionsStay
<1>0. /\ \A u \in Users : user[u] \in UserState
      /\ trust \in Policy
      /\ IdleUser.op = "idle"
      /\ DOMAIN IdleUser =
           {"op", "key", "choice", "base", "cutoff", "todo", "lifted"}
  BY DEF PolicyTypeOK, UserState, IdleUser
<1>S. UNCHANGED policyVars => Loaded' /\ DecisionsStay
  BY <1>0 DEF policyVars, Loaded, DecisionsStay, Policy
<1> USE DEF Publishing
<1>1. ASSUME NEW u \in Users, NEW k \in Keys, NEW choice \in Choices,
             ApproveBegin(u, k, choice)
      PROVE  Loaded' /\ DecisionsStay
  <2> DEFINE state == [IdleUser EXCEPT !.key = k, !.choice = choice,
           !.op = IF choice = "always" THEN "stage_load" ELSE "resolving"]
  <2>1. state.op \notin Publishing
    BY <1>0
  <2>2. Goto(u, state) /\ UNCHANGED trust
    BY <1>1 DEF ApproveBegin
  <2> HIDE DEF state
  <2> QED
    BY <2>1, <2>2, GotoLoaded
<1>2. ASSUME NEW u \in Users, StageLoad(u)
      PROVE  Loaded' /\ DecisionsStay
  <2>1. PICK state : /\ Goto(u, state)
                     /\ state.op \in Publishing =>
                          /\ state.base = trust
                          /\ state.op # "reset_publish"
                          /\ state.base.rules[state.key] # "revoked"
    <3> DEFINE staged == [user[u] EXCEPT !.op = "stage_publish", !.base = trust]
    <3>1. /\ [user[u] EXCEPT !.op = "resolving"].op = "resolving"
          /\ staged.op = "stage_publish" /\ staged.base = trust
          /\ staged.key = user[u].key
      BY <1>0 DEF UserState
    <3>2. CASE trust.rules[user[u].key] = "active"
      BY <1>2, <3>1, <3>2 DEF StageLoad
    <3>3. CASE trust.rules[user[u].key] = "revoked"
      BY <1>0, <1>2, <3>3 DEF StageLoad
    <3>4. CASE trust.rules[user[u].key] \notin {"active", "revoked"}
      <4>1. Goto(u, staged)
        BY <1>2, <3>4 DEF StageLoad
      <4> QED
        BY <3>1, <3>4, <4>1
    <3> QED
      BY <3>2, <3>3, <3>4
  <2> QED
    BY <1>2, <2>1, GotoLoaded DEF StageLoad
<1>3. ASSUME NEW u \in Users, StagePublish(u)
      PROVE  Loaded' /\ DecisionsStay
  <2> DEFINE policy == [user[u].base EXCEPT !.rules[user[u].key] = "active"]
             next == [user[u] EXCEPT !.op = "resolving", !.base = InitialPolicy]
  <2>1. policy \in Policy /\ next.op = "resolving"
    BY <1>0 DEF UserState, Policy, RuleStatus
  <2>2. Publish(u, policy, next) /\ user[u].op = "stage_publish"
    BY <1>3 DEF StagePublish
  <2>3. /\ policy.cutoff >= user[u].base.cutoff
        /\ policy.denied = user[u].base.denied /\ policy.mode = user[u].base.mode
    BY <1>0 DEF UserState, Policy
  <2>4. user[u].base.rules[user[u].key] # "revoked"
    BY <2>2 DEF Loaded
  <2>5. \A k \in Keys : user[u].base.rules[k] = "revoked" =>
                           policy.rules[k] = "revoked"
    BY <1>0, <2>4 DEF UserState, Policy
  <2> HIDE DEF policy, next
  <2> QED
    BY <2>1, <2>2, <2>3, <2>5, PublishLoaded
<1>4. ASSUME NEW u \in Users, ApproveResolve(u)
      PROVE  Loaded' /\ DecisionsStay
  BY <1>0, <1>4, GotoLoaded DEF ApproveResolve
<1>5. ASSUME NEW u \in Users, NEW k \in Keys,
             DenyRequest(u, k) \/ UserRevokesGrant(u, k)
      PROVE  Loaded' /\ DecisionsStay
  BY <1>5, <1>S DEF DenyRequest, UserRevokesGrant
<1>6. ASSUME NEW u \in Users,
             \/ \E r \in Keys : RevokeRuleLoad(u, r)
             \/ \E s \in Scopes : RevokeDenyLoad(u, s)
      PROVE  Loaded' /\ DecisionsStay
  <2>1. PICK state : /\ Goto(u, state)
                     /\ state.op = "rule_publish" /\ state.base = trust
    <3>1. /\ \A r \in Keys :
               LET state == [IdleUser EXCEPT !.op = "rule_publish", !.key = r,
                                             !.base = trust]
               IN  state.op = "rule_publish" /\ state.base = trust
          /\ \A s \in Scopes :
               LET state == [IdleUser EXCEPT !.op = "rule_publish", !.lifted = {s},
                                             !.base = trust]
               IN  state.op = "rule_publish" /\ state.base = trust
      BY <1>0
    <3> QED
      BY <1>6, <3>1 DEF RevokeRuleLoad, RevokeDenyLoad
  <2>2. UNCHANGED trust
    BY <1>6 DEF RevokeRuleLoad, RevokeDenyLoad
  <2> QED
    BY <2>1, <2>2, GotoLoaded
<1>7. ASSUME NEW u \in Users, RevokeRulePublish(u)
      PROVE  Loaded' /\ DecisionsStay
  <2> DEFINE policy == [user[u].base EXCEPT
                   !.rules = [k \in Keys |-> IF k = user[u].key THEN "revoked"
                                             ELSE @[k]],
                   !.denied = @ \ user[u].lifted]
  <2>0. user[u].base \in Policy
    BY <1>0 DEF UserState
  <2>1. policy \in Policy
    <3>1. /\ [k \in Keys |-> IF k = user[u].key THEN "revoked"
                             ELSE user[u].base.rules[k]] \in [Keys -> RuleStatus]
          /\ user[u].base.denied \ user[u].lifted \in SUBSET Scopes
      BY <2>0 DEF Policy, RuleStatus
    <3> QED
      BY <2>0, <3>1 DEF Policy
  <2>2. Publish(u, policy, IdleUser) /\ user[u].op = "rule_publish"
    BY <1>7 DEF RevokeRulePublish
  <2>3. /\ policy.cutoff >= user[u].base.cutoff
        /\ user[u].base.denied \ policy.denied \subseteq user[u].lifted
        /\ policy.mode = user[u].base.mode
        /\ \A k \in Keys : user[u].base.rules[k] = "revoked" =>
                             policy.rules[k] = "revoked"
    BY <2>0 DEF Policy
  <2> HIDE DEF policy
  <2> QED
    BY <1>0, <2>1, <2>2, <2>3, PublishLoaded
<1>8. ASSUME NEW u \in Users, ResetLoad(u)
      PROVE  Loaded' /\ DecisionsStay
  <2>1. ResetTimes \subseteq Nat
    BY <1>0 DEF ResetTimes, StoreTypeOK, Grant, Policy
  <2>2. PICK cutoff \in ResetTimes :
          /\ \A t \in ResetTimes : t <= cutoff
          /\ Goto(u, [IdleUser EXCEPT !.op = "reset_publish", !.base = trust,
                        !.cutoff = cutoff,
                        !.todo = {g \in Keys : Issued(g) /\ ~grants[g].revoked}])
    BY <1>8 DEF ResetLoad
  <2>3. cutoff >= trust.cutoff
    <3>1. CASE trust.cutoff = NoCutoff
      BY <2>1, <3>1 DEF NoCutoff
    <3>2. CASE trust.cutoff # NoCutoff
      <4>1. trust.cutoff + 1 \in ResetTimes
        BY <3>2 DEF ResetTimes
      <4> QED
        BY <1>0, <2>1, <2>2, <4>1 DEF Policy
    <3> QED
      BY <3>1, <3>2
  <2> DEFINE state == [IdleUser EXCEPT !.op = "reset_publish", !.base = trust,
                        !.cutoff = cutoff,
                        !.todo = {g \in Keys : Issued(g) /\ ~grants[g].revoked}]
  <2>4. state.op = "reset_publish" /\ state.base = trust /\ state.cutoff = cutoff
    BY <1>0
  <2>5. Goto(u, state) /\ UNCHANGED trust
    BY <1>8, <2>2 DEF ResetLoad
  <2> HIDE DEF state
  <2> QED
    BY <2>3, <2>4, <2>5, GotoLoaded
<1>9. ASSUME NEW u \in Users, ResetPublish(u)
      PROVE  Loaded' /\ DecisionsStay
  <2> DEFINE policy == [user[u].base EXCEPT
                   !.rules = [k \in Keys |-> IF @[k] = "active" THEN "revoked"
                                             ELSE @[k]],
                   !.denied = {}, !.cutoff = user[u].cutoff]
             next == IF user[u].todo = {} THEN IdleUser
                     ELSE [IdleUser EXCEPT !.op = "reset_grants",
                                           !.todo = user[u].todo]
  <2>1. policy \in Policy
    <3>1. user[u].base \in Policy /\ user[u].cutoff \in Nat
      BY <1>0 DEF UserState
    <3>2. [k \in Keys |-> IF user[u].base.rules[k] = "active" THEN "revoked"
                          ELSE user[u].base.rules[k]] \in [Keys -> RuleStatus]
      BY <3>1 DEF Policy, RuleStatus
    <3> QED
      BY <3>1, <3>2 DEF Policy
  <2>2. next.op \notin Publishing
    BY <1>0
  <2>3. Publish(u, policy, next) /\ user[u].op = "reset_publish"
    BY <1>9 DEF ResetPublish
  <2>4. user[u].cutoff >= user[u].base.cutoff
    BY <2>3 DEF Loaded
  <2>5. /\ policy.cutoff >= user[u].base.cutoff
        /\ policy.mode = user[u].base.mode
        /\ \A k \in Keys : user[u].base.rules[k] = "revoked" =>
                             policy.rules[k] = "revoked"
    BY <1>0, <2>4 DEF UserState, Policy
  <2> HIDE DEF policy, next
  <2> QED
    BY <2>1, <2>2, <2>3, <2>5, PublishLoaded
<1>10. ASSUME NEW u \in Users, NEW g \in Keys, ResetGrant(u, g)
       PROVE  Loaded' /\ DecisionsStay
  <2>1. PICK state : Goto(u, state) /\ state.op \notin Publishing
    <3>1. [user[u] EXCEPT !.todo = @ \ {g}].op = "reset_grants"
      BY <1>0, <1>10 DEF ResetGrant, UserState
    <3> QED
      BY <1>0, <1>10, <3>1 DEF ResetGrant
  <2> QED
    BY <1>10, <2>1, GotoLoaded DEF ResetGrant
<1>11. ASSUME NEW u \in Users, ConfigureLoad(u)
       PROVE  Loaded' /\ DecisionsStay
  <2> DEFINE state == [IdleUser EXCEPT !.op = "configure", !.base = trust]
  <2>1. state.op = "configure" /\ state.base = trust
    BY <1>0
  <2>2. Goto(u, state) /\ UNCHANGED trust
    BY <1>11 DEF ConfigureLoad
  <2> HIDE DEF state
  <2> QED
    BY <2>1, <2>2, GotoLoaded
<1>12. ASSUME NEW u \in Users, ConfigurePublish(u)
       PROVE  Loaded' /\ DecisionsStay
  <2> DEFINE policy == [user[u].base EXCEPT !.mode =
                          IF @ = "safe" THEN "balanced" ELSE "safe"]
  <2>1. policy \in Policy
    BY <1>0 DEF UserState, Policy
  <2>2. Publish(u, policy, IdleUser) /\ user[u].op = "configure"
    BY <1>12 DEF ConfigurePublish
  <2>3. /\ policy.cutoff >= user[u].base.cutoff
        /\ policy.denied = user[u].base.denied
        /\ policy.rules = user[u].base.rules
    BY <1>0 DEF UserState, Policy
  <2> HIDE DEF policy
  <2> QED
    BY <1>0, <2>1, <2>2, <2>3, PublishLoaded
<1>13. ASSUME NEW u \in Users, UserCrash(u)
       PROVE  Loaded' /\ DecisionsStay
  BY <1>0, <1>13, GotoLoaded DEF UserCrash
<1>14. ASSUME NEW s \in Scopes, WriteDenyRule(s)
       PROVE  Loaded' /\ DecisionsStay
  <2>1. /\ trust'.rev = trust.rev + 1 /\ trust'.cutoff = trust.cutoff
        /\ trust'.denied = trust.denied \cup {s} /\ trust'.rules = trust.rules
        /\ trust'.mode = trust.mode /\ user' = user
    BY <1>0, <1>14 DEF WriteDenyRule, Policy
  <2>2. /\ trust.rev \in Nat /\ trust.cutoff \in Nat
        /\ \A u \in Users : user[u].base.rev \in Nat
    BY <1>0 DEF UserState, Policy
  <2> QED
    BY <2>1, <2>2 DEF Loaded, DecisionsStay
<1> QED
  BY <1>1, <1>2, <1>3, <1>4, <1>5, <1>6, <1>7, <1>8, <1>9, <1>10, <1>11,
     <1>12, <1>13, <1>14 DEF PolicyNext

LEMMA LoadedStep ==
  ASSUME TypeOK, Loaded, [Next]_vars
  PROVE  Loaded' /\ DecisionsStay
<1>1. StoreTypeOK /\ PolicyTypeOK
  BY DEF TypeOK
<1>2. PolicyNext \/ UNCHANGED policyVars
  BY ZenonT(60) DEF Next, vars, Cancel, Recover, Tick, RequestTool, ExecuteStep, FindIntent,
         LoadPolicy, Decide, DenyReserve, DenyMark, CheckRequest, ConsumeGrant,
         Pause, ConsumeMatching, ReserveByRule, Reserve, Claim, LostClaim,
         Execute, Complete, DriverStep, Resume, SaveAdopted, SaveResumed,
         BeginAgent, Checkpoint, SaveCheckpoint, StartAgent, AgentCompletes,
         AgentFails, ReadForReport, SaveReport, LeaveStage, AdvanceStage,
         RejectVerdict, AgentStops, RejectRun, FailRun, SaveFailed, Crash,
         SetAgent
<1>3. CASE UNCHANGED policyVars
  BY <1>1, <1>3 DEF policyVars, Loaded, DecisionsStay, PolicyTypeOK, Policy
<1> QED
  BY <1>1, <1>2, <1>3, PolicyKeepsDecisions

LEMMA LoadedInvariant == Spec => []Loaded
<1>1. Init => Loaded
  BY DEF Init, PolicyInit, IdleUser, Loaded, Publishing
<1>2. TypeOK /\ Loaded /\ [Next]_vars => Loaded'
  BY LoadedStep
<1> QED
  BY <1>1, <1>2, TypeCorrect, PTL DEF Spec

\* No command that loaded an earlier revision of the policy file takes back
\* what the user decided since: a revoked rule and the cutoff of a reset stay,
\* a deny rule written since is lifted, and the trust mode changed, only by a
\* reset, a revocation or a configure that read the policy it replaces.
THEOREM PolicyDecisionsStay == Spec => NoPolicyUpdateIsLost
<1>1. TypeOK /\ Loaded /\ [Next]_vars => [DecisionsStay]_trust
  BY LoadedStep
<1> QED
  BY <1>1, TypeCorrect, LoadedInvariant, PTL DEF Spec, NoPolicyUpdateIsLost

-----------------------------------------------------------------------------
(* What the store's rows say of one another.                               *)

\* A request exists only with its intent and a grant only with its approved
\* request; a claimed intent does not wait for an approval.
Requested ==
  \A k \in Keys :
    /\ Absent(k) => requests[k].status = "none" /\ k \notin claims
    /\ k \in claims => intents[k].status # "pending_approval"
    /\ intents[k].status = "pending_approval" => intents[k].request = k
    /\ requests[k].status # "approved" => grants[k].choice = "none"
    /\ grants[k].choice # "none" => requests[k].choice = grants[k].choice
    /\ grants[k].choice = "once" => grants[k].uses \in {0, 1}

\* What no operation of the store takes back.
Lasting ==
  /\ claims \subseteq claims'
  /\ \A k \in Keys :
       /\ requests[k].status = "approved" =>
            requests'[k].status = "approved" /\ requests'[k].choice = requests[k].choice
       /\ ~Absent(k) => /\ ~Absent(k)'
                        /\ intents'[k].request = intents[k].request
                        /\ intents'[k].rule = intents[k].rule
       /\ grants[k].choice # "none" => grants'[k].choice = grants[k].choice
       /\ grants[k].choice = "once" /\ grants[k].uses = 0 => grants'[k].uses = 0

\* The operations of the store.
StoreOp ==
  \/ \E row0 : SaveRun(row0)
  \/ \E a, s : SaveAgent(a, s)
  \/ \E k \in Keys : \E a :
       \/ ReserveIntent(k, a) \/ CreateApprovalAndPause(k, a)
       \/ \E g : \/ ConsumeMatchingGrantAndReserve(g, k, a)
                 \/ ReserveTrustRuleIntent(g, k, a)
  \/ \E k \in Keys :
       \/ ConsumeGrantAndReserve(k) \/ ClaimForDispatch(k) \/ CompleteIntent(k)
       \/ DenyIntent(k) \/ ResolveDenied(k) \/ RevokeGrant(k)
  \/ \E k \in Keys \cup {NoKey}, choice \in Choices \cup {"none"} :
       ResolveApproved(k, choice)
  \/ UNCHANGED <<run, agents, intents, requests, grants, claims>>

LEMMA TakeUse ==
  ASSUME StoreTypeOK, Requested, NEW g \in Keys \cup {NoKey}, HasUse(g),
         grants' = UseTaken(g)
  PROVE  \A k \in Keys :
           /\ grants'[k].choice = grants[k].choice
           /\ k # g => grants'[k] = grants[k]
           /\ k = g /\ grants[k].choice = "once" => grants'[k].uses = 0
           /\ grants[k].choice = "once" /\ grants[k].uses = 0 => grants'[k].uses = 0
<1> SUFFICES ASSUME NEW k \in Keys
             PROVE  /\ grants'[k].choice = grants[k].choice
                    /\ k # g => grants'[k] = grants[k]
                    /\ k = g /\ grants[k].choice = "once" => grants'[k].uses = 0
                    /\ grants[k].choice = "once" /\ grants[k].uses = 0 => grants'[k].uses = 0
  OBVIOUS
<1>1. CASE k # g
  BY <1>1 DEF UseTaken, StoreTypeOK
<1>2. CASE k = g
  <2>1. /\ grants'[k].choice = grants[k].choice
        /\ grants[k].uses # Never => grants'[k].uses = grants[k].uses - 1
    BY <1>2 DEF UseTaken, StoreTypeOK, Grant
  <2>2. grants[k].choice = "once" => grants[k].uses = 1
    BY <1>2 DEF Requested, HasUse
  <2> QED
    BY <1>2, <2>1, <2>2, KeysAssumption
<1> QED
  BY <1>1, <1>2

LEMMA RequestedOp ==
  ASSUME StoreTypeOK, Requested, StoreOp
  PROVE  Requested' /\ Lasting
<1>1. CASE \/ \E row0 : SaveRun(row0)
           \/ \E a, s : SaveAgent(a, s)
           \/ UNCHANGED <<run, agents, intents, requests, grants, claims>>
  <2>1. UNCHANGED <<intents, requests, grants, claims>>
    BY <1>1 DEF SaveRun, SaveAgent
  <2> QED
    BY <2>1 DEF Requested, Lasting, Absent
<1>2. ASSUME NEW k \in Keys, NEW a, ReserveIntent(k, a)
      PROVE  Requested' /\ Lasting
  BY <1>2 DEF ReserveIntent, Requested, Lasting, Absent, NewIntent, StoreTypeOK
<1>3. ASSUME NEW k \in Keys, NEW a, CreateApprovalAndPause(k, a)
      PROVE  Requested' /\ Lasting
  <2>1. CASE Absent(k)
    <3>1. /\ intents' = [intents EXCEPT ![k] = NewIntent("pending_approval", a, k, NoKey)]
          /\ requests' = [requests EXCEPT ![k] =
              [status |-> "pending", choice |-> "none",
               expires |-> clock + ApprovalTTL]]
          /\ UNCHANGED <<grants, claims>>
      BY <1>3, <2>1 DEF CreateApprovalAndPause
    <3>2. /\ intents'[k].status = "pending_approval" /\ intents'[k].request = k
          /\ requests'[k].status = "pending"
          /\ \A j \in Keys \ {k} : intents'[j] = intents[j] /\ requests'[j] = requests[j]
      BY <3>1 DEF NewIntent, StoreTypeOK
    <3>3. k \notin claims /\ requests[k].status = "none" /\ grants[k].choice = "none"
      BY <2>1 DEF Requested
    <3> QED
      BY <2>1, <3>1, <3>2, <3>3 DEF Requested, Lasting, Absent
  <2>2. CASE ~Absent(k)
    BY <1>3, <2>2 DEF CreateApprovalAndPause, storeVars, Requested, Lasting, Absent
  <2> QED
    BY <2>1, <2>2
<1>4. ASSUME NEW k \in Keys, NEW a, NEW g, ConsumeMatchingGrantAndReserve(g, k, a)
      PROVE  Requested' /\ Lasting
  <2>1. /\ Absent(k) /\ HasUse(g) /\ grants' = UseTaken(g)
        /\ UNCHANGED <<requests, claims>>
        /\ intents' = [intents EXCEPT ![k] = NewIntent("reserved", a, g, NoKey)]
    BY <1>4 DEF ConsumeMatchingGrantAndReserve, CanConsumeMatching
  <2>2. \A j \in Keys :
           /\ grants'[j].choice = grants[j].choice
           /\ grants[j].choice = "once" /\ grants[j].uses = 0 => grants'[j].uses = 0
           /\ grants[j].choice = "once" => grants'[j].uses \in {0, 1}
    <3>1. CASE g \in Keys \cup {NoKey}
      BY <2>1, <3>1, TakeUse DEF Requested
    <3>2. CASE g \notin Keys \cup {NoKey}
      BY <2>1, <3>2 DEF UseTaken, StoreTypeOK, Requested
    <3> QED
      BY <3>1, <3>2
  <2>3. /\ intents'[k].status = "reserved"
        /\ \A j \in Keys \ {k} : intents'[j] = intents[j]
    BY <2>1 DEF NewIntent, StoreTypeOK
  <2> QED
    BY <2>1, <2>2, <2>3 DEF Requested, Lasting, Absent
<1>5. ASSUME NEW k \in Keys, NEW a, NEW g, ReserveTrustRuleIntent(g, k, a)
      PROVE  Requested' /\ Lasting
  BY <1>5 DEF ReserveTrustRuleIntent, CanReserveByRule, Requested, Lasting, Absent,
              NewIntent, StoreTypeOK
<1>6. ASSUME NEW k \in Keys, ConsumeGrantAndReserve(k)
      PROVE  Requested' /\ Lasting
  <2>1. CASE intents[k].status = "pending_approval"
    <3>1. /\ HasUse(k) /\ grants' = UseTaken(k) /\ UNCHANGED <<requests, claims>>
          /\ intents' = [intents EXCEPT ![k].status = "reserved"]
      BY <1>6, <2>1 DEF ConsumeGrantAndReserve, CanConsume
    <3>2. \A j \in Keys :
           /\ grants'[j].choice = grants[j].choice
           /\ grants[j].choice = "once" /\ grants[j].uses = 0 => grants'[j].uses = 0
           /\ grants[j].choice = "once" => grants'[j].uses \in {0, 1}
      BY <3>1, TakeUse DEF Requested
    <3>3. /\ intents'[k].status = "reserved"
          /\ intents'[k].request = intents[k].request
          /\ intents'[k].rule = intents[k].rule
          /\ \A j \in Keys \ {k} : intents'[j] = intents[j]
      BY <3>1 DEF StoreTypeOK, Intent
    <3> QED
      BY <2>1, <3>1, <3>2, <3>3 DEF Requested, Lasting, Absent
  <2>2. CASE intents[k].status # "pending_approval"
    BY <1>6, <2>2 DEF ConsumeGrantAndReserve, Requested, Lasting, Absent
  <2> QED
    BY <2>1, <2>2
<1>7. ASSUME NEW k \in Keys, ClaimForDispatch(k)
      PROVE  Requested' /\ Lasting
  BY <1>7 DEF ClaimForDispatch, CanClaim, Requested, Lasting, Absent
<1>8. ASSUME NEW k \in Keys, CompleteIntent(k) \/ DenyIntent(k)
      PROVE  Requested' /\ Lasting
  <2>1. /\ UNCHANGED <<requests, grants, claims>>
        /\ intents'[k].status \in {"executed", "denied"}
        /\ intents'[k].request = intents[k].request
        /\ intents'[k].rule = intents[k].rule
        /\ \A j \in Keys \ {k} : intents'[j] = intents[j]
    BY <1>8 DEF CompleteIntent, DenyIntent, StoreTypeOK, Intent
  <2> QED
    BY <2>1 DEF Requested, Lasting, Absent
<1>9. ASSUME NEW k \in Keys, ResolveDenied(k)
      PROVE  Requested' /\ Lasting
  <2>1. /\ requests[k].status = "pending" /\ intents[k].status = "pending_approval"
        /\ UNCHANGED <<grants, claims>>
        /\ requests'[k].status = "denied" /\ requests'[k].choice = requests[k].choice
        /\ intents'[k].status = "denied"
        /\ intents'[k].request = intents[k].request
        /\ intents'[k].rule = intents[k].rule
        /\ \A j \in Keys \ {k} : intents'[j] = intents[j] /\ requests'[j] = requests[j]
    BY <1>9 DEF ResolveDenied, CanResolve, StoreTypeOK, Intent, Request
  <2> QED
    BY <2>1 DEF Requested, Lasting, Absent
<1>10. ASSUME NEW k \in Keys, RevokeGrant(k)
       PROVE  Requested' /\ Lasting
  <2>1. /\ UNCHANGED <<intents, requests, claims>>
        /\ grants'[k].choice = grants[k].choice /\ grants'[k].uses = grants[k].uses
        /\ \A j \in Keys \ {k} : grants'[j] = grants[j]
    BY <1>10 DEF RevokeGrant, StoreTypeOK, Grant
  <2> QED
    BY <2>1 DEF Requested, Lasting, Absent
<1>11. ASSUME NEW k \in Keys \cup {NoKey}, NEW choice \in Choices \cup {"none"},
              ResolveApproved(k, choice)
       PROVE  Requested' /\ Lasting
  <2>1. CASE k \in Keys
    <3>1. /\ requests[k].status = "pending" /\ intents[k].status = "pending_approval"
          /\ UNCHANGED <<intents, claims>>
          /\ requests'[k].status = "approved" /\ requests'[k].choice = choice
          /\ grants'[k].choice = choice
          /\ grants'[k].uses = IF choice = "once" THEN 1 ELSE Never
          /\ \A j \in Keys \ {k} : requests'[j] = requests[j] /\ grants'[j] = grants[j]
      BY <1>11, <2>1 DEF ResolveApproved, CanApprove, CanResolve, StoreTypeOK, Request
    <3>2. grants[k].choice = "none"
      BY <2>1, <3>1 DEF Requested
    <3> QED
      BY <2>1, <3>1, <3>2 DEF Requested, Lasting, Absent
  <2>2. CASE k \notin Keys
    <3>1. UNCHANGED <<intents, requests, grants, claims>>
      BY <1>11, <2>2 DEF ResolveApproved, StoreTypeOK
    <3> QED
      BY <3>1 DEF Requested, Lasting, Absent
  <2> QED
    BY <2>1, <2>2
<1> QED
  BY <1>1, <1>2, <1>3, <1>4, <1>5, <1>6, <1>7, <1>8, <1>9, <1>10, <1>11 DEF StoreOp

\* Every step of the system is an operation of the store or leaves its rows.
LEMMA CallKey ==
  ASSUME TypeOK, NEW d \in Drivers, NEW label \in GatewayPC, At(d, label)
  PROVE  call[d].key \in Keys
BY DEF TypeOK, DriverTypeOK, At

LEMMA EveryStepIsAStoreOp == TypeOK /\ [Next]_vars => StoreOp
<1> SUFFICES ASSUME TypeOK, [Next]_vars PROVE StoreOp
  OBVIOUS
<1>S. UNCHANGED storeVars => StoreOp
  BY DEF StoreOp, storeVars
<1>1. ASSUME NEW d \in Drivers, ExecuteStep(d)
      PROVE  StoreOp
  <2>1. CASE FindIntent(d) \/ LoadPolicy(d) \/ Decide(d) \/ CheckRequest(d)
             \/ LostClaim(d) \/ Execute(d)
    BY <2>1, <1>S DEF FindIntent, LoadPolicy, Decide, CheckRequest, LostClaim, Execute
  <2>2. CASE DenyReserve(d) \/ DenyMark(d)
    BY <2>2, <1>S, CallKey DEF DenyReserve, DenyMark, StoreOp, GatewayPC
  <2>3. CASE ConsumeGrant(d) \/ Pause(d)
    BY <2>3, <1>S, CallKey DEF ConsumeGrant, Pause, StoreOp, GatewayPC
  <2>4. CASE ConsumeMatching(d) \/ ReserveByRule(d) \/ Reserve(d)
    BY <2>4, <1>S, CallKey DEF ConsumeMatching, ReserveByRule, Reserve, StoreOp, GatewayPC
  <2>5. CASE Claim(d) \/ Complete(d)
    BY <2>5, <1>S, CallKey DEF Claim, Complete, StoreOp, GatewayPC
  <2> QED
    BY <1>1, <2>1, <2>2, <2>3, <2>4, <2>5 DEF ExecuteStep
<1>2. ASSUME NEW d \in Drivers, (\E k \in Keys : RequestTool(d, k)) \/ DriverStep(d)
      PROVE  StoreOp
  BY <1>2, <1>S
     DEF StoreOp, RequestTool, DriverStep, Resume, SaveAdopted, SaveResumed, BeginAgent,
         Checkpoint, SaveCheckpoint, StartAgent, AgentCompletes, AgentFails,
         ReadForReport, SaveReport, LeaveStage, AdvanceStage, RejectVerdict,
         AgentStops, RejectRun, FailRun, SaveFailed, Crash, SetAgent, SaveCopy,
         SaveLast
<1>3. ASSUME PolicyNext
      PROVE  StoreOp
  <2>1. ASSUME NEW u \in Users, ApproveResolve(u)
        PROVE  StoreOp
    <3>1. /\ user[u].key \in Keys \cup {NoKey}
          /\ user[u].choice \in Choices \cup {"none"}
      BY DEF TypeOK, PolicyTypeOK
    <3> QED
      BY <2>1, <3>1, <1>S DEF ApproveResolve, StoreOp
  <2>2. ASSUME NEW u \in Users, NEW k \in Keys,
               DenyRequest(u, k) \/ UserRevokesGrant(u, k) \/ ResetGrant(u, k)
        PROVE  StoreOp
    BY <2>2 DEF DenyRequest, UserRevokesGrant, ResetGrant, StoreOp
  <2> QED
    BY <1>3, <1>S, <2>1, <2>2
       DEF PolicyNext, ApproveBegin, StageLoad, StagePublish, RevokeRuleLoad,
           RevokeDenyLoad, RevokeRulePublish, ResetLoad, ResetPublish, ConfigureLoad,
           ConfigurePublish, WriteDenyRule, UserCrash
<1>4. Cancel \/ Recover \/ Tick \/ UNCHANGED vars => StoreOp
  BY <1>S DEF StoreOp, Cancel, Recover, Tick, vars
<1> QED
  BY <1>1, <1>2, <1>3, <1>4 DEF Next

LEMMA InitRequested == Init => Requested
BY DEF Init, StoreInit, Requested, Absent, NoIntent, NewIntent, NoRequest, NoGrant

LEMMA RequestedStep ==
  ASSUME TypeOK, Requested, [Next]_vars
  PROVE  Requested' /\ Lasting
BY EveryStepIsAStoreOp, RequestedOp DEF TypeOK

LEMMA RequestedInvariant == Spec => []Requested
<1>1. TypeOK /\ Requested /\ [Next]_vars => Requested'
  BY RequestedStep
<1> QED
  BY <1>1, InitRequested, TypeCorrect, PTL DEF Spec

\* An operation that reserves an intent under a request reads the grant.
LEMMA ReservingOp ==
  ASSUME StoreTypeOK, Requested, StoreOp
  PROVE  ReservedIsActive
<1> SUFFICES ASSUME NEW k \in Keys,
                    intents[k].status \notin {"reserved", "executed"},
                    intents'[k].status = "reserved", intents'[k].request # NoKey
             PROVE  ~grants[intents'[k].request].revoked
                      /\ ~Expired(intents'[k].request)
  BY DEF ReservedIsActive
<1>1. ASSUME NEW j \in Keys, NEW a, ReserveIntent(j, a) \/ CreateApprovalAndPause(j, a)
      PROVE  FALSE
  BY <1>1 DEF ReserveIntent, CreateApprovalAndPause, NewIntent, StoreTypeOK, storeVars
<1>2. ASSUME NEW j \in Keys, NEW a, NEW g, ConsumeMatchingGrantAndReserve(g, j, a)
      PROVE  ~grants[intents'[k].request].revoked /\ ~Expired(intents'[k].request)
  BY <1>2 DEF ConsumeMatchingGrantAndReserve, CanConsumeMatching, GrantIsActive,
              NewIntent, StoreTypeOK
<1>3. ASSUME NEW j \in Keys, NEW a, NEW g, ReserveTrustRuleIntent(g, j, a)
      PROVE  FALSE
  BY <1>3 DEF ReserveTrustRuleIntent, NewIntent, StoreTypeOK
<1>4. ASSUME NEW j \in Keys, ConsumeGrantAndReserve(j)
      PROVE  ~grants[intents'[k].request].revoked /\ ~Expired(intents'[k].request)
  <2>1. /\ GrantIsActive(j, j) /\ j = k /\ intents[k].status = "pending_approval"
        /\ intents'[k].request = intents[k].request
    BY <1>4 DEF ConsumeGrantAndReserve, CanConsume, StoreTypeOK, Intent
  <2>2. intents[k].request = k
    BY <2>1 DEF Requested
  <2> QED
    BY <2>1, <2>2 DEF GrantIsActive
<1>5. ASSUME NEW j \in Keys,
             \/ ClaimForDispatch(j) \/ CompleteIntent(j) \/ DenyIntent(j)
             \/ ResolveDenied(j) \/ RevokeGrant(j)
      PROVE  FALSE
  BY <1>5 DEF ClaimForDispatch, CompleteIntent, DenyIntent, ResolveDenied,
              RevokeGrant, StoreTypeOK, Intent
<1>6. CASE \/ \E row0 : SaveRun(row0)
           \/ \E a, s : SaveAgent(a, s)
           \/ \E j \in Keys \cup {NoKey}, choice \in Choices \cup {"none"} :
                ResolveApproved(j, choice)
           \/ UNCHANGED <<run, agents, intents, requests, grants, claims>>
  BY <1>6 DEF SaveRun, SaveAgent, ResolveApproved
<1> QED
  BY <1>1, <1>2, <1>3, <1>4, <1>5, <1>6 DEF StoreOp

\* A grant the user revoked, or that expired, between the decision to use it
\* and the reservation reserves nothing.
THEOREM RevokedIsInert == Spec => RevokedGrantReservesNothing
<1>1. TypeOK /\ Requested /\ [Next]_vars => [ReservedIsActive]_vars
  BY EveryStepIsAStoreOp, ReservingOp DEF TypeOK
<1> QED
  BY <1>1, TypeCorrect, RequestedInvariant, PTL DEF Spec, RevokedGrantReservesNothing

-----------------------------------------------------------------------------
(* What is dispatched was authorized.                                      *)

Held(k) == intents[k].status \in {"reserved", "executed"} \/ k \in claims
Always(r, k) == /\ requests[r].status = "approved" /\ requests[r].choice = "always"
                /\ KeyScope[r] = KeyScope[k]
Approves(a, k) == /\ requests[a].status = "approved" /\ KeyScope[a] = KeyScope[k]
                  /\ a # k => requests[a].choice # "once"
Approved(k) == \E a \in Keys : Approves(a, k)

\* An intent that is held under a request used a grant that allowed it, and a
\* one-use grant is spent by its own call; the rule of an intent was approved.
\* The fixture that always asks is claimed only if its scope was approved: an
\* intent of it recorded as denied holds neither, and stays when its driver
\* dies before it is marked, so the decision to claim it has to show that.
AuthorizedKey(k) ==
  /\ Held(k) /\ intents[k].request # NoKey =>
       LET g == intents[k].request
       IN /\ requests[g].status = "approved" /\ KeyScope[g] = KeyScope[k]
          /\ grants[g].choice # "none"
          /\ grants[g].choice = "once" => g = k /\ grants[g].uses = 0
  /\ intents[k].rule # NoKey => Always(intents[k].rule, k)
  /\ k \in claims /\ KeyAction[k] = "probe" => Approved(k)

Authorized == \A k \in Keys : AuthorizedKey(k)

\* The operations of the store, called as the gateway calls them.
PermittedOp ==
  \/ \E row0 : SaveRun(row0)
  \/ \E a, s : SaveAgent(a, s)
  \/ \E k \in Keys : \E a :
       \/ ReserveIntent(k, a)
       \/ CreateApprovalAndPause(k, a)
       \/ \E g \in Keys :
            \/ ConsumeMatchingGrantAndReserve(g, k, a)
            \/ ReserveTrustRuleIntent(g, k, a) /\ Always(g, k)
  \/ \E k \in Keys :
       \/ ConsumeGrantAndReserve(k)
       \/ ClaimForDispatch(k) /\ (KeyAction[k] = "probe" => Approved(k))
       \/ CompleteIntent(k) /\ k \in claims
       \/ DenyIntent(k) /\ ~Absent(k)
       \/ ResolveDenied(k) \/ RevokeGrant(k)
  \/ \E k \in Keys \cup {NoKey}, choice \in Choices \cup {"none"} :
       ResolveApproved(k, choice)
  \/ UNCHANGED <<run, agents, intents, requests, grants, claims>>

\* An approval lasts.
LEMMA ApprovedLasts ==
  ASSUME Lasting, NEW k, Approved(k)
  PROVE  Approved(k)'
<1>1. PICK a \in Keys : Approves(a, k)
  BY DEF Approved
<1>2. Approves(a, k)'
  BY <1>1 DEF Approves, Lasting
<1> QED
  BY <1>2 DEF Approved

\* An intent that is not newly held keeps its authorization.
LEMMA AuthorizedKept ==
  ASSUME StoreTypeOK, Lasting, NEW k \in Keys, AuthorizedKey(k),
         intents'[k].request = intents[k].request,
         intents'[k].rule = intents[k].rule,
         Held(k)' => Held(k),
         k \in claims' => k \in claims
  PROVE  AuthorizedKey(k)'
<1>1. /\ intents[k].request # NoKey => intents[k].request \in Keys
      /\ intents[k].rule # NoKey => intents[k].rule \in Keys
  BY DEF StoreTypeOK, Intent
<1>2. ASSUME Held(k)', intents'[k].request # NoKey
      PROVE  LET g == intents'[k].request
             IN /\ requests'[g].status = "approved" /\ KeyScope[g] = KeyScope[k]
                /\ grants'[g].choice # "none"
                /\ grants'[g].choice = "once" => g = k /\ grants'[g].uses = 0
  BY <1>1, <1>2 DEF AuthorizedKey, Lasting
<1>3. intents'[k].rule # NoKey => Always(intents[k].rule, k)'
  BY <1>1 DEF AuthorizedKey, Lasting, Always
<1>4. k \in claims' /\ KeyAction[k] = "probe" => Approved(k)'
  BY ApprovedLasts DEF AuthorizedKey
<1> QED
  BY <1>2, <1>3, <1>4 DEF AuthorizedKey, Always

LEMMA AuthorizedOp ==
  ASSUME StoreTypeOK, Requested, Lasting, Authorized, PermittedOp
  PROVE  Authorized'
<1> SUFFICES ASSUME NEW k \in Keys PROVE AuthorizedKey(k)'
  BY DEF Authorized
<1>0. AuthorizedKey(k)
  BY DEF Authorized
<1>K. \/ UNCHANGED <<intents, claims>>
      \/ UNCHANGED claims /\ intents'[k] = intents[k]
      => AuthorizedKey(k)'
  BY <1>0, AuthorizedKept DEF Held
<1>1. CASE \/ \E row0 : SaveRun(row0)
           \/ \E a, s : SaveAgent(a, s)
           \/ \E j \in Keys : RevokeGrant(j)
           \/ \E j \in Keys \cup {NoKey}, choice \in Choices \cup {"none"} :
                ResolveApproved(j, choice)
           \/ UNCHANGED <<run, agents, intents, requests, grants, claims>>
  <2>1. UNCHANGED <<intents, claims>>
    BY <1>1 DEF SaveRun, SaveAgent, RevokeGrant, ResolveApproved
  <2> QED
    BY <1>K, <2>1
<1>2. ASSUME NEW j \in Keys, NEW a, ReserveIntent(j, a)
      PROVE  AuthorizedKey(k)'
  <2>1. CASE j = k /\ Absent(k)
    <3>1. /\ intents'[k] = NewIntent("reserved", a, NoKey, NoKey)
          /\ claims' = claims /\ k \notin claims
      BY <1>2, <2>1 DEF ReserveIntent, StoreTypeOK, Requested
    <3> QED
      BY <1>2, <2>1, <3>1 DEF AuthorizedKey, NewIntent
  <2>2. CASE ~(j = k /\ Absent(k))
    BY <1>2, <2>2, <1>K DEF ReserveIntent, StoreTypeOK
  <2> QED
    BY <2>1, <2>2
<1>3. ASSUME NEW j \in Keys, NEW a, CreateApprovalAndPause(j, a)
      PROVE  AuthorizedKey(k)'
  <2>1. CASE j = k /\ Absent(k)
    <3>1. /\ intents'[k] = NewIntent("pending_approval", a, k, NoKey)
          /\ claims' = claims /\ k \notin claims
      BY <1>3, <2>1 DEF CreateApprovalAndPause, StoreTypeOK, Requested
    <3> QED
      BY <3>1, KeysAssumption DEF AuthorizedKey, NewIntent, Held
  <2>2. CASE ~(j = k /\ Absent(k))
    <3>1. UNCHANGED claims /\ intents'[k] = intents[k]
      BY <1>3, <2>2 DEF CreateApprovalAndPause, StoreTypeOK, storeVars
    <3> QED
      BY <3>1, <1>K
  <2> QED
    BY <2>1, <2>2
<1>4. ASSUME NEW j \in Keys, NEW a, NEW g \in Keys,
             ConsumeMatchingGrantAndReserve(g, j, a)
      PROVE  AuthorizedKey(k)'
  <2>1. CASE j = k
    <3>1. /\ intents'[k] = NewIntent("reserved", a, g, NoKey)
          /\ claims' = claims /\ k \notin claims
          /\ requests' = requests /\ requests[g].status = "approved"
          /\ KeyScope[g] = KeyScope[k] /\ grants[g].choice # "none"
          /\ grants[g].choice # "once" /\ grants'[g].choice = grants[g].choice
      BY <1>4, <2>1 DEF ConsumeMatchingGrantAndReserve, CanConsumeMatching, Issued,
                        GrantIsActive, StoreTypeOK, Requested, Lasting
    <3> QED
      BY <3>1, KeysAssumption DEF AuthorizedKey, NewIntent
  <2>2. CASE j # k
    BY <1>4, <2>2, <1>K DEF ConsumeMatchingGrantAndReserve, StoreTypeOK
  <2> QED
    BY <2>1, <2>2
<1>5. ASSUME NEW j \in Keys, NEW a, NEW r \in Keys,
             ReserveTrustRuleIntent(r, j, a), Always(r, j)
      PROVE  AuthorizedKey(k)'
  <2>1. CASE j = k
    <3>1. /\ intents'[k] = NewIntent("reserved", a, NoKey, r)
          /\ claims' = claims /\ k \notin claims /\ requests' = requests
      BY <1>5, <2>1 DEF ReserveTrustRuleIntent, CanReserveByRule, StoreTypeOK, Requested
    <3> QED
      BY <1>5, <2>1, <3>1, KeysAssumption DEF AuthorizedKey, NewIntent, Always
  <2>2. CASE j # k
    BY <1>5, <2>2, <1>K DEF ReserveTrustRuleIntent, StoreTypeOK
  <2> QED
    BY <2>1, <2>2
<1>6. ASSUME NEW j \in Keys, ConsumeGrantAndReserve(j)
      PROVE  AuthorizedKey(k)'
  <2>1. CASE j = k /\ intents[k].status = "pending_approval"
    <3>1. /\ intents' = [intents EXCEPT ![k].status = "reserved"]
          /\ claims' = claims /\ requests' = requests
          /\ GrantIsActive(k, k) /\ HasUse(k) /\ grants' = UseTaken(k)
      BY <1>6, <2>1 DEF ConsumeGrantAndReserve, CanConsume
    <3>2. /\ intents[k].request = k /\ intents'[k].request = k
          /\ intents'[k].rule = intents[k].rule
          /\ k \notin claims
      BY <2>1, <3>1 DEF Requested, StoreTypeOK, Intent
    <3>3. /\ grants'[k].choice = grants[k].choice
          /\ grants[k].choice = "once" => grants'[k].uses = 0
      BY <3>1, TakeUse
    <3>4. /\ requests'[k].status = "approved" /\ grants'[k].choice # "none"
      BY <3>1, <3>3 DEF GrantIsActive, Issued
    <3>5. k # NoKey
      BY KeysAssumption
    <3>6. intents[k].rule # NoKey => Always(intents[k].rule, k)
      BY <1>0 DEF AuthorizedKey
    <3> QED
      BY <3>1, <3>2, <3>3, <3>4, <3>5, <3>6 DEF AuthorizedKey, Always
  <2>2. CASE ~(j = k /\ intents[k].status = "pending_approval")
    BY <1>6, <2>2, <1>K DEF ConsumeGrantAndReserve, StoreTypeOK
  <2> QED
    BY <2>1, <2>2
<1>7. ASSUME NEW j \in Keys, ClaimForDispatch(j), KeyAction[j] = "probe" => Approved(j)
      PROVE  AuthorizedKey(k)'
  <2>1. CASE j = k
    <3>1. /\ Held(k) /\ UNCHANGED <<intents, requests, grants>>
      BY <1>7, <2>1 DEF ClaimForDispatch, CanClaim, Held
    <3>2. KeyAction[k] = "probe" => Approved(k)'
      BY <1>7, <2>1, ApprovedLasts
    <3> QED
      BY <1>0, <3>1, <3>2 DEF AuthorizedKey, Always
  <2>2. CASE j # k
    <3>1. intents' = intents /\ (k \in claims' => k \in claims)
      BY <1>7, <2>2 DEF ClaimForDispatch
    <3> QED
      BY <1>0, <3>1, AuthorizedKept DEF Held
  <2> QED
    BY <2>1, <2>2
<1>8. ASSUME NEW j \in Keys,
             \/ CompleteIntent(j) /\ j \in claims
             \/ DenyIntent(j) /\ ~Absent(j)
             \/ ResolveDenied(j)
      PROVE  AuthorizedKey(k)'
  <2>1. /\ UNCHANGED claims
        /\ intents'[k].request = intents[k].request
        /\ intents'[k].rule = intents[k].rule
    BY <1>8 DEF CompleteIntent, DenyIntent, ResolveDenied, StoreTypeOK, Intent
  <2>2. Held(k)' => Held(k)
    BY <1>8 DEF CompleteIntent, DenyIntent, ResolveDenied, StoreTypeOK, Intent, Held
  <2> QED
    BY <1>0, <2>1, <2>2, AuthorizedKept
<1> QED
  BY <1>1, <1>2, <1>3, <1>4, <1>5, <1>6, <1>7, <1>8 DEF PermittedOp

\* What a call knows at each of its steps, however old what it read is.
CallOK(d) ==
  LET k == call[d].key
      found == call[d].found
      by == call[d].decision.by
  IN  /\ pc[d] \in GatewayPC \ {"find"} =>
           found \notin {"executed", "denied"} /\ (found # "none" => ~Absent(k))
      /\ pc[d] \in {"execute", "complete"} => k \in claims
      /\ pc[d] \in {"load", "decide"} /\ found = "pending_approval" =>
           intents[k].request = k
      /\ pc[d] \in {"check", "consume"} => ~Absent(k) /\ intents[k].request = k
      /\ pc[d] = "deny_mark" => ~Absent(k)
      /\ pc[d] = "consume_matching" => by \in Keys
      /\ pc[d] = "reserve_rule" => by \in Keys /\ Always(by, k)
      /\ pc[d] = "reserve" => KeyAction[k] # "probe"
      /\ pc[d] = "claim" /\ call[d].own =>
           ~Absent(k) /\ (KeyAction[k] = "probe" => Approved(k))

Calls == \A d \in Drivers : CallOK(d)

\* A call that does not move keeps what it knows.
LEMMA CallKept ==
  ASSUME TypeOK, Lasting, NEW d \in Drivers, CallOK(d),
         pc'[d] = pc[d], call'[d] = call[d]
  PROVE  CallOK(d)'
<1> DEFINE k == call[d].key
<1>1. CASE pc[d] \in GatewayPC
  <2>1. k \in Keys
    BY <1>1 DEF TypeOK, DriverTypeOK
  <2>2. ~Absent(k) => ~Absent(k)' /\ intents'[k].request = intents[k].request
    BY <2>1 DEF Lasting
  <2>3. /\ \A r \in Keys : Always(r, k) => Always(r, k)'
        /\ Approved(k) => Approved(k)'
    BY ApprovedLasts DEF Lasting, Always
  <2> HIDE DEF k
  <2>5. /\ ~Absent(call[d].key) =>
             /\ ~Absent(call[d].key)'
             /\ intents'[call[d].key].request = intents[call[d].key].request
        /\ \A r \in Keys : Always(r, call[d].key) => Always(r, call[d].key)'
        /\ Approved(call[d].key) => Approved(call[d].key)'
    BY <2>2, <2>3 DEF k, Absent, Always, Approved, Approves
  <2> QED
    BY <1>1, <2>5 DEF CallOK, Lasting
<1>2. CASE pc[d] \notin GatewayPC
  BY <1>2 DEF CallOK, GatewayPC
<1> QED
  BY <1>1, <1>2

\* A driver that is outside of a call, or begins one, knows nothing.
LEMMA CallEnded ==
  ASSUME NEW d, pc'[d] \notin GatewayPC \ {"find"}
  PROVE  CallOK(d)'
BY DEF CallOK, GatewayPC

\* A step of driver d moves no other driver.
LEMMA OneMoves ==
  ASSUME TypeOK, NEW d \in Drivers,
         \/ \E k \in Keys : RequestTool(d, k)
         \/ ExecuteStep(d)
         \/ DriverStep(d)
  PROVE  \A e \in Drivers \ {d} : pc'[e] = pc[e] /\ call'[e] = call[e]
<1>1. \E label : /\ To(d, label)
                 /\ \/ UNCHANGED call
                    \/ \E c : call' = [call EXCEPT ![d] = c]
  <2>1. CASE \E k \in Keys : RequestTool(d, k)
    BY <2>1 DEF RequestTool
  <2>2. CASE Resume(d) \/ SaveAdopted(d) \/ SaveResumed(d) \/ BeginAgent(d) \/ Checkpoint(d)
             \/ SaveCheckpoint(d)
    BY <2>2 DEF Resume, SaveAdopted, SaveResumed, BeginAgent, Checkpoint, SaveCheckpoint,
                SaveCopy, Prepare, Onward, Leave, EndCall
  <2>3. CASE StartAgent(d) \/ AgentCompletes(d) \/ AgentFails(d) \/ AgentStops(d)
    BY <2>3 DEF StartAgent, AgentCompletes, AgentFails, AgentStops, SetAgent,
                Onward, Leave, EndCall
  <2>4. CASE ReadForReport(d) \/ SaveReport(d) \/ LeaveStage(d)
             \/ AdvanceStage(d) \/ RejectVerdict(d)
    BY <2>4 DEF ReadForReport, SaveReport, LeaveStage, AdvanceStage,
                RejectVerdict, SaveCopy, Prepare, Onward, Leave, EndCall
  <2>5. CASE RejectRun(d) \/ FailRun(d) \/ SaveFailed(d) \/ Crash(d)
    BY <2>5 DEF RejectRun, FailRun, SaveFailed, Crash, SaveLast, Prepare,
                Onward, Leave, EndCall
  <2>6. CASE FindIntent(d) \/ LoadPolicy(d) \/ Decide(d)
    BY <2>6 DEF FindIntent, LoadPolicy, Decide, EndCall, TypeOK, DriverTypeOK
  <2>7. CASE DenyReserve(d) \/ ConsumeMatching(d) \/ ReserveByRule(d) \/ Reserve(d)
    BY <2>7 DEF DenyReserve, ConsumeMatching, ReserveByRule, Reserve, EndCall
  <2>8. CASE DenyMark(d) \/ CheckRequest(d) \/ ConsumeGrant(d) \/ Pause(d)
             \/ Claim(d) \/ LostClaim(d) \/ Execute(d) \/ Complete(d)
    BY <2>8 DEF DenyMark, CheckRequest, ConsumeGrant, Pause, Claim, LostClaim, Execute,
                Complete, EndCall, Onward
  <2> QED
    BY <2>1, <2>2, <2>3, <2>4, <2>5, <2>6, <2>7, <2>8 DEF ExecuteStep, DriverStep
<1> QED
  BY <1>1 DEF To, TypeOK, DriverTypeOK

\* Outside of its calls a driver enters a call only at its beginning.
LEMMA DriverStepOutside ==
  ASSUME TypeOK, NEW d \in Drivers,
         (\E k \in Keys : RequestTool(d, k)) \/ DriverStep(d)
  PROVE  pc'[d] \notin GatewayPC \ {"find"}
<1>1. \E label : label \notin GatewayPC \ {"find"} /\ To(d, label)
  <2> USE DEF GatewayPC
  <2>1. CASE \E k \in Keys : RequestTool(d, k)
    BY <2>1 DEF RequestTool
  <2>2. CASE Resume(d) \/ SaveAdopted(d) \/ SaveResumed(d) \/ BeginAgent(d) \/ Checkpoint(d)
             \/ SaveCheckpoint(d)
    BY <2>2 DEF Resume, SaveAdopted, SaveResumed, BeginAgent, Checkpoint, SaveCheckpoint,
                SaveCopy, Prepare, Onward, Leave, EndCall
  <2>3. CASE StartAgent(d) \/ AgentCompletes(d) \/ AgentFails(d) \/ AgentStops(d)
    BY <2>3 DEF StartAgent, AgentCompletes, AgentFails, AgentStops, SetAgent,
                Onward, Leave, EndCall
  <2>4. CASE ReadForReport(d) \/ SaveReport(d) \/ LeaveStage(d)
             \/ AdvanceStage(d) \/ RejectVerdict(d)
    BY <2>4 DEF ReadForReport, SaveReport, LeaveStage, AdvanceStage,
                RejectVerdict, SaveCopy, Prepare, Onward, Leave, EndCall
  <2>5. CASE RejectRun(d) \/ FailRun(d) \/ SaveFailed(d) \/ Crash(d)
    BY <2>5 DEF RejectRun, FailRun, SaveFailed, Crash, SaveLast, Prepare,
                Onward, Leave, EndCall
  <2> QED
    BY <2>1, <2>2, <2>3, <2>4, <2>5 DEF DriverStep
<1> QED
  BY <1>1 DEF To, TypeOK, DriverTypeOK

\* What the broker's decision means for the call.
LEMMA EvaluationMeans ==
  ASSUME Requested, NEW p, NEW k, NEW own, NEW e \in Evaluations(p, k, own)
  PROVE  /\ e.kind \in {"deny", "grant", "rule", "ask", "plain"}
         /\ e.kind = "deny" <=> KeyScope[k] \in p.denied
         /\ e.kind = "grant" => e.by \in Keys
         /\ e.kind = "rule" => e.by \in Keys /\ Always(e.by, k)
         /\ e.kind \in {"grant", "rule"} => Approved(k)
         /\ e.kind = "plain" => KeyAction[k] # "probe"
<1> DEFINE G == {g \in Keys : GrantMatches(p, g, k, own)}
           R == {r \in Keys : RuleMatches(p, r, k)}
<1>1. CASE KeyScope[k] \in p.denied
  BY <1>1 DEF Evaluations, Decision
<1>2. CASE KeyScope[k] \notin p.denied /\ G # {}
  <2>1. PICK g \in G : e = Decision("grant", g)
    BY <1>2 DEF Evaluations
  <2>2. Approves(g, k)
    BY <2>1 DEF GrantMatches, Issued, Requested, Approves
  <2> QED
    BY <1>2, <2>1, <2>2 DEF Decision, Approved
<1>3. CASE KeyScope[k] \notin p.denied /\ G = {} /\ R # {}
  <2>1. PICK r \in R : e = Decision("rule", r)
    BY <1>3 DEF Evaluations
  <2>2. Always(r, k) /\ Approves(r, k)
    BY <2>1 DEF RuleMatches, RuleIsActive, Always, Approves
  <2> QED
    BY <1>3, <2>1, <2>2 DEF Decision, Approved
<1>4. CASE KeyScope[k] \notin p.denied /\ G = {} /\ R = {}
  BY <1>4 DEF Evaluations, Decision, Asks
<1> QED
  BY <1>1, <1>2, <1>3, <1>4

LEMMA DecideOK ==
  ASSUME TypeOK, Requested, NEW d \in Drivers, CallOK(d), Decide(d)
  PROVE  CallOK(d)'
<1>k. PICK k \in Keys : k = call[d].key
  BY CallKey DEF Decide, GatewayPC
<1>0. /\ At(d, "decide") /\ call[d] \in CallState
      /\ UNCHANGED storeVars /\ trust' = trust
  BY DEF Decide, TypeOK, DriverTypeOK, CallState, policyVars
<1>1. PICK e \in Evaluations(call[d].policy, k, call[d].own) :
        IF Route(d, e) = "failed" THEN EndCall(d, "failed")
        ELSE /\ To(d, Route(d, e))
             /\ call' = [call EXCEPT ![d].decision = e,
                                     ![d].policy = InitialPolicy]
  BY <1>k DEF Decide
<1>2. CASE Route(d, e) = "failed"
  <2>1. pc'[d] = "failed"
    BY <1>1, <1>2 DEF EndCall, To, TypeOK, DriverTypeOK
  <2> QED
    BY <2>1, CallEnded DEF GatewayPC
<1>3. CASE Route(d, e) # "failed"
  <2>1. /\ pc'[d] = Route(d, e)
        /\ call'[d].key = k /\ call'[d].found = call[d].found
        /\ call'[d].own = call[d].own /\ call'[d].decision = e
    BY <1>k, <1>0, <1>1, <1>3 DEF To, TypeOK, DriverTypeOK, CallState
  <2>2. UNCHANGED <<intents, requests, grants, claims>>
    BY <1>0 DEF storeVars
  <2>3. /\ call[d].found \notin {"executed", "denied"}
        /\ call[d].found # "none" => ~Absent(k)
        /\ call[d].found = "pending_approval" => intents[k].request = k
    BY <1>k, <1>0 DEF CallOK, At, GatewayPC
  <2>4. /\ e.kind = "grant" => e.by \in Keys
        /\ e.kind = "rule" => e.by \in Keys /\ Always(e.by, k)
        /\ e.kind \in {"grant", "rule"} => Approved(k)
        /\ e.kind = "plain" => KeyAction[k] # "probe"
    BY EvaluationMeans
  <2>5. /\ Route(d, e) = "deny_mark" => call[d].found # "none"
        /\ Route(d, e) = "check" => call[d].found = "pending_approval"
        /\ Route(d, e) = "claim" => call[d].found = "reserved" /\ Allows(e)
        /\ Route(d, e) = "consume_matching" => e.kind = "grant"
        /\ Route(d, e) = "reserve_rule" => e.kind = "rule"
        /\ Route(d, e) = "reserve" => e.kind = "plain"
        /\ Route(d, e) \notin {"find", "load", "decide", "consume", "execute", "complete"}
    BY <1>3 DEF Route
  <2>6. /\ Absent(k)' <=> Absent(k)
        /\ Approved(k)' <=> Approved(k)
        /\ intents'[k].request = intents[k].request
        /\ Always(e.by, k)' <=> Always(e.by, k)
    BY <2>2 DEF Absent, Approved, Approves, Always
  <2>7. /\ call[d].found # "none" => ~Absent(k)'
        /\ Route(d, e) = "check" => ~Absent(k)' /\ intents'[k].request = k
        /\ Route(d, e) = "deny_mark" => ~Absent(k)'
        /\ Route(d, e) = "consume_matching" => e.by \in Keys
        /\ Route(d, e) = "reserve_rule" => e.by \in Keys /\ Always(e.by, k)'
        /\ Route(d, e) = "reserve" => KeyAction[k] # "probe"
        /\ Route(d, e) = "claim" => ~Absent(k)' /\ (KeyAction[k] = "probe" => Approved(k)')
    BY <2>3, <2>4, <2>5, <2>6 DEF Allows
  <2>8. call'[d].decision.by = e.by
    BY <2>1
  <2> QED
    BY <2>1, <2>3, <2>5, <2>7, <2>8 DEF CallOK, Absent, Approved, Approves, Always
<1> QED
  BY <1>2, <1>3

LEMMA CallStepOK ==
  ASSUME TypeOK, Requested, NEW d \in Drivers, CallOK(d), ExecuteStep(d)
  PROVE  CallOK(d)'
<1>1. PICK k : k = call[d].key
  OBVIOUS
<1>E. (\E label \in DriverPC : EndCall(d, label)) => CallOK(d)'
  BY CallEnded DEF EndCall, To, DriverPC, GatewayPC, TypeOK, DriverTypeOK
<1>T. /\ pc \in [Drivers -> DriverPC \cup GatewayPC]
      /\ call \in [Drivers -> CallState]
      /\ intents \in [Keys -> Intent]
  BY DEF TypeOK, DriverTypeOK, StoreTypeOK, CallState
<1> USE DEF DriverPC
<1>2. CASE FindIntent(d)
  <2>1. k \in Keys
    BY <1>1, <1>2, CallKey DEF FindIntent, GatewayPC
  <2>2. CASE intents[k].status \in {"executed", "denied"}
    BY <1>1, <1>2, <2>2, <1>E DEF FindIntent
  <2>3. CASE intents[k].status \notin {"executed", "denied"}
    <3>1. /\ pc'[d] = "load" /\ call'[d].key = k
          /\ call'[d].found = intents[k].status
          /\ UNCHANGED intents
      BY <1>1, <1>2, <1>T, <2>3 DEF FindIntent, To, CallState, storeVars
    <3>2. intents[k].status = "pending_approval" => intents[k].request = k
      BY <2>1 DEF Requested
    <3> QED
      BY <2>3, <3>1, <3>2 DEF CallOK, Absent
  <2> QED
    BY <2>2, <2>3
<1>3. CASE LoadPolicy(d)
  <2>1. k \in Keys
    BY <1>1, <1>3, CallKey DEF LoadPolicy, GatewayPC
  <2>2. CASE ~InContext(k)
    BY <1>1, <1>3, <2>2, <1>E DEF LoadPolicy
  <2>3. CASE InContext(k)
    <3>1. /\ pc'[d] = "decide" /\ call'[d].key = k
          /\ call'[d].found = call[d].found /\ call'[d].policy = trust
          /\ UNCHANGED intents
      BY <1>1, <1>3, <1>T, <2>3 DEF LoadPolicy, To, CallState, storeVars
    <3>2. /\ call[d].found \notin {"executed", "denied"}
          /\ call[d].found # "none" => ~Absent(k)
          /\ call[d].found = "pending_approval" => intents[k].request = k
      BY <1>1, <1>3 DEF LoadPolicy, At, CallOK, GatewayPC
    <3> QED
      BY <3>1, <3>2 DEF CallOK, Absent
  <2> QED
    BY <2>2, <2>3
<1>4. CASE Decide(d)
  BY <1>4, DecideOK
<1>5. CASE DenyReserve(d)
  <2>1. k \in Keys
    BY <1>1, <1>5, CallKey DEF DenyReserve, GatewayPC
  <2>2. /\ pc'[d] = "deny_mark" /\ call'[d].key = k
        /\ call'[d].found = call[d].found
        /\ intents'[k].status # "none"
    BY <1>1, <1>5, <1>T, <2>1 DEF DenyReserve, To, CallState, ReserveIntent, Absent, NewIntent
  <2>3. call[d].found \notin {"executed", "denied"}
    BY <1>5 DEF DenyReserve, At, CallOK, GatewayPC
  <2> QED
    BY <2>2, <2>3 DEF CallOK, Absent
<1>6. CASE DenyMark(d) \/ LostClaim(d) \/ Complete(d) \/ Pause(d)
  BY <1>6, <1>E DEF DenyMark, LostClaim, Complete, Pause
<1>7. CASE CheckRequest(d)
  <2>1. \/ \E label \in DriverPC : EndCall(d, label)
        \/ Onward(d, "consume")
    BY <1>7, Zenon DEF CheckRequest
  <2>2. CASE Onward(d, "consume")
    <3>1. pc'[d] = "consume" /\ call' = call /\ UNCHANGED intents
      BY <1>7, <1>T, <2>2 DEF CheckRequest, Onward, To, storeVars
    <3>2. pc[d] = "check"
      BY <1>7 DEF CheckRequest, At
    <3> QED
      BY <3>1, <3>2 DEF CallOK, Absent, GatewayPC
  <2> QED
    BY <1>E, <2>1, <2>2
<1>8. CASE ConsumeGrant(d)
  <2>1. k \in Keys /\ pc[d] = "consume"
    BY <1>1, <1>8, CallKey DEF ConsumeGrant, GatewayPC, At
  <2>2. CASE ConsumeGrantAndReserve(k) /\ Onward(d, "claim")
    <3>1. /\ pc'[d] = "claim" /\ call' = call
          /\ intents'[k].request = intents[k].request
          /\ intents'[k].status # "none"
          /\ requests' = requests /\ requests[k].status = "approved"
      BY <1>T, <2>1, <2>2 DEF ConsumeGrantAndReserve, CanConsume, GrantIsActive,
                              Onward, To, Intent
    <3>2. call[d].found \notin {"executed", "denied"}
      BY <1>1, <2>1 DEF CallOK, GatewayPC
    <3>3. Approved(k)'
      BY <2>1, <3>1 DEF Approved, Approves
    <3> QED
      BY <1>1, <3>1, <3>2, <3>3 DEF CallOK, Absent, Approved, Approves
  <2> QED
    BY <1>1, <1>8, <1>E, <2>2 DEF ConsumeGrant
<1>9. CASE ConsumeMatching(d)
  <2>1. k \in Keys /\ pc[d] = "consume_matching"
    BY <1>1, <1>9, CallKey DEF ConsumeMatching, GatewayPC, At
  <2>2. PICK g : g = call[d].decision.by
    OBVIOUS
  <2>3. CASE /\ ConsumeMatchingGrantAndReserve(g, k, agent[d].id)
             /\ To(d, "claim")
             /\ call' = [call EXCEPT ![d].own = TRUE]
    <3>1. /\ pc'[d] = "claim" /\ call'[d].key = k /\ call'[d].found = call[d].found
          /\ intents'[k].status # "none"
      BY <1>1, <1>T, <2>1, <2>3 DEF To, CallState, ConsumeMatchingGrantAndReserve, NewIntent
    <3>2. g \in Keys /\ call[d].found \notin {"executed", "denied"}
      BY <2>1, <2>2 DEF CallOK, GatewayPC
    <3>3. requests' = requests /\ Approves(g, k)
      BY <2>3, <3>2 DEF ConsumeMatchingGrantAndReserve, CanConsumeMatching,
                        GrantIsActive, Issued, Requested, Approves
    <3>4. Approved(k)'
      BY <3>2, <3>3 DEF Approved, Approves
    <3> QED
      BY <3>1, <3>2, <3>4 DEF CallOK, Absent, Approved, Approves
  <2> QED
    BY <1>1, <1>9, <1>E, <2>2, <2>3 DEF ConsumeMatching
<1>10. CASE ReserveByRule(d)
  <2>1. k \in Keys /\ pc[d] = "reserve_rule"
    BY <1>1, <1>10, CallKey DEF ReserveByRule, GatewayPC, At
  <2>2. PICK r : r = call[d].decision.by
    OBVIOUS
  <2>3. CASE /\ ReserveTrustRuleIntent(r, k, agent[d].id)
             /\ To(d, "claim")
             /\ call' = [call EXCEPT ![d].own = TRUE]
    <3>1. /\ pc'[d] = "claim" /\ call'[d].key = k /\ call'[d].found = call[d].found
          /\ intents'[k].status # "none" /\ requests' = requests
      BY <1>1, <1>T, <2>1, <2>3 DEF To, CallState, ReserveTrustRuleIntent, NewIntent
    <3>2. r \in Keys /\ call[d].found \notin {"executed", "denied"} /\ Always(r, k)
      BY <1>1, <2>1, <2>2 DEF CallOK, GatewayPC
    <3>3. Approved(k)'
      BY <3>1, <3>2 DEF Approved, Approves, Always
    <3> QED
      BY <3>1, <3>2, <3>3 DEF CallOK, Absent, Approved, Approves
  <2> QED
    BY <1>1, <1>10, <1>E, <2>2, <2>3 DEF ReserveByRule
<1>11. CASE Reserve(d)
  <2>1. k \in Keys /\ pc[d] = "reserve"
    BY <1>1, <1>11, CallKey DEF Reserve, GatewayPC, At
  <2>2. /\ pc'[d] = "claim" /\ call'[d].key = k
        /\ call'[d].found = call[d].found
        /\ intents'[k].status # "none"
    BY <1>1, <1>11, <1>T, <2>1 DEF Reserve, To, CallState, ReserveIntent, Absent, NewIntent
  <2>3. call[d].found \notin {"executed", "denied"} /\ KeyAction[k] # "probe"
    BY <1>1, <2>1 DEF CallOK, GatewayPC
  <2> QED
    BY <2>2, <2>3 DEF CallOK, Absent
<1>12. CASE Claim(d)
  <2>1. k \in Keys /\ pc[d] = "claim"
    BY <1>1, <1>12, CallKey DEF Claim, GatewayPC, At
  <2>2. CASE /\ Onward(d, "execute") /\ ClaimForDispatch(k)
    <3>1. pc'[d] = "execute" /\ call' = call /\ UNCHANGED intents /\ k \in claims'
      BY <1>T, <2>2 DEF ClaimForDispatch, Onward, To
    <3> QED
      BY <1>1, <2>1, <3>1 DEF CallOK, Absent, GatewayPC
  <2>3. CASE Onward(d, "lost") /\ UNCHANGED storeVars
    <3>1. pc'[d] = "lost" /\ call' = call /\ UNCHANGED intents
      BY <1>T, <2>3 DEF Onward, To, storeVars
    <3> QED
      BY <2>1, <3>1 DEF CallOK, Absent, GatewayPC
  <2> QED
    BY <1>1, <1>12, <1>E, <2>2, <2>3 DEF Claim
<1>13. CASE Execute(d)
  <2>1. pc[d] = "execute" /\ UNCHANGED <<intents, claims>>
    BY <1>13 DEF Execute, At, storeVars
  <2>2. CASE Onward(d, "complete")
    <3>1. pc'[d] = "complete" /\ call' = call
      BY <1>T, <2>2 DEF Onward, To
    <3> QED
      BY <2>1, <3>1 DEF CallOK, Absent, GatewayPC
  <2> QED
    BY <1>13, <1>E, <2>2 DEF Execute
<1> QED
  BY <1>2, <1>3, <1>4, <1>5, <1>6, <1>7, <1>8, <1>9, <1>10, <1>11, <1>12, <1>13
     DEF ExecuteStep

\* The gateway and the user call the store's operations only as permitted.
LEMMA EveryStepIsPermitted ==
  ASSUME TypeOK, Requested, Calls, [Next]_vars
  PROVE  PermittedOp
<1>S. UNCHANGED storeVars => PermittedOp
  BY DEF PermittedOp, storeVars
<1>1. ASSUME NEW d \in Drivers, ExecuteStep(d)
      PROVE  PermittedOp
  <2>0. CallOK(d)
    BY DEF Calls
  <2>1. CASE FindIntent(d) \/ LoadPolicy(d) \/ Decide(d) \/ CheckRequest(d)
             \/ LostClaim(d) \/ Execute(d)
    BY <2>1, <1>S DEF FindIntent, LoadPolicy, Decide, CheckRequest, LostClaim, Execute
  <2>2. CASE DenyReserve(d)
    <3>1. call[d].key \in Keys
      BY <2>2, CallKey DEF DenyReserve, At, GatewayPC
    <3> QED
      BY <2>2, <3>1 DEF DenyReserve, PermittedOp
  <2>3. CASE DenyMark(d)
    <3>1. pc[d] = "deny_mark" /\ call[d].key \in Keys
      BY <2>3, CallKey DEF DenyMark, At, GatewayPC
    <3>2. ~Absent(call[d].key)
      BY <2>0, <3>1 DEF CallOK
    <3> QED
      BY <2>3, <3>1, <3>2, <1>S DEF DenyMark, PermittedOp
  <2>4. CASE ConsumeGrant(d) \/ Pause(d)
    BY <2>4, <1>S, CallKey DEF ConsumeGrant, Pause, PermittedOp, GatewayPC
  <2>5. CASE ConsumeMatching(d)
    <3>1. pc[d] = "consume_matching" /\ call[d].key \in Keys
      BY <2>5, CallKey DEF ConsumeMatching, At, GatewayPC
    <3>2. call[d].decision.by \in Keys
      BY <2>0, <3>1 DEF CallOK
    <3> QED
      BY <2>5, <3>1, <3>2, <1>S DEF ConsumeMatching, PermittedOp
  <2>6. CASE ReserveByRule(d)
    <3>1. pc[d] = "reserve_rule" /\ call[d].key \in Keys
      BY <2>6, CallKey DEF ReserveByRule, At, GatewayPC
    <3>2. call[d].decision.by \in Keys /\ Always(call[d].decision.by, call[d].key)
      BY <2>0, <3>1 DEF CallOK
    <3> QED
      BY <2>6, <3>1, <3>2, <1>S DEF ReserveByRule, PermittedOp
  <2>7. CASE Reserve(d)
    <3>1. call[d].key \in Keys
      BY <2>7, CallKey DEF Reserve, At, GatewayPC
    <3> QED
      BY <2>7, <3>1 DEF Reserve, PermittedOp
  <2>8. CASE Claim(d)
    <3>1. pc[d] = "claim" /\ call[d].key \in Keys
      BY <2>8, CallKey DEF Claim, At, GatewayPC
    <3>2. call[d].own => (KeyAction[call[d].key] = "probe" => Approved(call[d].key))
      BY <2>0, <3>1 DEF CallOK
    <3> QED
      BY <2>8, <3>1, <3>2, <1>S DEF Claim, PermittedOp
  <2>9. CASE Complete(d)
    <3>1. pc[d] = "complete" /\ call[d].key \in Keys
      BY <2>9, CallKey DEF Complete, At, GatewayPC
    <3>2. call[d].key \in claims
      BY <2>0, <3>1 DEF CallOK
    <3> QED
      BY <2>9, <3>1, <3>2 DEF Complete, PermittedOp
  <2> QED
    BY <1>1, <2>1, <2>2, <2>3, <2>4, <2>5, <2>6, <2>7, <2>8, <2>9 DEF ExecuteStep
<1>2. ASSUME NEW d \in Drivers, (\E k \in Keys : RequestTool(d, k)) \/ DriverStep(d)
      PROVE  PermittedOp
  BY <1>2, <1>S
     DEF PermittedOp, RequestTool, DriverStep, Resume, SaveAdopted, SaveResumed,
         BeginAgent, Checkpoint, SaveCheckpoint, StartAgent, AgentCompletes,
         AgentFails, ReadForReport, SaveReport, LeaveStage, AdvanceStage,
         RejectVerdict, AgentStops, RejectRun, FailRun, SaveFailed, Crash,
         SetAgent, SaveCopy, SaveLast
<1>3. ASSUME PolicyNext
      PROVE  PermittedOp
  <2>1. ASSUME NEW u \in Users, ApproveResolve(u)
        PROVE  PermittedOp
    <3>1. /\ user[u].key \in Keys \cup {NoKey}
          /\ user[u].choice \in Choices \cup {"none"}
      BY DEF TypeOK, PolicyTypeOK
    <3> QED
      BY <2>1, <3>1, <1>S DEF ApproveResolve, PermittedOp
  <2>2. ASSUME NEW u \in Users, NEW k \in Keys,
               DenyRequest(u, k) \/ UserRevokesGrant(u, k) \/ ResetGrant(u, k)
        PROVE  PermittedOp
    BY <2>2 DEF DenyRequest, UserRevokesGrant, ResetGrant, PermittedOp
  <2> QED
    BY <1>3, <1>S, <2>1, <2>2
       DEF PolicyNext, ApproveBegin, StageLoad, StagePublish, RevokeRuleLoad,
           RevokeDenyLoad, RevokeRulePublish, ResetLoad, ResetPublish, ConfigureLoad,
           ConfigurePublish, WriteDenyRule, UserCrash
<1>4. Cancel \/ Recover \/ Tick \/ UNCHANGED vars => PermittedOp
  BY <1>S DEF PermittedOp, Cancel, Recover, Tick, vars
<1> QED
  BY <1>1, <1>2, <1>3, <1>4 DEF Next

LEMMA CallsStep ==
  ASSUME TypeOK, Requested, Authorized, Calls, [Next]_vars
  PROVE  Authorized' /\ Calls'
<1>1. StoreTypeOK /\ Lasting
  BY RequestedStep DEF TypeOK
<1>3. Authorized'
  BY <1>1, EveryStepIsPermitted, AuthorizedOp
<1>4. ASSUME NEW d \in Drivers,
             \/ \E k \in Keys : RequestTool(d, k)
             \/ ExecuteStep(d)
             \/ DriverStep(d)
      PROVE  Calls'
  <2>1. CallOK(d)'
    <3>1. CASE ExecuteStep(d)
      BY <3>1, CallStepOK DEF Calls
    <3>2. CASE (\E k \in Keys : RequestTool(d, k)) \/ DriverStep(d)
      BY <3>2, DriverStepOutside, CallEnded
    <3> QED
      BY <1>4, <3>1, <3>2
  <2>2. \A e \in Drivers \ {d} : CallOK(e)'
    BY <1>1, <1>4, OneMoves, CallKept DEF Calls
  <2> QED
    BY <2>1, <2>2 DEF Calls
<1>5. CASE \/ PolicyNext /\ UNCHANGED driverVars
           \/ Cancel \/ Recover \/ Tick \/ UNCHANGED vars
  <2>1. UNCHANGED <<pc, call>>
    BY <1>5 DEF Cancel, Recover, Tick, vars, driverVars
  <2>2. ASSUME NEW d \in Drivers
        PROVE  CallOK(d)'
    <3>1. CallOK(d) /\ pc'[d] = pc[d] /\ call'[d] = call[d]
      BY <2>1 DEF Calls
    <3> QED
      BY <1>1, <3>1, CallKept
  <2> QED
    BY <1>3, <2>2 DEF Calls
<1> QED
  BY <1>3, <1>4, <1>5 DEF Next

LEMMA InitAuthorized == Init => Authorized /\ Calls
<1>1. Init => Authorized
  BY DEF Init, StoreInit, Authorized, AuthorizedKey, Held, Absent, NoIntent, NewIntent
<1>2. Init => Calls
  BY DEF Init, Calls, CallOK, GatewayPC
<1> QED
  BY <1>1, <1>2

LEMMA AuthorizedInvariant == Spec => [](Authorized /\ Calls)
<1>1. TypeOK /\ Requested /\ Authorized /\ Calls /\ [Next]_vars
        => Authorized' /\ Calls'
  BY CallsStep
<1> QED
  BY <1>1, InitAuthorized, TypeCorrect, RequestedInvariant, PTL DEF Spec

\* Whatever the drivers, the user and the clock do between the decision and
\* the claim, a call that is claimed for dispatch was authorized for its exact
\* scope, and a staged rule or an unanswered question authorizes none, a deny
\* rule lifted between the record of a denied call and its claim included.
THEOREM DispatchIsAuthorized == Spec => []AuthorizedDispatch
<1>1. TypeOK /\ Requested /\ Authorized => AuthorizedDispatch
  <2> SUFFICES ASSUME TypeOK, Requested, Authorized, NEW k \in claims
               PROVE  LET g == intents[k].request
                          r == intents[k].rule
                      IN  /\ g # NoKey => /\ requests[g].status = "approved"
                                          /\ KeyScope[g] = KeyScope[k]
                                          /\ g # k => requests[g].choice # "once"
                          /\ r # NoKey => /\ requests[r].status = "approved"
                                          /\ requests[r].choice = "always"
                                          /\ KeyScope[r] = KeyScope[k]
                          /\ KeyAction[k] = "probe" => Approved(k)
    BY DEF AuthorizedDispatch, Approved, Approves
  <2>1. k \in Keys /\ Held(k) /\ AuthorizedKey(k)
    BY DEF TypeOK, StoreTypeOK, Held, Authorized
  <2>2. intents[k].request # NoKey => intents[k].request \in Keys
    BY <2>1 DEF TypeOK, StoreTypeOK, Intent
  <2> QED
    BY <2>1, <2>2 DEF AuthorizedKey, Requested, Always
<1> QED
  BY <1>1, TypeCorrect, RequestedInvariant, AuthorizedInvariant, PTL

\* A one-use grant is at most one reservation, whoever consumes it: its use
\* is spent in the transaction that reserves, and only its own call may.
THEOREM OneUse == Spec => []OneUseIsOneReservation
<1>1. TypeOK /\ Requested /\ Authorized => OneUseIsOneReservation
  <2> SUFFICES ASSUME TypeOK, Requested, Authorized,
                      NEW g \in Keys, grants[g].choice = "once"
               PROVE  LET Reserved == {k \in Keys :
                            /\ intents[k].request = g
                            /\ intents[k].status \in {"reserved", "executed"}}
                      IN  /\ grants[g].uses \in {0, 1}
                          /\ grants[g].uses + Cardinality(Reserved) <= 1
    BY DEF OneUseIsOneReservation
  <2> DEFINE Reserved == {k \in Keys : /\ intents[k].request = g
                            /\ intents[k].status \in {"reserved", "executed"}}
  <2>1. grants[g].uses \in {0, 1}
    BY DEF Requested
  <2>2. \A k \in Reserved : k = g /\ grants[g].uses = 0
    BY KeysAssumption DEF Authorized, AuthorizedKey, Held
  <2>3. CASE Reserved = {}
    <3>1. Cardinality(Reserved) = 0
      BY <2>3, FS_EmptySet
    <3> QED
      BY <2>1, <3>1
  <2>4. CASE Reserved # {}
    <3>1. Reserved = {g} /\ grants[g].uses = 0
      BY <2>2, <2>4
    <3>2. Cardinality(Reserved) = 1
      BY <3>1, FS_Singleton
    <3> QED
      BY <2>1, <3>1, <3>2
  <2> QED
    BY <2>3, <2>4
<1> QED
  BY <1>1, TypeCorrect, RequestedInvariant, AuthorizedInvariant, PTL

-----------------------------------------------------------------------------
(* With one driver, an unanswered question stops the run.                  *)

\* Where a driver works on the run, and where it holds a copy that goes on
\* with it or that ends it.
Working == GatewayPC \cup
  {"driving", "checkpoint", "saving_checkpoint", "starting", "tools",
   "reporting", "saving_report", "leaving", "advancing", "rejecting", "denied",
   "failed", "interrupted", "reject_run", "fail_run"}
GoingOn == {"saving_checkpoint", "saving_report", "advancing", "resuming"}
Ending == {"rejecting", "failing"}

\* What a driver knows of a run that has not ended.
AskedOf(d) ==
  run.status \notin Terminal =>
    /\ pc[d] \in Working => run.status = "running"
    /\ pc[d] \in GoingOn => row[d].status = "running" /\ row[d].pending = NoKey
    /\ pc[d] \in {"adopting", "resuming"} =>
         run.status = "paused_for_approval" /\ requests[run.pending].status = "approved"
    /\ pc[d] = "adopting" =>
         row[d].status = "paused_for_approval" /\ row[d].pending = run.pending
    /\ pc[d] \in Ending => row[d].status \in Terminal

Asked ==
  /\ EveryQuestionIsAsked
  /\ run.status \in {"running", "paused_for_approval"} \cup Terminal
  /\ \A d \in Drivers : AskedOf(d)

OneDriver == \A d, e \in Drivers : d = e

\* A run that ended stays so.
LEMMA AskedEnded ==
  ASSUME TypeOK, [Next]_vars, run.status \in Terminal
  PROVE  Asked'
<1>1. run'.status = run.status
  BY EndedStore, EveryStepIsARunStep DEF RunStep, TypeOK
<1> QED
  BY <1>1 DEF Asked, EveryQuestionIsAsked, AskedOf, Terminal

LEMMA AskedNow ==
  ASSUME run.status \notin Terminal, Asked
  PROVE  /\ \A k \in Keys : requests[k].status = "pending" =>
              run.status = "paused_for_approval" /\ run.pending = k
         /\ run.status \in {"running", "paused_for_approval"}
BY DEF Asked, EveryQuestionIsAsked

\* A step of the driver that leaves the run and the requests.
LEMMA DriverGoesOn ==
  ASSUME Asked, OneDriver, NEW d \in Drivers, run.status \notin Terminal,
         UNCHANGED <<run, requests>>,
         pc'[d] \in Working => run.status = "running",
         pc'[d] \in GoingOn => row'[d].status = "running" /\ row'[d].pending = NoKey,
         pc'[d] \notin {"adopting", "resuming"},
         pc'[d] \in Ending => row'[d].status \in Terminal
  PROVE  Asked'
<1>1. AskedOf(d)'
  BY DEF AskedOf
<1>2. \A e \in Drivers : AskedOf(e)'
  BY <1>1 DEF OneDriver
<1> QED
  BY <1>2 DEF Asked, EveryQuestionIsAsked

\* A step of the working driver that leaves the run, the requests and goes on
\* working, or leaves.
LEMMA DriverWorks ==
  ASSUME TypeOK, Asked, OneDriver, NEW d \in Drivers, run.status \notin Terminal,
         UNCHANGED <<run, requests>>, NEW label, To(d, label),
         \/ pc[d] \in Working /\ label \in Working \ (GoingOn \cup Ending)
         \/ label \in {"idle", "paused"}
  PROVE  Asked'
<1>1. pc'[d] = label
  BY DEF To, TypeOK, DriverTypeOK
<1>2. pc[d] \in Working => run.status = "running"
  BY DEF Asked, AskedOf
<1> QED
  BY <1>1, <1>2, DriverGoesOn DEF Working, GoingOn, Ending, GatewayPC

\* The operations that leave the run and the requests.
LEMMA StoreOpRequests ==
  /\ \A a, s : SaveAgent(a, s) => UNCHANGED <<run, requests>>
  /\ \A k, a : ReserveIntent(k, a) => UNCHANGED <<run, requests>>
  /\ \A g, k, a :
       /\ ConsumeMatchingGrantAndReserve(g, k, a) => UNCHANGED <<run, requests>>
       /\ ReserveTrustRuleIntent(g, k, a) => UNCHANGED <<run, requests>>
  /\ \A k : /\ ConsumeGrantAndReserve(k) => UNCHANGED <<run, requests>>
            /\ ClaimForDispatch(k) => UNCHANGED <<run, requests>>
            /\ CompleteIntent(k) => UNCHANGED <<run, requests>>
            /\ DenyIntent(k) => UNCHANGED <<run, requests>>
            /\ RevokeGrant(k) => UNCHANGED <<run, requests>>
  /\ UNCHANGED storeVars => UNCHANGED <<run, requests>>
BY DEF SaveAgent, ReserveIntent, ConsumeMatchingGrantAndReserve,
       ReserveTrustRuleIntent, ConsumeGrantAndReserve, ClaimForDispatch,
       CompleteIntent, DenyIntent, RevokeGrant, storeVars

LEMMA AskedPause ==
  ASSUME TypeOK, Requested, Asked, OneDriver, NEW d \in Drivers,
         run.status \notin Terminal, Pause(d)
  PROVE  Asked'
<1>1. PICK k \in Keys : k = call[d].key
  BY CallKey DEF Pause, GatewayPC
<1>2. run.status = "running" /\ pc[d] \in Working
  BY DEF Pause, At, Asked, AskedOf, Working, GatewayPC
<1>3. CASE UNCHANGED storeVars
  <2>1. \E label \in {"paused", "failed"} : To(d, label)
    BY DEF Pause, EndCall
  <2> QED
    BY <1>2, <1>3, <2>1, DriverWorks, StoreOpRequests DEF Working, GoingOn, Ending
<1>4. CASE Absent(k) /\ CreateApprovalAndPause(k, agent[d].id) /\ EndCall(d, "paused")
  <2>1. /\ run'.status = "paused_for_approval" /\ run'.pending = k
        /\ requests'[k].status = "pending"
        /\ \A j \in Keys \ {k} : requests'[j] = requests[j]
    <3>1. /\ run' = [run EXCEPT !.status = "paused_for_approval", !.pending = k]
          /\ requests' = [requests EXCEPT ![k] =
               [status |-> "pending", choice |-> "none",
                expires |-> clock + ApprovalTTL]]
      BY <1>4 DEF CreateApprovalAndPause
    <3>2. run \in RunRow /\ requests \in [Keys -> Request]
      BY DEF TypeOK, StoreTypeOK
    <3>3. run'.status = "paused_for_approval" /\ run'.pending = k
      BY <3>1, <3>2 DEF RunRow
    <3> QED
      BY <3>1, <3>2, <3>3
  <2>2. pc'[d] = "paused"
    BY <1>4 DEF EndCall, To, TypeOK, DriverTypeOK
  <2>3. AskedOf(d)'
    BY <2>2 DEF AskedOf, Working, GoingOn, Ending, GatewayPC
  <2>4. \A e \in Drivers : AskedOf(e)'
    BY <2>3 DEF OneDriver
  <2>5. EveryQuestionIsAsked'
    <3>1. \A j \in Keys : requests[j].status # "pending"
      BY <1>2, AskedNow
    <3>2. \A j \in Keys : requests'[j].status = "pending" => j = k
      BY <2>1, <3>1
    <3>3. k # NoKey
      BY KeysAssumption
    <3> QED
      BY <2>1, <3>2, <3>3 DEF EveryQuestionIsAsked
  <2> QED
    BY <2>1, <2>4, <2>5 DEF Asked
<1> QED
  BY <1>1, <1>3, <1>4 DEF Pause, CreateApprovalAndPause

LEMMA AskedCall ==
  ASSUME TypeOK, Requested, Asked, OneDriver, NEW d \in Drivers,
         run.status \notin Terminal, ExecuteStep(d)
  PROVE  Asked'
<1> USE DEF GatewayPC
<1>W. ASSUME NEW label \in Working \ (GoingOn \cup Ending), To(d, label),
             pc[d] \in GatewayPC, UNCHANGED <<run, requests>>
      PROVE  Asked'
  BY <1>W, DriverWorks DEF Working
<1>P. ASSUME To(d, "paused"), UNCHANGED <<run, requests>>
      PROVE  Asked'
  BY <1>P, DriverWorks
<1>G. GatewayPC \cup {"tools", "denied", "failed", "interrupted"}
        \subseteq Working \ (GoingOn \cup Ending)
  BY DEF Working, GoingOn, Ending
<1>1. CASE FindIntent(d) \/ LoadPolicy(d)
  <2>1. /\ pc[d] \in GatewayPC /\ UNCHANGED <<run, requests>>
        /\ \E label \in {"tools", "denied", "load", "decide", "failed"} : To(d, label)
    BY <1>1 DEF FindIntent, LoadPolicy, At, EndCall, storeVars
  <2> QED
    BY <2>1, <1>W, <1>G
<1>2. CASE Decide(d)
  <2>1. pc[d] \in GatewayPC /\ UNCHANGED <<run, requests>>
    BY <1>2 DEF Decide, At, storeVars
  <2>2. \E label \in GatewayPC \cup {"failed"} : To(d, label)
    BY <1>2, RouteType DEF Decide, EndCall
  <2> QED
    BY <2>1, <2>2, <1>W, <1>G
<1>3. CASE DenyReserve(d) \/ DenyMark(d) \/ ConsumeGrant(d) \/ ConsumeMatching(d)
           \/ ReserveByRule(d) \/ Reserve(d)
  <2>1. pc[d] \in GatewayPC /\ UNCHANGED <<run, requests>>
    BY <1>3, StoreOpRequests
       DEF DenyReserve, DenyMark, ConsumeGrant, ConsumeMatching, ReserveByRule, Reserve, At
  <2>2. \E label \in {"deny_mark", "failed", "claim"} : To(d, label)
    BY <1>3 DEF DenyReserve, DenyMark, ConsumeGrant, ConsumeMatching, ReserveByRule,
                Reserve, EndCall, Onward
  <2> QED
    BY <2>1, <2>2, <1>W, <1>G
<1>4. CASE CheckRequest(d)
  <2>1. pc[d] \in GatewayPC /\ UNCHANGED <<run, requests>>
    BY <1>4 DEF CheckRequest, At, storeVars
  <2>2. \E label \in {"paused", "denied", "consume", "failed"} : To(d, label)
    BY <1>4, Zenon DEF CheckRequest, EndCall, Onward
  <2> QED
    BY <2>1, <2>2, <1>W, <1>G, <1>P
<1>5. CASE Pause(d)
  BY <1>5, AskedPause
<1>6. CASE Claim(d) \/ LostClaim(d) \/ Execute(d) \/ Complete(d)
  <2>1. pc[d] \in GatewayPC /\ UNCHANGED <<run, requests>>
    BY <1>6, StoreOpRequests DEF Claim, LostClaim, Execute, Complete, At
  <2>2. \E label \in {"execute", "lost", "failed", "tools", "complete", "interrupted"} :
          To(d, label)
    BY <1>6 DEF Claim, LostClaim, Execute, Complete, EndCall, Onward
  <2> QED
    BY <2>1, <2>2, <1>W, <1>G
<1> QED
  BY <1>1, <1>2, <1>3, <1>4, <1>5, <1>6 DEF ExecuteStep

LEMMA AskedOver == run'.status \in Terminal => Asked'
BY DEF Asked, EveryQuestionIsAsked, AskedOf, Terminal

\* A copy that goes on with the run is saved.
LEMMA AskedSave ==
  ASSUME TypeOK, Asked, OneDriver, NEW d \in Drivers, run.status \notin Terminal,
         pc[d] \in GoingOn, SaveRun(row[d]),
         NEW label \in Working \ (GoingOn \cup Ending), To(d, label)
  PROVE  Asked'
<1>1. /\ run' = row[d] /\ requests' = requests
      /\ row[d].status = "running" /\ row[d].pending = NoKey
  BY DEF SaveRun, Asked, AskedOf
<1>2. \A k \in Keys : requests[k].status # "pending"
  <2>1. CASE pc[d] \in Working
    BY <2>1, AskedNow DEF Asked, AskedOf
  <2>2. CASE pc[d] = "resuming"
    <3>1. requests[run.pending].status = "approved"
      BY <2>2 DEF Asked, AskedOf
    <3> QED
      BY <3>1, AskedNow
  <2> QED
    BY <2>1, <2>2 DEF GoingOn, Working
<1>3. EveryQuestionIsAsked'
  BY <1>1, <1>2 DEF EveryQuestionIsAsked
<1>4. pc'[d] = label
  BY DEF To, TypeOK, DriverTypeOK
<1>5. AskedOf(d)'
  BY <1>1, <1>4 DEF AskedOf, Working, GatewayPC
<1>6. \A e \in Drivers : AskedOf(e)'
  BY <1>5 DEF OneDriver
<1> QED
  BY <1>1, <1>3, <1>6 DEF Asked

LEMMA AskedResume ==
  ASSUME TypeOK, Asked, OneDriver, NEW d \in Drivers, run.status \notin Terminal,
         Resume(d)
  PROVE  Asked'
<1>0. /\ UNCHANGED <<run, requests>> /\ run \in RunRow
      /\ row \in [Drivers -> RunRow] /\ pc \in [Drivers -> DriverPC \cup GatewayPC]
  BY DEF Resume, storeVars, TypeOK, StoreTypeOK, DriverTypeOK
<1> USE DEF Working, GoingOn, Ending, GatewayPC
<1>1. CASE run.status = "running" /\ Onward(d, "driving") /\ UNCHANGED row
  <2>1. pc'[d] = "driving"
    BY <1>0, <1>1 DEF Onward, To
  <2> QED
    BY <1>0, <1>1, <2>1, DriverGoesOn
<1>2. CASE PausedAnd("approved") /\ Prepare(d, "resuming", Resumed(run))
  <2>1. /\ pc'[d] = "resuming"
        /\ row'[d].status = "running" /\ row'[d].pending = NoKey
    BY <1>0, <1>2 DEF Prepare, Onward, To, Resumed, RunRow
  <2>2. AskedOf(d)'
    BY <1>0, <1>2, <2>1 DEF AskedOf, PausedAnd
  <2>3. \A e \in Drivers : AskedOf(e)'
    BY <2>2 DEF OneDriver
  <2> QED
    BY <1>0, <2>3 DEF Asked, EveryQuestionIsAsked
<1>3. CASE /\ PausedAnd("approved")
           /\ Prepare(d, "adopting",
                [run EXCEPT !.checkpoint["implementing"] = intents[run.pending].agent])
  <2>1. /\ pc'[d] = "adopting"
        /\ row'[d].status = run.status /\ row'[d].pending = run.pending
    BY <1>0, <1>3 DEF Prepare, Onward, To, RunRow
  <2>2. AskedOf(d)'
    BY <1>0, <1>3, <2>1 DEF AskedOf, PausedAnd
  <2>3. \A e \in Drivers : AskedOf(e)'
    BY <2>2 DEF OneDriver
  <2> QED
    BY <1>0, <2>3 DEF Asked, EveryQuestionIsAsked
<1>4. CASE Prepare(d, "failing", [run EXCEPT !.status = "rejected"])
  <2>1. pc'[d] = "failing" /\ row'[d].status = "rejected"
    BY <1>0, <1>4 DEF Prepare, Onward, To, RunRow
  <2> QED
    BY <1>0, <2>1, DriverGoesOn DEF Terminal
<1> QED
  BY <1>1, <1>2, <1>3, <1>4 DEF Resume

LEMMA AskedSaveAdopted ==
  ASSUME TypeOK, Asked, OneDriver, NEW d \in Drivers, run.status \notin Terminal,
         SaveAdopted(d)
  PROVE  Asked'
<1>0. /\ run \in RunRow /\ row[d] \in RunRow
      /\ row \in [Drivers -> RunRow] /\ pc \in [Drivers -> DriverPC \cup GatewayPC]
  BY DEF TypeOK, StoreTypeOK, DriverTypeOK
<1>1. CASE SaveRun(row[d]) /\ Prepare(d, "resuming", Resumed(row[d]))
  <2>1. /\ run' = row[d] /\ requests' = requests
        /\ row[d].status = "paused_for_approval" /\ row[d].pending = run.pending
        /\ run.status = "paused_for_approval"
        /\ requests[run.pending].status = "approved"
    BY <1>1 DEF SaveRun, SaveAdopted, At, Asked, AskedOf
  <2>2. /\ pc'[d] = "resuming"
        /\ row'[d].status = "running" /\ row'[d].pending = NoKey
    BY <1>0, <1>1 DEF Prepare, Onward, To, Resumed, RunRow
  <2>3. AskedOf(d)'
    BY <2>1, <2>2 DEF AskedOf, Working, GoingOn, Ending, GatewayPC
  <2>4. \A e \in Drivers : AskedOf(e)'
    BY <2>3 DEF OneDriver
  <2> QED
    BY <2>1, <2>4 DEF Asked, EveryQuestionIsAsked
<1>2. CASE Leave(d) /\ UNCHANGED storeVars
  BY <1>2, DriverWorks, StoreOpRequests DEF Leave, EndCall
<1> QED
  BY <1>1, <1>2 DEF SaveAdopted

LEMMA AskedDriver ==
  ASSUME TypeOK, Asked, OneDriver, NEW d \in Drivers, run.status \notin Terminal,
         (\E k \in Keys : RequestTool(d, k)) \/ DriverStep(d)
  PROVE  Asked'
<1>0. /\ run \in RunRow /\ row \in [Drivers -> RunRow]
      /\ pc \in [Drivers -> DriverPC \cup GatewayPC]
  BY DEF TypeOK, StoreTypeOK, DriverTypeOK
<1>R. pc[d] \in Working => run.status = "running" /\ run.pending = NoKey
  BY DEF Asked, AskedOf, EveryQuestionIsAsked
<1>W. ASSUME NEW label \in Working \ (GoingOn \cup Ending), To(d, label),
             pc[d] \in Working, UNCHANGED <<run, requests>>
      PROVE  Asked'
  BY <1>W, DriverWorks
<1>L. Leave(d) /\ UNCHANGED <<run, requests>> => Asked'
  BY DriverWorks DEF Leave, EndCall
<1>S. UNCHANGED storeVars => UNCHANGED <<run, requests>>
  BY StoreOpRequests
<1>C. ASSUME NEW label \in {"saving_checkpoint", "saving_report", "advancing"},
             NEW copy, Prepare(d, label, copy), UNCHANGED <<run, requests>>,
             pc[d] \in Working, copy.status = "running", copy.pending = NoKey
      PROVE  Asked'
  <2>1. pc'[d] = label /\ row'[d] = copy
    BY <1>0, <1>C DEF Prepare, Onward, To
  <2> QED
    BY <1>C, <1>R, <2>1, DriverGoesOn DEF Ending
<1>F. ASSUME NEW label \in Ending, NEW copy, Prepare(d, label, copy),
             UNCHANGED <<run, requests>>, pc[d] \in Working, copy.status \in Terminal
      PROVE  Asked'
  <2>1. pc'[d] = label /\ row'[d] = copy
    BY <1>0, <1>F DEF Prepare, Onward, To
  <2> QED
    BY <1>F, <1>R, <2>1, DriverGoesOn DEF Ending, GoingOn
<1>1. CASE \E k \in Keys : RequestTool(d, k)
  BY <1>1, <1>W, <1>S DEF RequestTool, At, Working, GoingOn, Ending, GatewayPC
<1>2. CASE Resume(d) \/ SaveAdopted(d)
  BY <1>2, AskedResume, AskedSaveAdopted
<1>3. CASE SaveResumed(d)
  <2>1. pc[d] = "resuming"
    BY <1>3 DEF SaveResumed, At
  <2>2. CASE SaveRun(row[d]) /\ Prepare(d, "driving", NoRow)
    BY <2>1, <2>2, AskedSave DEF Prepare, Onward, Working, GoingOn, Ending
  <2> QED
    BY <1>3, <2>2, <1>L, <1>S DEF SaveResumed
<1>4. CASE BeginAgent(d)
  <2>1. pc[d] = "driving" /\ UNCHANGED <<run, requests>>
    BY <1>4, <1>S DEF BeginAgent, At
  <2>2. Leave(d) \/ To(d, "starting") \/ To(d, "checkpoint")
    BY <1>4 DEF BeginAgent, Onward
  <2> QED
    BY <2>1, <2>2, <1>L, <1>W DEF Working, GoingOn, Ending
<1>5. CASE Checkpoint(d)
  <2>1. pc[d] = "checkpoint" /\ UNCHANGED <<run, requests>>
    BY <1>5, <1>S DEF Checkpoint, At
  <2>2. PICK copy : /\ Prepare(d, "saving_checkpoint", copy)
                    /\ copy.status = run.status /\ copy.pending = run.pending
    BY <1>0, <1>5 DEF Checkpoint, RunRow
  <2> QED
    BY <1>C, <1>R, <2>1, <2>2 DEF Working
<1>6. CASE SaveCheckpoint(d) \/ SaveReport(d) \/ AdvanceStage(d)
  <2>1. pc[d] \in {"saving_checkpoint", "saving_report", "advancing"}
    BY <1>6 DEF SaveCheckpoint, SaveReport, AdvanceStage, At
  <2>2. PICK saved \in {"starting", "leaving", "driving"} : SaveCopy(d, saved)
    BY <1>6 DEF SaveCheckpoint, SaveReport, AdvanceStage
  <2>3. CASE SaveRun(row[d]) /\ Prepare(d, saved, NoRow)
    BY <2>1, <2>3, AskedSave DEF Prepare, Onward, Working, GoingOn, Ending
  <2>4. CASE UNCHANGED storeVars /\ Prepare(d, "fail_run", NoRow)
    BY <2>1, <2>4, <1>S, <1>W DEF Prepare, Onward, Working, GoingOn, Ending
  <2> QED
    BY <2>2, <2>3, <2>4 DEF SaveCopy
<1>7. CASE StartAgent(d) \/ AgentCompletes(d) \/ AgentFails(d)
  <2>1. /\ pc[d] \in Working /\ UNCHANGED <<run, requests>>
        /\ \E label \in {"tools", "reporting", "failed", "interrupted"} : To(d, label)
    BY <1>7, StoreOpRequests
       DEF StartAgent, AgentCompletes, AgentFails, SetAgent, Onward, At, Working
  <2> QED
    BY <2>1, <1>W DEF Working, GoingOn, Ending
<1>8. CASE ReadForReport(d)
  <2>1. pc[d] = "reporting" /\ UNCHANGED <<run, requests>>
    BY <1>8, <1>S DEF ReadForReport, At
  <2>2. CASE Onward(d, "fail_run")
    BY <2>1, <2>2, <1>W DEF Onward, Working, GoingOn, Ending
  <2>3. CASE Prepare(d, "saving_report",
               [run EXCEPT !.checkpoint[agent[d].stage] = NoAgent])
    <3>1. PICK copy : /\ Prepare(d, "saving_report", copy)
                      /\ copy.status = run.status /\ copy.pending = run.pending
      BY <1>0, <2>3 DEF RunRow
    <3> QED
      BY <1>C, <1>R, <2>1, <3>1 DEF Working
  <2> QED
    BY <1>8, <2>2, <2>3 DEF ReadForReport
<1>9. CASE LeaveStage(d)
  <2>1. pc[d] = "leaving" /\ pc[d] \in Working /\ UNCHANGED <<run, requests>>
    BY <1>9, <1>S DEF LeaveStage, At, Working
  <2>2. \/ Leave(d)
        \/ \E copy : /\ Prepare(d, "advancing", copy)
                     /\ copy.status = "running" /\ copy.pending = run.pending
        \/ \E copy : /\ Prepare(d, "rejecting", copy)
                     /\ copy.status = "rejected"
    <3>1. \A stage : LET copy == [run EXCEPT !.status = "running", !.stage = stage]
                     IN  copy.status = "running" /\ copy.pending = run.pending
      BY <1>0 DEF RunRow
    <3>2. [run EXCEPT !.status = "rejected"].status = "rejected"
      BY <1>0 DEF RunRow
    <3>3. \/ Leave(d)
          \/ \E stage \in {"verifying", "presenting"} :
               Prepare(d, "advancing", [run EXCEPT !.status = "running", !.stage = stage])
          \/ Prepare(d, "rejecting", [run EXCEPT !.status = "rejected"])
      BY <1>9 DEF LeaveStage
    <3> QED
      BY <3>1, <3>2, <3>3
  <2> QED
    BY <1>C, <1>F, <1>L, <1>R, <2>1, <2>2 DEF Ending, Terminal
<1>10. CASE RejectVerdict(d)
  <2>1. pc[d] = "rejecting"
    BY <1>10 DEF RejectVerdict, At
  <2>2. CASE SaveRun(row[d])
    <3>1. run' = row[d] /\ row[d].status \in Terminal
      BY <2>1, <2>2 DEF SaveRun, Asked, AskedOf, Ending
    <3> QED
      BY <3>1, AskedOver
  <2>3. CASE UNCHANGED storeVars /\ Prepare(d, "fail_run", NoRow)
    BY <2>1, <2>3, <1>S, <1>W DEF Prepare, Onward, Working, GoingOn, Ending
  <2> QED
    BY <1>10, <2>2, <2>3 DEF RejectVerdict
<1>11. CASE AgentStops(d)
  <2>1. UNCHANGED <<run, requests>>
    BY <1>11, StoreOpRequests DEF AgentStops, SetAgent
  <2>2. \/ Leave(d)
        \/ /\ pc[d] \in Working
           /\ \E label \in {"reject_run", "fail_run"} : To(d, label)
    BY <1>11 DEF AgentStops, SetAgent, Onward, At, Working
  <2> QED
    BY <2>1, <2>2, <1>L, <1>W DEF Working, GoingOn, Ending
<1>12. CASE RejectRun(d) \/ FailRun(d)
  <2>1. pc[d] \in Working /\ UNCHANGED <<run, requests>>
    BY <1>12, <1>S DEF RejectRun, FailRun, At, Working
  <2>2. Leave(d) \/ \E copy : Prepare(d, "failing", copy) /\ copy.status \in Terminal
    <3>1. /\ [run EXCEPT !.status = "rejected"].status \in Terminal
          /\ [run EXCEPT !.status = "failed"].status \in Terminal
      BY <1>0 DEF RunRow, Terminal
    <3> QED
      BY <1>12, <3>1 DEF RejectRun, FailRun
  <2> QED
    BY <1>F, <1>L, <2>1, <2>2 DEF Ending
<1>13. CASE SaveFailed(d)
  <2>1. CASE SaveRun(row[d])
    <3>1. run' = row[d] /\ row[d].status \in Terminal
      BY <1>13, <2>1 DEF SaveFailed, At, SaveRun, Asked, AskedOf, Ending
    <3> QED
      BY <3>1, AskedOver
  <2>2. CASE UNCHANGED storeVars
    BY <1>13, <2>2, <1>L, <1>S DEF SaveFailed, SaveLast
  <2> QED
    BY <1>13, <2>1, <2>2 DEF SaveFailed, SaveLast
<1>14. CASE Crash(d)
  BY <1>14, <1>L, <1>S DEF Crash
<1> QED
  BY <1>1, <1>2, <1>3, <1>4, <1>5, <1>6, <1>7, <1>8, <1>9, <1>10, <1>11, <1>12,
     <1>13, <1>14 DEF DriverStep

\* A request is resolved while it is the pending one: no driver has acted on
\* its resolution yet.
LEMMA AskedResolve ==
  ASSUME TypeOK, Asked, run.status \notin Terminal, UNCHANGED <<pc, row, run>>,
         NEW k \in Keys, requests[k].status = "pending", run.pending = k,
         requests'[k].status \in {"approved", "denied"},
         \A j \in Keys \ {k} : requests'[j] = requests[j]
  PROVE  Asked'
<1>1. run.status = "paused_for_approval"
  BY AskedNow
<1>2. EveryQuestionIsAsked'
  BY <1>1, AskedNow, KeysAssumption DEF EveryQuestionIsAsked
<1>3. ASSUME NEW d \in Drivers
      PROVE  AskedOf(d)'
  <2>1. pc[d] \notin {"adopting", "resuming"} /\ pc[d] \notin Working
    BY <1>1 DEF Asked, AskedOf
  <2> QED
    BY <2>1 DEF Asked, AskedOf
<1> QED
  BY <1>1, <1>2, <1>3 DEF Asked

LEMMA AskedPolicy ==
  ASSUME TypeOK, Asked, run.status \notin Terminal, UNCHANGED driverVars, PolicyNext
  PROVE  Asked'
<1>0. UNCHANGED <<pc, row>> /\ requests \in [Keys -> Request]
  BY DEF driverVars, TypeOK, StoreTypeOK
<1>1. ASSUME UNCHANGED <<run, requests>>
      PROVE  Asked'
  <2>1. \A d \in Drivers : AskedOf(d)'
    BY <1>0, <1>1 DEF Asked, AskedOf
  <2> QED
    BY <1>1, <2>1 DEF Asked, EveryQuestionIsAsked
<1>2. ASSUME NEW u \in Users, ApproveResolve(u)
      PROVE  Asked'
  <2>1. PICK k \in Keys \cup {NoKey} : k = user[u].key
    BY DEF TypeOK, PolicyTypeOK
  <2>2. CASE UNCHANGED storeVars
    BY <1>1, <2>2, StoreOpRequests
  <2>3. CASE ResolveApproved(k, user[u].choice)
    <3>1. /\ UNCHANGED run /\ requests[k].status = "pending" /\ run.pending = k
          /\ requests' = [requests EXCEPT ![k].status = "approved",
                                          ![k].choice = user[u].choice]
      BY <2>3 DEF ResolveApproved, CanApprove, CanResolve
    <3>2. CASE k \in Keys
      <4>1. requests'[k].status = "approved"
        BY <1>0, <3>1, <3>2 DEF Request
      <4>2. \A j \in Keys \ {k} : requests'[j] = requests[j]
        BY <1>0, <3>1
      <4> QED
        BY <1>0, <3>1, <3>2, <4>1, <4>2, AskedResolve
    <3>3. CASE k \notin Keys
      BY <1>0, <1>1, <3>1, <3>3
    <3> QED
      BY <3>2, <3>3
  <2> QED
    BY <1>2, <2>1, <2>2, <2>3 DEF ApproveResolve
<1>3. ASSUME NEW u \in Users, NEW k \in Keys, DenyRequest(u, k)
      PROVE  Asked'
  <2>1. /\ UNCHANGED run /\ requests[k].status = "pending" /\ run.pending = k
        /\ requests' = [requests EXCEPT ![k].status = "denied"]
    BY <1>3 DEF DenyRequest, ResolveDenied, CanResolve
  <2>2. /\ requests'[k].status = "denied"
        /\ \A j \in Keys \ {k} : requests'[j] = requests[j]
    BY <1>0, <2>1 DEF Request
  <2> QED
    BY <1>0, <2>1, <2>2, AskedResolve
<1>4. ASSUME NEW u \in Users, NEW g \in Keys, UserRevokesGrant(u, g) \/ ResetGrant(u, g)
      PROVE  Asked'
  BY <1>1, <1>4, StoreOpRequests DEF UserRevokesGrant, ResetGrant
<1>5. UNCHANGED storeVars => Asked'
  BY <1>1, StoreOpRequests
<1> QED
  BY <1>2, <1>3, <1>4, <1>5
     DEF PolicyNext, ApproveBegin, StageLoad, StagePublish, RevokeRuleLoad,
         RevokeDenyLoad, RevokeRulePublish, ResetLoad, ResetPublish, ConfigureLoad,
         ConfigurePublish, WriteDenyRule, UserCrash

LEMMA AskedStep ==
  ASSUME TypeOK, Requested, Asked, OneDriver, [Next]_vars
  PROVE  Asked'
<1>1. CASE run.status \in Terminal
  BY <1>1, AskedEnded
<1>2. CASE run.status \notin Terminal
  <2>1. CASE \E d \in Drivers : \/ \E k \in Keys : RequestTool(d, k)
                                \/ ExecuteStep(d)
                                \/ DriverStep(d)
    BY <1>2, <2>1, AskedCall, AskedDriver
  <2>2. CASE PolicyNext /\ UNCHANGED driverVars
    BY <1>2, <2>2, AskedPolicy
  <2>3. CASE Cancel \/ Recover
    <3>1. run'.status \in Terminal
      BY <2>3 DEF Cancel, Recover, SaveRun, TypeOK, StoreTypeOK, RunRow, Terminal
    <3> QED
      BY <3>1, AskedOver
  <2>4. CASE Tick \/ UNCHANGED vars
    <3>1. UNCHANGED <<run, requests, pc, row>>
      BY <2>4 DEF Tick, vars, storeVars, driverVars
    <3>2. \A d \in Drivers : AskedOf(d)'
      BY <3>1 DEF Asked, AskedOf
    <3> QED
      BY <3>1, <3>2 DEF Asked, EveryQuestionIsAsked
  <2> QED
    BY <2>1, <2>2, <2>3, <2>4 DEF Next
<1> QED
  BY <1>1, <1>2

LEMMA InitAsked == Init => Asked
<1> SUFFICES ASSUME Init PROVE Asked
  OBVIOUS
<1>1. EveryQuestionIsAsked /\ run.status = "running"
  BY DEF Init, StoreInit, EveryQuestionIsAsked, NoRequest
<1>2. \A d \in Drivers : AskedOf(d)
  BY DEF Init, AskedOf, Working, GoingOn, Ending, GatewayPC
<1> QED
  BY <1>1, <1>2 DEF Asked

\* Where one process at a time drives a run, as a fleet start and the resumes
\* after it do, no crash, pause, answer or cancellation leaves a question
\* that the run is not paused on.
THEOREM QuestionsAreAsked ==
  ASSUME OneDriver
  PROVE  Spec => []EveryQuestionIsAsked
<1>1. TypeOK /\ Requested /\ Asked /\ [Next]_vars => Asked'
  BY AskedStep
<1>2. Asked => EveryQuestionIsAsked
  BY DEF Asked
<1> QED
  BY <1>1, <1>2, InitAsked, TypeCorrect, RequestedInvariant, PTL DEF Spec
=============================================================================
