-------------------------- MODULE PermissionPolicy --------------------------
(***************************************************************************)
(* The user-owned trust policy and the permission broker                   *)
(* (application/permission_policy.py, application/approvals.py and         *)
(* adapters/trust/filesystem.py).                                          *)
(*                                                                         *)
(* The policy is one file outside the repository.  load() reads a whole    *)
(* revision; save() publishes the next one only if the revision on disk is *)
(* still the one the caller loaded.  Nothing spans the file and SQLite, so *)
(* a user command is a sequence of steps here, and the process that runs   *)
(* it may die between any two of them.                                     *)
(***************************************************************************)
EXTENDS StateStore

CONSTANTS
  Users,    \* processes running fleet approve, deny, permissions ...
  Commands, \* BOUND: the commands the users give
  MaxRev    \* BOUND on the revisions of the trust policy

\* An approval is named by its choice.
AllCommands == Choices \cup {"deny", "revoke_grant", "revoke_rule", "reset",
                             "configure", "edit", "cancel", "recover"}

ASSUME PolicyAssumption == Commands \subseteq AllCommands /\ MaxRev \in Nat

VARIABLES
  trust,    \* the trust policy file
  user      \* the local state of each user process

policyVars == <<trust, user>>

\* rules[k]: the always-allow rule staged by the request of k, whose
\* identifier is derived from the request's.  cutoff: the project's
\* grants_revoked_before, NoCutoff when it was never reset.  denied: the
\* scopes of the deny rules in force; a revoked one is out of it, and a deny
\* rule written again is another rule.
RuleStatus == {"none", "active", "revoked"}
NoCutoff == 0
Policy == [rev : Nat, mode : {"safe", "balanced"}, denied : SUBSET Scopes,
           rules : [Keys -> RuleStatus], cutoff : Nat]

\* A registered project in Safe mode: each new command scope is asked for.
InitialPolicy == [rev |-> 0, mode |-> "safe", denied |-> {},
                  rules |-> [k \in Keys |-> "none"], cutoff |-> NoCutoff]

IdleUser == [op |-> "idle", key |-> NoKey, choice |-> "none", base |-> InitialPolicy,
             cutoff |-> NoCutoff, todo |-> {}, lifted |-> {}]
\* lifted: the deny rules the command in progress revokes by name.
UserOps == {"idle", "stage_load", "stage_publish", "resolving",
            "rule_publish", "reset_publish", "reset_grants", "configure"}

PolicyTypeOK ==
  /\ trust \in Policy
  /\ user \in [Users -> [op : UserOps, key : Keys \cup {NoKey},
                         choice : Choices \cup {"none"}, base : Policy,
                         cutoff : Nat, todo : SUBSET Keys,
                         lifted : SUBSET Scopes]]

PolicyInit == trust = InitialPolicy /\ user = [u \in Users |-> IdleUser]

-----------------------------------------------------------------------------
(* The broker.                                                             *)

\* A variant that does not wait for the approval.
RuleIsActive_staged(p, r) == p.rules[r] = "active"

\* rule_is_active, for a rule of the loaded policy p: a staged rule stays
\* dormant until SQLite records the approval that staged it.
RuleIsActive(p, r) ==
  /\ p.rules[r] = "active"
  /\ requests[r].status = "approved" /\ requests[r].choice = "always"

RuleMatches(p, r, k) ==
  RuleIsActive(p, r) /\ KeyScope[r] = KeyScope[k] /\ KeyStage[r] = KeyStage[k]

\* _grant_matches.  own: the intent presented is the stored intent of k.
GrantMatches(p, g, k, own) ==
  /\ Issued(g) /\ ~grants[g].revoked /\ ~Expired(g) /\ HasUse(g)
  /\ grants[g].issued > p.cutoff
  /\ grants[g].choice = "always" => RuleMatches(p, g, k)
  /\ KeyScope[g] = KeyScope[k] /\ KeyStage[g] = KeyStage[k]
  /\ grants[g].choice = "once" => g = k /\ own

\* context: the intent still belongs to the active run.
InContext(k) ==
  run.status \in {"running", "paused_for_approval"} /\ run.stage = KeyStage[k]

\* The approval fixture always asks, a command asks in Safe mode.
Asks(p, k) ==
  \/ KeyAction[k] = "probe"
  \/ KeyAction[k] = "command" /\ p.mode = "safe"

Decision(kind, by) == [kind |-> kind, by |-> by]
DecisionKinds == {"none", "deny", "grant", "rule", "ask", "plain"}

\* PolicyPermissionBroker.evaluate against the loaded policy p: deny rules,
\* then grants, then allow rules, then the questions Safe mode asks.  The
\* order of several matching grants or rules is abstracted to any of them.
Evaluations(p, k, own) ==
  LET G == {g \in Keys : GrantMatches(p, g, k, own)}
      R == {r \in Keys : RuleMatches(p, r, k)}
  IN  IF KeyScope[k] \in p.denied THEN {Decision("deny", NoKey)}
      ELSE IF G # {} THEN {Decision("grant", g) : g \in G}
      ELSE IF R # {} THEN {Decision("rule", r) : r \in R}
      ELSE IF Asks(p, k) THEN {Decision("ask", NoKey)}
      ELSE {Decision("plain", NoKey)}

Allows(d) == d.kind \in {"grant", "rule", "plain"}

-----------------------------------------------------------------------------
(* Steps of a user process.                                                *)

Goto(u, state) == user' = [user EXCEPT ![u] = state]

\* A variant that overwrites whatever revision is current.
Publish_lastWriterWins(u, policy, next) ==
  /\ trust.rev < MaxRev
  /\ trust' = [policy EXCEPT !.rev = trust.rev + 1]
  /\ Goto(u, next)

\* TrustStore.save of policy, made from the one the user's process loaded: the
\* revision it expects must still be the current one.  A losing publication
\* raises and the command ends.
Publish(u, policy, next) ==
  IF trust.rev = user[u].base.rev
  THEN /\ trust.rev < MaxRev
       /\ trust' = [policy EXCEPT !.rev = trust.rev + 1]
       /\ Goto(u, next)
  ELSE Goto(u, IdleUser) /\ UNCHANGED trust

\* ApprovalService.approve reads the request and evaluates the intent again:
\* an approval cannot override a policy denial.
ApproveBegin(u, k, choice) ==
  /\ choice \in Commands
  /\ user[u].op = "idle"
  /\ requests[k].status = "pending"
  /\ InContext(k)
  /\ \E d \in Evaluations(trust, k, TRUE) : d.kind # "deny"
  /\ Goto(u, [IdleUser EXCEPT !.key = k, !.choice = choice,
                !.op = IF choice = "always" THEN "stage_load" ELSE "resolving"])
  /\ UNCHANGED <<storeVars, trust>>

\* stage_always_rule, its load: an earlier interrupted attempt's rule is
\* reused, a revoked one is an error.
StageLoad(u) ==
  /\ user[u].op = "stage_load"
  /\ Goto(u, CASE trust.rules[user[u].key] = "active"
                    -> [user[u] EXCEPT !.op = "resolving"]
               [] trust.rules[user[u].key] = "revoked" -> IdleUser
               [] OTHER -> [user[u] EXCEPT !.op = "stage_publish",
                                           !.base = trust])
  /\ UNCHANGED <<storeVars, trust>>

\* ... and its publication.
StagePublish(u) ==
  /\ user[u].op = "stage_publish"
  /\ Publish(u, [user[u].base EXCEPT !.rules[user[u].key] = "active"],
             [user[u] EXCEPT !.op = "resolving", !.base = InitialPolicy])
  /\ UNCHANGED storeVars

\* The SQLite resolution that ends an approval, or raises.
ApproveResolve(u) ==
  /\ user[u].op = "resolving"
  /\ \/ ResolveApproved(user[u].key, user[u].choice)
     \/ ~CanApprove(user[u].key) /\ UNCHANGED storeVars
  /\ Goto(u, IdleUser)
  /\ UNCHANGED trust

\* ApprovalService.deny.
DenyRequest(u, k) ==
  /\ "deny" \in Commands
  /\ user[u].op = "idle"
  /\ ResolveDenied(k)
  /\ UNCHANGED policyVars

\* revoke of a grant is one transaction; of a rule, a load and a save.
UserRevokesGrant(u, g) ==
  /\ "revoke_grant" \in Commands
  /\ user[u].op = "idle"
  /\ ~grants[g].revoked
  /\ RevokeGrant(g)
  /\ UNCHANGED policyVars

RevokeRuleLoad(u, r) ==
  /\ "revoke_rule" \in Commands
  /\ user[u].op = "idle"
  /\ trust.rules[r] = "active"
  /\ Goto(u, [IdleUser EXCEPT !.op = "rule_publish", !.key = r,
                              !.base = trust])
  /\ UNCHANGED <<storeVars, trust>>

\* ... a deny rule is named and revoked like any other.
RevokeDenyLoad(u, s) ==
  /\ "revoke_rule" \in Commands
  /\ user[u].op = "idle"
  /\ s \in trust.denied
  /\ Goto(u, [IdleUser EXCEPT !.op = "rule_publish", !.lifted = {s},
                              !.base = trust])
  /\ UNCHANGED <<storeVars, trust>>

RevokeRulePublish(u) ==
  /\ user[u].op = "rule_publish"
  /\ Publish(u, [user[u].base EXCEPT
                   !.rules = [k \in Keys |-> IF k = user[u].key THEN "revoked"
                                             ELSE @[k]],
                   !.denied = @ \ user[u].lifted],
             IdleUser)
  /\ UNCHANGED storeVars

\* The instants the cutoff of a reset may not precede: now, every grant, and
\* the previous cutoff, which it moves past.
ResetTimes ==
  {clock} \cup {grants[g].issued : g \in {g \in Keys : Issued(g)}}
          \cup (IF trust.cutoff = NoCutoff THEN {} ELSE {trust.cutoff + 1})

\* reset, its reads.
ResetLoad(u) ==
  /\ "reset" \in Commands
  /\ user[u].op = "idle"
  /\ \E cutoff \in ResetTimes :
       /\ \A t \in ResetTimes : t <= cutoff
       /\ Goto(u, [IdleUser EXCEPT !.op = "reset_publish", !.base = trust,
                     !.cutoff = cutoff,
                     !.todo = {g \in Keys : Issued(g) /\ ~grants[g].revoked}])
  /\ UNCHANGED <<storeVars, trust>>

\* The policy first: every rule revoked, the deny rules too, the cutoff in
\* force.
ResetPublish(u) ==
  /\ user[u].op = "reset_publish"
  /\ Publish(u, [user[u].base EXCEPT
                   !.rules = [k \in Keys |-> IF @[k] = "active" THEN "revoked"
                                             ELSE @[k]],
                   !.denied = {}, !.cutoff = user[u].cutoff],
             IF user[u].todo = {} THEN IdleUser
             ELSE [IdleUser EXCEPT !.op = "reset_grants",
                                   !.todo = user[u].todo])
  /\ UNCHANGED storeVars

\* Then the grants, one transaction each.
ResetGrant(u, g) ==
  /\ user[u].op = "reset_grants"
  /\ g \in user[u].todo
  /\ RevokeGrant(g)
  /\ Goto(u, IF user[u].todo = {g} THEN IdleUser
             ELSE [user[u] EXCEPT !.todo = @ \ {g}])
  /\ UNCHANGED trust

\* configure switches the trust mode and preserves the cutoff.
ConfigureLoad(u) ==
  /\ "configure" \in Commands
  /\ user[u].op = "idle"
  /\ Goto(u, [IdleUser EXCEPT !.op = "configure", !.base = trust])
  /\ UNCHANGED <<storeVars, trust>>

ConfigurePublish(u) ==
  /\ user[u].op = "configure"
  /\ Publish(u, [user[u].base EXCEPT !.mode = IF @ = "safe" THEN "balanced" ELSE "safe"],
             IdleUser)
  /\ UNCHANGED storeVars

\* A deny rule the user writes into the policy file.
WriteDenyRule(s) ==
  /\ "edit" \in Commands
  /\ s \notin trust.denied
  /\ trust.rev < MaxRev
  /\ trust' = [trust EXCEPT !.denied = @ \cup {s}, !.rev = @ + 1]
  /\ UNCHANGED <<storeVars, user>>

UserCrash(u) ==
  /\ user[u].op # "idle"
  /\ Goto(u, IdleUser)
  /\ UNCHANGED <<storeVars, trust>>

PolicyNext ==
  \/ \E u \in Users :
       \/ \E k \in Keys, choice \in Choices : ApproveBegin(u, k, choice)
       \/ StageLoad(u) \/ StagePublish(u) \/ ApproveResolve(u)
       \/ \E k \in Keys : DenyRequest(u, k)
       \/ \E g \in Keys : UserRevokesGrant(u, g)
       \/ \E r \in Keys : RevokeRuleLoad(u, r)
       \/ \E s \in Scopes : RevokeDenyLoad(u, s)
       \/ RevokeRulePublish(u)
       \/ ResetLoad(u) \/ ResetPublish(u)
       \/ \E g \in Keys : ResetGrant(u, g)
       \/ ConfigureLoad(u) \/ ConfigurePublish(u)
       \/ UserCrash(u)
  \/ \E s \in Scopes : WriteDenyRule(s)

\* The policy process u loaded is the one in force.
IsCurrent(u) == user[u].base = trust

DecisionsStay ==
  /\ trust'.cutoff >= trust.cutoff
  /\ \A k \in Keys :
       trust.rules[k] = "revoked" => trust'.rules[k] = "revoked"
  /\ \A s \in trust.denied \ trust'.denied : \E u \in Users :
       /\ user[u].op = "reset_publish" \/ s \in user[u].lifted
       /\ IsCurrent(u)
  /\ trust'.mode # trust.mode =>
       \E u \in Users : user[u].op = "configure" /\ IsCurrent(u)

\* What the user decided about the policy is not undone by a command that
\* loaded it earlier: a revoked rule stays revoked and the cutoff of a reset
\* never moves back; a deny rule leaves the policy only by a reset or by its
\* own revocation, the trust mode changes only by a configure, and either was
\* made from the very policy it replaces.
NoPolicyUpdateIsLost == [][DecisionsStay]_trust
=============================================================================
