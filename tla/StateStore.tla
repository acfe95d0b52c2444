----------------------------- MODULE StateStore -----------------------------
(***************************************************************************)
(* The authorization tables of the SQLite state store                      *)
(* (adapters/persistence/sqlite.py) for one Run: the run row, the agent    *)
(* rows, the tool intents, the approval requests, the capability grants    *)
(* and the dispatch claims.                                                *)
(*                                                                         *)
(* Every public method of the store is one transaction (BEGIN IMMEDIATE    *)
(* ... commit), so each is one operator here: its conditions and its       *)
(* writes.  A method that raises writes nothing; the callers' modules      *)
(* model the error it raises with the negated condition.                   *)
(*                                                                         *)
(* Rows are addressed by the logical action they belong to.  An intent is  *)
(* unique per (run, idempotency key), a request per intent and a grant per *)
(* request, so one key names all three.  What a key decides never changes: *)
(* its workflow stage, its kind of action and its exact permission scope.  *)
(***************************************************************************)
EXTENDS Integers, FiniteSets, WorkflowTransitions

CONSTANTS
  Keys,         \* idempotency keys: the logical tool calls of the run
  NoKey,        \* no key: NULL in the store, None in the code
  Scopes,       \* exact permission scopes (action, resource, parameters, ...)
  KeyStage,     \* KeyStage[k]: the stage the call belongs to
  KeyAction,    \* KeyAction[k]: "command", "probe" or "file"
  KeyScope,     \* KeyScope[k]: the call's exact scope
  MaxAgents,    \* BOUND on the agent instances of the run
  ApprovalTTL,  \* lifetime of a request, and of a one-use grant (10 minutes)
  Never         \* the expiry of a grant that does not expire

\* The stages an agent works in.  A run that has no repair left
\* (max_repair_iterations = 0) passes through these two.
AgentStages == {"implementing", "verifying"}

AgentIds == 1..MaxAgents
NoAgent == 0

ASSUME KeysAssumption ==
  /\ NoKey \notin Keys
  /\ KeyStage \in [Keys -> AgentStages]
  /\ KeyAction \in [Keys -> {"command", "probe", "file"}]
  /\ KeyScope \in [Keys -> Scopes]
  /\ MaxAgents \in Nat
  /\ ApprovalTTL \in Nat \ {0}
  /\ Never \notin Int

VARIABLES
  run,       \* the Run row: status, stage, pending_approval_id, checkpoints
  agents,    \* agent_instances: their status
  intents,   \* tool_intents
  requests,  \* approvals
  grants,    \* capability_grants issued by an approval
  claims,    \* tool_dispatch_claims: the keys claimed for dispatch
  clock      \* the UTC clock every expiry is read against

storeVars == <<run, agents, intents, requests, grants, claims, clock>>

IntentStatus == {"none", "pending_approval", "reserved", "executed", "denied"}
AgentStatus == {"none", "running", "paused", "completed", "failed",
                "cancelled"}
Choices == {"once", "run", "always"}

\* agent: the principal; request: the approval the intent was reserved under;
\* rule: the trust rule.
Intent == [status : IntentStatus, agent : AgentIds \cup {NoAgent},
           request : Keys \cup {NoKey}, rule : Keys \cup {NoKey}]
Request == [status : {"none", "pending", "approved", "denied"},
            choice : Choices \cup {"none"}, expires : Nat]
Grant == [choice : Choices \cup {"none"}, uses : {0, 1, Never}, issued : Nat,
          expires : Nat \cup {Never}, revoked : BOOLEAN]
\* checkpoint: engineer_checkpoint and verification_checkpoint, the agent that
\* resumes the stage.
RunRow == [status : RunStatus, stage : WorkflowStage,
           pending : Keys \cup {NoKey},
           checkpoint : [AgentStages -> AgentIds \cup {NoAgent}]]

NewIntent(status, a, request, rule) ==
  [status |-> status, agent |-> a, request |-> request, rule |-> rule]
NoIntent == NewIntent("none", NoAgent, NoKey, NoKey)
NoRequest == [status |-> "none", choice |-> "none", expires |-> 0]
NoGrant == [choice |-> "none", uses |-> 0, issued |-> 0, expires |-> Never,
            revoked |-> FALSE]

StoreTypeOK ==
  /\ run \in RunRow
  /\ agents \in [AgentIds -> AgentStatus]
  /\ intents \in [Keys -> Intent]
  /\ requests \in [Keys -> Request]
  /\ grants \in [Keys -> Grant]
  /\ claims \in SUBSET Keys
  /\ clock \in Nat

\* A run whose scoping is done and whose Engineer is about to work.
StoreInit ==
  /\ run = [status |-> "running", stage |-> "implementing", pending |-> NoKey,
            checkpoint |-> [s \in AgentStages |-> NoAgent]]
  /\ agents = [a \in AgentIds |-> "none"]
  /\ intents = [k \in Keys |-> NoIntent]
  /\ requests = [k \in Keys |-> NoRequest]
  /\ grants = [k \in Keys |-> NoGrant]
  /\ claims = {}
  /\ clock = 1

Issued(g) == grants[g].choice # "none"
Expired(g) == grants[g].expires # Never /\ grants[g].expires <= clock

-----------------------------------------------------------------------------
(* Runs and agents.                                                        *)

\* save_run overwrites the whole row with the caller's copy.  It is not a
\* compare-and-swap: only the transition table protects the stored row.
CanSaveRun(row) ==
  ValidTransition(<<run.status, run.stage>>, <<row.status, row.stage>>)

SaveRun(row) ==
  /\ CanSaveRun(row)
  /\ run' = row
  /\ UNCHANGED <<agents, intents, requests, grants, claims, clock>>

\* save_agent_instance: an unconditional upsert.
SaveAgent(a, status) ==
  /\ agents' = [agents EXCEPT ![a] = status]
  /\ UNCHANGED <<run, intents, requests, grants, claims, clock>>

-----------------------------------------------------------------------------
(* Reservations.  Each is idempotent on the key.                           *)

Absent(k) == intents[k].status = "none"

\* reserve_intent: an existing intent is returned as it is.
ReserveIntent(k, a) ==
  /\ intents' = IF Absent(k)
                THEN [intents EXCEPT ![k] = NewIntent("reserved", a, NoKey, NoKey)]
                ELSE intents
  /\ UNCHANGED <<run, agents, requests, grants, claims, clock>>

CanPause == ValidTransition(<<run.status, run.stage>>,
                            <<"paused_for_approval", run.stage>>)

\* A variant whose pause is left to a later transaction.
CreateApprovalAndPause_unpaused(k, a) ==
  IF Absent(k)
  THEN /\ CanPause
       /\ intents' = [intents EXCEPT ![k] =
                        NewIntent("pending_approval", a, k, NoKey)]
       /\ requests' = [requests EXCEPT ![k] =
            [status |-> "pending", choice |-> "none",
             expires |-> clock + ApprovalTTL]]
       /\ UNCHANGED <<run, agents, grants, claims, clock>>
  ELSE UNCHANGED storeVars

\* create_approval_and_pause: the intent, its request and the pause of the
\* run, together.  An existing intent is returned and nothing is created.
CreateApprovalAndPause(k, a) ==
  IF Absent(k)
  THEN /\ CanPause
       /\ intents' = [intents EXCEPT ![k] =
                        NewIntent("pending_approval", a, k, NoKey)]
       /\ requests' = [requests EXCEPT ![k] =
            [status |-> "pending", choice |-> "none",
             expires |-> clock + ApprovalTTL]]
       /\ run' = [run EXCEPT !.status = "paused_for_approval", !.pending = k]
       /\ UNCHANGED <<agents, grants, claims, clock>>
  ELSE UNCHANGED storeVars

\* A variant that does not read the revocation in the transaction.
GrantIsActive_decided(g, k) ==
  /\ Issued(g) /\ requests[g].status = "approved" /\ ~Expired(g)
  /\ run.stage = KeyStage[k]
  /\ \/ run.status = "running" /\ run.pending = NoKey
     \/ run.status = "paused_for_approval" /\ run.pending = g

\* _validate_active_grant, for intent k under the grant of request g.
GrantIsActive(g, k) ==
  /\ Issued(g) /\ requests[g].status = "approved"
  /\ ~grants[g].revoked /\ ~Expired(g)
  /\ run.stage = KeyStage[k]
  /\ \/ run.status = "running" /\ run.pending = NoKey
     \/ run.status = "paused_for_approval" /\ run.pending = g

\* _consume_grant: takes one use off a counted grant.
HasUse(g) == grants[g].uses # 0
UseTaken_kept(g) == grants
UseTaken(g) == [grants EXCEPT ![g].uses = IF @ = Never THEN Never ELSE @ - 1]

\* consume_grant_and_reserve, with the two results that are not errors: the
\* intent was already reserved or executed, or it is reserved now.
CanConsume(k) ==
  /\ GrantIsActive(k, k)
  /\ \/ intents[k].status \in {"reserved", "executed"}
     \/ intents[k].status = "pending_approval" /\ HasUse(k)

ConsumeGrantAndReserve(k) ==
  /\ CanConsume(k)
  /\ IF intents[k].status = "pending_approval"
     THEN /\ grants' = UseTaken(k)
          /\ intents' = [intents EXCEPT ![k].status = "reserved"]
     ELSE UNCHANGED <<grants, intents>>
  /\ UNCHANGED <<run, agents, requests, claims, clock>>

\* consume_matching_grant_and_reserve, for a new intent k with a fresh
\* identity: an existing intent of the key is never the caller's own.
CanConsumeMatching(g, k) ==
  /\ GrantIsActive(g, k)
  /\ run.status = "running"
  /\ KeyScope[g] = KeyScope[k] /\ KeyStage[g] = KeyStage[k]
  /\ Absent(k)
  /\ grants[g].choice # "once"
  /\ HasUse(g)

ConsumeMatchingGrantAndReserve(g, k, a) ==
  /\ CanConsumeMatching(g, k)
  /\ grants' = UseTaken(g)
  /\ intents' = [intents EXCEPT ![k] = NewIntent("reserved", a, g, NoKey)]
  /\ UNCHANGED <<run, agents, requests, claims, clock>>

\* reserve_trust_rule_intent: a reservation and its consumed receipt.
CanReserveByRule(k) ==
  /\ run.status = "running" /\ run.pending = NoKey
  /\ run.stage = KeyStage[k]
  /\ Absent(k)

ReserveTrustRuleIntent(r, k, a) ==
  /\ CanReserveByRule(k)
  /\ intents' = [intents EXCEPT ![k] = NewIntent("reserved", a, NoKey, r)]
  /\ UNCHANGED <<run, agents, requests, grants, claims, clock>>

-----------------------------------------------------------------------------
(* Dispatch.                                                               *)

\* Variants: a claim that is only a lease of the reserved intent, and one that
\* does not look at the run.
CanClaim_lease(k) ==
  /\ intents[k].status = "reserved"
  /\ run.status = "running" /\ run.pending = NoKey
  /\ run.stage = KeyStage[k]
  /\ intents[k].agent # NoAgent /\ agents[intents[k].agent] = "running"

CanClaim_anyRun(k) ==
  /\ k \notin claims
  /\ intents[k].status = "reserved"
  /\ run.stage = KeyStage[k]
  /\ intents[k].agent # NoAgent /\ agents[intents[k].agent] = "running"

\* The active context a new claim needs.
CanClaim(k) ==
  /\ k \notin claims
  /\ intents[k].status = "reserved"
  /\ run.status = "running" /\ run.pending = NoKey
  /\ run.stage = KeyStage[k]
  /\ intents[k].agent # NoAgent /\ agents[intents[k].agent] = "running"

\* A variant that checks without inserting the row.
ClaimForDispatch_unrecorded(k) == CanClaim(k) /\ UNCHANGED storeVars

\* claim_reserved_intent_for_dispatch returns True: a permanent row.
ClaimForDispatch(k) ==
  /\ CanClaim(k)
  /\ claims' = claims \cup {k}
  /\ UNCHANGED <<run, agents, intents, requests, grants, clock>>

\* ... it returns False: the exact claim exists already.
AlreadyClaimed(k) == k \in claims

CompleteIntent_misspelt(k) ==
  /\ intents' = [intents EXCEPT ![k].status = "completed"]
  /\ UNCHANGED <<run, agents, requests, grants, claims, clock>>

\* complete_intent: no condition on the current status.
CompleteIntent(k) ==
  /\ intents' = [intents EXCEPT ![k].status = "executed"]
  /\ UNCHANGED <<run, agents, requests, grants, claims, clock>>

\* deny_intent: no condition on the current status either.
DenyIntent(k) ==
  /\ intents' = [intents EXCEPT ![k].status = "denied"]
  /\ UNCHANGED <<run, agents, requests, grants, claims, clock>>

-----------------------------------------------------------------------------
(* Resolution and revocation.                                              *)

CanResolve(k) ==
  /\ requests[k].status = "pending"
  /\ run.status = "paused_for_approval" /\ run.pending = k
  /\ run.stage = KeyStage[k]
  /\ intents[k].status = "pending_approval"

Earlier(a, b) == IF a <= b THEN a ELSE b

\* An approval must also arrive before the request expires.
CanApprove(k) == CanResolve(k) /\ requests[k].expires > clock

\* resolve_approval(approve=True): the request and its grant.
ResolveApproved(k, choice) ==
  /\ CanApprove(k)
  /\ requests' = [requests EXCEPT ![k].status = "approved",
                                  ![k].choice = choice]
  /\ grants' = [grants EXCEPT ![k] =
       [choice |-> choice,
        uses |-> IF choice = "once" THEN 1 ELSE Never,
        issued |-> clock,
        expires |-> IF choice = "once"
                    THEN Earlier(requests[k].expires, clock + ApprovalTTL)
                    ELSE Never,
        revoked |-> FALSE]]
  /\ UNCHANGED <<run, agents, intents, claims, clock>>

\* resolve_approval(approve=False): the request and its intent.
ResolveDenied(k) ==
  /\ CanResolve(k)
  /\ requests' = [requests EXCEPT ![k].status = "denied"]
  /\ intents' = [intents EXCEPT ![k].status = "denied"]
  /\ UNCHANGED <<run, agents, grants, claims, clock>>

RevokeGrant(g) ==
  /\ Issued(g)
  /\ grants' = [grants EXCEPT ![g].revoked = TRUE]
  /\ UNCHANGED <<run, agents, intents, requests, claims, clock>>
=============================================================================
