--------------------------- MODULE Conversations ---------------------------
(***************************************************************************)
(* The conversation store and the plan review store of one conversation    *)
(* (persistence/conversations.py, persistence/plan_review.py): its turns,  *)
(* the one claim that lets a process execute the run of a turn, the fence  *)
(* that takes it away, and the reviewed recovery of what is left.          *)
(*                                                                         *)
(* A run has the name of its turn, which is its sequence number, and one   *)
(* lease that stands for all it owns.  Every operator below is one         *)
(* transaction.  A claim is named by its generation: the turn is running   *)
(* exactly when it has an active claim (ConversationTurn.consistent_turn), *)
(* so neither the active claim nor the rows of the old ones are kept.      *)
(***************************************************************************)
EXTENDS Naturals, FiniteSets

CONSTANTS
  MaxTurns,     \* the turns this conversation may have
  Keys          \* submission keys

ASSUME ConversationsAssumption == MaxTurns \in Nat \ {0}

Turns == 1 .. MaxTurns

VARIABLES
  conversation, \* its revision and its active turn, 0 when there is none
  turn,         \* the turns
  status,       \* the status of each run
  plan,         \* the checkpoint of each run's plan review
  lease,        \* the status of what each run owns
  up            \* does it still exist?
storeVars == <<conversation, turn, status, plan, lease, up>>

Active == {"running", "waiting", "recovery_required"}
Settled == {"delivered", "failed", "cancelled"}
TurnStatus == {"none"} \cup Active \cup Settled

Paused == {"paused_plan", "paused_approval"}
Ended == {"completed", "failed", "cancelled", "rejected"}
\* "applying" is APPLYING, and RUNNING in the cleanup stage of an application.
RunStatus == {"none", "created", "running", "ready", "applying"} \cup Paused \cup Ended

\* "wanted" is a required review that has no checkpoint yet, "none" is not required.
PlanStatus == {"none", "wanted", "pending", "approved", "consumed"}

Clean == {"none", "released", "recovered"}
LeaseStatus == {"active", "releasing", "failed"} \cup Clean

NoTurn == [status |-> "none", revision |-> 0, generation |-> 0, fenced |-> FALSE,
           key |-> "none"]

StoreInit ==
  /\ conversation = [revision |-> 0, active |-> 0]
  /\ turn = [t \in Turns |-> NoTurn]
  /\ status = [t \in Turns |-> "none"]
  /\ plan = [t \in Turns |-> "none"]
  /\ lease = [t \in Turns |-> "none"]
  /\ up = [t \in Turns |-> FALSE]

Registered == {t \in Turns : turn[t].status # "none"}
Last == Cardinality(Registered)

\* save_run, for a save that ends the run: any status but another end may precede.
CanEnd(t, end) == status[t] \notin Ended \/ status[t] = end

\* A bug: a lease that is being released counts as released.
Outstanding_optimistic(t) == lease[t] \notin Clean \cup {"releasing"}

\* _outstanding
Outstanding(t) == lease[t] \notin Clean

\* A bug: the conversation keeps its turn when the turn is settled.
WriteTurn_keeping(t, new) ==
  /\ turn' = [turn EXCEPT ![t] = [new EXCEPT !.revision = @ + 1]]
  /\ conversation' = [revision |-> conversation.revision + 1, active |-> t]

\* _write_turn and _advance: every write of a turn advances the conversation.
WriteTurn(t, new) ==
  /\ turn' = [turn EXCEPT ![t] = [new EXCEPT !.revision = @ + 1]]
  /\ conversation' = [revision |-> conversation.revision + 1,
                      active |-> IF new.status \in Active THEN t ELSE 0]

\* register_turn_run, for a submission prepared at a revision.  A key that is there
\* already is answered with its turn and without a claim.
Registrable(k, revision) ==
  /\ \A t \in Registered : turn[t].key # k
  /\ conversation.revision = revision
  /\ conversation.active = 0
  /\ Last + 1 \in Turns

RegisterTurnRun(k, review) ==
  LET t == Last + 1 IN
  /\ turn' = [turn EXCEPT ![t] = [NoTurn EXCEPT !.status = "running", !.generation = 1,
                                                !.key = k]]
  /\ conversation' = [revision |-> conversation.revision + 1, active |-> t]
  /\ status' = [status EXCEPT ![t] = "created"]
  /\ plan' = [plan EXCEPT ![t] = review]
  /\ UNCHANGED <<lease, up>>

\* _owned, and assert_claim
Owns(t, generation) ==
  turn[t].status = "running" /\ turn[t].generation = generation

\* claim_resume
CanClaim(t, revision) ==
  /\ turn[t].revision = revision
  /\ turn[t].status = "waiting"
  /\ status[t] \in Paused

ClaimResume(t) ==
  /\ WriteTurn(t, [turn[t] EXCEPT !.status = "running", !.generation = @ + 1])
  /\ UNCHANGED <<status, plan, lease, up>>

\* _settled_update: what a turn is when its execution is over.
Settleable(t) == status[t] \in Paused \cup {"ready"} \cup Ended

Outcome(t) ==
  CASE status[t] \in Paused -> "waiting"
    [] status[t] \notin Paused /\ Outstanding(t) -> "recovery_required"
    [] ~Outstanding(t) /\ status[t] \in {"ready", "completed"} -> "delivered"
    [] ~Outstanding(t) /\ status[t] = "cancelled" -> "cancelled"
    [] ~Outstanding(t) /\ status[t] \in {"failed", "rejected"} -> "failed"

SettledUpdate(t) ==
  /\ WriteTurn(t, [turn[t] EXCEPT !.status = Outcome(t),
                                  !.fenced = @ \/ Outcome(t) = "recovery_required"])
  /\ UNCHANGED <<status, plan, lease, up>>

\* settle
CanSettle(t, generation) == Owns(t, generation) /\ Settleable(t)

\* _fence_in_transaction: a cancel without the claim may fence a waiting turn only.
CanFence(t, revision, reason, claimed) ==
  /\ turn[t].revision = revision
  /\ turn[t].status \in Active
  /\ reason = "cancelled" /\ ~claimed => turn[t].status = "waiting"

\* A bug: the turn is fenced, and the run is left to its next reader.
Fence_gently(t, end) ==
  /\ WriteTurn(t, [turn[t] EXCEPT !.status = "recovery_required", !.fenced = TRUE])
  /\ UNCHANGED <<status, plan, lease, up>>

\* A run that has not ended ends in the same transaction.
Fence(t, end) ==
  /\ WriteTurn(t, [turn[t] EXCEPT !.status = "recovery_required", !.fenced = TRUE])
  /\ status' = [status EXCEPT ![t] = IF @ \in Ended THEN @ ELSE end]
  /\ UNCHANGED <<plan, lease, up>>

\* reconcile_fenced
CanReconcile(t) ==
  /\ turn[t].status = "recovery_required"
  /\ status[t] \in Ended
  /\ ~Outstanding(t)

-----------------------------------------------------------------------------
\* The reviewed recovery.  A snapshot is what capture_recovery shows of the last turn.
Snapshot(t) ==
  [revision |-> conversation.revision, generation |-> turn[t].generation,
   status |-> status[t], lease |-> lease[t]]

\* _recoverable
Retained(t) == turn[t].status \in {"running", "recovery_required"}
Recoverable(t) ==
  /\ status[t] \in Ended \cup {"running", "applying"} \/ Retained(t)
  /\ status[t] \in Ended => Outstanding(t) \/ Retained(t)

CanCapture(t) == t = Last /\ Recoverable(t)

\* A bug: what was compared when the code was confirmed is not compared again.
CanPrepare_trusting(t, snapshot) ==
  /\ CanCapture(t)
  /\ turn[t].status \notin Active => status[t] \in Ended

\* prepare_reviewed_recovery: an active turn is fenced; a settled one, whose run has
\* ended, is fenced again for what was left behind.
CanPrepare(t, snapshot) ==
  /\ Snapshot(t) = snapshot
  /\ CanCapture(t)
  /\ turn[t].status \notin Active => status[t] \in Ended

PrepareReviewedRecovery(t) == Fence(t, "failed")

\* _assert_recovery_plan: nothing has changed but the leases this plan has claimed.
PlanStands(t, snapshot) ==
  /\ t = Last
  /\ Snapshot(t) = snapshot
  /\ turn[t].status = "recovery_required"

\* claim_recovery_lease, finish_recovery_lease, and every other update of a lease.
SetLease(t, new) ==
  /\ lease' = [lease EXCEPT ![t] = new]
  /\ UNCHANGED <<conversation, turn, status, plan>>

\* reconcile_reviewed_recovery
CanReconcileReviewed(t, snapshot) ==
  PlanStands(t, snapshot) /\ status[t] \in Ended /\ ~Outstanding(t)

-----------------------------------------------------------------------------
SaveRun(t, new) ==
  /\ status' = [status EXCEPT ![t] = new]
  /\ UNCHANGED <<conversation, turn, plan, lease, up>>

PublishPlan(t, checkpoint, new) ==
  /\ plan' = [plan EXCEPT ![t] = checkpoint]
  /\ status' = [status EXCEPT ![t] = new]
  /\ UNCHANGED <<conversation, turn, lease, up>>

\* SqlitePlanReviewStore.create, approve and consume: the run and the head of the
\* review are compared with what the caller read.
CanCreateReview(t) == status[t] = "running" /\ plan[t] = "wanted"
CreateReview(t) == PublishPlan(t, "pending", "paused_plan")

CanApprove(t) == status[t] = "paused_plan" /\ plan[t] = "pending"
ApprovePlan(t) == PublishPlan(t, "approved", "paused_plan")

\* A bug: the decision that was inspected is not read again.
CanConsume_inspected(t) == status[t] \notin Ended

CanConsume(t) == status[t] = "paused_plan" /\ plan[t] = "approved"
ConsumePlan(t) == PublishPlan(t, "consumed", "running")
=============================================================================
