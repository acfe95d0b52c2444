------------------------------ MODULE Sessions ------------------------------
(***************************************************************************)
(* The processes that work on one conversation: those that submit a        *)
(* message and execute its run, resume a turn that waits, cancel it,       *)
(* recover it with or without a review, review its plan and apply its      *)
(* patch (application/conversations.py, session_recovery.py,               *)
(* session_review.py, workflow.py, resources.py and patches.py).           *)
(*                                                                         *)
(* A process runs one command at a time, and none while it holds a review  *)
(* code.  It may die at any moment, and an operator may confirm that an    *)
(* owner has stopped when it has not: the store does not rely on it.       *)
(* Without a conversation the first turn is an ordinary run that requires  *)
(* a plan review; its approvals and its patch are not asked for here.      *)
(***************************************************************************)
EXTENDS Conversations

CONSTANTS
  Procs,
  Commanded,    \* the turns that are resumed, cancelled, recovered, reviewed or applied
  Shapes,       \* is there a conversation, who works on it, how many turns may it
                \* have, and how many processes may die
  MaxClaims,    \* claims of one turn
  MaxRevision   \* no recovery begins on a turn written more often

ASSUME SessionsAssumption ==
  /\ Commanded \subseteq Turns
  /\ Shapes \subseteq [chat : BOOLEAN, procs : SUBSET Procs, turns : Nat, crashes : Nat]

VARIABLES
  shape,        \* one of the shapes
  pc, job,      \* what each process does next, and what it has read
  ticket,       \* the review code each process has issued
  late,         \* the runs for which a fenced owner has taken resources
  crashes
vars == <<storeVars, shape, pc, job, ticket, late, crashes>>

NoSnapshot == [revision |-> 0, generation |-> 0, status |-> "none", lease |-> "none"]
NoTicket == [kind |-> "none", turn |-> 0, snapshot |-> NoSnapshot]
Idle == [turn |-> 0, generation |-> 0, revision |-> 0, key |-> "none", saw |-> "none",
         target |-> "none", next |-> "idle", snapshot |-> NoSnapshot]

\* A process between its first and its last step of an execution.
Working == {"begin", "call", "agent", "dispatch", "take", "present"}
Labels == Working \cup
  {"idle", "register", "claim", "inspect", "consume", "unpause", "refused", "failing",
   "settle", "mark", "clean", "cancel_fence", "cancel_save", "recover_turn",
   "recover_fence", "recover_save", "reconcile", "approve", "confirmed", "recovering",
   "cleaning", "finish", "recovered", "apply"}

Init ==
  /\ StoreInit
  /\ shape \in Shapes
  /\ pc = [p \in Procs |-> "idle"]
  /\ job = [p \in Procs |-> Idle]
  /\ ticket = [p \in Procs |-> NoTicket]
  /\ late = {}
  /\ crashes = 0

Own == <<ticket, late, crashes, shape>>

chat == shape.chat
T(p) == job[p].turn
HasClaim(p) == chat => Owns(T(p), job[p].generation)

\* What a process does next, with what it has read; a command that is over forgets it.
Goto(p, label) == pc' = [pc EXCEPT ![p] = label] /\ UNCHANGED job
Enter(p, label, new) == pc' = [pc EXCEPT ![p] = label] /\ job' = [job EXCEPT ![p] = new]
Over(p) == Enter(p, "idle", Idle)
Command(p, t, label, new) ==
  /\ pc[p] = "idle" /\ ticket[p].kind = "none"
  /\ Enter(p, label, [new EXCEPT !.turn = t])
Refuse(p) == Over(p) /\ UNCHANGED storeVars

\* cleanup_run, towards what it makes of the lease, and what comes next.
CleanThen(p, t, target, next) ==
  Enter(p, "mark", [Idle EXCEPT !.turn = t, !.generation = job[p].generation,
                                !.target = target, !.next = next])

-----------------------------------------------------------------------------
\* ConversationService.submit reads the conversation; workflow.start registers later.
Submit(p) ==
  /\ chat /\ conversation.active = 0
  /\ \E k \in Keys :
       /\ \A t \in Registered : turn[t].key # k
       /\ Last < shape.turns
       /\ Command(p, 0, "register",
                  [Idle EXCEPT !.revision = conversation.revision, !.key = k])
  /\ UNCHANGED <<storeVars, Own>>

Register(p) ==
  /\ pc[p] = "register"
  /\ IF Registrable(job[p].key, job[p].revision)
       THEN /\ \E review \in {"none"} \cup (IF Last + 1 \in Commanded THEN {"wanted"} ELSE {}) :
                 RegisterTurnRun(job[p].key, review)
            /\ Enter(p, "begin", [Idle EXCEPT !.turn = Last + 1, !.generation = 1])
       ELSE Refuse(p)
  /\ UNCHANGED Own

\* `fleet run` outside a conversation.
StartOrdinary(p) ==
  /\ ~chat /\ status[1] = "none"
  /\ Command(p, 1, "begin", Idle)
  /\ status' = [status EXCEPT ![1] = "created"]
  /\ plan' = [plan EXCEPT ![1] = "wanted"]
  /\ UNCHANGED <<conversation, turn, lease, up, Own>>

\* A save that is no transition of the run is an error.
Save(p, from, to, label) ==
  IF status[T(p)] = from THEN SaveRun(T(p), to) /\ Goto(p, label)
  ELSE UNCHANGED storeVars /\ Goto(p, "failing")

Begin(p) ==
  /\ pc[p] = "begin"
  /\ Save(p, "created", "running", "call")
  /\ UNCHANGED Own

\* _assert_conversation_execution, before each invocation of an agent: an owner that
\* has lost its claim stops and cleans nothing.
Call(p) ==
  /\ pc[p] = "call"
  /\ IF HasClaim(p) THEN Goto(p, "agent") ELSE Over(p)
  /\ UNCHANGED <<storeVars, Own>>

Scoping(p) == pc[p] = "agent" /\ lease[T(p)] = "none"
Engineering(p) == pc[p] = "agent" /\ lease[T(p)] # "none"

\* The plan is scoped: it waits for its review, or it is dispatched.
Scoped(p) ==
  /\ Scoping(p)
  /\ IF plan[T(p)] = "none" THEN Goto(p, "dispatch") /\ UNCHANGED storeVars
     ELSE IF CanCreateReview(T(p)) THEN CreateReview(T(p)) /\ Goto(p, "settle")
     ELSE Goto(p, "failing") /\ UNCHANGED storeVars
  /\ UNCHANGED Own

\* _dispatch_scoped_plan
Dispatch(p) ==
  /\ pc[p] = "dispatch"
  /\ IF ~HasClaim(p) THEN Over(p)
     ELSE IF status[T(p)] = "running" THEN Goto(p, "take")
     ELSE Goto(p, "failing")
  /\ UNCHANGED <<storeVars, Own>>

\* save_lease and the resource: neither the claim nor the run is read.
Take(p) ==
  /\ pc[p] = "take"
  /\ lease[T(p)] = "none"
  /\ SetLease(T(p), "active")
  /\ up' = [up EXCEPT ![T(p)] = TRUE]
  /\ late' = IF HasClaim(p) THEN late ELSE late \cup {T(p)}
  /\ Goto(p, "call")
  /\ UNCHANGED <<ticket, crashes, shape>>

PauseForApproval(p) ==
  /\ chat /\ Engineering(p)
  /\ Save(p, "running", "paused_approval", "settle")
  /\ UNCHANGED Own

\* The candidate is verified: everything is released, then the run is presented.
Release(p) ==
  /\ Engineering(p)
  /\ CleanThen(p, T(p), "released", "present")
  /\ UNCHANGED <<storeVars, Own>>

Present(p) ==
  /\ pc[p] = "present"
  /\ Save(p, "running", "ready", "settle")
  /\ UNCHANGED Own

AgentFails(p) ==
  /\ pc[p] \in {"agent", "take"}
  /\ Goto(p, "failing")
  /\ UNCHANGED <<storeVars, Own>>

\* The handler of a FleetError, in start and _resume_run.
HandleFailure(p) ==
  /\ pc[p] = "failing"
  /\ IF status[T(p)] # "paused_approval" /\ CanEnd(T(p), "failed")
       THEN SaveRun(T(p), "failed") /\ CleanThen(p, T(p), "released", "settle")
       ELSE Refuse(p)
  /\ UNCHANGED Own

\* _settle_conversation_execution, when the command ended in order.
SettleExecution(p) ==
  /\ pc[p] = "settle"
  /\ Over(p)
  /\ IF chat /\ CanSettle(T(p), job[p].generation) THEN SettledUpdate(T(p))
     ELSE UNCHANGED storeVars
  /\ UNCHANGED Own

\* The task of the command is cancelled: _cancel_conversation_execution.
Interrupt(p) ==
  /\ pc[p] \in {"agent", "unpause"}
  /\ IF chat /\ HasClaim(p) /\ CanFence(T(p), turn[T(p)].revision, "cancelled", TRUE)
       THEN /\ Fence(T(p), "cancelled")
            /\ Enter(p, "cancel_save", [Idle EXCEPT !.turn = T(p), !.next = "reconcile",
                                                    !.saw = status'[T(p)]])
       ELSE Refuse(p)
  /\ UNCHANGED Own

-----------------------------------------------------------------------------
\* cleanup_run and _cleanup_lease_once, without a review plan.
Mark(p) ==
  /\ pc[p] = "mark"
  /\ IF Outstanding(T(p))
       THEN SetLease(T(p), "releasing") /\ UNCHANGED up /\ Goto(p, "clean")
       ELSE UNCHANGED storeVars /\ Goto(p, job[p].next)
  /\ UNCHANGED Own

CleanupFails(p) ==
  IF job[p].next = "present" THEN Goto(p, "failing") ELSE Over(p)

\* The resource is gone, or it cannot be proven absent; _validate_lease_transition.
Sweep(p) ==
  /\ pc[p] = "clean"
  /\ \/ /\ up' = [up EXCEPT ![T(p)] = FALSE]
        /\ IF lease[T(p)] \in {"releasing", job[p].target}
                 \/ (lease[T(p)] = "failed" /\ job[p].target = "recovered")
             THEN SetLease(T(p), job[p].target) /\ Goto(p, job[p].next)
             ELSE UNCHANGED <<conversation, turn, status, plan, lease>> /\ CleanupFails(p)
     \/ /\ UNCHANGED up
        /\ IF lease[T(p)] = "releasing" THEN SetLease(T(p), "failed")
           ELSE UNCHANGED <<conversation, turn, status, plan, lease>>
        /\ CleanupFails(p)
  /\ UNCHANGED Own

Reconcile(p) ==
  /\ pc[p] = "reconcile"
  /\ Over(p)
  /\ IF CanReconcile(T(p)) THEN SettledUpdate(T(p)) ELSE UNCHANGED storeVars
  /\ UNCHANGED Own

-----------------------------------------------------------------------------
\* WorkflowService.resume: the turn is read, then claimed.
Resume(p) ==
  /\ \E t \in Commanded :
       IF chat
         THEN /\ turn[t].status = "waiting"
              /\ turn[t].generation < MaxClaims
              /\ Command(p, t, "claim", [Idle EXCEPT !.revision = turn[t].revision])
         ELSE status[t] = "paused_plan" /\ Command(p, t, "inspect", Idle)
  /\ UNCHANGED <<storeVars, Own>>

Claim(p) ==
  /\ pc[p] = "claim"
  /\ IF CanClaim(T(p), job[p].revision)
       THEN /\ ClaimResume(T(p))
            /\ Enter(p, "inspect", [Idle EXCEPT !.turn = T(p),
                                                !.generation = turn[T(p)].generation + 1])
       ELSE Refuse(p)
  /\ UNCHANGED Own

\* _resume_run up to its first save; credentials or the configuration may refuse it.
Inspect(p) ==
  /\ pc[p] = "inspect"
  /\ CASE status[T(p)] \in Ended \cup {"ready"} -> Goto(p, "settle")
       [] status[T(p)] = "paused_plan" /\ plan[T(p)] = "pending" -> Goto(p, "settle")
       [] status[T(p)] = "paused_plan" /\ plan[T(p)] = "approved" -> Goto(p, "consume")
       [] status[T(p)] = "paused_approval" -> \E label \in {"settle", "unpause"} : Goto(p, label)
       [] OTHER -> Goto(p, "refused")
  /\ UNCHANGED <<storeVars, Own>>

Misconfigured(p) ==
  /\ pc[p] = "inspect" /\ status[T(p)] \in Paused
  /\ Goto(p, "refused")
  /\ UNCHANGED <<storeVars, Own>>

\* The approval was denied.
Reject(p) ==
  /\ pc[p] = "inspect" /\ status[T(p)] = "paused_approval"
  /\ SaveRun(T(p), "rejected")
  /\ CleanThen(p, T(p), "released", "settle")
  /\ UNCHANGED Own

\* The plan is consumed outside the failure handler: a loser must not fail the run.
Consume(p) ==
  /\ pc[p] = "consume"
  /\ IF CanConsume(T(p)) THEN ConsumePlan(T(p)) /\ Goto(p, "dispatch")
     ELSE UNCHANGED storeVars /\ Goto(p, "refused")
  /\ UNCHANGED Own

\* The sandboxes were rehydrated; the run is saved as running again.
Unpause(p) ==
  /\ pc[p] = "unpause"
  /\ IF status[T(p)] \in {"paused_approval", "running"}
       THEN SaveRun(T(p), "running") /\ Goto(p, "call")
       ELSE UNCHANGED storeVars /\ Goto(p, "refused")
  /\ UNCHANGED Own

RehydrationFails(p) ==
  /\ pc[p] = "unpause"
  /\ Goto(p, "refused")
  /\ UNCHANGED <<storeVars, Own>>

\* The handler of a FleetError in resume: in order only if nothing is left.
HandleRefusal(p) ==
  /\ pc[p] = "refused"
  /\ IF ~Outstanding(T(p)) /\ status[T(p)] \in {"paused_plan", "failed", "rejected", "cancelled"}
       THEN Goto(p, "settle") ELSE Over(p)
  /\ UNCHANGED <<storeVars, Own>>

-----------------------------------------------------------------------------
\* CancellationService.cancel, by a process without the claim; a run that ended
\* otherwise is not cancelled.
Cancel(p) ==
  /\ \E t \in Commanded :
       LET now == [Idle EXCEPT !.saw = status[t], !.revision = turn[t].revision] IN
       /\ status[t] # "none"
       /\ IF turn[t].status = "waiting" THEN Command(p, t, "cancel_fence", now)
          ELSE /\ turn[t].status \notin Active
               /\ status[t] \in Ended => status[t] = "cancelled" /\ Outstanding(t)
               /\ Command(p, t, "cancel_save", now)
  /\ UNCHANGED <<storeVars, Own>>

CancelFence(p) ==
  /\ pc[p] = "cancel_fence"
  /\ IF CanFence(T(p), job[p].revision, "cancelled", FALSE)
       THEN /\ Fence(T(p), "cancelled")
            /\ Enter(p, "cancel_save", [Idle EXCEPT !.turn = T(p), !.next = "reconcile",
                                                    !.saw = status'[T(p)]])
       ELSE Refuse(p)
  /\ UNCHANGED Own

\* A run that ended otherwise is left alone, unless it still owns something.
CancelSave(p) ==
  /\ pc[p] = "cancel_save"
  /\ IF job[p].saw \in Ended \ {"cancelled"}
       THEN /\ UNCHANGED storeVars
            /\ IF Outstanding(T(p)) THEN Over(p) ELSE Goto(p, job[p].next)
     ELSE IF CanEnd(T(p), "cancelled")
       THEN SaveRun(T(p), "cancelled") /\ CleanThen(p, T(p), "released", job[p].next)
     ELSE Refuse(p)
  /\ UNCHANGED Own

-----------------------------------------------------------------------------
\* RecoveryService.recover_run without a review: the run is read before the turn.  One
\* that is over, and owns nothing, is left as it is.
Recover(p) ==
  /\ \E t \in Commanded :
       /\ status[t] # "none"
       /\ status[t] \in Ended => Retained(t) \/ Outstanding(t)
       /\ turn[t].revision < MaxRevision
       /\ Command(p, t, "recover_turn", [Idle EXCEPT !.saw = status[t]])
  /\ UNCHANGED <<storeVars, Own>>

RecoverTurn(p) ==
  /\ pc[p] = "recover_turn"
  /\ CASE ~Retained(T(p)) -> Goto(p, "recover_save")
       [] Retained(T(p)) /\ turn[T(p)].fenced ->
            Enter(p, "recover_save", [job[p] EXCEPT !.saw = status[T(p)], !.next = "reconcile"])
       [] Retained(T(p)) /\ ~turn[T(p)].fenced ->
            Enter(p, "recover_fence", [job[p] EXCEPT !.revision = turn[T(p)].revision])
  /\ UNCHANGED <<storeVars, Own>>

RecoverFence(p) ==
  /\ pc[p] = "recover_fence"
  /\ IF CanFence(T(p), job[p].revision, "failed", FALSE)
       THEN /\ Fence(T(p), "failed")
            /\ Enter(p, "recover_save", [Idle EXCEPT !.turn = T(p), !.next = "reconcile",
                                                     !.saw = status'[T(p)]])
       ELSE Refuse(p)
  /\ UNCHANGED Own

RecoverSave(p) ==
  /\ pc[p] = "recover_save"
  /\ IF job[p].saw \in Ended
       THEN UNCHANGED storeVars /\ CleanThen(p, T(p), "recovered", job[p].next)
     ELSE IF job[p].saw \in {"running", "applying"} /\ CanEnd(T(p), "failed")
       THEN SaveRun(T(p), "failed") /\ CleanThen(p, T(p), "recovered", job[p].next)
     ELSE Refuse(p)
  /\ UNCHANGED Own

-----------------------------------------------------------------------------
\* SessionRecoveryService.prepare and SessionReviewService.plan issue a code for what
\* they show; a new code replaces the old one.
Issue(p, kind, t) ==
  /\ chat /\ pc[p] = "idle"
  /\ ticket' = [ticket EXCEPT ![p] = [kind |-> kind, turn |-> t, snapshot |-> Snapshot(t)]]
  /\ UNCHANGED <<storeVars, pc, job, late, crashes, shape>>

ReviewRecovery(p) ==
  \E t \in Commanded : CanCapture(t) /\ turn[t].revision < MaxRevision /\ Issue(p, "recovery", t)
ReviewPlan(p) == \E t \in Commanded : t = Last /\ CanApprove(t) /\ Issue(p, "plan", t)

\* confirm: the code is gone, whatever it was good for.  A code may also expire.
Redeem(p, kind) ==
  /\ pc[p] = "idle" /\ ticket[p].kind = kind
  /\ ticket' = [ticket EXCEPT ![p] = NoTicket]
  /\ UNCHANGED <<storeVars, late, crashes, shape>>

Expire(p) == \E kind \in {"recovery", "plan"} : Redeem(p, kind) /\ UNCHANGED <<pc, job>>

ConfirmRecovery(p) ==
  /\ Redeem(p, "recovery")
  /\ LET t == ticket[p].turn IN
       IF CanCapture(t) /\ Snapshot(t) = ticket[p].snapshot
         THEN Enter(p, "confirmed", [Idle EXCEPT !.turn = t, !.snapshot = ticket[p].snapshot])
         ELSE UNCHANGED <<pc, job>>

Prepare(p) ==
  /\ pc[p] = "confirmed"
  /\ IF CanPrepare(T(p), job[p].snapshot)
       THEN \E t \in {T(p)} :
              /\ PrepareReviewedRecovery(t)
              /\ Enter(p, "recovering", [Idle EXCEPT !.turn = t, !.snapshot = Snapshot(t)'])
       ELSE Refuse(p)
  /\ UNCHANGED Own

\* Each lease of the plan is claimed once, by this plan.
ClaimLease(p) ==
  /\ pc[p] = "recovering"
  /\ CASE job[p].snapshot.lease \in Clean -> Goto(p, "recovered") /\ UNCHANGED storeVars
       [] job[p].snapshot.lease \notin Clean /\ PlanStands(T(p), job[p].snapshot) ->
            /\ SetLease(T(p), "releasing") /\ UNCHANGED up
            /\ Enter(p, "cleaning", [job[p] EXCEPT !.snapshot.lease = "releasing"])
       [] OTHER -> Refuse(p)
  /\ UNCHANGED Own

Destroy(p) ==
  /\ pc[p] = "cleaning"
  /\ \E gone \in BOOLEAN :
       /\ up' = [up EXCEPT ![T(p)] = @ /\ ~gone]
       /\ Enter(p, "finish",
                [job[p] EXCEPT !.target = IF gone THEN "recovered" ELSE "failed"])
  /\ UNCHANGED <<conversation, turn, status, plan, lease, Own>>

FinishLease(p) ==
  /\ pc[p] = "finish"
  /\ IF ~PlanStands(T(p), job[p].snapshot) THEN Refuse(p)
     ELSE /\ SetLease(T(p), job[p].target) /\ UNCHANGED up
          /\ IF job[p].target = "failed" THEN Over(p)
             ELSE Enter(p, "recovered", [job[p] EXCEPT !.snapshot.lease = "recovered"])
  /\ UNCHANGED Own

ReconcileReviewed(p) ==
  /\ pc[p] = "recovered"
  /\ Over(p)
  /\ IF CanReconcileReviewed(T(p), job[p].snapshot) THEN SettledUpdate(T(p))
     ELSE UNCHANGED storeVars
  /\ UNCHANGED Own

\* The selection the plan was reviewed in is checked before the store approves it.
ConfirmPlan(p) ==
  /\ Redeem(p, "plan")
  /\ IF conversation.revision = ticket[p].snapshot.revision
       THEN Enter(p, "approve", [Idle EXCEPT !.turn = ticket[p].turn])
       ELSE UNCHANGED <<pc, job>>

\* `fleet plan approve` needs no selection.
ApproveOrdinary(p) ==
  /\ ~chat /\ CanApprove(1)
  /\ Command(p, 1, "approve", Idle)
  /\ UNCHANGED <<storeVars, Own>>

Approve(p) ==
  /\ pc[p] = "approve"
  /\ Over(p)
  /\ IF CanApprove(T(p)) THEN ApprovePlan(T(p)) ELSE UNCHANGED storeVars
  /\ UNCHANGED Own

-----------------------------------------------------------------------------
\* PatchService.apply, which no claim guards.
Apply(p) ==
  /\ \E t \in Commanded :
       /\ chat /\ status[t] = "ready"
       /\ Command(p, t, "apply", Idle)
       /\ SaveRun(t, "applying")
  /\ UNCHANGED Own

FinishApply(p) ==
  /\ pc[p] = "apply"
  /\ Over(p)
  /\ IF status[T(p)] = "applying" THEN \E end \in {"completed", "failed"} : SaveRun(T(p), end)
     ELSE UNCHANGED storeVars
  /\ UNCHANGED Own

Die(p) ==
  /\ crashes < shape.crashes
  /\ pc[p] # "idle"
  /\ Over(p)
  /\ ticket' = [ticket EXCEPT ![p] = NoTicket]
  /\ crashes' = crashes + 1
  /\ UNCHANGED <<storeVars, late, shape>>

Execution(p) ==
  \/ Submit(p) \/ Register(p) \/ StartOrdinary(p) \/ Begin(p) \/ Call(p) \/ Scoped(p)
  \/ Dispatch(p) \/ Take(p) \/ PauseForApproval(p) \/ Release(p) \/ Present(p)
  \/ AgentFails(p) \/ HandleFailure(p) \/ SettleExecution(p) \/ Interrupt(p)
  \/ Mark(p) \/ Sweep(p) \/ Reconcile(p)
  \/ Resume(p) \/ Claim(p) \/ Inspect(p) \/ Misconfigured(p) \/ Reject(p) \/ Consume(p)
  \/ Unpause(p) \/ RehydrationFails(p) \/ HandleRefusal(p)

Control(p) ==
  \/ Cancel(p) \/ CancelFence(p) \/ CancelSave(p)
  \/ Recover(p) \/ RecoverTurn(p) \/ RecoverFence(p) \/ RecoverSave(p)
  \/ ReviewRecovery(p) \/ Expire(p) \/ ConfirmRecovery(p) \/ Prepare(p) \/ ClaimLease(p) \/ Destroy(p)
  \/ FinishLease(p) \/ ReconcileReviewed(p)
  \/ ReviewPlan(p) \/ ConfirmPlan(p) \/ ApproveOrdinary(p) \/ Approve(p)
  \/ Apply(p) \/ FinishApply(p)

Next == \E p \in shape.procs : Execution(p) \/ Control(p) \/ Die(p)

Spec == Init /\ [][Next]_vars

\* Every variable has its type, and the conversation names its one active turn (_advance).
TypeOK ==
  /\ conversation.revision \in Nat
  /\ conversation.active = (IF \E t \in Turns : turn[t].status \in Active THEN Last ELSE 0)
  /\ \A t \in Turns :
       /\ turn[t].status \in TurnStatus
       /\ turn[t].revision \in Nat /\ turn[t].generation \in Nat
       /\ turn[t].fenced \in BOOLEAN /\ turn[t].key \in Keys \cup {"none"}
  /\ status \in [Turns -> RunStatus]
  /\ plan \in [Turns -> PlanStatus]
  /\ lease \in [Turns -> LeaseStatus]
  /\ up \in [Turns -> BOOLEAN]
  /\ shape \in Shapes
  /\ pc \in [Procs -> Labels]
  /\ \A p \in Procs :
       /\ job[p].turn \in Turns \cup {0}
       /\ job[p].saw \in RunStatus
       /\ job[p].next \in Labels
       /\ ticket[p].kind \in {"none", "plan", "recovery"}
  /\ late \subseteq Turns
  /\ crashes \in 0 .. shape.crashes

\* One process executes a run (claim_resume, consume, _fence_in_transaction): two do so
\* only when the run has ended, and whoever has lost its claim executes a run that has.
OneOwner ==
  \A t \in Turns : status[t] \notin Ended =>
    LET workers == {p \in Procs : pc[p] \in Working /\ T(p) = t} IN
    /\ Cardinality(workers) <= 1
    /\ \A p \in workers : HasClaim(p)

\* A turn that is settled is over (_settled_update, reconcile_fenced): its run does not
\* work any more, and nothing of it exists but what a fenced owner, who was said to have
\* stopped, took later; of this there is a lease, and the run has ended, so that a
\* review can recover it.
SettledIsOver ==
  \A t \in Turns : turn[t].status \in Settled =>
    /\ status[t] \in Ended \cup {"ready", "applying"}
    /\ up[t] => t \in late /\ status[t] \in Ended /\ Outstanding(t)

\* A reviewed recovery ends what the operator was shown (prepare_reviewed_recovery): the
\* owner, the run and the resources are those of the review, whoever moved since.
Fenced(p) == pc[p] = "confirmed" /\ pc'[p] = "recovering"
ReviewedOwnerOnly ==
  [][\A p \in Procs : Fenced(p) =>
       LET shown == job[p].snapshot IN
       /\ turn[T(p)].generation = shown.generation
       /\ status[T(p)] = shown.status
       /\ lease[T(p)] = shown.lease]_vars
=============================================================================
