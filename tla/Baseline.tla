------------------------------ MODULE Baseline ------------------------------
(***************************************************************************)
(* A reviewed baseline: one command of the project, run once, without a    *)
(* model.  A review is authorized; the authorization is consumed by one    *)
(* owner, for good; the owner makes a workspace and a sandbox, dispatches  *)
(* the command once and records what it observed; then somebody, the owner *)
(* or after its death a reviewed recovery, fences the records, cleans up   *)
(* what is left and publishes a report.                                    *)
(*                                                                         *)
(* Every write of the store after the claim bumps the revision of the      *)
(* execution: a snapshot is current as long as its revision is.  A process *)
(* gives one command.  A step of the owner may fail, be cancelled or time  *)
(* out wherever it is, and any process may die.                            *)
(***************************************************************************)
EXTENDS Naturals

CONSTANTS
  Procs,      \* the processes that run or recover the baseline
  Sessions    \* those that are a foreground session: they confirm, then run, then stay

Kinds == {"execution", "sandbox", "workspace"}
None == "none"

ASSUME BaselineAssumption == Sessions \subseteq Procs /\ None \notin Procs

VARIABLES
  row,          \* the execution, its authorization, owner, dispatch and last fence
  lease,        \* the lease of each resource
  observation,  \* what was observed of the command
  report,       \* the current report
  worktree,     \* does the workspace exist?
  container,    \* the container of the command: none, asked of the daemon, or there
  starts,       \* how often the command was started; the program does not see it
  guard,        \* who holds the locks of the organization and of the trust policy
  edits,        \* what has changed since the review, and by whom
  expired,      \* the five minutes of the review are over
  pc, job       \* what each process does next, and what it keeps in memory
storeVars == <<row, lease, observation, report>>
worldVars == <<worktree, container, starts>>
vars == <<storeVars, worldVars, guard, edits, expired, pc, job>>

NoLease == [status |-> None, dispatched |-> FALSE, handle |-> FALSE]
NoReport == [status |-> None, complete |-> FALSE, gap |-> FALSE]
NoJob == [rev |-> 0, fence |-> 0, result |-> None,
          kind |-> None, complete |-> FALSE, error |-> FALSE]

Init ==
  /\ row = [status |-> "planned", rev |-> 0, auth |-> None, owner |-> None,
            dispatch |-> FALSE, fence |-> 0]
  /\ lease = [k \in Kinds |-> NoLease]
  /\ observation = None /\ report = NoReport
  /\ worktree = FALSE /\ container = None /\ starts = 0
  /\ guard = None /\ edits = {} /\ expired = FALSE
  /\ pc = [p \in Procs |-> "idle"]
  /\ job = [p \in Procs |-> NoJob]

(***************************************************************************)
(* Processes.                                                              *)
(***************************************************************************)
At(p, label) == pc[p] = label
Goto(p, label) == pc' = [pc EXCEPT ![p] = label]
Unguarded(p) == IF guard = p THEN None ELSE guard

\* The process forgets what it held; its locks are released.
Stop(p, label) ==
  /\ Goto(p, label)
  /\ job' = [job EXCEPT ![p] = NoJob]
  /\ guard' = Unguarded(p)

\* A command that is over ends its process; a session stays until it is left.
End(p) == Stop(p, IF p \in Sessions THEN "over" ELSE "gone")

\* A process ends, in the middle of whatever it does.
Die(p) ==
  /\ pc[p] \notin {"idle", "gone"}
  /\ Stop(p, "gone")
  /\ UNCHANGED <<storeVars, worldVars, edits, expired>>

(***************************************************************************)
(* Around the baseline: time, what the review froze, and the conversation  *)
(* of a session.  The commands of fleet change the organization and the    *)
(* policy under the locks that the guard holds; editors do not.  What no   *)
(* step of the baseline reads any more is left as it is.                   *)
(***************************************************************************)
Expire ==
  /\ ~expired /\ row.status = "planned"
  /\ expired' = TRUE
  /\ UNCHANGED <<storeVars, worldVars, guard, edits, pc, job>>

Edit(by) ==
  /\ by \notin edits
  /\ row.status \in (IF by = "turn" THEN {"planned"} ELSE {"planned", "owned", "executing"})
  /\ by = "command" => guard = None
  /\ edits' = edits \cup {by}
  /\ UNCHANGED <<storeVars, worldVars, guard, expired, pc, job>>

\* Source, configuration and policy are those of the review.
AsReviewed == edits \cap {"command", "hand"} = {}

\* A session speaks for the conversation it reviewed, which no turn has moved since.
SessionAdmission(p) == p \in Sessions => "turn" \notin edits

(***************************************************************************)
(* The store.                                                              *)
(***************************************************************************)
CanAuthorize ==
  /\ row.status = "planned" /\ ~expired
  /\ row.auth \in {None, "available"}

CanClaim(rev) ==
  /\ row.rev = rev /\ row.status = "planned"
  /\ row.auth = "available" /\ ~expired

\* The owner, alive, while nobody has begun to clean up.
HasClaim(p) == row.owner = p /\ row.status \in {"owned", "executing"}

\* The last fence is this process's, and what it does is not reported yet.
Fenced(p) == row.status = "cleaning" /\ row.fence = job[p].fence

Bumped == [row EXCEPT !.rev = @ + 1]
SetLease(k, l) == lease' = [lease EXCEPT ![k] = l] /\ row' = Bumped

\* Cleanup goes from the command to what it stands on.
Left == {k \in Kinds : lease[k].status \notin {None, "released"}}
Released == Left = {}
Before(k) == CASE k = "execution" -> {} [] k = "sandbox" -> {"execution"}
               [] k = "workspace" -> {"execution", "sandbox"}

\* What the readers compare: the owner's claim with the execution and the authorization,
OwnerAgrees ==
  /\ row.owner = None <=> row.status \in {"planned", "revoked"}
  /\ row.owner # None <=> row.auth = "consumed"

\* the leases with the dispatch, with what each stands on, and with their receipts,
SnapshotAgrees ==
  /\ row.dispatch <=> lease["execution"].status # None
  /\ \A j, k \in Kinds : k \in Before(j) /\ lease[k].status # None => lease[j].status # None
  /\ lease["execution"].handle => lease["execution"].dispatched
  /\ \A k \in Kinds : lease[k].status \in {"failed", "released"} => row.fence > 0

\* the observation with the command it observed,
ObservationAgrees == observation # None => lease["execution"].handle /\ row.dispatch

\* and the report with the leases and the observation it was written over.
ReportAgrees ==
  /\ report.complete <=> report.status \in {"observed", "inconclusive"}
  /\ report.complete => Released
  /\ report.status = "observed" => observation = "conclusive" /\ ~report.gap

Revoke ==
  /\ row.status = "planned"
  /\ row' = [Bumped EXCEPT !.status = "revoked",
                           !.auth = IF @ = "available" THEN "revoked" ELSE @]
  /\ UNCHANGED <<lease, observation, report, worldVars, guard, edits, expired, pc, job>>

(***************************************************************************)
(* Authorizing and claiming.                                               *)
(***************************************************************************)
\* A session confirms the review with its code: this authorizes, and runs nothing.
Confirm(p) ==
  /\ p \in Sessions /\ At(p, "idle")
  /\ guard = None /\ AsReviewed /\ SessionAdmission(p) /\ CanAuthorize
  /\ row' = [row EXCEPT !.auth = "available"]
  /\ Goto(p, "confirmed")
  /\ UNCHANGED <<lease, observation, report, worldVars, guard, edits, expired, job>>

\* A run reads the review and the revision it will claim.
Look(p) ==
  /\ At(p, IF p \in Sessions THEN "confirmed" ELSE "idle")
  /\ row.owner = None
  /\ job' = [job EXCEPT ![p].rev = row.rev]
  /\ Goto(p, "admit")
  /\ UNCHANGED <<storeVars, worldVars, guard, edits, expired>>

Admit(p) ==
  /\ At(p, "admit")
  /\ guard = None /\ AsReviewed
  /\ guard' = p
  /\ Goto(p, IF p \in Sessions THEN "claim" ELSE "authorize")
  /\ UNCHANGED <<storeVars, worldVars, edits, expired, job>>

Authorize(p) ==
  /\ At(p, "authorize") /\ CanAuthorize
  /\ row' = [row EXCEPT !.auth = "available"]
  /\ Goto(p, "claim")
  /\ UNCHANGED <<lease, observation, report, worldVars, guard, edits, expired, job>>

Claim(p) ==
  /\ At(p, "claim") /\ CanClaim(job[p].rev) /\ SessionAdmission(p)
  /\ row' = [Bumped EXCEPT !.status = "owned", !.auth = "consumed", !.owner = p]
  /\ job' = [job EXCEPT ![p] = NoJob]
  /\ Goto(p, "workspace")
  /\ UNCHANGED <<lease, observation, report, worldVars, guard, edits, expired>>

\* A run or a recovery that is refused, or interrupted, before it owns anything.
Refuse(p) ==
  /\ pc[p] \in {"admit", "authorize", "claim", "recover"}
  /\ End(p)
  /\ UNCHANGED <<storeVars, worldVars, edits, expired>>

(***************************************************************************)
(* The owner's resources, under the guard it claimed with.                 *)
(***************************************************************************)
CanReserve(k) ==
  /\ lease[k] = NoLease
  /\ k = "sandbox" => lease["workspace"].status = "active"

Reserve(p, k) ==
  /\ k \in {"workspace", "sandbox"}
  /\ At(p, k) /\ HasClaim(p) /\ CanReserve(k)
  /\ SetLease(k, [NoLease EXCEPT !.status = "creating"])
  /\ Goto(p, IF k = "workspace" THEN "materialize" ELSE "prepared")
  /\ UNCHANGED <<observation, report, worldVars, guard, edits, expired, job>>

Materialize(p) ==
  /\ At(p, "materialize")
  /\ worktree' = TRUE
  /\ Goto(p, "materialized")
  /\ UNCHANGED <<storeVars, container, starts, guard, edits, expired, job>>

\* The guard ends with the sandbox; the gateway takes one of its own.
Activate(p, k) ==
  /\ At(p, IF k = "workspace" THEN "materialized" ELSE "prepared")
  /\ k \in {"workspace", "sandbox"} /\ HasClaim(p) /\ lease[k].status = "creating"
  /\ SetLease(k, [lease[k] EXCEPT !.status = "active"])
  /\ Goto(p, IF k = "workspace" THEN "sandbox" ELSE "enter")
  /\ guard' = IF k = "workspace" THEN guard ELSE None
  /\ UNCHANGED <<observation, report, worldVars, edits, expired, job>>

(***************************************************************************)
(* The one dispatch, under the gateway's guard.                            *)
(***************************************************************************)
\* A bug: the guard is taken without comparing what it guards.
Enter_consented(p) ==
  /\ At(p, "enter")
  /\ guard = None
  /\ guard' = p
  /\ Goto(p, "dispatch")
  /\ UNCHANGED <<storeVars, worldVars, edits, expired, job>>

Enter(p) ==
  /\ At(p, "enter")
  /\ guard = None /\ AsReviewed
  /\ guard' = p
  /\ Goto(p, "dispatch")
  /\ UNCHANGED <<storeVars, worldVars, edits, expired, job>>

CanDispatch(p) ==
  /\ HasClaim(p) /\ ~row.dispatch
  /\ lease["execution"] = NoLease
  /\ lease["workspace"].status = "active" /\ lease["sandbox"].status = "active"

Dispatch(p) ==
  /\ At(p, "dispatch") /\ CanDispatch(p)
  /\ row' = [Bumped EXCEPT !.status = "executing", !.dispatch = TRUE]
  /\ lease' = [lease EXCEPT !["execution"].status = "creating"]
  /\ Goto(p, "mark")
  /\ UNCHANGED <<observation, report, worldVars, guard, edits, expired, job>>

\* Before the daemon is asked, the store knows that it may be.
MarkDispatched(p) ==
  /\ At(p, "mark") /\ AsReviewed /\ HasClaim(p)
  /\ lease["execution"].status = "creating" /\ ~lease["execution"].dispatched
  /\ SetLease("execution", [lease["execution"] EXCEPT !.dispatched = TRUE])
  /\ Goto(p, "create")
  /\ UNCHANGED <<observation, report, worldVars, guard, edits, expired, job>>

Create(p) ==
  /\ At(p, "create")
  /\ container' = "asked"
  /\ Goto(p, "created")
  /\ UNCHANGED <<storeVars, worktree, starts, guard, edits, expired, job>>

\* The daemon creates the container or does not, whoever still waits for it.
DaemonAnswers ==
  /\ container = "asked"
  /\ container' \in {"up", None}
  /\ UNCHANGED <<storeVars, worktree, starts, guard, edits, expired, pc, job>>

Created(p) ==
  /\ At(p, "created") /\ container = "up"
  /\ Goto(p, "bind")
  /\ UNCHANGED <<storeVars, worldVars, guard, edits, expired, job>>

\* The identity of the container is kept before the command starts.
Bind(p) ==
  /\ At(p, "bind") /\ AsReviewed /\ HasClaim(p)
  /\ lease["execution"].status = "creating" /\ lease["execution"].dispatched
  /\ SetLease("execution", [lease["execution"] EXCEPT !.status = "active", !.handle = TRUE])
  /\ Goto(p, "start")
  /\ UNCHANGED <<observation, report, worldVars, guard, edits, expired, job>>

\* What is observed is conclusive, or timed out, cut off, or left the source changed.
StartCommand(p) ==
  /\ At(p, "start")
  /\ starts' = starts + 1
  /\ \E result \in {"conclusive", "inconclusive"} : job' = [job EXCEPT ![p].result = result]
  /\ Goto(p, "record")
  /\ UNCHANGED <<storeVars, worktree, container, guard, edits, expired>>

\* The guard, as it ends, checks the policy once more.
Record(p) ==
  /\ At(p, "record") /\ HasClaim(p) /\ observation = None
  /\ observation' = job[p].result
  /\ row' = Bumped
  /\ guard' = None
  /\ \E error \in BOOLEAN : job' = [job EXCEPT ![p] = [NoJob EXCEPT !.error = error]]
  /\ Goto(p, "drain")
  /\ UNCHANGED <<lease, report, worldVars, edits, expired>>

Owning == {"workspace", "materialize", "materialized", "sandbox", "prepared", "enter",
           "dispatch", "mark", "create", "created", "bind", "start", "record"}

\* Any step of the owner fails, is cancelled or runs out of time.  A worktree may
\* be there all the same; a container that is known but not yet kept is removed,
\* if that works.
Fails(p) ==
  /\ pc[p] \in Owning
  /\ worktree' \in {worktree, worktree \/ At(p, "materialize")}
  /\ container' \in {container, IF At(p, "bind") THEN None ELSE container}
  /\ job' = [job EXCEPT ![p] = [NoJob EXCEPT !.error = TRUE]]
  /\ guard' = Unguarded(p)
  /\ Goto(p, "drain")
  /\ UNCHANGED <<storeVars, starts, edits, expired>>

(***************************************************************************)
(* Fencing: by the owner, or by a recovery after the owner is gone.        *)
(***************************************************************************)
Fence(p) ==
  /\ row' = [Bumped EXCEPT !.status = "cleaning", !.fence = @ + 1]
  /\ job' = [job EXCEPT ![p] = [NoJob EXCEPT !.fence = row.fence + 1, !.error = job[p].error]]
  /\ Goto(p, "clean")
  /\ UNCHANGED <<lease, observation, report, worldVars, guard, edits, expired>>

BeginCleanup(p) == At(p, "drain") /\ HasClaim(p) /\ Fence(p)

Show(p) ==
  /\ p \notin Sessions /\ At(p, "idle") /\ row.owner # None
  /\ job' = [job EXCEPT ![p].rev = row.rev]
  /\ Goto(p, "recover")
  /\ UNCHANGED <<storeVars, worldVars, guard, edits, expired>>

\* A bug: the operator's word that the owner has stopped is not checked.
OwnerStopped_trusting == TRUE

OwnerStopped == At(row.owner, "gone")

Recover(p) ==
  /\ At(p, "recover")
  /\ row.rev = job[p].rev /\ OwnerStopped
  /\ Fence(p)

(***************************************************************************)
(* Cleaning up, from the command down, and reporting.                      *)
(***************************************************************************)
Select(p) ==
  /\ At(p, "clean") /\ Fenced(p)
  /\ \/ \E k \in Left : /\ Before(k) \cap Left = {}
                        /\ job' = [job EXCEPT ![p].kind = k]
                        /\ Goto(p, "remove")
     \/ Released /\ Goto(p, "publish") /\ UNCHANGED job
  /\ UNCHANGED <<storeVars, worldVars, guard, edits, expired>>

\* No container of the command that the daemon lists.
Absent == container # "up"

\* A bug: a container that is not listed is taken for one that never comes.
ProvesAbsence_hasty(l) == TRUE

\* When none is listed: a container that was kept was there once and is gone, one
\* that was asked for may still come.
ProvesAbsence(l) == l.handle \/ ~l.dispatched

\* What the removal of a resource says of it; it may fail before or after its effect.
Remove(p) ==
  /\ At(p, "remove")
  /\ \E complete \in BOOLEAN :
       /\ complete => CASE job[p].kind = "execution" -> ~Absent \/ ProvesAbsence(lease["execution"])
                        [] job[p].kind = "sandbox"   -> Absent
                        [] job[p].kind = "workspace" -> TRUE
       /\ job' = [job EXCEPT ![p].complete = complete]
       /\ \E removed \in {TRUE, complete} :
            /\ container' = IF removed /\ job[p].kind = "execution" /\ ~Absent THEN None ELSE container
            /\ worktree' = (worktree /\ ~(removed /\ job[p].kind = "workspace"))
  /\ Goto(p, "finalize")
  /\ UNCHANGED <<storeVars, starts, guard, edits, expired>>

\* The removal at hand is over.  A cleanup that cannot go on is reported as it is;
\* to the owner it is an error.
Settled(p, complete) ==
  job' = [job EXCEPT ![p] = [NoJob EXCEPT !.fence = job[p].fence,
                             !.error = job[p].error \/ (~complete /\ p = row.owner)]]

Finalize(p) ==
  /\ At(p, "finalize") /\ Fenced(p)
  /\ job[p].kind \in Left /\ Before(job[p].kind) \cap Left = {}
  /\ SetLease(job[p].kind,
              [lease[job[p].kind] EXCEPT !.status = IF job[p].complete THEN "released" ELSE "failed"])
  /\ Goto(p, IF job[p].complete THEN "clean" ELSE "publish")
  /\ Settled(p, job[p].complete)
  /\ UNCHANGED <<observation, report, worldVars, guard, edits, expired>>

\* The cleanup is interrupted, or a call of it raises.
CleanupFails(p) ==
  /\ pc[p] \in {"clean", "finalize"}
  /\ Settled(p, FALSE)
  /\ Goto(p, "publish")
  /\ UNCHANGED <<storeVars, worldVars, guard, edits, expired>>

\* A bug: the gap of an earlier report is forgotten.
Gap_fresh(p) == job[p].error

\* What went wrong for the owner is no part of the records: it is read off its report.
Gap(p) == job[p].error \/ report.gap

\* A bug: any observation counts, also a cut off one.
Verdict_lenient(gap) ==
  IF ~Released THEN "recovery_required"
  ELSE IF observation # None /\ ~gap THEN "observed" ELSE "inconclusive"

Verdict(gap) ==
  IF ~Released THEN "recovery_required"
  ELSE IF observation = "conclusive" /\ ~gap THEN "observed" ELSE "inconclusive"

Publish(p) ==
  /\ At(p, "publish") /\ Fenced(p)
  /\ report' = [status |-> Verdict(Gap(p)), complete |-> Released, gap |-> Gap(p)]
  /\ row' = [Bumped EXCEPT !.status = Verdict(Gap(p))]
  /\ End(p)
  /\ UNCHANGED <<lease, observation, worldVars, edits, expired>>

\* Another recovery has fenced this one; or its report cannot be written.
Superseded(p) ==
  /\ At(p, "publish") \/ (pc[p] \in {"drain", "clean", "finalize"} /\ ~Fenced(p) /\ ~HasClaim(p))
  /\ End(p)
  /\ UNCHANGED <<storeVars, worldVars, edits, expired>>

(***************************************************************************)
(* The system.                                                             *)
(***************************************************************************)
Own(p) ==
  \/ Look(p) \/ Admit(p) \/ Authorize(p) \/ Claim(p) \/ Refuse(p)
  \/ \E k \in Kinds : Reserve(p, k) \/ Activate(p, k)
  \/ Materialize(p)
  \/ Enter(p) \/ Dispatch(p) \/ MarkDispatched(p) \/ Create(p) \/ Created(p)
  \/ Bind(p) \/ StartCommand(p) \/ Record(p) \/ Fails(p)

Clean(p) ==
  \/ BeginCleanup(p) \/ Show(p) \/ Recover(p)
  \/ Select(p) \/ Remove(p) \/ Finalize(p) \/ CleanupFails(p)
  \/ Publish(p) \/ Superseded(p)

Next ==
  \/ Expire \/ Revoke \/ DaemonAnswers
  \/ \E by \in {"command", "hand", "turn"} : Edit(by)
  \/ \E p \in Procs : Confirm(p) \/ Own(p) \/ Clean(p) \/ Die(p)

Spec == Init /\ [][Next]_vars

(***************************************************************************)
(* Properties.                                                             *)
(***************************************************************************)
Statuses == {"planned", "revoked", "owned", "executing", "cleaning",
             "observed", "inconclusive", "recovery_required"}

\* Types, and what every reader of the store insists on before it believes a row:
\* otherwise neither a show nor a recovery of this baseline would ever work again
\* (persistence/baseline.py _owner, _snapshot, _observation, _validate_report_facts).
Readable ==
  /\ row.status \in Statuses /\ row.owner \in Procs \cup {None}
  /\ row.auth \in {None, "available", "revoked", "consumed"}
  /\ observation \in {None, "conclusive", "inconclusive"}
  /\ report.status \in {None, "observed", "inconclusive", "recovery_required"}
  /\ \A k \in Kinds : lease[k].status \in {None, "creating", "active", "released", "failed"}
  /\ container \in {None, "asked", "up"} /\ worktree \in BOOLEAN
  /\ guard \in Procs \cup {None}
  /\ job \in [Procs -> [rev : Nat, fence : Nat, result : {None, "conclusive", "inconclusive"},
                        kind : Kinds \cup {None}, complete : BOOLEAN, error : BOOLEAN]]
  /\ OwnerAgrees /\ SnapshotAgrees /\ ObservationAgrees /\ ReportAgrees

\* A report that calls the cleanup complete is true of the daemon and of the disk:
\* no container, none that may still come, and no worktree (baseline_docker.py
\* reconcile, resources.py _cleanup_baseline_fixed).
CompleteIsGone == report.complete => container = None /\ ~worktree

\* A verdict is final: a later recovery that reports again repeats it, whatever it
\* no longer knows of the first (baseline.py _publish).
VerdictStays ==
  [][report.status \in {"observed", "inconclusive"} => report'.status = report.status]_vars

\* The command is dispatched once at most, under what was reviewed, and is started
\* at most once for it, across failures, deaths and recoveries (gateway.py
\* execute_baseline, persistence/baseline.py claim_baseline_dispatch).
Ledger == INSTANCE DispatchLedger WITH
  Calls <- {"command"},
  open <- row.status \in {"planned", "owned", "executing"} /\ "command" \notin edits,
  claimed <- IF row.dispatch THEN {"command"} ELSE {},
  count <- [c \in {"command"} |-> starts]
LedgerSpec == Ledger!Spec
=============================================================================
