----------------------------- MODULE Resources -----------------------------
(***************************************************************************)
(* The external resources of one run and the leases that stand for them    *)
(* (application/resources.py, the lease methods of the SQLite store, the   *)
(* command executor of the gateway, the Docker and Git adapters).          *)
(*                                                                         *)
(* A worktree is a directory, a sandbox is a logical context in the memory *)
(* of the process that prepared it, an execution is one container.  Every  *)
(* one has a lease, saved before the resource can exist.  The driver of    *)
(* the run (Owner) creates and releases them; `cancel` and `recover` clean *)
(* up from other processes.  The Docker daemon answers late or not at all. *)
(***************************************************************************)
EXTENDS Naturals, FiniteSets

CONSTANTS
  Worktrees, Sandboxes, Executions,
  WorktreeOf,     \* the worktree a sandbox mounts
  SandboxOf,      \* the sandbox an execution runs in
  Owner,          \* the process that drives the run
  Cancellers,     \* processes of `fleet cancel`
  Recoverers,     \* processes of `fleet recover --confirm-owner-stopped`
  NoRes

Res == Worktrees \cup Sandboxes \cup Executions
Cleaners == Cancellers \cup Recoverers
Procs == {Owner} \cup Cleaners

ASSUME ResourcesAssumption ==
  /\ WorktreeOf \in [Sandboxes -> Worktrees]
  /\ SandboxOf \in [Executions -> Sandboxes]
  /\ NoRes \notin Res
  /\ Owner \notin Cleaners
  /\ Cancellers \cap Recoverers = {}
  /\ Worktrees \cap Sandboxes = {}
  /\ Worktrees \cap Executions = {}
  /\ Sandboxes \cap Executions = {}

VARIABLES
  run,        \* the stored status of the run
  lease,      \* the stored lease of each resource
  tree,       \* the worktrees that exist (on disk or registered with Git)
  box,        \* each execution's container, as the Docker daemon has it
  held,       \* the worktrees and sandboxes in the memory of the driver's process
  pc, job,    \* what each process does next, and what it has read
  raced       \* has a cancel ever been at work together with the driver?
vars == <<run, lease, tree, box, held, pc, job, raced>>

RunStates == {"running", "paused", "ready", "failed", "rejected", "cancelled"}
Ended == {"failed", "rejected", "cancelled"}

\* LeaseStatus; "none" is a lease that has not been saved.
Settled == {"released", "recovered"}
LeaseStatus == {"none", "creating", "active", "releasing", "failed"} \cup Settled

\* The transitions _validate_lease_transition allows.
LeaseMoves ==
  ({"creating"} \X {"active", "releasing", "released", "recovered", "failed"})
  \cup ({"active"} \X {"releasing", "released", "recovered", "failed"})
  \cup ({"releasing"} \X {"released", "recovered", "failed"})
  \cup ({"failed"} \X {"releasing", "recovered"})

CanMove(r, status) == <<lease[r].status, status>> \in LeaseMoves
\* update_lease_status writes nothing when the status is already there.
CanUpdate(r, status) == lease[r].status = status \/ CanMove(r, status)
UpdateLeaseStatus(r, status) == lease' = [lease EXCEPT ![r].status = status]

Outstanding == {r \in Res : lease[r].status \notin Settled \cup {"none"}}

\* The containers of a sandbox that the daemon would list.
Containers(s) == {e \in Executions : SandboxOf[e] = s /\ box[e] = "up"}

\* A container of the daemon: not asked for, asked for and undecided, refused,
\* there, removed.
BoxStates == {"no", "asked", "refused", "up", "gone"}

Idle == [res |-> NoRes, seen |-> [status |-> "none", dispatched |-> FALSE, handle |-> FALSE],
         todo |-> {}, bad |-> {}, target |-> "released", next |-> "idle",
         ok |-> FALSE, saw |-> "running"]

Goto(p, label) == pc' = [pc EXCEPT ![p] = label]

Init ==
  /\ run = "running"
  /\ lease = [r \in Res |-> [status |-> "none", dispatched |-> FALSE, handle |-> FALSE]]
  /\ tree = {}
  /\ box = [e \in Executions |-> "no"]
  /\ held = {}
  /\ pc = [p \in Procs |-> IF p = Owner THEN "work" ELSE "idle"]
  /\ job = [p \in Procs |-> Idle]
  /\ raced = FALSE

-----------------------------------------------------------------------------
(* The driver begins a resource.  It has just saved the run, or claimed    *)
(* the command's intent; both are refused for a run that is not open.  The *)
(* lease is saved by another transaction, which does not look at the run.  *)
Ready(r) ==
  \/ r \in Worktrees
  \/ r \in Sandboxes /\ WorktreeOf[r] \in held
  \/ r \in Executions /\ SandboxOf[r] \in held

Begin(r) ==
  /\ pc[Owner] = "work" /\ run = "running"
  /\ lease[r].status = "none" /\ Ready(r)
  /\ job' = [job EXCEPT ![Owner] = [Idle EXCEPT !.res = r]]
  /\ Goto(Owner, "lease")
  /\ UNCHANGED <<run, lease, tree, box, held, raced>>

SaveLease ==
  /\ pc[Owner] = "lease"
  /\ LET r == job[Owner].res
     IN  /\ lease' = [lease EXCEPT ![r].status = "creating"]
         /\ Goto(Owner, IF r \in Worktrees THEN "materialize"
                        ELSE IF r \in Sandboxes THEN "prepare" ELSE "dispatch")
  /\ UNCHANGED <<run, tree, box, held, job, raced>>

(* Worktrees: create_workspace, over materialize_workspace of the Git      *)
(* adapter.  A failed `git worktree add` may leave the directory behind.   *)
Materialize ==
  /\ pc[Owner] = "materialize"
  /\ \/ tree' = tree \cup {job[Owner].res} /\ Goto(Owner, "activate")
     \/ tree' \in {tree, tree \cup {job[Owner].res}} /\ Goto(Owner, "abort")
  /\ UNCHANGED <<run, lease, box, held, job, raced>>

Activate ==
  /\ pc[Owner] = "activate"
  /\ LET r == job[Owner].res
         undo == IF r \in Worktrees THEN "abort" ELSE "unprepare"
     IN  \/ /\ CanUpdate(r, "active")
            /\ UpdateLeaseStatus(r, "active")
            /\ held' = held \cup {r}
            /\ Goto(Owner, "work")
         \/ ~CanUpdate(r, "active") /\ UNCHANGED <<lease, held>> /\ Goto(Owner, undo)
  /\ UNCHANGED <<run, tree, box, job, raced>>

AbortWorktree ==
  /\ pc[Owner] = "abort"
  /\ LET r == job[Owner].res
     IN  IF CanUpdate(r, "failed") THEN UpdateLeaseStatus(r, "failed") ELSE UNCHANGED lease
  /\ Goto(Owner, "fail")
  /\ UNCHANGED <<run, tree, box, held, job, raced>>

(* Sandboxes: create_sandbox.  Docker's create only validates and keeps    *)
(* the sandbox in memory.                                                  *)
Prepare ==
  /\ pc[Owner] = "prepare"
  /\ \/ /\ WorktreeOf[job[Owner].res] \in tree
        /\ held' = held \cup {job[Owner].res}
        /\ Goto(Owner, "activate")
     \/ held' \in {held, held \cup {job[Owner].res}} /\ Goto(Owner, "unprepare")
  /\ UNCHANGED <<run, lease, tree, box, job, raced>>

\* The provider's terminate proves that no container of the sandbox is left.
Unprepare ==
  /\ pc[Owner] = "unprepare"
  /\ LET s == job[Owner].res
         Close(status) == IF CanUpdate(s, status) THEN UpdateLeaseStatus(s, status)
                                                  ELSE UNCHANGED lease
     IN  \/ /\ Containers(s) = {}
            /\ held' = held \ {s}
            /\ Close("recovered")
         \/ Close("failed") /\ UNCHANGED held
  /\ Goto(Owner, "fail")
  /\ UNCHANGED <<run, tree, box, job, raced>>

-----------------------------------------------------------------------------
(* Executions: _execute_command of the gateway over exec of the Docker     *)
(* adapter.                                                                *)
Remove(e) == box' = [box EXCEPT ![e] = "gone"]
\* `docker container rm` of a container that is there: it may be removed and
\* the answer lost.  Of one that is not there it fails.
RemovalFails(e) ==
  \/ UNCHANGED box
  \/ box[e] = "up" /\ Remove(e)

\* Every check before the checkpoint may fail; no create was attempted, which
\* is a proof of absence.
RefuseExecution ==
  /\ pc[Owner] = "dispatch"
  /\ job' = [job EXCEPT ![Owner].ok = TRUE]
  /\ Goto(Owner, "settle")
  /\ UNCHANGED <<run, lease, tree, box, held, raced>>

\* A variant: the create is dispatched without its checkpoint.
MarkExecutionCreationDispatched_skipped ==
  /\ pc[Owner] = "dispatch"
  /\ lease[job[Owner].res].status = "creating"
  /\ Goto(Owner, "create")
  /\ UNCHANGED <<run, lease, tree, box, held, job, raced>>

\* The durable checkpoint before `docker create`.  When the call fails, even
\* after its commit, nothing is dispatched and there is no proof.
MarkExecutionCreationDispatched ==
  /\ pc[Owner] = "dispatch"
  /\ LET e == job[Owner].res
         free == lease[e].status = "creating" /\ ~lease[e].dispatched
         Mark == lease' = [lease EXCEPT ![e].dispatched = TRUE]
     IN  \/ free /\ Mark /\ Goto(Owner, "create")
         \/ free /\ Mark /\ Goto(Owner, "settle")
         \/ UNCHANGED lease /\ Goto(Owner, "settle")
  /\ UNCHANGED <<run, tree, box, held, job, raced>>

DispatchCreate ==
  /\ pc[Owner] = "create"
  /\ box' = [box EXCEPT ![job[Owner].res] = "asked"]
  /\ Goto(Owner, "created")
  /\ UNCHANGED <<run, lease, tree, held, job, raced>>

\* The daemon decides a create by itself, before or after its caller gave up.
\* A bind mount needs its source.
DaemonCreates(e) ==
  /\ box[e] = "asked"
  /\ box' \in {[box EXCEPT ![e] = outcome] :
               outcome \in {"refused"} \cup
                 (IF WorktreeOf[SandboxOf[e]] \in tree THEN {"up"} ELSE {})}
  /\ UNCHANGED <<run, lease, tree, held, pc, job, raced>>

\* Docker answers with the container's identity, or the answer is an error, is
\* lost or comes too late.
CreateAnswers ==
  /\ pc[Owner] = "created"
  /\ \/ /\ box[job[Owner].res] \in {"up", "gone"}
        /\ Goto(Owner, "bind")
     \/ Goto(Owner, "undo")
  /\ UNCHANGED <<run, lease, tree, box, held, job, raced>>

\* bind_created_resource: the lease gets the handle and becomes active.
BindCreatedResource ==
  /\ pc[Owner] = "bind"
  /\ LET e == job[Owner].res
     IN  \/ /\ CanMove(e, "active")
            /\ lease' = [lease EXCEPT ![e] = [status |-> "active", dispatched |-> TRUE,
                                              handle |-> TRUE]]
            /\ Goto(Owner, "started")
         \/ ~CanMove(e, "active") /\ UNCHANGED lease /\ Goto(Owner, "undo")
  /\ UNCHANGED <<run, tree, box, held, job, raced>>

\* The command runs, and the container is removed before the result is used.
RunAndRemove ==
  /\ pc[Owner] = "started"
  /\ LET e == job[Owner].res
     IN  \/ box[e] = "up" /\ Remove(e) /\ Goto(Owner, "finalize")
         \/ RemovalFails(e) /\ Goto(Owner, "undo")
  /\ UNCHANGED <<run, lease, tree, held, job, raced>>

\* finalize_lease(RELEASED): refused when another process settled the lease.
\* The validation before it may fail too.
FinalizeExecution ==
  /\ pc[Owner] = "finalize"
  /\ LET e == job[Owner].res
     IN  \/ CanMove(e, "released") /\ UpdateLeaseStatus(e, "released") /\ Goto(Owner, "work")
         \/ UNCHANGED lease /\ Goto(Owner, "settle")
  /\ UNCHANGED <<run, tree, box, held, job, raced>>

\* A variant: an empty listing after an attempted create counts as a proof.
CleanupFailedExecution_empty ==
  /\ pc[Owner] = "undo"
  /\ LET e == job[Owner].res
     IN  /\ IF box[e] = "up" THEN Remove(e) ELSE UNCHANGED box
         /\ job' = [job EXCEPT ![Owner].ok = TRUE]
  /\ Goto(Owner, "settle")
  /\ UNCHANGED <<run, lease, tree, held, raced>>

\* _cleanup_failed_execution: absence is proved by removing the container.
\* Finding none proves nothing once a create was attempted.
CleanupFailedExecution ==
  /\ pc[Owner] = "undo"
  /\ LET e == job[Owner].res
     IN  \/ /\ box[e] = "up"
            /\ Remove(e)
            /\ job' = [job EXCEPT ![Owner].ok = TRUE]
         \/ RemovalFails(e) /\ UNCHANGED job
  /\ Goto(Owner, "settle")
  /\ UNCHANGED <<run, lease, tree, held, raced>>

-----------------------------------------------------------------------------
(* The provider's proofs of absence.  Each may fail instead.               *)
\* cleanup_execution, for a container whose identity the lease holds.
CleanupExecution(e) ==
  \/ box[e] = "up" /\ Remove(e)
  \/ box[e] # "up" /\ UNCHANGED box

\* A variant: finding no container is a proof whatever was dispatched.
ReconcileExecution_empty(e, seen) ==
  \/ box[e] = "up" /\ Remove(e)
  \/ box[e] # "up" /\ UNCHANGED box

\* reconcile_execution, by label: finding none is a proof only when the lease,
\* as it was read, had no create dispatched.
ReconcileExecution(e, seen) ==
  \/ box[e] = "up" /\ Remove(e)
  \/ box[e] # "up" /\ ~seen.dispatched /\ UNCHANGED box

ProveAbsent(e, seen) == IF seen.handle THEN CleanupExecution(e) ELSE ReconcileExecution(e, seen)

\* _recover_failed_execution_lease.  An active lease is cleaned up by its
\* handle, a creating one by the attached proof or by label; a lease that is
\* releasing or failed has no branch, and the attempt itself fails.
SettleFailedExecution ==
  /\ pc[Owner] = "settle"
  /\ LET e == job[Owner].res
     IN  IF lease[e].status \in Settled
         THEN Goto(Owner, "fail") /\ UNCHANGED job
         ELSE Goto(Owner, "prove") /\ job' = [job EXCEPT ![Owner].seen = lease[e]]
  /\ UNCHANGED <<run, lease, tree, box, held, raced>>

ProveFailedExecution ==
  /\ pc[Owner] = "prove"
  /\ LET e == job[Owner].res
         seen == job[Owner].seen
     IN  \/ /\ seen.status = "active" /\ CleanupExecution(e)
            /\ Goto(Owner, "recovered")
         \/ /\ seen.status = "creating"
            /\ \/ job[Owner].ok /\ UNCHANGED box
               \/ ReconcileExecution(e, seen)
            /\ Goto(Owner, "recovered")
         \/ RemovalFails(e) /\ Goto(Owner, "unproved")
  /\ UNCHANGED <<run, lease, tree, held, job, raced>>

\* The lease is finalized as recovered, or else marked failed unless it is
\* settled or failed already.
PersistFailedExecution ==
  /\ pc[Owner] \in {"recovered", "unproved"}
  /\ LET e == job[Owner].res
     IN  \/ /\ pc[Owner] = "recovered" /\ CanMove(e, "recovered")
            /\ UpdateLeaseStatus(e, "recovered")
         \/ /\ ~(pc[Owner] = "recovered" /\ CanMove(e, "recovered"))
            /\ IF lease[e].status \in Settled \cup {"failed"}
               THEN UNCHANGED lease ELSE UpdateLeaseStatus(e, "failed")
  /\ Goto(Owner, "fail")
  /\ UNCHANGED <<run, tree, box, held, job, raced>>

-----------------------------------------------------------------------------
(* Cleanup: cleanup_run goes through the outstanding leases, as they were  *)
(* listed once, tier by tier; all of a tier are tried, and a failure stops *)
(* before the next tier.  job.todo holds what is left, job.bad what failed *)
(* and job.next where the process continues.                               *)
Tier(r) == IF r \in Executions THEN 1 ELSE IF r \in Sandboxes THEN 2 ELSE 3

ListLeases(p) ==
  /\ pc[p] = "list"
  /\ job' = [job EXCEPT ![p].todo = Outstanding, ![p].bad = {}]
  /\ Goto(p, "pick")
  /\ UNCHANGED <<run, lease, tree, box, held, raced>>

\* A variant: the next tier is cleaned although a lease of this one failed.
Candidates_anyTier(p) == {r \in job[p].todo : \A q \in job[p].todo : Tier(r) <= Tier(q)}

Candidates(p) ==
  {r \in job[p].todo : /\ \A q \in job[p].todo : Tier(r) <= Tier(q)
                       /\ \A q \in job[p].bad : Tier(r) = Tier(q)}

\* The lease is read again when its cleanup starts.
PickLease(p) ==
  /\ pc[p] = "pick"
  /\ \E r \in Candidates(p) :
       IF lease[r].status \in Settled
       THEN job' = [job EXCEPT ![p].todo = @ \ {r}] /\ UNCHANGED pc
       ELSE job' = [job EXCEPT ![p].res = r, ![p].seen = lease[r]] /\ Goto(p, "release")
  /\ UNCHANGED <<run, lease, tree, box, held, raced>>

Failed(p) == job' = [job EXCEPT ![p].todo = @ \ {job[p].res}, ![p].bad = @ \cup {job[p].res}]

MarkReleasing(p) ==
  /\ pc[p] = "release"
  /\ LET r == job[p].res
     IN  \/ /\ job[p].seen.status = "releasing"
            /\ Goto(p, "clean") /\ UNCHANGED <<lease, job>>
         \/ /\ job[p].seen.status # "releasing" /\ CanUpdate(r, "releasing")
            /\ UpdateLeaseStatus(r, "releasing")
            /\ Goto(p, "clean") /\ UNCHANGED job
         \/ /\ job[p].seen.status # "releasing" /\ ~CanUpdate(r, "releasing")
            /\ Failed(p) /\ Goto(p, "pick") /\ UNCHANGED lease
  /\ UNCHANGED <<run, tree, box, held, raced>>

\* A variant: the removal of a worktree is not verified.
CleanResource_unverified(p) ==
  /\ pc[p] = "clean"
  /\ LET r == job[p].res
     IN  \/ /\ r \in Executions /\ ProveAbsent(r, job[p].seen)
            /\ UNCHANGED <<tree, held>>
         \/ /\ r \in Sandboxes /\ Containers(r) = {}
            /\ UNCHANGED <<tree, box, held>>
         \/ /\ r \in Worktrees /\ tree' \in {tree, tree \ {r}}
            /\ UNCHANGED <<box, held>>
  /\ Goto(p, "persist")
  /\ UNCHANGED <<run, lease, job, raced>>

\* The provider or Git is asked to prove the resource absent.
CleanResource(p) ==
  /\ pc[p] = "clean"
  /\ LET r == job[p].res
     IN  \/ /\ r \in Executions
            /\ \/ ProveAbsent(r, job[p].seen) /\ Goto(p, "persist")
               \/ RemovalFails(r) /\ Goto(p, "mark_failed")
            /\ UNCHANGED <<tree, held>>
         \/ /\ r \in Sandboxes
            /\ \/ /\ Containers(r) = {}
                  /\ held' = IF p = Owner THEN held \ {r} ELSE held
                  /\ Goto(p, "persist")
               \/ Goto(p, "mark_failed") /\ UNCHANGED held
            /\ UNCHANGED <<box, tree>>
         \/ /\ r \in Worktrees
            /\ \/ tree' = tree \ {r} /\ Goto(p, "persist")
               \/ tree' \in {tree, tree \ {r}} /\ Goto(p, "mark_failed")
            /\ held' = IF p = Owner THEN held \ {r} ELSE held
            /\ UNCHANGED box
  /\ UNCHANGED <<run, lease, job, raced>>

PersistCleanup(p) ==
  /\ pc[p] \in {"persist", "mark_failed"}
  /\ LET r == job[p].res
         status == IF pc[p] = "persist" THEN job[p].target ELSE "failed"
     IN  /\ IF CanUpdate(r, status) THEN UpdateLeaseStatus(r, status) ELSE UNCHANGED lease
         /\ IF CanUpdate(r, status) /\ pc[p] = "persist"
            THEN job' = [job EXCEPT ![p].todo = @ \ {r}]
            ELSE Failed(p)
  /\ Goto(p, "pick")
  /\ UNCHANGED <<run, tree, box, held, raced>>

\* Nothing is left to try.  A failed cleanup is an error of the command: the
\* driver that was verifying or presenting fails its run, and every other
\* command ends.
FinishCleanup(p) ==
  /\ pc[p] = "pick" /\ Candidates(p) = {}
  /\ Goto(p, IF job[p].bad # {}
             THEN IF job[p].next \in {"work", "present"} THEN "fail" ELSE job[p].next
             ELSE job[p].next)
  /\ job' = [job EXCEPT ![p] = Idle]
  /\ UNCHANGED <<run, lease, tree, box, held, raced>>

-----------------------------------------------------------------------------
(* The driver of the run.                                                  *)
\* save_run validates the transition from the stored status.
CanSaveRun(status) ==
  \/ run = status
  \/ status \in Ended /\ run \notin Ended
  \/ <<run, status>> \in {<<"running", "paused">>, <<"paused", "running">>,
                          <<"running", "ready">>}

\* The end of the verifier: its sandbox, then its worktree (cleanup_lease).
ReleaseVerifier(s) ==
  /\ pc[Owner] = "work" /\ s \in held
  /\ job' = [job EXCEPT ![Owner] = [Idle EXCEPT !.todo = {s, WorktreeOf[s]}, !.next = "work"]]
  /\ Goto(Owner, "pick")
  /\ UNCHANGED <<run, lease, tree, box, held, raced>>

Pause ==
  /\ pc[Owner] = "work"
  /\ \/ CanSaveRun("paused") /\ run' = "paused" /\ held' = {} /\ Goto(Owner, "down")
     \/ ~CanSaveRun("paused") /\ Goto(Owner, "fail") /\ UNCHANGED <<run, held>>
  /\ UNCHANGED <<lease, tree, box, job, raced>>

\* Presentation cleans up first, and refuses to go on with a lease outstanding.
StartPresenting ==
  /\ pc[Owner] = "work" /\ run = "running"
  /\ job' = [job EXCEPT ![Owner] = [Idle EXCEPT !.next = "present"]]
  /\ Goto(Owner, "list")
  /\ UNCHANGED <<run, lease, tree, box, held, raced>>

Present ==
  /\ pc[Owner] = "present"
  /\ \/ /\ Outstanding = {} /\ CanSaveRun("ready")
        /\ run' = "ready"
        /\ held' = {}
        /\ Goto(Owner, "down")
     \/ /\ ~(Outstanding = {} /\ CanSaveRun("ready"))
        /\ Goto(Owner, "fail") /\ UNCHANGED <<run, held>>
  /\ UNCHANGED <<lease, tree, box, job, raced>>

\* Any error of the stages in between.
DriverFails ==
  /\ pc[Owner] = "work"
  /\ Goto(Owner, "fail")
  /\ UNCHANGED <<run, lease, tree, box, held, job, raced>>

EndRun(status) ==
  /\ \/ pc[Owner] = "fail" /\ status \in {"failed", "cancelled"}
     \/ pc[Owner] = "work" /\ status \in {"rejected", "cancelled"}
  /\ IF CanSaveRun(status)
     THEN /\ run' = status
          /\ job' = [job EXCEPT ![Owner] = [Idle EXCEPT !.next = "down"]]
          /\ Goto(Owner, "list")
     ELSE /\ job' = [job EXCEPT ![Owner] = Idle]
          /\ Goto(Owner, "down")
          /\ UNCHANGED run
  /\ UNCHANGED <<lease, tree, box, held, raced>>

\* A `resume` finds every lease active and no execution, and restores each
\* sandbox under its own identity.
Rehydrate ==
  /\ pc[Owner] = "down" /\ run = "paused"
  /\ raced' = (raced \/ \E c \in Cleaners : pc[c] # "idle")
  /\ \A r \in Outstanding : r \notin Executions /\ lease[r].status = "active"
  /\ \A s \in Outstanding \cap Sandboxes : WorktreeOf[s] \in Outstanding \cap tree
  /\ held' = Outstanding
  /\ Goto(Owner, "resumed")
  /\ UNCHANGED <<run, lease, tree, box, job>>

Resume ==
  /\ pc[Owner] = "resumed"
  /\ \/ CanSaveRun("running") /\ run' = "running" /\ Goto(Owner, "work") /\ UNCHANGED held
     \/ ~CanSaveRun("running") /\ Goto(Owner, "down") /\ held' = {} /\ UNCHANGED run
  /\ UNCHANGED <<lease, tree, box, job, raced>>

\* The driver's process is killed.  Docker finishes what it was asked.
Crash ==
  /\ pc[Owner] # "down"
  /\ held' = {}
  /\ job' = [job EXCEPT ![Owner] = Idle]
  /\ Goto(Owner, "down")
  /\ UNCHANGED <<run, lease, tree, box, raced>>

-----------------------------------------------------------------------------
(* `fleet cancel` and `fleet recover`.                                     *)
\* The command reads the run and, in another transaction, its leases.
StartCancel(c) ==
  /\ pc[c] = "idle"
  /\ raced' = (raced \/ pc[Owner] # "down")
  /\ job' = [job EXCEPT ![c] = [Idle EXCEPT !.saw = run, !.next = "idle"]]
  /\ Goto(c, "look")
  /\ UNCHANGED <<run, lease, tree, box, held>>

\* A run that ended otherwise is not this command's; a cancelled one is only
\* cleaned up again.
CancelLooks(c) ==
  /\ pc[c] = "look"
  /\ job' = [job EXCEPT ![c].ok = Outstanding # {}]
  /\ Goto(c, IF job[c].saw \in Ended \ {"cancelled"} THEN "idle"
             ELSE IF job[c].saw # "cancelled" THEN "save"
             ELSE IF Outstanding # {} THEN "list" ELSE "idle")
  /\ UNCHANGED <<run, lease, tree, box, held, raced>>

\* Whether there is something to clean up was decided before the save.
CancelSaves(c) ==
  /\ pc[c] = "save"
  /\ IF CanSaveRun("cancelled")
     THEN run' = "cancelled" /\ Goto(c, IF job[c].ok THEN "list" ELSE "idle")
     ELSE Goto(c, "idle") /\ UNCHANGED run
  /\ UNCHANGED <<lease, tree, box, held, job, raced>>

\* A variant: recovery settles its leases as failed.
StartRecovery_failed(c) ==
  /\ pc[c] = "idle" /\ pc[Owner] = "down"
  /\ run \in {"running"} \cup Ended
  /\ run' = IF run = "running" THEN "failed" ELSE run
  /\ job' = [job EXCEPT ![c] = [Idle EXCEPT !.target = "failed", !.next = "idle"]]
  /\ Goto(c, "list")
  /\ UNCHANGED <<lease, tree, box, held, raced>>

\* Recovery asks the operator to confirm that the driver has stopped.  It
\* fails a run that was interrupted and refuses a run that is not its own.
StartRecovery(c) ==
  /\ pc[c] = "idle" /\ pc[Owner] = "down"
  /\ run \in {"running"} \cup Ended
  /\ run' = IF run = "running" THEN "failed" ELSE run
  /\ job' = [job EXCEPT ![c] = [Idle EXCEPT !.target = "recovered", !.next = "idle"]]
  /\ Goto(c, "list")
  /\ UNCHANGED <<lease, tree, box, held, raced>>

CleanerCrash(c) ==
  /\ pc[c] # "idle"
  /\ job' = [job EXCEPT ![c] = Idle]
  /\ Goto(c, "idle")
  /\ UNCHANGED <<run, lease, tree, box, held, raced>>

Cleanup(p) ==
  \/ ListLeases(p) \/ PickLease(p) \/ MarkReleasing(p) \/ CleanResource(p)
  \/ PersistCleanup(p) \/ FinishCleanup(p)

Driver ==
  \/ \E r \in Res : Begin(r)
  \/ SaveLease \/ Materialize \/ Activate \/ AbortWorktree \/ Prepare \/ Unprepare
  \/ RefuseExecution \/ MarkExecutionCreationDispatched \/ DispatchCreate
  \/ CreateAnswers \/ BindCreatedResource \/ RunAndRemove \/ FinalizeExecution
  \/ CleanupFailedExecution \/ SettleFailedExecution \/ ProveFailedExecution
  \/ PersistFailedExecution
  \/ \E s \in Sandboxes : ReleaseVerifier(s)
  \/ Pause \/ StartPresenting \/ Present \/ DriverFails
  \/ \E status \in Ended : EndRun(status)
  \/ Rehydrate \/ Resume \/ Crash

Next ==
  \/ Driver
  \/ \E e \in Executions : DaemonCreates(e)
  \/ \E p \in Procs : Cleanup(p)
  \/ \E c \in Cancellers : StartCancel(c) \/ CancelLooks(c) \/ CancelSaves(c)
  \/ \E c \in Recoverers : StartRecovery(c)
  \/ \E c \in Cleaners : CleanerCrash(c)

Spec == Init /\ [][Next]_vars

(* Properties.                                                             *)
Labels == {"work", "lease", "materialize", "prepare", "activate", "abort", "unprepare",
           "dispatch", "create", "created", "bind", "started", "finalize", "undo",
           "settle", "prove", "recovered", "unproved", "fail", "present", "resumed",
           "down", "idle", "look", "save", "list", "pick", "release", "clean",
           "persist", "mark_failed"}
Lease == [status : LeaseStatus, dispatched : BOOLEAN, handle : BOOLEAN]
Job == [res : Res \cup {NoRes}, seen : Lease, todo : SUBSET Res, bad : SUBSET Res,
        target : Settled, next : {"work", "present", "down", "idle"}, ok : BOOLEAN, saw : RunStates]

\* The run, every lease, container and process is in one of the states the code
\* gives it; a cleanup aims at one of the two statuses that settle a lease.
TypeOK ==
  /\ run \in RunStates
  /\ lease \in [Res -> Lease]
  /\ tree \subseteq Worktrees
  /\ box \in [Executions -> BoxStates]
  /\ held \subseteq Worktrees \cup Sandboxes
  /\ pc \in [Procs -> Labels]
  /\ job \in [Procs -> Job]
  /\ raced \in BOOLEAN

\* What a lease stands for does not exist and cannot come to exist.
Absent(r) ==
  IF r \in Executions THEN box[r] \notin {"asked", "up"}
  ELSE IF r \in Worktrees THEN r \notin tree
  ELSE Containers(r) = {}

\* A lease that recovery, or the executor after a failure, finalized as
\* recovered stands for nothing any more, however late Docker answers and
\* whoever else cleans up.
RecoveredIsGone ==
  \A r \in Worktrees \cup Executions : lease[r].status = "recovered" => Absent(r)

\* As long as no cancel overlaps the driver, no settled lease stands for
\* anything: what is released is gone, for a sandbox with all its containers.
SettledIsGone ==
  ~raced => \A r \in Res : lease[r].status \in Settled => Absent(r)

\* No worktree is removed under a container that mounts it (resources.py: "Never
\* destroy a parent sandbox or worktree until every dependent child resource
\* in the preceding tier has been proven absent").
NoContainerOutlivesItsWorktree ==
  \A e \in Executions : box[e] = "up" => WorktreeOf[SandboxOf[e]] \in tree

\* The tiers keep that promise when no cancel overlaps the driver, through
\* failed cleanups, crashes and late containers.
TiersProtectContainers == ~raced => NoContainerOutlivesItsWorktree

\* A run that is presented has left nothing behind: no lease, no directory, no
\* container, and none that may still appear.
ReadyRunIsClean ==
  run = "ready" => /\ Outstanding = {} /\ tree = {}
                   /\ \A e \in Executions : box[e] \notin {"asked", "up"}

\* A container can only exist behind a durable checkpoint, so that a crash
\* between the checkpoint and the create never lets a lease be closed unseen.
NoContainerWithoutCheckpoint ==
  \A e \in Executions : box[e] # "no" => lease[e].dispatched
=============================================================================
