-------------------------- MODULE Resources_proofs --------------------------
(***************************************************************************)
(* Proofs about Resources, for any worktrees, sandboxes and executions and *)
(* any number of cancels and recoveries: types, no container without its   *)
(* checkpoint, what is recovered is gone; and, while no cancel has         *)
(* overlapped the driver, what is settled is gone and the tiers protect    *)
(* the containers; a run that is presented is clean.                       *)
(***************************************************************************)
EXTENDS Resources, TLAPS

\* The labels at which the driver works on an execution.
ExecLabels == {"dispatch", "create", "created", "bind", "started", "finalize", "undo",
               "settle", "prove", "recovered", "unproved"}

\* What each process works on, by its label.
Kinds ==
  /\ pc[Owner] = "lease" => job[Owner].res \in Res
  /\ pc[Owner] \in {"materialize", "abort"} => job[Owner].res \in Worktrees
  /\ pc[Owner] \in {"prepare", "unprepare"} => job[Owner].res \in Sandboxes
  /\ pc[Owner] = "activate" => job[Owner].res \in Worktrees \cup Sandboxes
  /\ pc[Owner] \in ExecLabels => job[Owner].res \in Executions
  /\ \A p \in Procs :
       pc[p] \in {"release", "clean", "persist", "mark_failed"} => job[p].res \in Res

\* Types and labels.
Shape == TypeOK /\ Kinds

\* The processes.
LEMMA Processes ==
  /\ Owner \in Procs /\ Cleaners \subseteq Procs
  /\ Cancellers \subseteq Procs /\ Recoverers \subseteq Procs
  BY DEF Procs, Cleaners

\* A process with nothing to do has a job of the right type.
LEMMA IdleType == Idle \in Job
  BY DEF Idle, Job, Lease, LeaseStatus, Settled, RunStates, Labels

\* Every way the store writes a lease leaves a lease.
LEMMA LeaseUpdated ==
  ASSUME lease \in [Res -> Lease]
  PROVE  /\ \A r \in Res : lease[r] \in Lease
         /\ \A r, s : s \in LeaseStatus => [lease EXCEPT ![r].status = s] \in [Res -> Lease]
         /\ \A r : [lease EXCEPT ![r].dispatched = TRUE] \in [Res -> Lease]
         /\ \A r, l : l \in Lease => [lease EXCEPT ![r] = l] \in [Res -> Lease]
  BY DEF Lease

\* Every way a process notes something leaves a job.
LEMMA JobFields ==
  ASSUME NEW j \in Job
  PROVE  /\ \A b \in BOOLEAN : [j EXCEPT !.ok = b] \in Job
         /\ \A S \in SUBSET Res : [j EXCEPT !.todo = S] \in Job
         /\ \A S, B \in SUBSET Res : [j EXCEPT !.todo = S, !.bad = B] \in Job
         /\ \A l \in Lease : [j EXCEPT !.seen = l] \in Job
         /\ \A r \in Res, l \in Lease : [j EXCEPT !.res = r, !.seen = l] \in Job
         /\ j.todo \subseteq Res /\ j.bad \subseteq Res
  BY DEF Job

\* Noting a failed cleanup changes neither the types nor what is worked on.
LEMMA FailedJob ==
  ASSUME job \in [Procs -> Job], NEW p \in Procs, job[p].res \in Res, Failed(p)
  PROVE  /\ job' \in [Procs -> Job]
         /\ \A q \in Procs : job'[q].res = job[q].res
<1>1. job[p] \in Job
  OBVIOUS
<1>2. [job[p] EXCEPT !.todo = @ \ {job[p].res}, !.bad = @ \cup {job[p].res}] \in Job
  BY <1>1 DEF Job
<1> QED
  BY <1>1, <1>2 DEF Failed, Job

\* The run begins with types and labels in order.
LEMMA ShapeInit == Init => Shape
<1> SUFFICES ASSUME Init PROVE Shape
  OBVIOUS
<1>1. /\ run \in RunStates /\ raced \in BOOLEAN
      /\ tree \subseteq Worktrees /\ held \subseteq Worktrees \cup Sandboxes
  BY DEF Init, RunStates
<1>2. lease \in [Res -> Lease]
  BY DEF Init, Lease, LeaseStatus
<1>3. box \in [Executions -> BoxStates]
  BY DEF Init, BoxStates
<1>4. pc \in [Procs -> Labels]
  BY DEF Init, Labels
<1>5. job \in [Procs -> Job]
  BY IdleType DEF Init
<1>6. Kinds
  BY ResourcesAssumption DEF Init, Kinds, ExecLabels, Procs
<1> QED
  BY <1>1, <1>2, <1>3, <1>4, <1>5, <1>6 DEF Shape, TypeOK

\* The lease is saved before the resource: types and labels stay in order.
LEMMA ShapeSaveLease ==
  ASSUME Shape, SaveLease
  PROVE  Shape'
<1> USE IdleType, ResourcesAssumption DEF Shape, TypeOK, Goto, Kinds
<1>1. lease' \in [Res -> Lease]
  <2>1. "creating" \in LeaseStatus
    BY DEF LeaseStatus
  <2> QED
    BY Processes, <2>1, LeaseUpdated DEF SaveLease
<1>2. pc' \in [Procs -> Labels] /\ Kinds'
  BY Processes
  DEF SaveLease, Labels, ExecLabels, Job, Procs, Res
<1> QED
  BY <1>1, <1>2 DEF SaveLease

\* The worktree is added: types and labels stay in order.
LEMMA ShapeMaterialize ==
  ASSUME Shape, Materialize
  PROVE  Shape'
  BY IdleType, ResourcesAssumption, Processes
  DEF Shape, TypeOK, Goto, Kinds, Materialize, Labels, ExecLabels, Job, Procs, Res

\* A worktree or sandbox becomes usable: types and labels stay in order.
LEMMA ShapeActivate ==
  ASSUME Shape, Activate
  PROVE  Shape'
  BY IdleType, ResourcesAssumption, Processes
  DEF Shape, TypeOK, Goto, Kinds, Activate, UpdateLeaseStatus, LeaseStatus, Lease,
      Labels, ExecLabels, Job, Procs, Res

\* A worktree could not be made: types and labels stay in order.
LEMMA ShapeAbortWorktree ==
  ASSUME Shape, AbortWorktree
  PROVE  Shape'
<1> USE IdleType, ResourcesAssumption DEF Shape, TypeOK, Goto, Kinds
<1>1. lease' \in [Res -> Lease] /\ pc' \in [Procs -> Labels] /\ Kinds'
  BY Processes, SMTT(40)
  DEF AbortWorktree, UpdateLeaseStatus, LeaseStatus, Lease, Labels, ExecLabels, Job,
      Procs, Res
<1> QED
  BY <1>1 DEF AbortWorktree

\* The sandbox is prepared: types and labels stay in order.
LEMMA ShapePrepare ==
  ASSUME Shape, Prepare
  PROVE  Shape'
  BY IdleType, ResourcesAssumption, Processes
  DEF Shape, TypeOK, Goto, Kinds, Prepare, Labels, ExecLabels, Job, Procs, Res

\* The sandbox could not be made: types and labels stay in order.
LEMMA ShapeUnprepare ==
  ASSUME Shape, Unprepare
  PROVE  Shape'
  BY IdleType, ResourcesAssumption, Processes, SMTT(40)
  DEF Shape, TypeOK, Goto, Kinds, Unprepare, UpdateLeaseStatus, Lease, LeaseStatus,
      Settled, Labels, ExecLabels, Job, Procs, Res

\* A check before the dispatch fails: types and labels stay in order.
LEMMA ShapeRefuseExecution ==
  ASSUME Shape, RefuseExecution
  PROVE  Shape'
<1> USE IdleType, ResourcesAssumption DEF Shape, TypeOK, Goto, Kinds
<1>j. job[Owner] \in Job
  BY Processes
<1>1. pc' \in [Procs -> Labels] /\ job' \in [Procs -> Job] /\ Kinds'
  BY Processes, <1>j, JobFields
  DEF RefuseExecution, Labels, ExecLabels, Job, Procs, Res
<1> QED
  BY <1>1 DEF RefuseExecution

\* The durable checkpoint before the create: types and labels stay in order.
LEMMA ShapeMarkExecutionCreationDispatched ==
  ASSUME Shape, MarkExecutionCreationDispatched
  PROVE  Shape'
  BY IdleType, ResourcesAssumption, LeaseUpdated, Processes
  DEF Shape, TypeOK, Goto, Kinds, MarkExecutionCreationDispatched, Labels,
      ExecLabels, Job, Procs, Res

\* The create is sent: types and labels stay in order.
LEMMA ShapeDispatchCreate ==
  ASSUME Shape, DispatchCreate
  PROVE  Shape'
  BY IdleType, ResourcesAssumption, Processes
  DEF Shape, TypeOK, Goto, Kinds, DispatchCreate, BoxStates, Labels, ExecLabels,
      Job, Procs, Res

\* Docker answers, or does not: types and labels stay in order.
LEMMA ShapeCreateAnswers ==
  ASSUME Shape, CreateAnswers
  PROVE  Shape'
  BY IdleType, ResourcesAssumption, Processes
  DEF Shape, TypeOK, Goto, Kinds, CreateAnswers, Labels, ExecLabels, Job, Procs, Res

\* The handle is bound to the lease: types and labels stay in order.
LEMMA ShapeBindCreatedResource ==
  ASSUME Shape, BindCreatedResource
  PROVE  Shape'
<1> USE IdleType, ResourcesAssumption DEF Shape, TypeOK, Goto, Kinds
<1>1. lease' \in [Res -> Lease]
  <2>1. [status |-> "active", dispatched |-> TRUE, handle |-> TRUE] \in Lease
    BY DEF Lease, LeaseStatus
  <2> QED
    BY <2>1, LeaseUpdated DEF BindCreatedResource
<1>2. pc' \in [Procs -> Labels] /\ Kinds'
  BY Processes
  DEF BindCreatedResource, Labels, ExecLabels, Job, Procs, Res
<1> QED
  BY <1>1, <1>2 DEF BindCreatedResource

\* The command runs and its container is removed: types and labels stay in order.
LEMMA ShapeRunAndRemove ==
  ASSUME Shape, RunAndRemove
  PROVE  Shape'
  BY IdleType, ResourcesAssumption, Processes
  DEF Shape, TypeOK, Goto, Kinds, RunAndRemove, Remove, RemovalFails, BoxStates,
      Labels, ExecLabels, Job, Procs, Res

\* The lease is released: types and labels stay in order.
LEMMA ShapeFinalizeExecution ==
  ASSUME Shape, FinalizeExecution
  PROVE  Shape'
<1> USE IdleType, ResourcesAssumption DEF Shape, TypeOK, Goto, Kinds
<1>1. lease' \in [Res -> Lease]
  BY Processes DEF FinalizeExecution, UpdateLeaseStatus, Lease, LeaseStatus, Settled
<1>2. pc' \in [Procs -> Labels]
  BY Processes DEF FinalizeExecution, Labels
<1>3. Kinds'
  BY Processes DEF FinalizeExecution, ExecLabels, Job, Procs, Res
<1> QED
  BY <1>1, <1>2, <1>3 DEF FinalizeExecution

\* The adapter cleans up after an error: types and labels stay in order.
LEMMA ShapeCleanupFailedExecution ==
  ASSUME Shape, CleanupFailedExecution
  PROVE  Shape'
<1> USE IdleType, ResourcesAssumption DEF Shape, TypeOK, Goto, Kinds
<1>j. job[Owner] \in Job
  BY Processes
<1>1. box' \in [Executions -> BoxStates]
  BY Processes DEF CleanupFailedExecution, Remove, RemovalFails, BoxStates, Job
<1>2. pc' \in [Procs -> Labels]
  BY Processes DEF CleanupFailedExecution, Labels
<1>3. job' \in [Procs -> Job]
  BY Processes, <1>j, JobFields DEF CleanupFailedExecution
<1>4. Kinds'
  BY Processes DEF CleanupFailedExecution, ExecLabels, Job, Procs, Res
<1> QED
  BY <1>1, <1>2, <1>3, <1>4 DEF CleanupFailedExecution

\* The executor reads the lease after an error: types and labels stay in order.
LEMMA ShapeSettleFailedExecution ==
  ASSUME Shape, SettleFailedExecution
  PROVE  Shape'
<1> USE IdleType, ResourcesAssumption DEF Shape, TypeOK, Goto, Kinds
<1>j. job[Owner] \in Job
  BY Processes
<1>1. job' \in [Procs -> Job]
  <2>1. job[Owner].res \in Res
    BY DEF SettleFailedExecution, ExecLabels, Res
  <2>2. lease[job[Owner].res] \in Lease
    BY <2>1, LeaseUpdated
  <2>3. \/ job' = job
        \/ job' = [job EXCEPT ![Owner] = [job[Owner] EXCEPT !.seen = lease[job[Owner].res]]]
    BY DEF SettleFailedExecution
  <2>4. [job[Owner] EXCEPT !.seen = lease[job[Owner].res]] \in Job
    BY <2>2, <1>j, JobFields
  <2> QED
    BY <2>3, <2>4, Processes
<1>2. pc' \in [Procs -> Labels] /\ Kinds'
  BY Processes
  DEF SettleFailedExecution, Labels, ExecLabels, Job, Procs, Res
<1> QED
  BY <1>1, <1>2 DEF SettleFailedExecution

\* The executor asks for a proof of absence: types and labels stay in order.
LEMMA ShapeProveFailedExecution ==
  ASSUME Shape, ProveFailedExecution
  PROVE  Shape'
  BY IdleType, ResourcesAssumption, Processes
  DEF Shape, TypeOK, Goto, Kinds, ProveFailedExecution, CleanupExecution,
      ReconcileExecution, Remove, RemovalFails, BoxStates, Labels, ExecLabels, Job,
      Procs, Res

\* The outcome of that proof is written: types and labels stay in order.
LEMMA ShapePersistFailedExecution ==
  ASSUME Shape, PersistFailedExecution
  PROVE  Shape'
<1> USE IdleType, ResourcesAssumption DEF Shape, TypeOK, Goto, Kinds
<1>1. lease' \in [Res -> Lease]
  BY Processes
  DEF PersistFailedExecution, UpdateLeaseStatus, Lease, LeaseStatus, Settled
<1>2. pc' \in [Procs -> Labels]
  BY Processes DEF PersistFailedExecution, Labels
<1>3. Kinds'
  BY Processes DEF PersistFailedExecution, ExecLabels, Job, Procs, Res
<1> QED
  BY <1>1, <1>2, <1>3 DEF PersistFailedExecution

\* The run is paused: types and labels stay in order.
LEMMA ShapePause ==
  ASSUME Shape, Pause
  PROVE  Shape'
  BY IdleType, ResourcesAssumption, Processes
  DEF Shape, TypeOK, Goto, Kinds, Pause, RunStates, Labels, ExecLabels, Job, Procs,
      Res

\* Presentation begins with a cleanup: types and labels stay in order.
LEMMA ShapeStartPresenting ==
  ASSUME Shape, StartPresenting
  PROVE  Shape'
  BY IdleType, ResourcesAssumption, Processes
  DEF Shape, TypeOK, Goto, Kinds, StartPresenting, Labels, Job, ExecLabels, Procs,
      Res

\* The run is presented: types and labels stay in order.
LEMMA ShapePresent ==
  ASSUME Shape, Present
  PROVE  Shape'
  BY IdleType, ResourcesAssumption, Processes
  DEF Shape, TypeOK, Goto, Kinds, Present, RunStates, Labels, ExecLabels, Job,
      Procs, Res

\* A stage fails: types and labels stay in order.
LEMMA ShapeDriverFails ==
  ASSUME Shape, DriverFails
  PROVE  Shape'
  BY IdleType, ResourcesAssumption, Processes
  DEF Shape, TypeOK, Goto, Kinds, DriverFails, Labels, ExecLabels, Job, Procs, Res

\* A resume takes over what is active: types and labels stay in order.
LEMMA ShapeRehydrate ==
  ASSUME Shape, Rehydrate
  PROVE  Shape'
  BY IdleType, ResourcesAssumption, Processes
  DEF Shape, TypeOK, Goto, Kinds, Rehydrate, Outstanding, Res, Labels, ExecLabels,
      Job, Procs

\* The run is running again: types and labels stay in order.
LEMMA ShapeResume ==
  ASSUME Shape, Resume
  PROVE  Shape'
  BY IdleType, ResourcesAssumption, Processes
  DEF Shape, TypeOK, Goto, Kinds, Resume, RunStates, Labels, ExecLabels, Job, Procs,
      Res

\* The driver is killed: types and labels stay in order.
LEMMA ShapeCrash ==
  ASSUME Shape, Crash
  PROVE  Shape'
  BY IdleType, ResourcesAssumption, Processes
  DEF Shape, TypeOK, Goto, Kinds, Crash, Labels, ExecLabels, Job, Procs, Res

\* A resource is begun: types and labels stay in order.
LEMMA ShapeBegin ==
  ASSUME Shape, NEW r \in Res, Begin(r)
  PROVE  Shape'
  BY IdleType, ResourcesAssumption, Processes
  DEF Shape, TypeOK, Goto, Kinds, Begin, Labels, Job, ExecLabels, Procs, Res

\* The verifier is done: types and labels stay in order.
LEMMA ShapeReleaseVerifier ==
  ASSUME Shape, NEW s \in Sandboxes, ReleaseVerifier(s)
  PROVE  Shape'
<1> USE IdleType, ResourcesAssumption DEF Shape, TypeOK, Goto, Kinds
<1>1. job' \in [Procs -> Job]
  <2>1. s \in Res /\ WorktreeOf[s] \in Res
    BY DEF Res
  <2>2. [Idle EXCEPT !.todo = {s, WorktreeOf[s]}, !.next = "work"] \in Job
    BY <2>1 DEF Job, Labels
  <2> QED
    BY <2>1, <2>2, Processes DEF ReleaseVerifier
<1>2. pc' \in [Procs -> Labels] /\ Kinds'
  BY Processes
  DEF ReleaseVerifier, Labels, ExecLabels, Job, Procs, Res
<1> QED
  BY <1>1, <1>2 DEF ReleaseVerifier

\* The run ends: types and labels stay in order.
LEMMA ShapeEndRun ==
  ASSUME Shape, NEW status \in Ended, EndRun(status)
  PROVE  Shape'
  BY IdleType, ResourcesAssumption, Processes
  DEF Shape, TypeOK, Goto, Kinds, EndRun, Job, RunStates, Ended, Labels, ExecLabels,
      Procs, Res

\* The daemon decides a create: types and labels stay in order.
LEMMA ShapeDaemonCreates ==
  ASSUME Shape, NEW e \in Executions, DaemonCreates(e)
  PROVE  Shape'
  BY IdleType, ResourcesAssumption, Processes
  DEF Shape, TypeOK, Goto, Kinds, DaemonCreates, BoxStates, ExecLabels, Job, Procs,
      Res

\* A cleanup lists the leases: types and labels stay in order.
LEMMA ShapeListLeases ==
  ASSUME Shape, NEW p \in Procs, ListLeases(p)
  PROVE  Shape'
<1> USE IdleType, ResourcesAssumption DEF Shape, TypeOK, Goto, Kinds
<1>j. job[p] \in Job
  BY Processes
<1>1. job' \in [Procs -> Job]
  <2>1. Outstanding \in SUBSET Res
    BY DEF Outstanding
  <2> QED
    BY <2>1, <1>j, JobFields DEF ListLeases
<1>2. pc' \in [Procs -> Labels] /\ Kinds'
  BY Processes
  DEF ListLeases, Labels, ExecLabels, Job, Procs, Res
<1> QED
  BY <1>1, <1>2 DEF ListLeases

\* A cleanup reads the next lease: types and labels stay in order.
LEMMA ShapePickLease ==
  ASSUME Shape, NEW p \in Procs, PickLease(p)
  PROVE  Shape'
<1> USE IdleType, ResourcesAssumption DEF Shape, TypeOK, Goto, Kinds
<1>j. job[p] \in Job
  BY Processes
<1>1. pc' \in [Procs -> Labels]
  BY Processes DEF PickLease, Labels
<1>2. job' \in [Procs -> Job]
  BY Processes DEF PickLease, Candidates, Job
<1>3. Kinds'
  <2>1. PICK r \in Candidates(p) :
          \/ job' = [job EXCEPT ![p].todo = @ \ {r}] /\ UNCHANGED pc
          \/ job' = [job EXCEPT ![p].res = r, ![p].seen = lease[r]] /\ Goto(p, "release")
    BY DEF PickLease
  <2>2. r \in Res
    BY <1>j, JobFields DEF Candidates
  <2>3. CASE job' = [job EXCEPT ![p].todo = @ \ {r}] /\ UNCHANGED pc
    <3>1. \A q \in Procs : job'[q].res = job[q].res
      BY <2>3, <1>j DEF Job
    <3> QED
      BY Processes, <2>3, <3>1
  <2>4. CASE job' = [job EXCEPT ![p].res = r, ![p].seen = lease[r]] /\ Goto(p, "release")
    BY Processes, <1>j, <2>2, <2>4 DEF ExecLabels, Job
  <2> QED
    BY <2>1, <2>3, <2>4
<1> QED
  BY <1>1, <1>2, <1>3 DEF PickLease

\* A cleanup marks the lease: types and labels stay in order.
LEMMA ShapeMarkReleasing ==
  ASSUME Shape, NEW p \in Procs, MarkReleasing(p)
  PROVE  Shape'
<1> USE IdleType, ResourcesAssumption DEF Shape, TypeOK, Goto, Kinds
<1>1. job' \in [Procs -> Job]
  <2>1. job[p].res \in Res
    BY DEF MarkReleasing
  <2> QED
    BY <2>1, FailedJob DEF MarkReleasing
<1>2. Kinds'
  <2>1. job[p].res \in Res
    BY DEF MarkReleasing
  <2>2. \A q \in Procs : job'[q].res = job[q].res
    BY <2>1, FailedJob DEF MarkReleasing
  <2> QED
    BY Processes, <2>2 DEF MarkReleasing, ExecLabels
<1>3. lease' \in [Res -> Lease] /\ pc' \in [Procs -> Labels]
  BY Processes
  DEF MarkReleasing, UpdateLeaseStatus, Lease, LeaseStatus, Settled, Labels
<1> QED
  BY <1>1, <1>2, <1>3 DEF MarkReleasing

\* A cleanup asks for a proof of absence: types and labels stay in order.
LEMMA ShapeCleanResource ==
  ASSUME Shape, NEW p \in Procs, CleanResource(p)
  PROVE  Shape'
  BY IdleType, ResourcesAssumption, Processes
  DEF Shape, TypeOK, Goto, Kinds, CleanResource, ProveAbsent, CleanupExecution,
      ReconcileExecution, Remove, RemovalFails, BoxStates, Labels, ExecLabels, Job,
      Procs, Res

\* A cleanup writes its outcome: types and labels stay in order.
LEMMA ShapePersistCleanup ==
  ASSUME Shape, NEW p \in Procs, PersistCleanup(p)
  PROVE  Shape'
<1> USE IdleType, ResourcesAssumption DEF Shape, TypeOK, Goto, Kinds
<1>j. job[p] \in Job
  BY Processes
<1>1. lease' \in [Res -> Lease]
  <2>1. job[p].target \in LeaseStatus
    BY <1>j DEF Job, LeaseStatus
  <2>2. "failed" \in LeaseStatus
    BY DEF LeaseStatus
  <2> QED
    BY <2>1, <2>2, LeaseUpdated DEF PersistCleanup, UpdateLeaseStatus
<1>2. pc' \in [Procs -> Labels]
  BY Processes DEF PersistCleanup, Labels
<1>3. job' \in [Procs -> Job]
  <2>1. job[p].res \in Res
    BY DEF PersistCleanup
  <2>2. job[p].todo \ {job[p].res} \in SUBSET Res
    BY <1>j, JobFields
  <2>3. \/ Failed(p)
        \/ job' = [job EXCEPT ![p] = [job[p] EXCEPT !.todo = job[p].todo \ {job[p].res}]]
    BY DEF PersistCleanup
  <2>4. [job[p] EXCEPT !.todo = job[p].todo \ {job[p].res}] \in Job
    BY <2>2, <1>j, JobFields
  <2> QED
    BY <2>1, <2>3, <2>4, FailedJob
<1>4. Kinds'
  <2>1. job[p].res \in Res
    BY DEF PersistCleanup
  <2>2. \A q \in Procs : job'[q].res = job[q].res
    BY <2>1, <1>j, FailedJob DEF PersistCleanup, Job
  <2> QED
    BY Processes, <2>2 DEF PersistCleanup, ExecLabels
<1> QED
  BY <1>1, <1>2, <1>3, <1>4 DEF PersistCleanup

\* A cleanup ends: types and labels stay in order.
LEMMA ShapeFinishCleanup ==
  ASSUME Shape, NEW p \in Procs, FinishCleanup(p)
  PROVE  Shape'
<1> USE IdleType, ResourcesAssumption DEF Shape, TypeOK, Goto, Kinds
<1>j. job[p] \in Job
  BY Processes
<1>1. Kinds'
  <2>1. job[p].next \in {"work", "present", "down", "idle"}
    BY <1>j DEF Job
  <2>2. pc'[p] \in {"work", "present", "down", "idle", "fail"}
    BY <2>1 DEF FinishCleanup
  <2>3. job' = [job EXCEPT ![p] = Idle] /\ pc' = [pc EXCEPT ![p] = pc'[p]]
    BY DEF FinishCleanup
  <2> QED
    BY Processes, <2>1, <2>2, <2>3 DEF ExecLabels
<1>2. pc' \in [Procs -> Labels] /\ job' \in [Procs -> Job]
  BY <1>j, Processes
  DEF FinishCleanup, Labels, Job
<1> QED
  BY <1>1, <1>2 DEF FinishCleanup

\* A cancel begins: types and labels stay in order.
LEMMA ShapeStartCancel ==
  ASSUME Shape, NEW c \in Cancellers, StartCancel(c)
  PROVE  Shape'
  BY IdleType, ResourcesAssumption, Processes
  DEF Shape, TypeOK, Goto, Kinds, StartCancel, Labels, Job, ExecLabels, Procs, Res

\* A cancel looks for something to clean up: types and labels stay in order.
LEMMA ShapeCancelLooks ==
  ASSUME Shape, NEW c \in Cancellers, CancelLooks(c)
  PROVE  Shape'
<1> USE IdleType, ResourcesAssumption DEF Shape, TypeOK, Goto, Kinds
<1>j. job[c] \in Job
  BY Processes
<1>1. job' \in [Procs -> Job]
  <2>1. (Outstanding # {}) \in BOOLEAN
    OBVIOUS
  <2> QED
    BY <2>1, Processes, <1>j, JobFields DEF CancelLooks
<1>2. pc' \in [Procs -> Labels] /\ Kinds'
  BY Processes
  DEF CancelLooks, Labels, ExecLabels, Job, Procs, Res
<1> QED
  BY <1>1, <1>2 DEF CancelLooks

\* A cancel saves the run: types and labels stay in order.
LEMMA ShapeCancelSaves ==
  ASSUME Shape, NEW c \in Cancellers, CancelSaves(c)
  PROVE  Shape'
  BY IdleType, ResourcesAssumption, Processes
  DEF Shape, TypeOK, Goto, Kinds, CancelSaves, RunStates, Labels, ExecLabels, Job,
      Procs, Res

\* A recovery begins: types and labels stay in order.
LEMMA ShapeStartRecovery ==
  ASSUME Shape, NEW c \in Recoverers, StartRecovery(c)
  PROVE  Shape'
<1> USE IdleType, ResourcesAssumption DEF Shape, TypeOK, Goto, Kinds
<1>1. /\ run' \in RunStates
      /\ pc' \in [Procs -> Labels]
      /\ job' \in [Procs -> Job]
      /\ Kinds'
  <2>1. c \in Procs /\ c # Owner
    BY Processes DEF StartRecovery
  <2>2. run' \in RunStates /\ pc' \in [Procs -> Labels]
    BY <2>1 DEF StartRecovery, RunStates, Labels
  <2>3. job' \in [Procs -> Job]
    BY <2>1 DEF StartRecovery, Job, Settled, RunStates, Labels
  <2>4. /\ pc'[c] = "list" /\ \A p \in Procs \ {c} : pc'[p] = pc[p] /\ job'[p] = job[p]
        /\ Owner \in Procs
    BY <2>1, Processes DEF StartRecovery
  <2>5. Kinds'
    BY <2>1, <2>4 DEF ExecLabels
  <2> QED
    BY <2>2, <2>3, <2>5
<1> QED
  BY <1>1 DEF StartRecovery

\* A cancel or a recovery is killed: types and labels stay in order.
LEMMA ShapeCleanerCrash ==
  ASSUME Shape, NEW c \in Cleaners, CleanerCrash(c)
  PROVE  Shape'
  BY IdleType, ResourcesAssumption, Processes
  DEF Shape, TypeOK, Goto, Kinds, CleanerCrash, Labels, ExecLabels, Job, Procs, Res

\* Every step of every process preserves the types and the labels.
LEMMA ShapeStep == Shape /\ [Next]_vars => Shape'
<1> SUFFICES ASSUME Shape, [Next]_vars PROVE Shape'
  OBVIOUS
<1>1. CASE Next
  BY <1>1, ShapeSaveLease, ShapeMaterialize, ShapeActivate, ShapeAbortWorktree,
     ShapePrepare, ShapeUnprepare, ShapeRefuseExecution, ShapeMarkExecutionCreationDispatched,
     ShapeDispatchCreate, ShapeCreateAnswers, ShapeBindCreatedResource, ShapeRunAndRemove,
     ShapeFinalizeExecution, ShapeCleanupFailedExecution, ShapeSettleFailedExecution, ShapeProveFailedExecution,
     ShapePersistFailedExecution, ShapePause, ShapeStartPresenting, ShapePresent,
     ShapeDriverFails, ShapeRehydrate, ShapeResume, ShapeCrash,
     ShapeBegin, ShapeReleaseVerifier, ShapeEndRun, ShapeDaemonCreates,
     ShapeListLeases, ShapePickLease, ShapeMarkReleasing, ShapeCleanResource,
     ShapePersistCleanup, ShapeFinishCleanup, ShapeStartCancel, ShapeCancelLooks,
     ShapeCancelSaves, ShapeStartRecovery, ShapeCleanerCrash
     DEF Next, Driver, Cleanup
<1>2. CASE UNCHANGED vars
  BY <1>2 DEF vars, Shape, TypeOK, Kinds
<1> QED
  BY <1>1, <1>2

\* Types, for any worktrees, sandboxes, executions and processes.
THEOREM TypeCorrect == Spec => []TypeOK
<1>1. Shape => TypeOK
  BY DEF Shape
<1> QED
  BY <1>1, ShapeInit, ShapeStep, PTL DEF Spec

-----------------------------------------------------------------------------
\* The labels of an execution before its failure, if any, is settled.
Fresh == {"dispatch", "create", "created", "bind", "started", "finalize", "undo"}
Done(e) == box[e] \notin {"asked", "up"}

\* Before the checkpoint there is no container, and a lease that holds a handle
\* had one.
Checkpoint ==
  /\ NoContainerWithoutCheckpoint
  /\ \A r \in Res : lease[r].status = "none" => ~lease[r].dispatched /\ ~lease[r].handle
  /\ \A e \in Executions : /\ lease[e].handle => box[e] \in {"up", "gone"}
                           /\ lease[e].status = "active" => lease[e].handle
  /\ pc[Owner] = "lease" => lease[job[Owner].res].status = "none" /\ ~job[Owner].ok
  /\ pc[Owner] \in {"dispatch", "create"} => box[job[Owner].res] = "no"
  /\ pc[Owner] = "create" => lease[job[Owner].res].dispatched
  /\ pc[Owner] = "bind" => box[job[Owner].res] \in {"up", "gone"}

\* A recovery is at work only after the driver stopped, on a run that ended.
Alone ==
  \A p \in Procs : job[p].target = "recovered" =>
    p \in Recoverers /\ pc[Owner] = "down" /\ run \in Ended

\* What the driver has read of its execution is still so, and what it has proved.
KnowsOwn ==
  /\ pc[Owner] \in Fresh => ~job[Owner].ok
  /\ pc[Owner] \in {"settle", "prove"} /\ job[Owner].ok =>
       box[job[Owner].res] \in {"no", "gone"}
  /\ pc[Owner] = "prove" =>
       /\ job[Owner].seen.dispatched = lease[job[Owner].res].dispatched
       /\ job[Owner].seen.status = "active" => box[job[Owner].res] \in {"up", "gone"}
  /\ pc[Owner] = "recovered" => Done(job[Owner].res)

\* The same for each recovery.
Knows ==
  \A p \in Procs : job[p].target = "recovered" =>
       /\ pc[p] \in {"release", "clean"} /\ job[p].res \in Executions =>
            /\ job[p].seen.dispatched = lease[job[p].res].dispatched
            /\ job[p].seen.handle => box[job[p].res] \in {"up", "gone"}
       /\ pc[p] = "persist" /\ job[p].res \in Executions => Done(job[p].res)
       /\ pc[p] = "persist" /\ job[p].res \in Worktrees => job[p].res \notin tree

\* A lease the driver is about to create something for is not recovered.
Open ==
  pc[Owner] \in {"lease", "dispatch", "create", "materialize"} =>
    lease[job[Owner].res].status # "recovered"

\* The inductive invariant, on top of Shape.
Safe == Checkpoint /\ Alone /\ KnowsOwn /\ Knows /\ Open /\ RecoveredIsGone

\* update_lease_status changes the status of one lease and nothing else.
LEMMA StatusWritten ==
  ASSUME lease \in [Res -> Lease], NEW r \in Res, NEW s, UpdateLeaseStatus(r, s)
  PROVE  \A q \in Res : /\ lease'[q].status = IF q = r THEN s ELSE lease[q].status
                        /\ lease'[q].dispatched = lease[q].dispatched
                        /\ lease'[q].handle = lease[q].handle
  BY DEF UpdateLeaseStatus, Lease

\* Whether a cleanup succeeds or fails, what every process works on, aims at and
\* has seen stays the same.
LEMMA JobKept ==
  ASSUME job \in [Procs -> Job], NEW p \in Procs, job[p].res \in Res,
         \/ UNCHANGED job
         \/ Failed(p)
         \/ job' = [job EXCEPT ![p].todo = @ \ {job[p].res}]
  PROVE  \A q \in Procs : /\ job'[q].res = job[q].res /\ job'[q].seen = job[q].seen
                          /\ job'[q].target = job[q].target /\ job'[q].ok = job[q].ok
<1>1. job[p] \in Job
  OBVIOUS
<1> QED
  BY <1>1 DEF Failed, Job

\* While the driver is at work no recovery is, so nothing is to be shown of one.
LEMMA NoRecovery ==
  ASSUME Shape, Alone, pc[Owner] # "down",
         \A p \in Procs : job'[p].target \in {"released", job[p].target}
  PROVE  Alone' /\ Knows'
<1>1. \A p \in Procs : job[p].target # "recovered"
  BY DEF Alone
<1>2. \A p \in Procs : job'[p].target # "recovered"
  BY <1>1
<1> QED
  BY <1>2 DEF Alone, Knows

\* Writing a status other than "none" and "active" keeps the checkpoints, unless
\* the driver gets ready to create.
LEMMA CheckpointKept ==
  ASSUME Shape, Checkpoint, NEW r \in Res, NEW s, s \notin {"none", "active"},
         UpdateLeaseStatus(r, s), UNCHANGED box,
         \/ pc'[Owner] \notin {"lease", "dispatch", "create", "bind"}
         \/ /\ pc'[Owner] = pc[Owner] /\ lease[r].status # "none"
            /\ job'[Owner].res = job[Owner].res /\ job'[Owner].ok = job[Owner].ok
  PROVE  Checkpoint'
<1> USE DEF Shape, TypeOK
<1>1. \A q \in Res : /\ lease'[q].status = IF q = r THEN s ELSE lease[q].status
                     /\ lease'[q].dispatched = lease[q].dispatched
                     /\ lease'[q].handle = lease[q].handle
  BY StatusWritten
<1>2. Executions \subseteq Res
  BY DEF Res
<1>3. NoContainerWithoutCheckpoint'
  BY <1>1, <1>2 DEF Checkpoint, NoContainerWithoutCheckpoint
<1>4. /\ \A q \in Res : lease'[q].status = "none" => ~lease'[q].dispatched /\ ~lease'[q].handle
      /\ \A e \in Executions : /\ lease'[e].handle => box'[e] \in {"up", "gone"}
                               /\ lease'[e].status = "active" => lease'[e].handle
  BY <1>1, <1>2 DEF Checkpoint
<1>5. CASE pc'[Owner] \notin {"lease", "dispatch", "create", "bind"}
  BY <1>3, <1>4, <1>5 DEF Checkpoint
<1>6. CASE /\ pc'[Owner] = pc[Owner] /\ lease[r].status # "none"
           /\ job'[Owner].res = job[Owner].res /\ job'[Owner].ok = job[Owner].ok
  BY <1>1, <1>2, <1>3, <1>4, <1>6 DEF Checkpoint, Kinds, ExecLabels
<1> QED
  BY <1>5, <1>6

\* The lease is saved before the resource: the safety invariant is preserved.
LEMMA SafeSaveLease ==
  ASSUME Shape, Shape', Safe, SaveLease
  PROVE  Safe'
<1> USE ResourcesAssumption DEF Shape, TypeOK, Goto, Safe
<1>1. Alone' /\ Knows'
  <2>1. \A p \in Procs : job'[p].target \in {"released", job[p].target}
    BY Processes DEF SaveLease, Idle, Job
  <2> QED
    BY <2>1, NoRecovery DEF SaveLease
<1>2. Checkpoint' /\ KnowsOwn' /\ Open' /\ RecoveredIsGone'
  BY Processes
  DEF SaveLease, Checkpoint, NoContainerWithoutCheckpoint, Res, KnowsOwn, Fresh,
      Done, Kinds, ExecLabels, Job, Open, RecoveredIsGone, Absent
<1> QED
  BY <1>1, <1>2

\* The worktree is added: the safety invariant is preserved.
LEMMA SafeMaterialize ==
  ASSUME Shape, Shape', Safe, Materialize
  PROVE  Safe'
<1> USE ResourcesAssumption DEF Shape, TypeOK, Goto, Safe
<1>1. Alone' /\ Knows'
  <2>1. \A p \in Procs : job'[p].target \in {"released", job[p].target}
    BY Processes DEF Materialize, Idle, Job
  <2> QED
    BY <2>1, NoRecovery DEF Materialize
<1>2. Checkpoint' /\ KnowsOwn' /\ Open' /\ RecoveredIsGone'
  BY Processes
  DEF Materialize, Checkpoint, NoContainerWithoutCheckpoint, KnowsOwn, Fresh, Done,
      Open, RecoveredIsGone, Absent, Kinds, Res
<1> QED
  BY <1>1, <1>2

\* A worktree or sandbox becomes usable: the safety invariant is preserved.
LEMMA SafeActivate ==
  ASSUME Shape, Shape', Safe, Activate
  PROVE  Safe'
<1> USE ResourcesAssumption DEF Shape, TypeOK, Goto, Safe
<1>1. Alone' /\ Knows'
  <2>1. \A p \in Procs : job'[p].target \in {"released", job[p].target}
    BY Processes DEF Activate, Idle, Job
  <2> QED
    BY <2>1, NoRecovery DEF Activate
<1>2. RecoveredIsGone'
  <2>1. job[Owner].res \in Res
    BY DEF Activate, Kinds, Res
  <2>2. UNCHANGED lease \/ UpdateLeaseStatus(job[Owner].res, "active")
    BY DEF Activate
  <2>3. CASE UNCHANGED lease
    BY Processes, <2>1, <2>3 DEF Activate, RecoveredIsGone, Absent, Res
  <2>4. CASE ~UNCHANGED lease
    BY Processes, <2>1, <2>2, <2>4, StatusWritten, SMTT(40)
    DEF Activate, RecoveredIsGone, Absent, Res
  <2> QED
    BY <2>3, <2>4
<1>3. Checkpoint' /\ KnowsOwn' /\ Open'
  BY Processes
  DEF Activate, Checkpoint, NoContainerWithoutCheckpoint, UpdateLeaseStatus, Kinds,
      ExecLabels, Res, Lease, KnowsOwn, Fresh, Done, Open
<1> QED
  BY <1>1, <1>2, <1>3

\* A worktree could not be made: the safety invariant is preserved.
LEMMA SafeAbortWorktree ==
  ASSUME Shape, Shape', Safe, AbortWorktree
  PROVE  Safe'
<1> USE ResourcesAssumption DEF Shape, TypeOK, Goto, Safe
<1>1. Alone' /\ Knows'
  <2>1. \A p \in Procs : job'[p].target \in {"released", job[p].target}
    BY Processes DEF AbortWorktree, Idle, Job
  <2> QED
    BY <2>1, NoRecovery DEF AbortWorktree
<1>2. Checkpoint'
  <2>1. job[Owner].res \in Res
    BY DEF AbortWorktree, Kinds, Res
  <2>2. UNCHANGED lease \/ UpdateLeaseStatus(job[Owner].res, "failed")
    BY DEF AbortWorktree
  <2>3. pc'[Owner] \notin {"lease", "dispatch", "create", "bind"} /\ UNCHANGED box
    BY Processes DEF AbortWorktree
  <2>4. CASE UNCHANGED lease
    BY <2>3, <2>4 DEF Checkpoint, NoContainerWithoutCheckpoint
  <2>5. CASE ~UNCHANGED lease
    BY <2>1, <2>2, <2>3, <2>5, CheckpointKept
  <2> QED
    BY <2>4, <2>5
<1>3. RecoveredIsGone'
  <2>1. job[Owner].res \in Res
    BY DEF AbortWorktree, Kinds, Res
  <2>2. UNCHANGED lease \/ UpdateLeaseStatus(job[Owner].res, "failed")
    BY DEF AbortWorktree
  <2>3. CASE UNCHANGED lease
    BY Processes, <2>1, <2>3 DEF AbortWorktree, RecoveredIsGone, Absent, Res
  <2>4. CASE ~UNCHANGED lease
    BY Processes, <2>1, <2>2, <2>4, StatusWritten
    DEF AbortWorktree, RecoveredIsGone, Absent, Res
  <2> QED
    BY <2>3, <2>4
<1>4. KnowsOwn' /\ Open'
  BY Processes
  DEF AbortWorktree, KnowsOwn, Fresh, Done, UpdateLeaseStatus, Open
<1> QED
  BY <1>1, <1>2, <1>3, <1>4

\* The sandbox is prepared: the safety invariant is preserved.
LEMMA SafePrepare ==
  ASSUME Shape, Shape', Safe, Prepare
  PROVE  Safe'
<1> USE ResourcesAssumption DEF Shape, TypeOK, Goto, Safe
<1>1. Alone' /\ Knows'
  <2>1. \A p \in Procs : job'[p].target \in {"released", job[p].target}
    BY Processes DEF Prepare, Idle, Job
  <2> QED
    BY <2>1, NoRecovery DEF Prepare
<1>2. Checkpoint' /\ KnowsOwn' /\ Open' /\ RecoveredIsGone'
  BY Processes
  DEF Prepare, Checkpoint, NoContainerWithoutCheckpoint, KnowsOwn, Fresh, Done,
      Open, RecoveredIsGone, Absent
<1> QED
  BY <1>1, <1>2

\* The sandbox could not be made: the safety invariant is preserved.
LEMMA SafeUnprepare ==
  ASSUME Shape, Shape', Safe, Unprepare
  PROVE  Safe'
<1> USE ResourcesAssumption DEF Shape, TypeOK, Goto, Safe
<1>1. Alone' /\ Knows'
  <2>1. \A p \in Procs : job'[p].target \in {"released", job[p].target}
    BY Processes DEF Unprepare, Idle, Job
  <2> QED
    BY <2>1, NoRecovery DEF Unprepare
<1>2. Checkpoint'
  <2>1. job[Owner].res \in Res
    BY DEF Unprepare, Kinds, Res
  <2>2. \/ UNCHANGED lease
        \/ UpdateLeaseStatus(job[Owner].res, "failed")
        \/ UpdateLeaseStatus(job[Owner].res, "recovered")
    BY DEF Unprepare
  <2>3. pc'[Owner] \notin {"lease", "dispatch", "create", "bind"} /\ UNCHANGED box
    BY Processes DEF Unprepare
  <2>4. CASE UNCHANGED lease
    BY <2>3, <2>4 DEF Checkpoint, NoContainerWithoutCheckpoint
  <2>5. CASE ~UNCHANGED lease
    BY <2>1, <2>2, <2>3, <2>5, CheckpointKept
  <2> QED
    BY <2>4, <2>5
<1>3. KnowsOwn' /\ Open' /\ RecoveredIsGone'
  BY Processes
  DEF Unprepare, KnowsOwn, Fresh, Done, UpdateLeaseStatus, Open, RecoveredIsGone,
      Absent, Kinds, ExecLabels, Res
<1> QED
  BY <1>1, <1>2, <1>3

\* A check before the dispatch fails: the safety invariant is preserved.
LEMMA SafeRefuseExecution ==
  ASSUME Shape, Shape', Safe, RefuseExecution
  PROVE  Safe'
<1> USE ResourcesAssumption DEF Shape, TypeOK, Goto, Safe
<1>1. Alone' /\ Knows'
  <2>1. \A p \in Procs : job'[p].target \in {"released", job[p].target}
    BY Processes DEF RefuseExecution, Idle, Job
  <2> QED
    BY <2>1, NoRecovery DEF RefuseExecution
<1>2. Checkpoint' /\ KnowsOwn' /\ Open' /\ RecoveredIsGone'
  BY Processes
  DEF RefuseExecution, Checkpoint, NoContainerWithoutCheckpoint, KnowsOwn, Fresh,
      Done, Kinds, ExecLabels, Job, Res, Open, RecoveredIsGone, Absent
<1> QED
  BY <1>1, <1>2

\* The durable checkpoint before the create: the safety invariant is preserved.
LEMMA SafeMarkExecutionCreationDispatched ==
  ASSUME Shape, Shape', Safe, MarkExecutionCreationDispatched
  PROVE  Safe'
<1> USE ResourcesAssumption DEF Shape, TypeOK, Goto, Safe
<1>1. Alone' /\ Knows'
  <2>1. \A p \in Procs : job'[p].target \in {"released", job[p].target}
    BY Processes DEF MarkExecutionCreationDispatched, Idle, Job
  <2> QED
    BY <2>1, NoRecovery DEF MarkExecutionCreationDispatched
<1>2. Checkpoint'
  <2>1. /\ job[Owner].res \in Executions /\ job[Owner].res \in Res
        /\ pc'[Owner] \in {"create", "settle"} /\ UNCHANGED <<box, job>>
    BY Processes DEF MarkExecutionCreationDispatched, Kinds, ExecLabels, Res
  <2>2. CASE UNCHANGED lease /\ pc'[Owner] = "settle"
    BY <2>1, <2>2 DEF Checkpoint, NoContainerWithoutCheckpoint
  <2>3. CASE /\ lease[job[Owner].res].status = "creating"
             /\ lease' = [lease EXCEPT ![job[Owner].res].dispatched = TRUE]
    <3>1. \A q \in Res : /\ lease'[q].status = lease[q].status /\ lease'[q].handle = lease[q].handle
                         /\ IF q = job[Owner].res THEN lease'[q].dispatched
                            ELSE lease'[q].dispatched = lease[q].dispatched
      BY <2>1, <2>3 DEF Lease
    <3>2. Executions \subseteq Res
      BY DEF Res
    <3>3. box[job[Owner].res] = "no"
      BY DEF Checkpoint, MarkExecutionCreationDispatched
    <3>4. NoContainerWithoutCheckpoint'
      BY <2>1, <3>1, <3>2 DEF Checkpoint, NoContainerWithoutCheckpoint
    <3>5. /\ \A q \in Res : lease'[q].status = "none" => ~lease'[q].dispatched /\ ~lease'[q].handle
          /\ \A e \in Executions : /\ lease'[e].handle => box'[e] \in {"up", "gone"}
                                   /\ lease'[e].status = "active" => lease'[e].handle
      BY <2>1, <2>3, <3>1, <3>2 DEF Checkpoint
    <3> QED
      BY <2>1, <3>1, <3>3, <3>4, <3>5 DEF Checkpoint
  <2> QED
    BY Processes, <2>2, <2>3 DEF MarkExecutionCreationDispatched
<1>3. KnowsOwn'
  BY Processes DEF MarkExecutionCreationDispatched, KnowsOwn, Fresh, Done
<1>4. Open'
  BY Processes, SMTT(40)
  DEF MarkExecutionCreationDispatched, Open, Kinds, ExecLabels, Res, Lease
<1>5. RecoveredIsGone'
  <2>1. \A q \in Res : lease'[q].status = lease[q].status
    BY DEF MarkExecutionCreationDispatched, Lease
  <2>2. UNCHANGED <<box, tree>> /\ Worktrees \cup Executions \subseteq Res
    BY DEF MarkExecutionCreationDispatched, Res
  <2> QED
    BY <2>1, <2>2 DEF RecoveredIsGone, Absent, Containers
<1> QED
  BY <1>1, <1>2, <1>3, <1>4, <1>5

\* The create is sent: the safety invariant is preserved.
LEMMA SafeDispatchCreate ==
  ASSUME Shape, Shape', Safe, DispatchCreate
  PROVE  Safe'
<1> USE ResourcesAssumption DEF Shape, TypeOK, Goto, Safe
<1>1. Alone' /\ Knows'
  <2>1. \A p \in Procs : job'[p].target \in {"released", job[p].target}
    BY Processes DEF DispatchCreate, Idle, Job
  <2> QED
    BY <2>1, NoRecovery DEF DispatchCreate
<1>2. Checkpoint' /\ KnowsOwn' /\ Open' /\ RecoveredIsGone'
  BY Processes
  DEF DispatchCreate, Checkpoint, NoContainerWithoutCheckpoint, KnowsOwn, Fresh,
      Done, Open, RecoveredIsGone, Absent, Kinds, ExecLabels, Res
<1> QED
  BY <1>1, <1>2

\* Docker answers, or does not: the safety invariant is preserved.
LEMMA SafeCreateAnswers ==
  ASSUME Shape, Shape', Safe, CreateAnswers
  PROVE  Safe'
<1> USE ResourcesAssumption DEF Shape, TypeOK, Goto, Safe
<1>1. Alone' /\ Knows'
  <2>1. \A p \in Procs : job'[p].target \in {"released", job[p].target}
    BY Processes DEF CreateAnswers, Idle, Job
  <2> QED
    BY <2>1, NoRecovery DEF CreateAnswers
<1>2. Checkpoint' /\ KnowsOwn' /\ Open' /\ RecoveredIsGone'
  BY Processes
  DEF CreateAnswers, Checkpoint, NoContainerWithoutCheckpoint, KnowsOwn, Fresh,
      Done, Open, RecoveredIsGone, Absent
<1> QED
  BY <1>1, <1>2

\* The handle is bound to the lease: the safety invariant is preserved.
LEMMA SafeBindCreatedResource ==
  ASSUME Shape, Shape', Safe, BindCreatedResource
  PROVE  Safe'
<1> USE ResourcesAssumption DEF Shape, TypeOK, Goto, Safe
<1>1. Alone' /\ Knows'
  <2>1. \A p \in Procs : job'[p].target \in {"released", job[p].target}
    BY Processes DEF BindCreatedResource, Idle, Job
  <2> QED
    BY <2>1, NoRecovery DEF BindCreatedResource
<1>2. Checkpoint'
  <2>1. job[Owner].res \in Executions /\ job[Owner].res \in Res
    BY DEF BindCreatedResource, Kinds, ExecLabels, Res
  <2>2. \/ UNCHANGED lease
        \/ lease' = [lease EXCEPT ![job[Owner].res] =
             [status |-> "active", dispatched |-> TRUE, handle |-> TRUE]]
    BY DEF BindCreatedResource
  <2>3. CASE UNCHANGED lease
    BY Processes, <2>1, <2>3
    DEF BindCreatedResource, NoContainerWithoutCheckpoint, Checkpoint, Kinds,
        ExecLabels, Res
  <2>4. CASE ~UNCHANGED lease
    <3>1. \A q \in Res :
            IF q = job[Owner].res
            THEN lease'[q].status = "active" /\ lease'[q].dispatched /\ lease'[q].handle
            ELSE lease'[q] = lease[q]
      BY <2>1, <2>2, <2>4 DEF Lease
    <3> QED
      BY Processes, <2>1, <2>2, <3>1
      DEF BindCreatedResource, NoContainerWithoutCheckpoint, Checkpoint, Kinds,
          ExecLabels, Res
  <2> QED
    BY <2>3, <2>4
<1>3. RecoveredIsGone'
  <2>1. job[Owner].res \in Executions /\ job[Owner].res \in Res
    BY DEF BindCreatedResource, Kinds, ExecLabels, Res
  <2>2. \/ UNCHANGED lease
        \/ lease' = [lease EXCEPT ![job[Owner].res] =
             [status |-> "active", dispatched |-> TRUE, handle |-> TRUE]]
    BY DEF BindCreatedResource
  <2>3. CASE UNCHANGED lease
    BY Processes, <2>1, <2>3 DEF BindCreatedResource, RecoveredIsGone, Absent, Res
  <2>4. CASE ~UNCHANGED lease
    <3>1. \A q \in Res :
            IF q = job[Owner].res
            THEN lease'[q].status = "active" /\ lease'[q].dispatched /\ lease'[q].handle
            ELSE lease'[q] = lease[q]
      BY <2>1, <2>2, <2>4 DEF Lease
    <3> QED
      BY Processes, <2>1, <2>2, <3>1
      DEF BindCreatedResource, RecoveredIsGone, Absent, Res
  <2> QED
    BY <2>3, <2>4
<1>4. KnowsOwn' /\ Open'
  BY Processes
  DEF BindCreatedResource, KnowsOwn, Fresh, Done, Open
<1> QED
  BY <1>1, <1>2, <1>3, <1>4

\* The command runs and its container is removed: the safety invariant is preserved.
LEMMA SafeRunAndRemove ==
  ASSUME Shape, Shape', Safe, RunAndRemove
  PROVE  Safe'
<1> USE ResourcesAssumption DEF Shape, TypeOK, Goto, Safe
<1>1. Alone' /\ Knows'
  <2>1. \A p \in Procs : job'[p].target \in {"released", job[p].target}
    BY Processes DEF RunAndRemove, Idle, Job
  <2> QED
    BY <2>1, NoRecovery DEF RunAndRemove
<1>2. Checkpoint' /\ KnowsOwn' /\ Open' /\ RecoveredIsGone'
  BY Processes
  DEF RunAndRemove, Checkpoint, NoContainerWithoutCheckpoint, Remove, RemovalFails,
      KnowsOwn, Fresh, Done, Open, RecoveredIsGone, Absent
<1> QED
  BY <1>1, <1>2

\* The lease is released: the safety invariant is preserved.
LEMMA SafeFinalizeExecution ==
  ASSUME Shape, Shape', Safe, FinalizeExecution
  PROVE  Safe'
<1> USE ResourcesAssumption DEF Shape, TypeOK, Goto, Safe
<1>1. Alone' /\ Knows'
  <2>1. \A p \in Procs : job'[p].target \in {"released", job[p].target}
    BY Processes DEF FinalizeExecution, Idle, Job
  <2> QED
    BY <2>1, NoRecovery DEF FinalizeExecution
<1>2. Checkpoint'
  <2>1. job[Owner].res \in Res
    BY DEF FinalizeExecution, Kinds, ExecLabels, Res
  <2>2. UNCHANGED lease \/ UpdateLeaseStatus(job[Owner].res, "released")
    BY DEF FinalizeExecution
  <2>3. pc'[Owner] \notin {"lease", "dispatch", "create", "bind"} /\ UNCHANGED box
    BY Processes DEF FinalizeExecution
  <2>4. CASE UNCHANGED lease
    BY <2>3, <2>4 DEF Checkpoint, NoContainerWithoutCheckpoint
  <2>5. CASE ~UNCHANGED lease
    BY <2>1, <2>2, <2>3, <2>5, CheckpointKept
  <2> QED
    BY <2>4, <2>5
<1>3. KnowsOwn'
  BY Processes DEF FinalizeExecution, KnowsOwn, Fresh, Done, UpdateLeaseStatus
<1>4. Open'
  BY Processes DEF FinalizeExecution, Open, UpdateLeaseStatus
<1>5. RecoveredIsGone'
  BY Processes
  DEF FinalizeExecution, RecoveredIsGone, Absent, UpdateLeaseStatus, Kinds,
      ExecLabels, Res, Lease
<1> QED
  BY <1>1, <1>2, <1>3, <1>4, <1>5

\* The adapter cleans up after an error: the safety invariant is preserved.
LEMMA SafeCleanupFailedExecution ==
  ASSUME Shape, Shape', Safe, CleanupFailedExecution
  PROVE  Safe'
<1> USE ResourcesAssumption DEF Shape, TypeOK, Goto, Safe
<1>1. Alone' /\ Knows'
  <2>1. \A p \in Procs : job'[p].target \in {"released", job[p].target}
    BY Processes DEF CleanupFailedExecution, Idle, Job
  <2> QED
    BY <2>1, NoRecovery DEF CleanupFailedExecution
<1>2. Checkpoint' /\ KnowsOwn' /\ Open' /\ RecoveredIsGone'
  BY Processes
  DEF CleanupFailedExecution, Checkpoint, NoContainerWithoutCheckpoint, Remove,
      RemovalFails, KnowsOwn, Fresh, Done, Idle, Job, Kinds, ExecLabels, Open,
      RecoveredIsGone, Absent
<1> QED
  BY <1>1, <1>2

\* The executor reads the lease after an error: the safety invariant is preserved.
LEMMA SafeSettleFailedExecution ==
  ASSUME Shape, Shape', Safe, SettleFailedExecution
  PROVE  Safe'
<1> USE ResourcesAssumption DEF Shape, TypeOK, Goto, Safe
<1>1. Alone' /\ Knows'
  <2>1. \A p \in Procs : job'[p].target \in {"released", job[p].target}
    BY Processes DEF SettleFailedExecution, Idle, Job
  <2> QED
    BY <2>1, NoRecovery DEF SettleFailedExecution
<1>2. KnowsOwn'
  <2>1. job[Owner].res \in Executions /\ job[Owner] \in Job
    BY Processes DEF SettleFailedExecution, Kinds, ExecLabels
  <2>2. /\ pc'[Owner] \in {"fail", "prove"} /\ UNCHANGED <<lease, box>>
        /\ job'[Owner].res = job[Owner].res /\ job'[Owner].ok = job[Owner].ok
        /\ pc'[Owner] = "prove" => job'[Owner].seen = lease[job[Owner].res]
    BY Processes, <2>1 DEF SettleFailedExecution, Job
  <2> QED
    BY <2>1, <2>2 DEF SettleFailedExecution, KnowsOwn, Fresh, Checkpoint
<1>3. Checkpoint' /\ Open' /\ RecoveredIsGone'
  BY Processes
  DEF SettleFailedExecution, Checkpoint, NoContainerWithoutCheckpoint, Open,
      RecoveredIsGone, Absent
<1> QED
  BY <1>1, <1>2, <1>3

\* The executor asks for a proof of absence: the safety invariant is preserved.
LEMMA SafeProveFailedExecution ==
  ASSUME Shape, Shape', Safe, ProveFailedExecution
  PROVE  Safe'
<1> USE ResourcesAssumption DEF Shape, TypeOK, Goto, Safe
<1>1. Alone' /\ Knows'
  <2>1. \A p \in Procs : job'[p].target \in {"released", job[p].target}
    BY Processes DEF ProveFailedExecution, Idle, Job
  <2> QED
    BY <2>1, NoRecovery DEF ProveFailedExecution
<1>2. Checkpoint' /\ KnowsOwn' /\ Open' /\ RecoveredIsGone'
  BY Processes
  DEF ProveFailedExecution, Checkpoint, NoContainerWithoutCheckpoint,
      CleanupExecution, ReconcileExecution, Remove, RemovalFails, KnowsOwn, Done,
      Kinds, ExecLabels, Fresh, Open, RecoveredIsGone, Absent
<1> QED
  BY <1>1, <1>2

\* The outcome of that proof is written: the safety invariant is preserved.
LEMMA SafePersistFailedExecution ==
  ASSUME Shape, Shape', Safe, PersistFailedExecution
  PROVE  Safe'
<1> USE ResourcesAssumption DEF Shape, TypeOK, Goto, Safe
<1>1. Alone' /\ Knows'
  <2>1. \A p \in Procs : job'[p].target \in {"released", job[p].target}
    BY Processes DEF PersistFailedExecution, Idle, Job
  <2> QED
    BY <2>1, NoRecovery DEF PersistFailedExecution
<1>2. Checkpoint'
  <2>1. job[Owner].res \in Res
    BY DEF PersistFailedExecution, Kinds, ExecLabels, Res
  <2>2. \/ UNCHANGED lease
        \/ UpdateLeaseStatus(job[Owner].res, "failed")
        \/ UpdateLeaseStatus(job[Owner].res, "recovered")
    BY DEF PersistFailedExecution
  <2>3. pc'[Owner] \notin {"lease", "dispatch", "create", "bind"} /\ UNCHANGED box
    BY Processes DEF PersistFailedExecution
  <2>4. CASE UNCHANGED lease
    BY <2>3, <2>4 DEF Checkpoint, NoContainerWithoutCheckpoint
  <2>5. CASE ~UNCHANGED lease
    BY <2>1, <2>2, <2>3, <2>5, CheckpointKept
  <2> QED
    BY <2>4, <2>5
<1>3. RecoveredIsGone'
  <2>1. job[Owner].res \in Res
    BY DEF PersistFailedExecution, Kinds, ExecLabels, Res
  <2>2. \/ UNCHANGED lease
        \/ UpdateLeaseStatus(job[Owner].res, "failed")
        \/ pc[Owner] = "recovered" /\ UpdateLeaseStatus(job[Owner].res, "recovered")
    BY DEF PersistFailedExecution
  <2>3. CASE UNCHANGED lease
    BY Processes, <2>1, <2>3
    DEF PersistFailedExecution, RecoveredIsGone, KnowsOwn, Done, Absent, Kinds,
        ExecLabels, Res
  <2>4. CASE ~UNCHANGED lease
    BY Processes, <2>1, <2>2, <2>4, StatusWritten, SMTT(40)
    DEF PersistFailedExecution, RecoveredIsGone, KnowsOwn, Done, Absent, Kinds,
        ExecLabels, Res
  <2> QED
    BY <2>3, <2>4
<1>4. KnowsOwn' /\ Open'
  BY Processes
  DEF PersistFailedExecution, KnowsOwn, Fresh, Done, UpdateLeaseStatus, Open
<1> QED
  BY <1>1, <1>2, <1>3, <1>4

\* The run is paused: the safety invariant is preserved.
LEMMA SafePause ==
  ASSUME Shape, Shape', Safe, Pause
  PROVE  Safe'
<1> USE ResourcesAssumption DEF Shape, TypeOK, Goto, Safe
<1>1. Alone' /\ Knows'
  <2>1. \A p \in Procs : job'[p].target \in {"released", job[p].target}
    BY Processes DEF Pause, Idle, Job
  <2> QED
    BY <2>1, NoRecovery DEF Pause
<1>2. Checkpoint' /\ KnowsOwn' /\ Open' /\ RecoveredIsGone'
  BY Processes
  DEF Pause, Checkpoint, NoContainerWithoutCheckpoint, KnowsOwn, Fresh, Done, Open,
      RecoveredIsGone, Absent
<1> QED
  BY <1>1, <1>2

\* Presentation begins with a cleanup: the safety invariant is preserved.
LEMMA SafeStartPresenting ==
  ASSUME Shape, Shape', Safe, StartPresenting
  PROVE  Safe'
<1> USE ResourcesAssumption DEF Shape, TypeOK, Goto, Safe
<1>1. Alone' /\ Knows'
  <2>1. \A p \in Procs : job'[p].target \in {"released", job[p].target}
    BY Processes DEF StartPresenting, Idle, Job
  <2> QED
    BY <2>1, NoRecovery DEF StartPresenting
<1>2. Checkpoint' /\ KnowsOwn' /\ Open' /\ RecoveredIsGone'
  BY Processes
  DEF StartPresenting, Checkpoint, NoContainerWithoutCheckpoint, KnowsOwn, Fresh,
      Done, Open, RecoveredIsGone, Absent
<1> QED
  BY <1>1, <1>2

\* The run is presented: the safety invariant is preserved.
LEMMA SafePresent ==
  ASSUME Shape, Shape', Safe, Present
  PROVE  Safe'
<1> USE ResourcesAssumption DEF Shape, TypeOK, Goto, Safe
<1>1. Alone' /\ Knows'
  <2>1. \A p \in Procs : job'[p].target \in {"released", job[p].target}
    BY Processes DEF Present, Idle, Job
  <2> QED
    BY <2>1, NoRecovery DEF Present
<1>2. Checkpoint' /\ KnowsOwn' /\ Open' /\ RecoveredIsGone'
  BY Processes
  DEF Present, Checkpoint, NoContainerWithoutCheckpoint, KnowsOwn, Fresh, Done,
      Open, RecoveredIsGone, Absent
<1> QED
  BY <1>1, <1>2

\* A stage fails: the safety invariant is preserved.
LEMMA SafeDriverFails ==
  ASSUME Shape, Shape', Safe, DriverFails
  PROVE  Safe'
<1> USE ResourcesAssumption DEF Shape, TypeOK, Goto, Safe
<1>1. Alone' /\ Knows'
  <2>1. \A p \in Procs : job'[p].target \in {"released", job[p].target}
    BY Processes DEF DriverFails, Idle, Job
  <2> QED
    BY <2>1, NoRecovery DEF DriverFails
<1>2. Checkpoint' /\ KnowsOwn' /\ Open' /\ RecoveredIsGone'
  BY Processes
  DEF DriverFails, Checkpoint, NoContainerWithoutCheckpoint, KnowsOwn, Fresh, Done,
      Open, RecoveredIsGone, Absent
<1> QED
  BY <1>1, <1>2

\* A resume takes over what is active: the safety invariant is preserved.
LEMMA SafeRehydrate ==
  ASSUME Shape, Shape', Safe, Rehydrate
  PROVE  Safe'
  BY ResourcesAssumption, Processes
  DEF Shape, TypeOK, Goto, Safe, Rehydrate, Checkpoint,
      NoContainerWithoutCheckpoint, Outstanding, Alone, Ended, KnowsOwn, Fresh,
      Done, Knows, Open, RecoveredIsGone, Absent

\* The run is running again: the safety invariant is preserved.
LEMMA SafeResume ==
  ASSUME Shape, Shape', Safe, Resume
  PROVE  Safe'
<1> USE ResourcesAssumption DEF Shape, TypeOK, Goto, Safe
<1>1. Alone' /\ Knows'
  <2>1. \A p \in Procs : job'[p].target \in {"released", job[p].target}
    BY Processes DEF Resume, Idle, Job
  <2> QED
    BY <2>1, NoRecovery DEF Resume
<1>2. Checkpoint' /\ KnowsOwn' /\ Open' /\ RecoveredIsGone'
  BY Processes
  DEF Resume, Checkpoint, NoContainerWithoutCheckpoint, KnowsOwn, Fresh, Done, Open,
      RecoveredIsGone, Absent
<1> QED
  BY <1>1, <1>2

\* The driver is killed: the safety invariant is preserved.
LEMMA SafeCrash ==
  ASSUME Shape, Shape', Safe, Crash
  PROVE  Safe'
<1> USE ResourcesAssumption DEF Shape, TypeOK, Goto, Safe
<1>1. Alone' /\ Knows'
  <2>1. \A p \in Procs : job'[p].target \in {"released", job[p].target}
    BY Processes DEF Crash, Idle, Job
  <2> QED
    BY <2>1, NoRecovery DEF Crash
<1>2. Checkpoint' /\ KnowsOwn' /\ Open' /\ RecoveredIsGone'
  BY Processes
  DEF Crash, Checkpoint, NoContainerWithoutCheckpoint, KnowsOwn, Fresh, Done, Open,
      RecoveredIsGone, Absent
<1> QED
  BY <1>1, <1>2

\* A resource is begun: the safety invariant is preserved.
LEMMA SafeBegin ==
  ASSUME Shape, Shape', Safe, NEW r \in Res, Begin(r)
  PROVE  Safe'
<1> USE ResourcesAssumption DEF Shape, TypeOK, Goto, Safe
<1>1. Alone' /\ Knows'
  <2>1. \A p \in Procs : job'[p].target \in {"released", job[p].target}
    BY Processes DEF Begin, Idle, Job
  <2> QED
    BY <2>1, NoRecovery DEF Begin
<1>2. Checkpoint' /\ KnowsOwn' /\ Open' /\ RecoveredIsGone'
  BY Processes
  DEF Begin, Checkpoint, NoContainerWithoutCheckpoint, Idle, KnowsOwn, Fresh, Done,
      Open, RecoveredIsGone, Absent
<1> QED
  BY <1>1, <1>2

\* The verifier is done: the safety invariant is preserved.
LEMMA SafeReleaseVerifier ==
  ASSUME Shape, Shape', Safe, NEW s \in Sandboxes, ReleaseVerifier(s)
  PROVE  Safe'
<1> USE ResourcesAssumption DEF Shape, TypeOK, Goto, Safe
<1>1. Alone' /\ Knows'
  <2>1. \A p \in Procs : job'[p].target \in {"released", job[p].target}
    BY Processes DEF ReleaseVerifier, Idle, Job
  <2> QED
    BY <2>1, NoRecovery DEF ReleaseVerifier
<1>2. Checkpoint' /\ KnowsOwn' /\ Open' /\ RecoveredIsGone'
  BY Processes
  DEF ReleaseVerifier, Checkpoint, NoContainerWithoutCheckpoint, KnowsOwn, Fresh,
      Done, Open, RecoveredIsGone, Absent
<1> QED
  BY <1>1, <1>2

\* The run ends: the safety invariant is preserved.
LEMMA SafeEndRun ==
  ASSUME Shape, Shape', Safe, NEW status \in Ended, EndRun(status)
  PROVE  Safe'
<1> USE ResourcesAssumption DEF Shape, TypeOK, Goto, Safe
<1>1. Alone' /\ Knows'
  <2>1. \A p \in Procs : job'[p].target \in {"released", job[p].target}
    BY Processes DEF EndRun, Idle, Job
  <2> QED
    BY <2>1, NoRecovery DEF EndRun
<1>2. Checkpoint' /\ KnowsOwn' /\ Open' /\ RecoveredIsGone'
  BY Processes
  DEF EndRun, Checkpoint, NoContainerWithoutCheckpoint, KnowsOwn, Fresh, Done, Open,
      RecoveredIsGone, Absent
<1> QED
  BY <1>1, <1>2

\* The daemon decides a create: the safety invariant is preserved.
LEMMA SafeDaemonCreates ==
  ASSUME Shape, Shape', Safe, NEW e \in Executions, DaemonCreates(e)
  PROVE  Safe'
  BY ResourcesAssumption, Processes
  DEF Shape, TypeOK, Goto, Safe, DaemonCreates, Checkpoint,
      NoContainerWithoutCheckpoint, Kinds, ExecLabels, Res, Alone, Ended, KnowsOwn,
      Fresh, Done, Knows, Open, RecoveredIsGone, Absent

\* A cleanup lists the leases: the safety invariant is preserved.
LEMMA SafeListLeases ==
  ASSUME Shape, Shape', Safe, NEW p \in Procs, ListLeases(p)
  PROVE  Safe'
  BY ResourcesAssumption, Processes
  DEF Shape, TypeOK, Goto, Safe, ListLeases, Checkpoint,
      NoContainerWithoutCheckpoint, Alone, Ended, KnowsOwn, Fresh, Done, Knows,
      Open, RecoveredIsGone, Absent

\* A cleanup reads the next lease: the safety invariant is preserved.
LEMMA SafePickLease ==
  ASSUME Shape, Shape', Safe, NEW p \in Procs, PickLease(p)
  PROVE  Safe'
<1> USE ResourcesAssumption DEF Shape, TypeOK, Goto, Safe
<1>1. Alone'
  <2>1. \A q \in Procs : job'[q].target = job[q].target
    BY DEF PickLease, Job
  <2>2. pc'[Owner] = pc[Owner] \/ pc[Owner] = "pick"
    BY Processes DEF PickLease
  <2> QED
    BY Processes, <2>1, <2>2 DEF Alone, PickLease
<1>2. Knows'
  <2>1. PICK r \in Candidates(p) :
          \/ job' = [job EXCEPT ![p].todo = @ \ {r}] /\ UNCHANGED pc
          \/ job' = [job EXCEPT ![p].res = r, ![p].seen = lease[r]] /\ Goto(p, "release")
    BY DEF PickLease
  <2>2. job[p] \in Job /\ UNCHANGED <<lease, box, tree>>
    BY DEF PickLease
  <2>3. CASE job' = [job EXCEPT ![p].todo = @ \ {r}] /\ UNCHANGED pc
    <3>1. \A q \in Procs : /\ job'[q].res = job[q].res /\ job'[q].seen = job[q].seen
                            /\ job'[q].target = job[q].target
      BY <2>2, <2>3 DEF Job
    <3> QED
      BY <2>2, <2>3, <3>1 DEF Knows, Done
  <2>4. CASE job' = [job EXCEPT ![p].res = r, ![p].seen = lease[r]] /\ Goto(p, "release")
    <3>1. /\ job'[p].res = r /\ job'[p].seen = lease[r] /\ job'[p].target = job[p].target
          /\ pc'[p] = "release"
      BY <2>2, <2>4 DEF Job
    <3>2. \A q \in Procs \ {p} : job'[q] = job[q] /\ pc'[q] = pc[q]
      BY <2>4
    <3> QED
      BY <2>2, <3>1, <3>2 DEF Knows, Done, Checkpoint
  <2> QED
    BY <2>1, <2>3, <2>4
<1>3. Checkpoint' /\ KnowsOwn' /\ Open' /\ RecoveredIsGone'
  BY Processes
  DEF PickLease, Checkpoint, NoContainerWithoutCheckpoint, Candidates, KnowsOwn,
      Fresh, Done, Open, RecoveredIsGone, Absent
<1> QED
  BY <1>1, <1>2, <1>3

\* A cleanup marks the lease: the safety invariant is preserved.
LEMMA SafeMarkReleasing ==
  ASSUME Shape, Shape', Safe, NEW p \in Procs, MarkReleasing(p)
  PROVE  Safe'
<1> USE ResourcesAssumption DEF Shape, TypeOK, Goto, Safe
<1>1. job[p].res \in Res
  BY DEF MarkReleasing, Kinds
<1>2. \A q \in Procs : /\ job'[q].res = job[q].res /\ job'[q].seen = job[q].seen
                        /\ job'[q].target = job[q].target /\ job'[q].ok = job[q].ok
  BY <1>1, JobKept DEF MarkReleasing
<1>3. /\ pc[p] = "release" /\ pc'[p] \in {"clean", "pick"}
      /\ \A q \in Procs \ {p} : pc'[q] = pc[q]
      /\ UNCHANGED <<run, tree, box, held>>
  BY DEF MarkReleasing
<1>4. \/ UNCHANGED lease
      \/ lease[job[p].res].status # "none" /\ UpdateLeaseStatus(job[p].res, "releasing")
  BY DEF MarkReleasing, CanUpdate, CanMove, LeaseMoves
<1>5. \A q \in Res : /\ lease'[q].status \in {lease[q].status, "releasing"}
                     /\ lease'[q].dispatched = lease[q].dispatched
                     /\ lease'[q].handle = lease[q].handle
  BY <1>1, <1>4, StatusWritten
<1>6. Checkpoint'
  <2>1. \/ pc'[Owner] \in {"clean", "pick"}
        \/ pc'[Owner] = pc[Owner]
    BY Processes, <1>3
  <2>2. CASE UNCHANGED lease
    BY Processes, <1>2, <1>3, <2>1, <2>2 DEF Checkpoint, NoContainerWithoutCheckpoint
  <2>3. CASE lease[job[p].res].status # "none" /\ UpdateLeaseStatus(job[p].res, "releasing")
    BY Processes, <1>1, <1>2, <1>3, <2>1, <2>3, CheckpointKept
  <2> QED
    BY <1>4, <2>2, <2>3
<1>7. Alone'
  BY Processes, <1>2, <1>3 DEF Alone
<1>8. KnowsOwn'
  BY Processes, <1>2, <1>3, <1>5 DEF KnowsOwn, Fresh, Done, Kinds, ExecLabels, Res
<1>9. Knows'
  BY <1>2, <1>3, <1>5, SMTT(40) DEF Knows, Done, Res
<1>10. Open'
  BY Processes, <1>2, <1>3, <1>5 DEF Open, Kinds, ExecLabels, Res
<1>11. RecoveredIsGone'
  BY <1>3, <1>5 DEF RecoveredIsGone, Absent, Res
<1> QED
  BY <1>6, <1>7, <1>8, <1>9, <1>10, <1>11

\* A cleanup asks for a proof of absence: the safety invariant is preserved.
LEMMA SafeCleanResource ==
  ASSUME Shape, Shape', Safe, NEW p \in Procs, CleanResource(p)
  PROVE  Safe'
<1> USE ResourcesAssumption DEF Shape, TypeOK, Goto, Safe
<1>1. Knows'
  <2>1. /\ \A e \in Executions : box'[e] = box[e] \/ (box[e] = "up" /\ box'[e] = "gone")
        /\ tree' \subseteq tree /\ UNCHANGED <<lease, job>>
        /\ pc[p] = "clean" /\ pc'[p] \in {"persist", "mark_failed"}
        /\ \A q \in Procs \ {p} : pc'[q] = pc[q]
    BY DEF CleanResource, ProveAbsent, CleanupExecution, ReconcileExecution,
           Remove, RemovalFails
  <2>2. ASSUME NEW q \in Procs, job[q].target = "recovered", q # p
        PROVE  /\ pc'[q] \in {"release", "clean"} /\ job[q].res \in Executions =>
                    /\ job[q].seen.dispatched = lease[job[q].res].dispatched
                    /\ job[q].seen.handle => box'[job[q].res] \in {"up", "gone"}
               /\ pc'[q] = "persist" /\ job[q].res \in Executions => box'[job[q].res] \notin {"asked", "up"}
               /\ pc'[q] = "persist" /\ job[q].res \in Worktrees => job[q].res \notin tree'
    BY <2>1, <2>2 DEF Knows, Done
  <2>3. ASSUME job[p].target = "recovered", pc'[p] = "persist", job[p].res \in Executions
        PROVE  box'[job[p].res] \notin {"asked", "up"}
    <3>1. ProveAbsent(job[p].res, job[p].seen)
      BY <2>3 DEF CleanResource, Res
    <3>2. /\ job[p].seen.dispatched = lease[job[p].res].dispatched
          /\ job[p].seen.handle => box[job[p].res] \in {"up", "gone"}
      BY <2>1, <2>3 DEF Knows
    <3>3. ~lease[job[p].res].dispatched => box[job[p].res] = "no"
      BY <2>3 DEF Checkpoint, NoContainerWithoutCheckpoint
    <3>4. CASE box[job[p].res] = "up"
      BY <2>3, <3>1, <3>4
      DEF ProveAbsent, CleanupExecution, ReconcileExecution, Remove
    <3>5. CASE box[job[p].res] # "up"
      BY <2>3, <3>1, <3>2, <3>3, <3>5
      DEF ProveAbsent, CleanupExecution, ReconcileExecution
    <3> QED
      BY <3>4, <3>5
  <2>4. ASSUME pc'[p] = "persist", job[p].res \in Worktrees
        PROVE  job[p].res \notin tree'
    BY <2>4 DEF CleanResource
  <2> QED
    BY <2>1, <2>2, <2>3, <2>4 DEF Knows, Done
<1>2. Checkpoint' /\ Alone' /\ KnowsOwn' /\ Open' /\ RecoveredIsGone'
  BY Processes
  DEF CleanResource, Checkpoint, NoContainerWithoutCheckpoint, ProveAbsent,
      CleanupExecution, ReconcileExecution, Remove, RemovalFails, Kinds, ExecLabels,
      Res, Alone, Ended, KnowsOwn, Fresh, Done, Open, RecoveredIsGone, Absent
<1> QED
  BY <1>1, <1>2

\* A cleanup writes its outcome: the safety invariant is preserved.
LEMMA SafePersistCleanup ==
  ASSUME Shape, Shape', Safe, NEW p \in Procs, PersistCleanup(p)
  PROVE  Safe'
<1> USE ResourcesAssumption DEF Shape, TypeOK, Goto, Safe
<1>1. job[p].res \in Res /\ job[p] \in Job
  BY DEF PersistCleanup, Kinds
<1>2. \A q \in Procs : /\ job'[q].res = job[q].res /\ job'[q].seen = job[q].seen
                        /\ job'[q].target = job[q].target /\ job'[q].ok = job[q].ok
  BY <1>1, JobKept DEF PersistCleanup
<1>3. /\ pc[p] \in {"persist", "mark_failed"} /\ pc'[p] = "pick"
      /\ \A q \in Procs \ {p} : pc'[q] = pc[q]
      /\ UNCHANGED <<run, tree, box, held>>
  BY DEF PersistCleanup
<1> DEFINE status == IF pc[p] = "persist" THEN job[p].target ELSE "failed"
<1>4. status \in {"released", "recovered", "failed"}
  BY <1>1 DEF Job, Settled
<1>5. \/ UNCHANGED lease
      \/ lease[job[p].res].status # "none" /\ UpdateLeaseStatus(job[p].res, status)
  BY <1>4 DEF PersistCleanup, CanUpdate, CanMove, LeaseMoves
<1>6. \A q \in Res : /\ lease'[q].status = lease[q].status \/ (q = job[p].res /\ lease'[q].status = status)
                     /\ lease'[q].dispatched = lease[q].dispatched
                     /\ lease'[q].handle = lease[q].handle
  BY <1>1, <1>5, StatusWritten
<1>7. status = "recovered" => pc[p] = "persist" /\ job[p].target = "recovered"
  OBVIOUS
<1> HIDE DEF status
<1>8. Checkpoint'
  <2>1. pc'[Owner] = "pick" \/ pc'[Owner] = pc[Owner]
    BY Processes, <1>3
  <2>2. CASE UNCHANGED lease
    BY Processes, <1>2, <1>3, <2>1, <2>2 DEF Checkpoint, NoContainerWithoutCheckpoint
  <2>3. CASE lease[job[p].res].status # "none" /\ UpdateLeaseStatus(job[p].res, status)
    BY Processes, <1>1, <1>2, <1>3, <1>4, <2>1, <2>3, CheckpointKept
  <2> QED
    BY <1>5, <2>2, <2>3
<1>9. Alone'
  BY Processes, <1>2, <1>3 DEF Alone
<1>10. KnowsOwn'
  BY Processes, <1>2, <1>3, <1>6 DEF KnowsOwn, Fresh, Done, Kinds, ExecLabels, Res
<1>11. Knows'
  BY <1>2, <1>3, <1>6, SMTT(40) DEF Knows, Done, Res
<1>12. Open'
  BY Processes, <1>2, <1>3, <1>6, <1>7 DEF Open, Alone, Kinds, ExecLabels, Res
<1>13. RecoveredIsGone'
  <2>1. ASSUME NEW r \in Worktrees \cup Executions, lease'[r].status = "recovered"
        PROVE  IF r \in Executions THEN box[r] \notin {"asked", "up"} ELSE r \notin tree
    <3>1. CASE lease[r].status = "recovered"
      BY <2>1, <3>1 DEF RecoveredIsGone, Absent
    <3>2. CASE lease[r].status # "recovered"
      <4>1. r = job[p].res /\ pc[p] = "persist" /\ job[p].target = "recovered"
        BY <1>6, <1>7, <2>1, <3>2 DEF Res
      <4> QED
        BY <2>1, <4>1 DEF Knows, Done
    <3> QED
      BY <3>1, <3>2
  <2> QED
    BY <1>3, <2>1 DEF RecoveredIsGone, Absent
<1> QED
  BY <1>8, <1>9, <1>10, <1>11, <1>12, <1>13

\* A cleanup ends: the safety invariant is preserved.
LEMMA SafeFinishCleanup ==
  ASSUME Shape, Shape', Safe, NEW p \in Procs, FinishCleanup(p)
  PROVE  Safe'
<1> USE ResourcesAssumption DEF Shape, TypeOK, Goto, Safe
<1>1. Checkpoint'
  BY Processes
  DEF FinishCleanup, Checkpoint, NoContainerWithoutCheckpoint, Kinds,
      ExecLabels, Res, Job
<1>2. Alone'
  BY Processes DEF FinishCleanup, Alone, Ended, Idle
<1>3. KnowsOwn'
  BY Processes DEF FinishCleanup, KnowsOwn, Fresh, Done, Kinds, ExecLabels, Res, Job
<1>4. Knows'
  BY Processes DEF FinishCleanup, Knows, Done, Idle
<1>5. Open'
  BY Processes DEF FinishCleanup, Open, Kinds, ExecLabels, Res, Job
<1>6. RecoveredIsGone'
  BY Processes DEF FinishCleanup, RecoveredIsGone, Absent
<1> QED
  BY <1>1, <1>2, <1>3, <1>4, <1>5, <1>6

\* A cancel begins: the safety invariant is preserved.
LEMMA SafeStartCancel ==
  ASSUME Shape, Shape', Safe, NEW c \in Cancellers, StartCancel(c)
  PROVE  Safe'
  BY ResourcesAssumption, Processes
  DEF Shape, TypeOK, Goto, Safe, StartCancel, Checkpoint,
      NoContainerWithoutCheckpoint, Alone, Ended, Idle, KnowsOwn, Fresh, Done,
      Knows, Open, RecoveredIsGone, Absent

\* A cancel looks for something to clean up: the safety invariant is preserved.
LEMMA SafeCancelLooks ==
  ASSUME Shape, Shape', Safe, NEW c \in Cancellers, CancelLooks(c)
  PROVE  Safe'
  BY ResourcesAssumption, Processes
  DEF Shape, TypeOK, Goto, Safe, CancelLooks, Checkpoint,
      NoContainerWithoutCheckpoint, Alone, Ended, KnowsOwn, Fresh, Done, Knows,
      Open, RecoveredIsGone, Absent

\* A cancel saves the run: the safety invariant is preserved.
LEMMA SafeCancelSaves ==
  ASSUME Shape, Shape', Safe, NEW c \in Cancellers, CancelSaves(c)
  PROVE  Safe'
  BY ResourcesAssumption, Processes
  DEF Shape, TypeOK, Goto, Safe, CancelSaves, Checkpoint,
      NoContainerWithoutCheckpoint, Alone, Ended, KnowsOwn, Fresh, Done, Knows,
      Open, RecoveredIsGone, Absent

\* A recovery begins: the safety invariant is preserved.
LEMMA SafeStartRecovery ==
  ASSUME Shape, Shape', Safe, NEW c \in Recoverers, StartRecovery(c)
  PROVE  Safe'
  BY ResourcesAssumption, Processes
  DEF Shape, TypeOK, Goto, Safe, StartRecovery, Checkpoint,
      NoContainerWithoutCheckpoint, Alone, Ended, KnowsOwn, Fresh, Done, Knows,
      Open, RecoveredIsGone, Absent

\* A cancel or a recovery is killed: the safety invariant is preserved.
LEMMA SafeCleanerCrash ==
  ASSUME Shape, Shape', Safe, NEW c \in Cleaners, CleanerCrash(c)
  PROVE  Safe'
  BY ResourcesAssumption, Processes
  DEF Shape, TypeOK, Goto, Safe, CleanerCrash, Checkpoint,
      NoContainerWithoutCheckpoint, Alone, Ended, Idle, KnowsOwn, Fresh, Done,
      Knows, Open, RecoveredIsGone, Absent

\* Nothing exists yet, and nobody recovers.
LEMMA SafeInit == Init => Safe
<1> SUFFICES ASSUME Init PROVE Safe
  OBVIOUS
<1>1. Owner \in Procs /\ Executions \subseteq Res
  BY DEF Procs, Res
<1>2. Checkpoint /\ KnowsOwn /\ Open
  BY <1>1 DEF Init, Checkpoint, NoContainerWithoutCheckpoint, KnowsOwn, Fresh, Open
<1>3. Alone /\ Knows
  BY DEF Init, Idle, Alone, Knows
<1>4. RecoveredIsGone
  BY DEF Init, RecoveredIsGone, Res
<1> QED
  BY <1>2, <1>3, <1>4 DEF Safe

\* Every step of every process preserves the safety invariant.
LEMMA SafeStep == Shape /\ Safe /\ [Next]_vars => Safe'
<1> SUFFICES ASSUME Shape, Safe, [Next]_vars PROVE Safe'
  OBVIOUS
<1>1. Shape'
  BY ShapeStep
<1>2. CASE Next
  BY <1>1, <1>2,
     SafeSaveLease, SafeMaterialize, SafeActivate, SafeAbortWorktree, SafePrepare,
     SafeUnprepare, SafeRefuseExecution, SafeMarkExecutionCreationDispatched,
     SafeDispatchCreate, SafeCreateAnswers, SafeBindCreatedResource,
     SafeRunAndRemove, SafeFinalizeExecution, SafeCleanupFailedExecution,
     SafeSettleFailedExecution, SafeProveFailedExecution,
     SafePersistFailedExecution, SafePause, SafeStartPresenting, SafePresent,
     SafeDriverFails, SafeRehydrate, SafeResume, SafeCrash, SafeBegin,
     SafeReleaseVerifier, SafeEndRun, SafeDaemonCreates, SafeListLeases,
     SafePickLease, SafeMarkReleasing, SafeCleanResource, SafePersistCleanup,
     SafeFinishCleanup, SafeStartCancel, SafeCancelLooks, SafeCancelSaves,
     SafeStartRecovery, SafeCleanerCrash
     DEF Next, Driver, Cleanup
<1>3. CASE UNCHANGED vars
  BY <1>3 DEF vars, Safe, Checkpoint, NoContainerWithoutCheckpoint, Alone, KnowsOwn,
              Knows, Done, Open, RecoveredIsGone, Absent, Containers
<1> QED
  BY <1>2, <1>3

\* The invariant of every behaviour.
LEMMA Invariant == Spec => [](Shape /\ Safe)
  BY ShapeInit, ShapeStep, SafeInit, SafeStep, PTL DEF Spec

\* No container without the durable checkpoint of its create: the order of
\* DockerSandboxProvider.exec survives every crash and every other process.
THEOREM CheckpointFirst == Spec => []NoContainerWithoutCheckpoint
<1>1. Shape /\ Safe => NoContainerWithoutCheckpoint
  BY DEF Safe, Checkpoint
<1> QED
  BY <1>1, Invariant, PTL

\* Whoever finalizes an execution or a worktree as recovered holds a proof that
\* no other process, no late answer and no crash can undo.
THEOREM RecoveredStaysGone == Spec => []RecoveredIsGone
<1>1. Shape /\ Safe => RecoveredIsGone
  BY DEF Safe
<1> QED
  BY <1>1, Invariant, PTL

-----------------------------------------------------------------------------
(* What holds while nobody cleans up behind the driver's back.             *)
\* No cancel has overlapped the driver, or none of the commands that did has
\* ended the run yet: they clean up only then.
Calm == ~raced \/ run \notin Ended

\* The labels of a cleanup; of a driver that makes something; of one that
\* executes a command.
Handling == {"release", "clean", "persist", "mark_failed"}
Looping == {"pick"} \cup Handling
Cleaning == {"list"} \cup Looping
Making == {"work", "resumed", "lease", "materialize", "prepare", "activate"}
Executing == {"dispatch", "create", "created", "bind", "started", "finalize"}
Verifying == pc[Owner] \in Looping /\ job[Owner].next = "work"

\* Nothing is left to do for a lease.
Over(r) == lease[r].status \in Settled \cup {"none"}

\* The commands clean up only after the run ended, and a presented run has no
\* driver.
Terms ==
  /\ \A c \in Cleaners : /\ pc[c] \in Cleaning => run \in Ended
                         /\ pc[c] = "look" /\ job[c].saw \in Ended => run \in Ended
  /\ run = "ready" => pc[Owner] = "down"
  /\ ~raced /\ pc[Owner] # "down" => \A c \in Cleaners : pc[c] = "idle"

\* A cleanup takes the tiers in order.
TierOf(p) ==
  pc[p] \in Handling =>
     /\ job[p].res \in job[p].todo
     /\ \A q \in job[p].todo : Tier(job[p].res) <= Tier(q)
     /\ \A q \in job[p].bad : Tier(job[p].res) = Tier(q)
Tiers == \A p \in Procs : TierOf(p)

\* What the driver has saved and removed.
Own ==
  /\ pc[Owner] \in ExecLabels => lease[job[Owner].res].status # "none"
  /\ pc[Owner] = "finalize" => box[job[Owner].res] = "gone"
  /\ pc[Owner] = "persist" => job[Owner].res \notin held
  /\ pc[Owner] = "list" => job[Owner].next # "work"

\* What the leases say of the resources, and a sandbox's of its executions.
Gone ==
  /\ \A e \in Executions : lease[e].status \in Settled => Done(e)
  /\ \A w \in Worktrees : Over(w) => w \notin tree
  /\ \A e \in Executions :
       lease[SandboxOf[e]].status \notin {"active", "releasing", "failed"} => Over(e)
  /\ NoContainerOutlivesItsWorktree

\* What the driver relies on when it makes something.
Begun ==
  /\ pc[Owner] \in {"materialize", "prepare", "activate", "unprepare", "dispatch", "create"} =>
       lease[job[Owner].res].status = "creating"
  /\ pc[Owner] \in Making \cup Executing =>
       \A x \in held : \/ lease[x].status = "active"
                       \/ pc[Owner] = "activate" /\ x = job[Owner].res
  /\ Verifying => \A x \in held : \/ lease[x].status = "active"
                                  \/ /\ lease[x].status \notin Settled
                                     /\ x \in job[Owner].todo \cup job[Owner].bad
  /\ pc[Owner] = "lease" /\ job[Owner].res \in Executions =>
       lease[SandboxOf[job[Owner].res]].status = "active"
  /\ pc[Owner] \in Making \/ Verifying => \A e \in Executions : Over(e)
  /\ pc[Owner] \in Executing => \A e \in Executions : Over(e) \/ e = job[Owner].res

\* What a cleanup has not settled it still has to, or has failed to; and what it
\* has seen or proved is still so.
SweepOf(p) ==
  /\ pc[p] \in Looping => \A e \in Executions : Over(e) \/ e \in job[p].todo \cup job[p].bad
  /\ pc[p] \in {"release", "clean"} /\ job[p].res \in Executions =>
       /\ job[p].seen.dispatched = lease[job[p].res].dispatched
       /\ job[p].seen.handle => box[job[p].res] \in {"up", "gone"}
  /\ pc[p] = "persist" /\ job[p].res \in Executions => Done(job[p].res)
  /\ pc[p] = "persist" /\ job[p].res \in Worktrees => job[p].res \notin tree
Sweeps == \A p \in Procs : SweepOf(p)

\* The inductive invariant, on top of Shape and Safe.
Undisturbed == Terms /\ Tiers /\ Own /\ (Calm => Gone /\ Begun /\ Sweeps)

\* While the driver is at work and all is calm, no command cleans up.
LEMMA AtWork ==
  ASSUME Terms, Calm, pc[Owner] # "down", NEW c \in Cleaners
  PROVE  pc[c] \notin Cleaning
  BY DEF Terms, Calm, Cleaning, Looping, Handling

\* A step of a driver that does not clean up leaves the commands to themselves.
LEMMA DriverMoves ==
  ASSUME Shape, Shape', Terms, Tiers, pc[Owner] # "down", pc'[Owner] \notin Looping,
         UNCHANGED raced,
         \A c \in Cleaners : pc'[c] = pc[c] /\ job'[c] = job[c],
         run \in Ended => run' \in Ended,
         run' = "ready" => pc'[Owner] = "down"
  PROVE  Terms' /\ Tiers' /\ (Calm' => Calm /\ Sweeps')
<1>1. Terms'
  BY DEF Terms
<1>2. Tiers'
  BY DEF Tiers, TierOf, Looping, Procs, Tier
<1>3. ASSUME Calm' PROVE Calm /\ Sweeps'
  <2>1. Calm
    BY <1>3 DEF Calm
  <2>2. \A p \in Procs : pc'[p] \notin Looping
    BY <2>1, AtWork DEF Procs, Cleaning
  <2> QED
    BY <2>1, <2>2 DEF Sweeps, SweepOf, Looping, Handling
<1> QED
  BY <1>1, <1>2, <1>3

\* What update_lease_status allows of a lease that is settled or not saved.
LEMMA OverStays ==
  ASSUME NEW r, NEW s, CanUpdate(r, s), Over(r)
  PROVE  s = lease[r].status
  BY DEF CanUpdate, CanMove, LeaseMoves, Over, Settled

\* A lease may be settled when what it stands for is gone.
LEMMA GoneKept ==
  ASSUME Shape, Gone, NEW r \in Res, NEW s, CanUpdate(r, s), UpdateLeaseStatus(r, s),
         s \notin {"none", "creating"}, UNCHANGED <<tree, box>>,
         r \in Executions /\ s \in Settled => Done(r),
         r \in Worktrees /\ s \in Settled => r \notin tree,
         r \in Sandboxes /\ s \in Settled =>
           \A e \in Executions : SandboxOf[e] = r => Over(e)
  PROVE  Gone' /\ \A q \in Res : Over(q) => Over(q)'
<1> USE ResourcesAssumption DEF Shape, TypeOK
<1>1. \A q \in Res : lease'[q].status = IF q = r THEN s ELSE lease[q].status
  BY StatusWritten
<1>2. Over(r) => s = lease[r].status
  BY OverStays
<1>3. \A q \in Res : Over(q) => Over(q)'
  BY <1>1, <1>2 DEF Over
<1>4. \A e \in Executions : lease'[e].status \in Settled => Done(e)'
  BY <1>1 DEF Gone, Done, Res
<1>5. \A w \in Worktrees : Over(w)' => w \notin tree'
  BY <1>1 DEF Gone, Over, Res
<1>6. ASSUME NEW e \in Executions,
             lease'[SandboxOf[e]].status \notin {"active", "releasing", "failed"}
      PROVE  Over(e)'
  <2>1. SandboxOf[e] \in Sandboxes /\ SandboxOf[e] \in Res /\ e \in Res
    BY DEF Res
  <2>2. CASE SandboxOf[e] # r
    BY <1>1, <1>3, <1>6, <2>1, <2>2 DEF Gone
  <2>3. CASE SandboxOf[e] = r
    <3>1. s \in LeaseStatus
      BY <2>1, <2>3, <1>1 DEF CanUpdate, CanMove, LeaseMoves, LeaseStatus, Settled, Lease
    <3>2. s \in Settled
      BY <1>1, <1>6, <2>1, <2>3, <3>1 DEF LeaseStatus
    <3>3. Over(e)
      BY <3>2, <2>1, <2>3
    <3> QED
      BY <3>3, <1>3, <2>1
  <2> QED
    BY <2>2, <2>3
<1>7. NoContainerOutlivesItsWorktree'
  BY DEF Gone, NoContainerOutlivesItsWorktree
<1> QED
  BY <1>3, <1>4, <1>5, <1>6, <1>7 DEF Gone

\* A step that leaves the leases and the resources alone leaves them so.
LEMMA GoneStays ==
  ASSUME Gone, UNCHANGED <<lease, tree, box>>
  PROVE  Gone' /\ \A q \in Res : Over(q)' = Over(q)
  BY DEF Gone, Over, Done, NoContainerOutlivesItsWorktree

\* The lease is saved before the resource: calm is kept.
LEMMA CalmSaveLease ==
  ASSUME Shape, Shape', Safe, Undisturbed, SaveLease
  PROVE  Undisturbed'
<1> USE ResourcesAssumption, Processes DEF Undisturbed
<1>1. Terms' /\ Tiers' /\ (Calm' => Calm /\ Sweeps')
  BY DriverMoves DEF SaveLease, Goto, Shape, TypeOK, Looping, Handling, Cleaners, Terms
<1>2. Own'
  BY DEF SaveLease, Goto, Shape, TypeOK, Own, ExecLabels
<1>3. ASSUME Calm PROVE Gone' /\ Begun'
  <2> DEFINE r == job[Owner].res
  <2> USE <1>3 DEF Shape, TypeOK
  <2>1. r \in Res /\ lease[r].status = "none"
    BY DEF SaveLease, Kinds, Safe, Checkpoint
  <2>2. \A q \in Res : lease'[q].status = IF q = r THEN "creating" ELSE lease[q].status
    BY <2>1 DEF SaveLease, Lease
  <2>3. \A q \in Res : q # r => Over(q)' = Over(q)
    BY <2>2 DEF Over
  <2>4. \A e \in Executions : Over(e)
    BY DEF Begun, SaveLease, Making
  <2>5. Gone'
    <3>1. \A e \in Executions : lease'[e].status \in Settled => Done(e)'
      BY <2>2 DEF Gone, Done, Res, SaveLease, Settled
    <3>2. \A w \in Worktrees : Over(w)' => w \notin tree'
      BY <2>2 DEF Gone, Over, Res, SaveLease, Settled
    <3>3. ASSUME NEW e \in Executions,
                 lease'[SandboxOf[e]].status \notin {"active", "releasing", "failed"}
          PROVE  Over(e)'
      <4>1. e # r
        BY <3>3, <2>2 DEF Begun, SaveLease, Res
      <4> QED
        BY <4>1, <2>3, <2>4 DEF Res
    <3>4. NoContainerOutlivesItsWorktree'
      BY DEF Gone, NoContainerOutlivesItsWorktree, SaveLease
    <3> QED
      BY <3>1, <3>2, <3>3, <3>4 DEF Gone
  <2>6. Begun'
    <3>1. /\ pc'[Owner] \in {"materialize", "prepare", "dispatch"}
          /\ pc'[Owner] = "dispatch" <=> r \in Executions
          /\ job' = job /\ held' = held
      BY <2>1 DEF SaveLease, Goto, Res
    <3>2. lease'[r].status = "creating"
      BY <2>1, <2>2
    <3>3. \A x \in held : lease'[x].status = "active"
      <4>1. \A x \in held : lease[x].status = "active" /\ x \in Res
        BY DEF Begun, SaveLease, Making, Res
      <4> QED
        BY <4>1, <2>1, <2>2
    <3>4. pc'[Owner] # "dispatch" => \A e \in Executions : Over(e)'
      BY <3>1, <2>3, <2>4 DEF Res
    <3>5. \A e \in Executions : Over(e)' \/ e = r
      BY <2>3, <2>4 DEF Res
    <3> QED
      BY <3>1, <3>2, <3>3, <3>4, <3>5 DEF Begun, Making, Executing, Verifying, Looping, Handling
  <2> QED
    BY <2>5, <2>6
<1> QED
  BY <1>1, <1>2, <1>3

\* The worktree is added: calm is kept.
LEMMA CalmMaterialize ==
  ASSUME Shape, Shape', Safe, Undisturbed, Materialize
  PROVE  Undisturbed'
<1> USE ResourcesAssumption, Processes DEF Undisturbed
<1>1. Terms' /\ Tiers' /\ (Calm' => Calm /\ Sweeps')
  BY DriverMoves DEF Materialize, Goto, Shape, TypeOK, Looping, Handling, Cleaners, Terms
<1>2. Own'
  BY DEF Materialize, Goto, Shape, TypeOK, Own, ExecLabels
<1>3. ASSUME Calm PROVE Gone' /\ Begun'
  <2> USE <1>3 DEF Shape, TypeOK
  <2>1. \A q \in Res : Over(q)' = Over(q)
    BY DEF Materialize, Over
  <2>2. job[Owner].res \in Worktrees /\ lease[job[Owner].res].status = "creating"
    BY DEF Materialize, Kinds, Begun
  <2>3. tree \subseteq tree' /\ tree' \subseteq tree \cup {job[Owner].res}
    BY DEF Materialize
  <2>4. Gone'
    BY <2>1, <2>2, <2>3
    DEF Materialize, Gone, Done, NoContainerOutlivesItsWorktree, Over, Settled, Res
  <2>5. Begun'
    BY <2>1, <2>2
    DEF Materialize, Begun, Goto, Making, Executing, Verifying, Looping, Handling, Res
  <2> QED
    BY <2>4, <2>5
<1> QED
  BY <1>1, <1>2, <1>3

\* A worktree or sandbox becomes usable: calm is kept.
LEMMA CalmActivate ==
  ASSUME Shape, Shape', Safe, Undisturbed, Activate
  PROVE  Undisturbed'
<1> USE ResourcesAssumption, Processes DEF Undisturbed
<1>1. Terms' /\ Tiers' /\ (Calm' => Calm /\ Sweeps')
  BY DriverMoves DEF Activate, Goto, Shape, TypeOK, Looping, Handling, Cleaners, Terms
<1>2. Own'
  BY DEF Activate, Goto, Shape, TypeOK, Own, ExecLabels
<1>3. ASSUME Calm PROVE Gone' /\ Begun'
  <2> DEFINE r == job[Owner].res
  <2> USE <1>3 DEF Shape, TypeOK
  <2>1. r \in Worktrees \cup Sandboxes /\ r \in Res /\ lease[r].status = "creating"
    BY DEF Activate, Kinds, Begun, Res
  <2>2. CanUpdate(r, "active")
    BY <2>1 DEF CanUpdate, CanMove, LeaseMoves
  <2>3. /\ UpdateLeaseStatus(r, "active") /\ held' = held \cup {r}
        /\ pc'[Owner] = "work" /\ UNCHANGED <<tree, box>>
    BY <2>2 DEF Activate, Goto
  <2>4. Gone' /\ \A q \in Res : Over(q) => Over(q)'
    BY <2>1, <2>2, <2>3, GoneKept DEF Settled
  <2>5. \A q \in Res : lease'[q].status = IF q = r THEN "active" ELSE lease[q].status
    BY <2>1, <2>3, StatusWritten
  <2>6. \A x \in held' : lease'[x].status = "active"
    BY <2>1, <2>3, <2>5 DEF Begun, Activate, Making, Res
  <2>7. \A e \in Executions : Over(e)'
    BY <2>4 DEF Begun, Activate, Making, Res
  <2> QED
    BY <2>3, <2>4, <2>6, <2>7 DEF Begun, Making, Executing, Verifying, Looping, Handling
<1> QED
  BY <1>1, <1>2, <1>3

\* A worktree could not be made: calm is kept.
LEMMA CalmAbortWorktree ==
  ASSUME Shape, Shape', Safe, Undisturbed, AbortWorktree
  PROVE  Undisturbed'
<1> USE ResourcesAssumption, Processes DEF Undisturbed
<1>1. Terms' /\ Tiers' /\ (Calm' => Calm /\ Sweeps')
  BY DriverMoves DEF AbortWorktree, Goto, Shape, TypeOK, Looping, Handling, Cleaners, Terms
<1>2. Own'
  BY DEF AbortWorktree, Goto, Shape, TypeOK, Own, ExecLabels
<1>3. ASSUME Calm PROVE Gone' /\ Begun'
  <2> DEFINE r == job[Owner].res
  <2> USE <1>3 DEF Shape, TypeOK
  <2>1. r \in Worktrees /\ r \in Res
    BY DEF AbortWorktree, Kinds, Res
  <2>2. Gone'
    <3>1. CASE CanUpdate(r, "failed")
      BY <2>1, <3>1, GoneKept DEF AbortWorktree, Settled
    <3>2. CASE ~CanUpdate(r, "failed")
      BY <3>2, GoneStays DEF AbortWorktree
    <3> QED
      BY <3>1, <3>2
  <2>3. Begun'
    BY DEF AbortWorktree, Goto, Begun, Making, Executing, Verifying, Looping, Handling
  <2> QED
    BY <2>2, <2>3
<1> QED
  BY <1>1, <1>2, <1>3

\* The sandbox is prepared: calm is kept.
LEMMA CalmPrepare ==
  ASSUME Shape, Shape', Safe, Undisturbed, Prepare
  PROVE  Undisturbed'
<1> USE ResourcesAssumption, Processes DEF Undisturbed
<1>1. Terms' /\ Tiers' /\ (Calm' => Calm /\ Sweeps')
  BY DriverMoves DEF Prepare, Goto, Shape, TypeOK, Looping, Handling, Cleaners, Terms
<1>2. Own'
  BY DEF Prepare, Goto, Shape, TypeOK, Own, ExecLabels
<1>3. ASSUME Calm PROVE Gone' /\ Begun'
  <2> USE <1>3 DEF Shape, TypeOK
  <2>1. Gone' /\ \A q \in Res : Over(q)' = Over(q)
    BY GoneStays DEF Prepare
  <2>2. Begun'
    BY <2>1
    DEF Prepare, Begun, Goto, Making, Executing, Verifying, Looping, Handling, Res
  <2> QED
    BY <2>1, <2>2
<1> QED
  BY <1>1, <1>2, <1>3

\* The sandbox could not be made: calm is kept.
LEMMA CalmUnprepare ==
  ASSUME Shape, Shape', Safe, Undisturbed, Unprepare
  PROVE  Undisturbed'
<1> USE ResourcesAssumption, Processes DEF Undisturbed
<1>1. Terms' /\ Tiers' /\ (Calm' => Calm /\ Sweeps')
  BY DriverMoves DEF Unprepare, Goto, Shape, TypeOK, Looping, Handling, Cleaners, Terms
<1>2. Own'
  BY DEF Unprepare, Goto, Shape, TypeOK, Own, ExecLabels
<1>3. ASSUME Calm PROVE Gone' /\ Begun'
  <2> DEFINE s == job[Owner].res
  <2> USE <1>3 DEF Shape, TypeOK
  <2>1. s \in Sandboxes /\ s \in Res /\ lease[s].status = "creating"
    BY DEF Unprepare, Kinds, Begun, Res
  <2>2. \A e \in Executions : SandboxOf[e] = s => Over(e)
    BY <2>1 DEF Gone
  <2>3. PICK status \in {"recovered", "failed"} :
          IF CanUpdate(s, status) THEN UpdateLeaseStatus(s, status) ELSE UNCHANGED lease
    BY DEF Unprepare
  <2>4. UNCHANGED <<tree, box>>
    BY DEF Unprepare
  <2>5. Gone'
    <3>1. CASE CanUpdate(s, status)
      BY <2>1, <2>2, <2>3, <2>4, <3>1, GoneKept
    <3>2. CASE ~CanUpdate(s, status)
      BY <2>3, <2>4, <3>2, GoneStays
    <3> QED
      BY <3>1, <3>2
  <2>6. Begun'
    BY DEF Unprepare, Goto, Begun, Making, Executing, Verifying, Looping, Handling
  <2> QED
    BY <2>5, <2>6
<1> QED
  BY <1>1, <1>2, <1>3

\* A check before the dispatch fails: calm is kept.
LEMMA CalmRefuseExecution ==
  ASSUME Shape, Shape', Safe, Undisturbed, RefuseExecution
  PROVE  Undisturbed'
<1> USE ResourcesAssumption, Processes DEF Undisturbed
<1>1. Terms' /\ Tiers' /\ (Calm' => Calm /\ Sweeps')
  BY DriverMoves DEF RefuseExecution, Goto, Shape, TypeOK, Looping, Handling, Cleaners, Terms
<1>2. Own'
  BY DEF RefuseExecution, Goto, Shape, TypeOK, Own, ExecLabels
<1>3. ASSUME Calm PROVE Gone' /\ Begun'
  BY <1>3, GoneStays
  DEF Shape, TypeOK, RefuseExecution, Goto, Begun, Making, Executing, Verifying,
      Looping, Handling
<1> QED
  BY <1>1, <1>2, <1>3

\* The durable checkpoint before the create: calm is kept.
LEMMA CalmMarkExecutionCreationDispatched ==
  ASSUME Shape, Shape', Safe, Undisturbed, MarkExecutionCreationDispatched
  PROVE  Undisturbed'
<1> USE ResourcesAssumption, Processes DEF Undisturbed
<1>1. Terms' /\ Tiers' /\ (Calm' => Calm /\ Sweeps')
  BY DriverMoves
  DEF MarkExecutionCreationDispatched, Goto, Shape, TypeOK, Looping, Handling, Cleaners, Terms
<1>2. Own'
  BY DEF MarkExecutionCreationDispatched, Goto, Shape, TypeOK, Own, ExecLabels, Kinds, Lease, Res
<1>3. ASSUME Calm PROVE Gone' /\ Begun'
  <2> USE <1>3 DEF Shape, TypeOK
  <2>1. \A q \in Res : lease'[q].status = lease[q].status
    BY DEF MarkExecutionCreationDispatched, Lease
  <2>2. \A q \in Res : Over(q)' = Over(q)
    BY <2>1 DEF Over
  <2>3. Gone'
    BY <2>1, <2>2
    DEF MarkExecutionCreationDispatched, Gone, Done, NoContainerOutlivesItsWorktree, Res
  <2>4. Begun'
    BY <2>1, <2>2
    DEF MarkExecutionCreationDispatched, Begun, Goto, Making, Executing, Verifying,
        Looping, Handling, Res, Kinds, ExecLabels
  <2> QED
    BY <2>3, <2>4
<1> QED
  BY <1>1, <1>2, <1>3

\* The create is sent: calm is kept.
LEMMA CalmDispatchCreate ==
  ASSUME Shape, Shape', Safe, Undisturbed, DispatchCreate
  PROVE  Undisturbed'
<1> USE ResourcesAssumption, Processes DEF Undisturbed
<1>1. Terms' /\ Tiers' /\ (Calm' => Calm /\ Sweeps')
  BY DriverMoves DEF DispatchCreate, Goto, Shape, TypeOK, Looping, Handling, Cleaners, Terms
<1>2. Own'
  BY DEF DispatchCreate, Goto, Shape, TypeOK, Own, ExecLabels
<1>3. ASSUME Calm PROVE Gone' /\ Begun'
  <2> USE <1>3 DEF Shape, TypeOK
  <2>1. lease[job[Owner].res].status = "creating" /\ job[Owner].res \in Executions
    BY DEF DispatchCreate, Begun, Kinds, ExecLabels
  <2>2. \A q \in Res : Over(q)' = Over(q)
    BY DEF DispatchCreate, Over
  <2>3. Gone'
    BY <2>1, <2>2
    DEF DispatchCreate, Gone, Done, NoContainerOutlivesItsWorktree, Settled, Res
  <2>4. Begun'
    BY <2>2
    DEF DispatchCreate, Begun, Goto, Making, Executing, Verifying, Looping, Handling, Res
  <2> QED
    BY <2>3, <2>4
<1> QED
  BY <1>1, <1>2, <1>3

\* Docker answers, or does not: calm is kept.
LEMMA CalmCreateAnswers ==
  ASSUME Shape, Shape', Safe, Undisturbed, CreateAnswers
  PROVE  Undisturbed'
<1> USE ResourcesAssumption, Processes DEF Undisturbed
<1>1. Terms' /\ Tiers' /\ (Calm' => Calm /\ Sweeps')
  BY DriverMoves DEF CreateAnswers, Goto, Shape, TypeOK, Looping, Handling, Cleaners, Terms
<1>2. Own'
  BY DEF CreateAnswers, Goto, Shape, TypeOK, Own, ExecLabels
<1>3. ASSUME Calm PROVE Gone' /\ Begun'
  <2>1. Gone' /\ \A q \in Res : Over(q)' = Over(q)
    BY <1>3, GoneStays DEF CreateAnswers
  <2> QED
    BY <1>3, <2>1
    DEF Shape, TypeOK, CreateAnswers, Goto, Begun, Making, Executing, Verifying,
        Looping, Handling, Res
<1> QED
  BY <1>1, <1>2, <1>3

\* The handle is bound to the lease: calm is kept.
LEMMA CalmBindCreatedResource ==
  ASSUME Shape, Shape', Safe, Undisturbed, BindCreatedResource
  PROVE  Undisturbed'
<1> USE ResourcesAssumption, Processes DEF Undisturbed
<1>1. Terms' /\ Tiers' /\ (Calm' => Calm /\ Sweeps')
  BY DriverMoves
  DEF BindCreatedResource, Goto, Shape, TypeOK, Looping, Handling, Cleaners, Terms
<1>2. Own'
  BY DEF BindCreatedResource, Goto, Shape, TypeOK, Own, ExecLabels, Kinds, Lease, Res
<1>3. ASSUME Calm PROVE Gone' /\ Begun'
  <2> DEFINE e == job[Owner].res
  <2> USE <1>3 DEF Shape, TypeOK
  <2>1. e \in Executions /\ e \in Res
    BY DEF BindCreatedResource, Kinds, ExecLabels, Res
  <2>2. \A q \in Res : q # e => lease'[q] = lease[q]
    BY DEF BindCreatedResource
  <2>3. \/ lease'[e] = lease[e]
        \/ ~Over(e) /\ lease'[e].status = "active"
    BY <2>1 DEF BindCreatedResource, CanMove, LeaseMoves, Over, Settled
  <2>4. \A q \in Res : Over(q) => Over(q)'
    BY <2>2, <2>3 DEF Over
  <2>5. \A q \in Worktrees \cup Sandboxes : lease'[q] = lease[q] /\ q \in Res
    BY <2>1, <2>2 DEF Res
  <2>6. Gone'
    <3>1. \A d \in Executions : lease'[d].status \in Settled => Done(d)'
      BY <2>1, <2>2, <2>3 DEF Gone, Done, Res, Settled, BindCreatedResource
    <3>2. \A w \in Worktrees : Over(w)' => w \notin tree'
      BY <2>5 DEF Gone, Over, BindCreatedResource
    <3>3. ASSUME NEW d \in Executions,
                 lease'[SandboxOf[d]].status \notin {"active", "releasing", "failed"}
          PROVE  Over(d)'
      BY <3>3, <2>4, <2>5 DEF Gone, Res
    <3>4. NoContainerOutlivesItsWorktree'
      BY DEF Gone, NoContainerOutlivesItsWorktree, BindCreatedResource
    <3> QED
      BY <3>1, <3>2, <3>3, <3>4 DEF Gone
  <2>7. \A d \in Executions : Over(d)' \/ d = e
    BY <2>4 DEF Begun, BindCreatedResource, Executing, Res
  <2>8. \A x \in held' : lease'[x].status = "active"
    BY <2>5 DEF Begun, BindCreatedResource, Executing
  <2>9. Begun'
    BY <2>7, <2>8
    DEF BindCreatedResource, Begun, Goto, Making, Executing, Verifying, Looping, Handling
  <2> QED
    BY <2>6, <2>9
<1> QED
  BY <1>1, <1>2, <1>3

\* The command runs and its container is removed: calm is kept.
LEMMA CalmRunAndRemove ==
  ASSUME Shape, Shape', Safe, Undisturbed, RunAndRemove
  PROVE  Undisturbed'
<1> USE ResourcesAssumption, Processes DEF Undisturbed
<1>1. Terms' /\ Tiers' /\ (Calm' => Calm /\ Sweeps')
  BY DriverMoves DEF RunAndRemove, Goto, Shape, TypeOK, Looping, Handling, Cleaners, Terms
<1>2. Own'
  BY DEF RunAndRemove, Remove, Goto, Shape, TypeOK, Own, Kinds, ExecLabels
<1>3. ASSUME Calm PROVE Gone' /\ Begun'
  <2> USE <1>3 DEF Shape, TypeOK
  <2>1. \A q \in Res : Over(q)' = Over(q)
    BY DEF RunAndRemove, Over
  <2>2. Gone'
    BY <2>1
    DEF RunAndRemove, Remove, RemovalFails, Gone, Done, NoContainerOutlivesItsWorktree, Res
  <2>3. Begun'
    BY <2>1
    DEF RunAndRemove, Begun, Goto, Making, Executing, Verifying, Looping, Handling, Res
  <2> QED
    BY <2>2, <2>3
<1> QED
  BY <1>1, <1>2, <1>3

\* The lease is released: calm is kept.
LEMMA CalmFinalizeExecution ==
  ASSUME Shape, Shape', Safe, Undisturbed, FinalizeExecution
  PROVE  Undisturbed'
<1> USE ResourcesAssumption, Processes DEF Undisturbed
<1>1. Terms' /\ Tiers' /\ (Calm' => Calm /\ Sweeps')
  BY DriverMoves
  DEF FinalizeExecution, Goto, Shape, TypeOK, Looping, Handling, Cleaners, Terms
<1>2. Own'
  BY DEF FinalizeExecution, UpdateLeaseStatus, Lease, Goto, Shape, TypeOK, Own, ExecLabels, Kinds, Res
<1>3. ASSUME Calm PROVE Gone' /\ Begun'
  <2> DEFINE e == job[Owner].res
  <2> USE <1>3 DEF Shape, TypeOK
  <2>1. e \in Executions /\ e \in Res /\ Done(e)
    BY DEF FinalizeExecution, Kinds, ExecLabels, Res, Own, Done
  <2>2. CASE CanMove(e, "released") /\ UpdateLeaseStatus(e, "released") /\ Goto(Owner, "work")
    <3>1. Gone' /\ \A q \in Res : Over(q) => Over(q)'
      BY <2>1, <2>2, GoneKept DEF CanUpdate, FinalizeExecution
    <3>2. \A q \in Res : lease'[q].status = IF q = e THEN "released" ELSE lease[q].status
      BY <2>1, <2>2, StatusWritten
    <3>3. \A d \in Executions : Over(d)'
      BY <3>1, <3>2 DEF Begun, FinalizeExecution, Executing, Res, Over, Settled
    <3>4. \A x \in held' : lease'[x].status = "active"
      BY <2>1, <3>2 DEF Begun, FinalizeExecution, Executing, Res
    <3> QED
      BY <2>2, <3>1, <3>3, <3>4
      DEF Begun, Goto, Making, Executing, Verifying, Looping, Handling
  <2>3. CASE UNCHANGED lease /\ Goto(Owner, "settle")
    BY <2>3, GoneStays
    DEF FinalizeExecution, Begun, Goto, Making, Executing, Verifying, Looping, Handling
  <2> QED
    BY <2>2, <2>3 DEF FinalizeExecution
<1> QED
  BY <1>1, <1>2, <1>3

\* The adapter cleans up after an error: calm is kept.
LEMMA CalmCleanupFailedExecution ==
  ASSUME Shape, Shape', Safe, Undisturbed, CleanupFailedExecution
  PROVE  Undisturbed'
<1> USE ResourcesAssumption, Processes DEF Undisturbed
<1>1. Terms' /\ Tiers' /\ (Calm' => Calm /\ Sweeps')
  BY DriverMoves
  DEF CleanupFailedExecution, Goto, Shape, TypeOK, Looping, Handling, Cleaners, Terms
<1>2. Own'
  BY DEF CleanupFailedExecution, Goto, Shape, TypeOK, Own, ExecLabels, Job
<1>3. ASSUME Calm PROVE Gone' /\ Begun'
  <2> USE <1>3 DEF Shape, TypeOK
  <2>1. \A q \in Res : Over(q)' = Over(q)
    BY DEF CleanupFailedExecution, Over
  <2>2. Gone'
    BY <2>1
    DEF CleanupFailedExecution, Remove, RemovalFails, Gone, Done,
        NoContainerOutlivesItsWorktree, Res
  <2>3. Begun'
    BY <2>1
    DEF CleanupFailedExecution, Begun, Goto, Making, Executing, Verifying, Looping,
        Handling, Res
  <2> QED
    BY <2>2, <2>3
<1> QED
  BY <1>1, <1>2, <1>3

\* The executor reads the lease after an error: calm is kept.
LEMMA CalmSettleFailedExecution ==
  ASSUME Shape, Shape', Safe, Undisturbed, SettleFailedExecution
  PROVE  Undisturbed'
<1> USE ResourcesAssumption, Processes DEF Undisturbed
<1>1. Terms' /\ Tiers' /\ (Calm' => Calm /\ Sweeps')
  BY DriverMoves
  DEF SettleFailedExecution, Goto, Shape, TypeOK, Looping, Handling, Cleaners, Terms
<1>2. Own'
  BY DEF SettleFailedExecution, Goto, Shape, TypeOK, Own, ExecLabels, Job
<1>3. ASSUME Calm PROVE Gone' /\ Begun'
  BY <1>3, GoneStays
  DEF Shape, TypeOK, SettleFailedExecution, Goto, Begun, Making, Executing, Verifying,
      Looping, Handling
<1> QED
  BY <1>1, <1>2, <1>3

\* The executor asks for a proof of absence: calm is kept.
LEMMA CalmProveFailedExecution ==
  ASSUME Shape, Shape', Safe, Undisturbed, ProveFailedExecution
  PROVE  Undisturbed'
<1> USE ResourcesAssumption, Processes DEF Undisturbed
<1>1. Terms' /\ Tiers' /\ (Calm' => Calm /\ Sweeps')
  BY DriverMoves
  DEF ProveFailedExecution, Goto, Shape, TypeOK, Looping, Handling, Cleaners, Terms
<1>2. Own'
  BY DEF ProveFailedExecution, Goto, Shape, TypeOK, Own, ExecLabels
<1>3. ASSUME Calm PROVE Gone' /\ Begun'
  <2> USE <1>3 DEF Shape, TypeOK
  <2>1. \A q \in Res : Over(q)' = Over(q)
    BY DEF ProveFailedExecution, Over
  <2>2. \A e \in Executions : box'[e] \in {box[e], "gone"}
    BY DEF ProveFailedExecution, CleanupExecution, ReconcileExecution, Remove, RemovalFails
  <2>3. Gone'
    BY <2>1, <2>2
    DEF ProveFailedExecution, Gone, Done, NoContainerOutlivesItsWorktree, Res
  <2>4. Begun'
    BY <2>1
    DEF ProveFailedExecution, Begun, Goto, Making, Executing, Verifying, Looping,
        Handling, Res
  <2> QED
    BY <2>3, <2>4
<1> QED
  BY <1>1, <1>2, <1>3

\* The outcome of that proof is written: calm is kept.
LEMMA CalmPersistFailedExecution ==
  ASSUME Shape, Shape', Safe, Undisturbed, PersistFailedExecution
  PROVE  Undisturbed'
<1> USE ResourcesAssumption, Processes DEF Undisturbed
<1>1. Terms' /\ Tiers' /\ (Calm' => Calm /\ Sweeps')
  BY DriverMoves
  DEF PersistFailedExecution, Goto, Shape, TypeOK, Looping, Handling, Cleaners, Terms
<1>2. Own'
  BY DEF PersistFailedExecution, Goto, Shape, TypeOK, Own, ExecLabels
<1>3. ASSUME Calm PROVE Gone' /\ Begun'
  <2> DEFINE e == job[Owner].res
  <2> USE <1>3 DEF Shape, TypeOK
  <2>1. e \in Executions /\ e \in Res
    BY DEF PersistFailedExecution, Kinds, ExecLabels, Res
  <2>2. UNCHANGED <<tree, box>>
    BY DEF PersistFailedExecution
  <2>3. CASE /\ pc[Owner] = "recovered" /\ CanMove(e, "recovered")
             /\ UpdateLeaseStatus(e, "recovered")
    <3>1. Done(e)
      BY <2>3 DEF Safe, KnowsOwn
    <3>2. Gone'
      BY <2>1, <2>2, <2>3, <3>1, GoneKept DEF CanUpdate
    <3> QED
      BY <3>2
      DEF PersistFailedExecution, Goto, Begun, Making, Executing, Verifying, Looping, Handling
  <2>4. CASE UNCHANGED lease
    BY <2>4, GoneStays
    DEF PersistFailedExecution, Goto, Begun, Making, Executing, Verifying, Looping, Handling
  <2>5. CASE UpdateLeaseStatus(e, "failed") /\ lease[e].status \notin Settled \cup {"failed"}
    <3>1. \A q \in Res : lease'[q].status = IF q = e THEN "failed" ELSE lease[q].status
      BY <2>1, <2>5, StatusWritten
    <3>2. Gone'
      <4>1. \A d \in Executions : lease'[d].status \in Settled => Done(d)'
        BY <2>2, <3>1 DEF Gone, Done, Res, Settled
      <4>2. \A w \in Worktrees : Over(w)' => w \notin tree'
        BY <2>1, <2>2, <3>1 DEF Gone, Over, Res, Settled
      <4>3. ASSUME NEW d \in Executions,
                   lease'[SandboxOf[d]].status \notin {"active", "releasing", "failed"}
            PROVE  Over(d)'
        BY <2>1, <2>5, <3>1, <4>3 DEF Gone, Res, Over, Own, PersistFailedExecution, ExecLabels
      <4>4. NoContainerOutlivesItsWorktree'
        BY <2>2 DEF Gone, NoContainerOutlivesItsWorktree
      <4> QED
        BY <4>1, <4>2, <4>3, <4>4 DEF Gone
    <3> QED
      BY <3>2
      DEF PersistFailedExecution, Goto, Begun, Making, Executing, Verifying, Looping, Handling
  <2> QED
    BY <2>3, <2>4, <2>5 DEF PersistFailedExecution
<1> QED
  BY <1>1, <1>2, <1>3

\* The run is paused: calm is kept.
LEMMA CalmPause ==
  ASSUME Shape, Shape', Safe, Undisturbed, Pause
  PROVE  Undisturbed'
<1> USE ResourcesAssumption, Processes DEF Undisturbed
<1>1. Terms' /\ Tiers' /\ (Calm' => Calm /\ Sweeps')
  BY DriverMoves
  DEF Pause, CanSaveRun, Ended, Goto, Shape, TypeOK, Looping, Handling, Cleaners, Terms
<1>2. Own'
  BY DEF Pause, Goto, Shape, TypeOK, Own, ExecLabels
<1>3. ASSUME Calm PROVE Gone' /\ Begun'
  BY <1>3, GoneStays
  DEF Shape, TypeOK, Pause, Goto, Begun, Making, Executing, Verifying, Looping, Handling
<1> QED
  BY <1>1, <1>2, <1>3

\* Presentation begins with a cleanup: calm is kept.
LEMMA CalmStartPresenting ==
  ASSUME Shape, Shape', Safe, Undisturbed, StartPresenting
  PROVE  Undisturbed'
<1> USE ResourcesAssumption, Processes DEF Undisturbed
<1>1. Terms' /\ Tiers' /\ (Calm' => Calm /\ Sweeps')
  BY DriverMoves
  DEF StartPresenting, Goto, Shape, TypeOK, Looping, Handling, Cleaners, Terms
<1>2. Own'
  BY IdleType DEF StartPresenting, Goto, Shape, TypeOK, Own, ExecLabels, Job
<1>3. ASSUME Calm PROVE Gone' /\ Begun'
  BY <1>3, GoneStays
  DEF Shape, TypeOK, StartPresenting, Goto, Begun, Making, Executing, Verifying,
      Looping, Handling
<1> QED
  BY <1>1, <1>2, <1>3

\* The run is presented: calm is kept.
LEMMA CalmPresent ==
  ASSUME Shape, Shape', Safe, Undisturbed, Present
  PROVE  Undisturbed'
<1> USE ResourcesAssumption, Processes DEF Undisturbed
<1>1. Terms' /\ Tiers' /\ (Calm' => Calm /\ Sweeps')
  BY DriverMoves
  DEF Present, CanSaveRun, Ended, Goto, Shape, TypeOK, Looping, Handling, Cleaners, Terms
<1>2. Own'
  BY DEF Present, Goto, Shape, TypeOK, Own, ExecLabels
<1>3. ASSUME Calm PROVE Gone' /\ Begun'
  BY <1>3, GoneStays
  DEF Shape, TypeOK, Present, Goto, Begun, Making, Executing, Verifying, Looping, Handling
<1> QED
  BY <1>1, <1>2, <1>3

\* A stage fails: calm is kept.
LEMMA CalmDriverFails ==
  ASSUME Shape, Shape', Safe, Undisturbed, DriverFails
  PROVE  Undisturbed'
<1> USE ResourcesAssumption, Processes DEF Undisturbed
<1>1. Terms' /\ Tiers' /\ (Calm' => Calm /\ Sweeps')
  BY DriverMoves DEF DriverFails, Goto, Shape, TypeOK, Looping, Handling, Cleaners, Terms
<1>2. Own'
  BY DEF DriverFails, Goto, Shape, TypeOK, Own, ExecLabels
<1>3. ASSUME Calm PROVE Gone' /\ Begun'
  BY <1>3, GoneStays
  DEF Shape, TypeOK, DriverFails, Goto, Begun, Making, Executing, Verifying, Looping, Handling
<1> QED
  BY <1>1, <1>2, <1>3

\* A resume takes over what is active: calm is kept.
LEMMA CalmRehydrate ==
  ASSUME Shape, Shape', Safe, Undisturbed, Rehydrate
  PROVE  Undisturbed'
<1> USE ResourcesAssumption, Processes DEF Undisturbed, Shape, TypeOK
<1>0. /\ run = "paused" /\ run' = run /\ Calm
      /\ pc'[Owner] = "resumed" /\ job' = job
      /\ \A c \in Cleaners : pc'[c] = pc[c]
  BY DEF Rehydrate, Calm, Ended, Goto, Cleaners
<1>1. \A p \in Procs : pc'[p] \notin Cleaning
  BY <1>0 DEF Terms, Ended, Procs, Cleaning, Looping, Handling
<1>2. Terms'
  BY <1>0 DEF Terms, Rehydrate, Ended, Cleaning, Looping, Handling
<1>3. Tiers' /\ Sweeps'
  BY <1>1 DEF Tiers, TierOf, Sweeps, SweepOf, Cleaning, Looping, Handling
<1>4. Own'
  BY <1>0 DEF Own, ExecLabels
<1>5. Gone' /\ \A q \in Res : Over(q)' = Over(q)
  BY <1>0, GoneStays DEF Rehydrate
<1>6. \A e \in Executions : Over(e)'
  BY <1>5 DEF Rehydrate, Outstanding, Over, Res
<1>7. \A x \in held' : lease'[x].status = "active"
  BY DEF Rehydrate
<1>8. Begun'
  BY <1>0, <1>6, <1>7 DEF Begun, Making, Executing, Verifying, Looping, Handling
<1> QED
  BY <1>2, <1>3, <1>4, <1>5, <1>8

\* The run is running again: calm is kept.
LEMMA CalmResume ==
  ASSUME Shape, Shape', Safe, Undisturbed, Resume
  PROVE  Undisturbed'
<1> USE ResourcesAssumption, Processes DEF Undisturbed
<1>1. Terms' /\ Tiers' /\ (Calm' => Calm /\ Sweeps')
  BY DriverMoves
  DEF Resume, CanSaveRun, Ended, Goto, Shape, TypeOK, Looping, Handling, Cleaners, Terms
<1>2. Own'
  BY DEF Resume, Goto, Shape, TypeOK, Own, ExecLabels
<1>3. ASSUME Calm PROVE Gone' /\ Begun'
  <2>1. Gone' /\ \A q \in Res : Over(q)' = Over(q)
    BY <1>3, GoneStays DEF Resume
  <2> QED
    BY <1>3, <2>1
    DEF Shape, TypeOK, Resume, Goto, Begun, Making, Executing, Verifying, Looping,
        Handling, Res
<1> QED
  BY <1>1, <1>2, <1>3

\* The driver's process is killed: calm is kept.
LEMMA CalmCrash ==
  ASSUME Shape, Shape', Safe, Undisturbed, Crash
  PROVE  Undisturbed'
<1> USE ResourcesAssumption, Processes DEF Undisturbed
<1>1. Terms' /\ Tiers' /\ (Calm' => Calm /\ Sweeps')
  BY DriverMoves DEF Crash, Goto, Shape, TypeOK, Looping, Handling, Cleaners, Terms
<1>2. Own'
  BY DEF Crash, Goto, Shape, TypeOK, Own, ExecLabels
<1>3. ASSUME Calm PROVE Gone' /\ Begun'
  BY <1>3, GoneStays
  DEF Shape, TypeOK, Crash, Goto, Begun, Making, Executing, Verifying, Looping, Handling
<1> QED
  BY <1>1, <1>2, <1>3

\* The driver begins a resource: calm is kept.
LEMMA CalmBegin ==
  ASSUME Shape, Shape', Safe, Undisturbed, NEW r \in Res, Begin(r)
  PROVE  Undisturbed'
<1> USE ResourcesAssumption, Processes DEF Undisturbed
<1>1. Terms' /\ Tiers' /\ (Calm' => Calm /\ Sweeps')
  BY DriverMoves DEF Begin, Goto, Shape, TypeOK, Looping, Handling, Cleaners, Terms
<1>2. Own'
  BY DEF Begin, Goto, Shape, TypeOK, Own, ExecLabels
<1>3. ASSUME Calm PROVE Gone' /\ Begun'
  <2> USE <1>3 DEF Shape, TypeOK
  <2>1. Gone' /\ \A q \in Res : Over(q)' = Over(q)
    BY GoneStays DEF Begin
  <2>2. job'[Owner].res = r
    BY IdleType DEF Begin, Job
  <2>3. r \in Executions => lease[SandboxOf[r]].status = "active"
    BY DEF Begin, Ready, Begun, Making, Res
  <2> QED
    BY <2>1, <2>2, <2>3
    DEF Begin, Goto, Begun, Making, Executing, Verifying, Looping, Handling, Res
<1> QED
  BY <1>1, <1>2, <1>3

\* The run is over for the driver: calm is kept.
LEMMA CalmEndRun ==
  ASSUME Shape, Shape', Safe, Undisturbed, NEW status \in Ended, EndRun(status)
  PROVE  Undisturbed'
<1> USE ResourcesAssumption, Processes DEF Undisturbed
<1>1. Terms' /\ Tiers' /\ (Calm' => Calm /\ Sweeps')
  BY DriverMoves
  DEF EndRun, CanSaveRun, Ended, Goto, Shape, TypeOK, Looping, Handling, Cleaners, Terms
<1>2. Own'
  BY IdleType DEF EndRun, Goto, Shape, TypeOK, Own, ExecLabels, Job
<1>3. ASSUME Calm PROVE Gone' /\ Begun'
  BY <1>3, GoneStays
  DEF Shape, TypeOK, EndRun, Goto, Begun, Making, Executing, Verifying, Looping, Handling
<1> QED
  BY <1>1, <1>2, <1>3

\* The driver releases its verifier: calm is kept.
LEMMA CalmReleaseVerifier ==
  ASSUME Shape, Shape', Safe, Undisturbed, NEW s \in Sandboxes, ReleaseVerifier(s)
  PROVE  Undisturbed'
<1> USE ResourcesAssumption, Processes DEF Undisturbed, Shape, TypeOK
<1>0. /\ pc[Owner] = "work" /\ pc'[Owner] = "pick"
      /\ \A c \in Cleaners : pc'[c] = pc[c] /\ job'[c] = job[c]
      /\ UNCHANGED <<run, lease, tree, box, held, raced>>
  BY DEF ReleaseVerifier, Goto, Cleaners
<1>1. Terms' /\ (Calm' <=> Calm)
  BY <1>0 DEF Terms, Calm
<1>2. Tiers'
  BY <1>0 DEF Tiers, TierOf, Handling, Procs, Tier
<1>3. Own'
  BY <1>0 DEF Own, ExecLabels
<1>4. ASSUME Calm PROVE Gone' /\ Begun' /\ Sweeps'
  <2>1. Gone' /\ \A q \in Res : Over(q)' = Over(q)
    BY <1>0, <1>4, GoneStays
  <2>2. \A e \in Executions : Over(e)'
    BY <1>0, <1>4, <2>1 DEF Begun, Making, Res
  <2>3. Begun'
    BY <1>0, <1>4, <2>2 DEF Begun, Making, Executing, Verifying
  <2>4. \A c \in Cleaners : pc'[c] \notin Cleaning
    BY <1>0, <1>4, AtWork
  <2>5. Sweeps'
    BY <1>0, <2>2, <2>4 DEF Sweeps, SweepOf, Cleaning, Looping, Handling, Procs
  <2> QED
    BY <2>1, <2>3, <2>5
<1> QED
  BY <1>1, <1>2, <1>3, <1>4

\* The daemon decides a create: calm is kept.
LEMMA CalmDaemonCreates ==
  ASSUME Shape, Shape', Safe, Undisturbed, NEW e \in Executions, DaemonCreates(e)
  PROVE  Undisturbed'
<1> USE ResourcesAssumption, Processes DEF Undisturbed, Shape, TypeOK
<1>1. /\ box[e] = "asked"
      /\ \A d \in Executions : d # e => box'[d] = box[d]
      /\ box'[e] = "up" => WorktreeOf[SandboxOf[e]] \in tree
      /\ UNCHANGED <<run, lease, tree, held, pc, job, raced>>
  BY DEF DaemonCreates
<1>2. Terms' /\ Tiers' /\ (Calm' <=> Calm)
  BY <1>1 DEF Terms, Tiers, TierOf, Calm, Tier
<1>3. Own'
  BY <1>1 DEF Own, Kinds, ExecLabels
<1>4. \A q \in Res : Over(q)' = Over(q)
  BY <1>1 DEF Over
<1>5. Gone => Gone'
  BY <1>1, <1>4 DEF Gone, Done, NoContainerOutlivesItsWorktree, Res
<1>6. Begun => Begun'
  BY <1>1, <1>4 DEF Begun, Verifying, Res
<1>7. ASSUME Sweeps, NEW p \in Procs PROVE SweepOf(p)'
  <2>1. SweepOf(p)
    BY <1>7 DEF Sweeps
  <2>2. pc[p] \in Looping => \A d \in Executions : Over(d)' \/ d \in job[p].todo \cup job[p].bad
    BY <2>1, <1>4 DEF SweepOf, Res
  <2>3. job[p].res \in Executions /\ box[job[p].res] \in {"up", "gone"} =>
          box'[job[p].res] = box[job[p].res]
    BY <1>1
  <2>4. job[p].res \in Executions /\ Done(job[p].res) => box'[job[p].res] = box[job[p].res]
    BY <1>1 DEF Done
  <2> QED
    BY <2>1, <2>2, <2>3, <2>4, <1>1 DEF SweepOf, Done
<1> QED
  BY <1>2, <1>3, <1>5, <1>6, <1>7 DEF Sweeps

\* A step of one cleanup leaves the other processes to themselves.
LEMMA CleanupMoves ==
  ASSUME Shape, Shape', Terms, Tiers, NEW p \in Procs, pc[p] \in Cleaning,
         UNCHANGED <<run, raced>>,
         \A q \in Procs \ {p} : pc'[q] = pc[q] /\ job'[q] = job[q],
         pc'[p] \in Cleaning \cup {"work", "present", "down", "idle", "fail"},
         TierOf(p)'
  PROVE  /\ Terms' /\ Tiers' /\ (Calm' <=> Calm)
         /\ Calm /\ p # Owner => pc[Owner] = "down" /\ pc'[Owner] = "down"
<1> USE Processes
<1>1. p # Owner => p \in Cleaners
  BY DEF Procs
<1>2. Calm /\ p # Owner => pc[Owner] = "down" /\ pc'[Owner] = "down"
  BY <1>1, AtWork
<1>3. Tiers'
  BY DEF Tiers, TierOf, Tier
<1>4. \A c \in Cleaners : pc'[c] \in Cleaning => run' \in Ended
  BY DEF Terms
<1>5. \A c \in Cleaners : pc'[c] = "look" /\ job'[c].saw \in Ended => run' \in Ended
  BY DEF Terms, Cleaning, Looping, Handling
<1>7. run' = "ready" => pc'[Owner] = "down"
  BY DEF Terms, Cleaning, Looping, Handling
<1>8. ~raced' /\ pc'[Owner] # "down" => \A c \in Cleaners : pc'[c] = "idle"
  <2>1. CASE p = Owner
    BY <2>1, ResourcesAssumption DEF Terms, Cleaning, Looping, Handling
  <2>2. CASE p # Owner
    BY <2>2, <1>1, <1>2 DEF Calm
  <2> QED
    BY <2>1, <2>2
<1> QED
  BY <1>2, <1>3, <1>4, <1>5, <1>7, <1>8 DEF Terms, Calm

\* What a process other than the cleanup at work has still to do, and knows.
LEMMA SweepsKept ==
  ASSUME Shape, Shape', Sweeps, NEW p \in Procs, SweepOf(p)',
         \A q \in Procs \ {p} : pc'[q] = pc[q] /\ job'[q] = job[q],
         \A r \in Res : Over(r) => Over(r)',
         \A r \in Res : lease'[r].dispatched = lease[r].dispatched,
         \A e \in Executions : box'[e] \in {box[e], "gone"},
         tree' \subseteq tree
  PROVE  Sweeps'
<1> SUFFICES ASSUME NEW q \in Procs, q # p PROVE SweepOf(q)'
  BY DEF Sweeps
<1> USE ResourcesAssumption
<1>1. SweepOf(q) /\ pc'[q] = pc[q] /\ job'[q] = job[q]
  BY DEF Sweeps
<1>2. pc[q] \in Looping => \A e \in Executions : Over(e)' \/ e \in job[q].todo \cup job[q].bad
  BY <1>1 DEF SweepOf, Res
<1>3. job[q].res \in Executions /\ Done(job[q].res) => Done(job[q].res)'
  BY <1>1 DEF Done
<1> QED
  BY <1>1, <1>2, <1>3 DEF SweepOf, Res, Done

\* A command leaves what the driver has saved and removed alone.
LEMMA OwnKept ==
  ASSUME Shape, Own, pc'[Owner] = pc[Owner], job'[Owner] = job[Owner], held' \subseteq held,
         \A r \in Res : lease'[r].status = "none" => lease[r].status = "none",
         \A e \in Executions : box'[e] \in {box[e], "gone"}
  PROVE  Own'
  BY DEF Own, Shape, Kinds, ExecLabels, Res

\* A driver that is down relies on nothing.
LEMMA DownRelies ==
  ASSUME pc[Owner] = "down"
  PROVE  Begun
  BY DEF Begun, Making, Executing, Verifying, Looping, Handling

\* The leases are listed: calm is kept.
LEMMA CalmListLeases ==
  ASSUME Shape, Shape', Safe, Undisturbed, NEW p \in Procs, ListLeases(p)
  PROVE  Undisturbed'
<1> USE ResourcesAssumption, Processes DEF Undisturbed, Shape, TypeOK
<1>0. /\ pc[p] = "list" /\ pc'[p] = "pick"
      /\ job'[p].todo = Outstanding /\ job'[p].next = job[p].next
      /\ \A q \in Procs \ {p} : pc'[q] = pc[q] /\ job'[q] = job[q]
      /\ UNCHANGED <<run, lease, tree, box, held, raced>>
  BY DEF ListLeases, Goto, Job
<1>1. /\ Terms' /\ Tiers' /\ (Calm' <=> Calm)
      /\ Calm /\ p # Owner => pc[Owner] = "down" /\ pc'[Owner] = "down"
  BY <1>0, CleanupMoves DEF TierOf, Handling, Cleaning, Looping
<1>2. Own'
  BY <1>0 DEF Own, ExecLabels
<1>3. ASSUME Calm PROVE Gone' /\ Begun' /\ Sweeps'
  <2>1. Gone' /\ \A q \in Res : Over(q)' = Over(q)
    BY <1>0, <1>3, GoneStays
  <2>2. Begun'
    <3>1. CASE p = Owner
      BY <1>0, <3>1 DEF Begun, Own, Making, Executing, Verifying
    <3>2. CASE p # Owner
      BY <1>1, <1>3, <3>2 DEF Begun, Making, Executing, Verifying, Looping, Handling
    <3> QED
      BY <3>1, <3>2
  <2>3. SweepOf(p)'
    BY <1>0, <2>1 DEF SweepOf, Outstanding, Over, Res, Looping, Handling
  <2>4. Sweeps'
    BY <1>0, <1>3, <2>1, <2>3, SweepsKept
  <2> QED
    BY <2>1, <2>2, <2>4
<1> QED
  BY <1>1, <1>2, <1>3

\* The lease is read again when its cleanup starts: calm is kept.
LEMMA CalmPickLease ==
  ASSUME Shape, Shape', Safe, Undisturbed, NEW p \in Procs, PickLease(p)
  PROVE  Undisturbed'
<1> USE ResourcesAssumption, Processes DEF Undisturbed, Shape, TypeOK
<1>r. PICK r \in Candidates(p) :
        IF lease[r].status \in Settled
        THEN job' = [job EXCEPT ![p].todo = @ \ {r}] /\ UNCHANGED pc
        ELSE job' = [job EXCEPT ![p].res = r, ![p].seen = lease[r]] /\ Goto(p, "release")
  BY DEF PickLease
<1>j. job[p] \in Job
  OBVIOUS
<1>0. /\ pc[p] = "pick" /\ pc'[p] \in {"pick", "release"}
      /\ \A q \in Procs \ {p} : pc'[q] = pc[q] /\ job'[q] = job[q]
      /\ job'[p].next = job[p].next /\ job'[p].bad = job[p].bad
      /\ UNCHANGED <<run, lease, tree, box, held, raced>>
  BY <1>r, <1>j DEF PickLease, Goto, Job
<1>1. \/ /\ lease[r].status \in Settled /\ pc'[p] = "pick"
         /\ job'[p].todo = job[p].todo \ {r}
      \/ /\ lease[r].status \notin Settled /\ pc'[p] = "release"
         /\ job'[p].todo = job[p].todo /\ job'[p].res = r /\ job'[p].seen = lease[r]
  BY <1>r, <1>0, <1>j DEF Goto, Job
<1>2. TierOf(p)'
  BY <1>0, <1>1 DEF TierOf, Candidates, Handling, Tier
<1>3. /\ Terms' /\ Tiers' /\ (Calm' <=> Calm)
      /\ Calm /\ p # Owner => pc[Owner] = "down" /\ pc'[Owner] = "down"
  BY <1>0, <1>2, CleanupMoves DEF Handling, Cleaning, Looping
<1>4. Own'
  BY <1>0 DEF Own, ExecLabels
<1>5. ASSUME Calm PROVE Gone' /\ Begun' /\ Sweeps'
  <2>1. Gone' /\ \A q \in Res : Over(q)' = Over(q)
    BY <1>0, <1>5, GoneStays
  <2>2. Begun'
    <3>1. CASE p = Owner
      <4>1. job[Owner].next = "work" => Verifying
        BY <1>0, <3>1 DEF Verifying, Looping
      <4>2. job[Owner].next = "work" =>
              \A x \in held : \/ lease[x].status = "active"
                              \/ /\ lease[x].status \notin Settled
                                 /\ x \in job'[Owner].todo \cup job'[Owner].bad
        BY <1>0, <1>1, <1>5, <3>1, <4>1 DEF Begun
      <4>3. job[Owner].next = "work" => \A e \in Executions : Over(e)'
        BY <1>5, <2>1, <4>1 DEF Begun, Res
      <4> QED
        BY <1>0, <3>1, <4>2, <4>3 DEF Begun, Making, Executing, Verifying
    <3>2. CASE p # Owner
      BY <1>3, <1>5, <3>2 DEF Begun, Making, Executing, Verifying, Looping, Handling
    <3> QED
      BY <3>1, <3>2
  <2>3. SweepOf(p)'
    <3>1. \A e \in Executions : Over(e)' \/ e \in job'[p].todo \cup job'[p].bad
      BY <1>0, <1>1, <1>5, <2>1 DEF Sweeps, SweepOf, Over, Looping, Res
    <3>2. pc'[p] = "release" /\ r \in Executions => (lease[r].handle => box[r] \in {"up", "gone"})
      BY DEF Safe, Checkpoint
    <3> QED
      BY <1>0, <1>1, <3>1, <3>2 DEF SweepOf
  <2>4. Sweeps'
    BY <1>0, <1>5, <2>1, <2>3, SweepsKept
  <2> QED
    BY <2>1, <2>2, <2>4
<1> QED
  BY <1>3, <1>4, <1>5

\* Whether a cleanup succeeds or fails, its lease is settled, or failed, or still
\* to be cleaned.
LEMMA FailedNotes ==
  ASSUME job \in [Procs -> Job], NEW p \in Procs, Failed(p)
  PROVE  /\ job'[p].todo = job[p].todo \ {job[p].res}
         /\ job'[p].bad = job[p].bad \cup {job[p].res}
         /\ job'[p].next = job[p].next /\ job'[p].res = job[p].res
         /\ job'[p].seen = job[p].seen /\ job'[p].target = job[p].target
         /\ \A q \in Procs \ {p} : job'[q] = job[q]
<1>1. job[p] \in Job
  OBVIOUS
<1> QED
  BY <1>1 DEF Failed, Job

\* A lease is marked as releasing: calm is kept.
LEMMA CalmMarkReleasing ==
  ASSUME Shape, Shape', Safe, Undisturbed, NEW p \in Procs, MarkReleasing(p)
  PROVE  Undisturbed'
<1> DEFINE r == job[p].res
<1> USE ResourcesAssumption, Processes DEF Undisturbed, Shape, TypeOK
<1>0. /\ pc[p] = "release" /\ pc'[p] \in {"clean", "pick"}
      /\ \A q \in Procs \ {p} : pc'[q] = pc[q] /\ job'[q] = job[q]
      /\ job'[p].next = job[p].next /\ job'[p].res = r /\ job'[p].seen = job[p].seen
      /\ UNCHANGED <<run, tree, box, held, raced>>
  BY FailedNotes DEF MarkReleasing, Goto
<1>1. \/ /\ pc'[p] = "clean" /\ job' = job
         /\ \/ lease' = lease
            \/ CanUpdate(r, "releasing") /\ UpdateLeaseStatus(r, "releasing")
      \/ /\ pc'[p] = "pick" /\ lease' = lease
         /\ job'[p].todo = job[p].todo \ {r} /\ job'[p].bad = job[p].bad \cup {r}
  BY FailedNotes DEF MarkReleasing, Goto
<1>2. r \in Res /\ r \in job[p].todo
  BY <1>0 DEF Kinds, Tiers, TierOf, Handling
<1>3. TierOf(p)'
  BY <1>0, <1>1 DEF Tiers, TierOf, Handling, Tier
<1>4. /\ Terms' /\ Tiers' /\ (Calm' <=> Calm)
      /\ Calm /\ p # Owner => pc[Owner] = "down" /\ pc'[Owner] = "down"
  BY <1>0, <1>3, CleanupMoves DEF Handling, Cleaning, Looping
<1>5. \A q \in Res : /\ lease'[q].status \in {lease[q].status, "releasing"}
                     /\ q # r => lease'[q].status = lease[q].status
                     /\ lease'[q].dispatched = lease[q].dispatched
  BY <1>1, <1>2, StatusWritten
<1>6. Own'
  <2>1. CASE p = Owner
    BY <1>0, <2>1 DEF Own, ExecLabels
  <2>2. CASE p # Owner
    BY <1>0, <1>5, <2>2, OwnKept
  <2> QED
    BY <2>1, <2>2
<1>7. ASSUME Calm PROVE Gone' /\ Begun' /\ Sweeps'
  <2>1. Gone' /\ \A q \in Res : Over(q) => Over(q)'
    <3>1. CASE lease' = lease
      BY <1>0, <1>7, <3>1, GoneStays
    <3>2. CASE CanUpdate(r, "releasing") /\ UpdateLeaseStatus(r, "releasing")
      BY <1>0, <1>2, <1>7, <3>2, GoneKept DEF Settled
    <3> QED
      BY <1>1, <3>1, <3>2
  <2>2. Begun'
    <3>1. CASE p = Owner
      <4>1. job[Owner].next = "work" => Verifying
        BY <1>0, <3>1 DEF Verifying, Looping, Handling
      <4>2. ASSUME job[Owner].next = "work", NEW x \in held
            PROVE  \/ lease'[x].status = "active"
                   \/ /\ lease'[x].status \notin Settled
                      /\ x \in job'[Owner].todo \cup job'[Owner].bad
        <5>1. \/ lease[x].status = "active"
              \/ /\ lease[x].status \notin Settled
                 /\ x \in job[Owner].todo \cup job[Owner].bad
          BY <1>7, <4>1, <4>2 DEF Begun
        <5>2. x \in Res
          BY DEF Res
        <5>3. /\ x # r => lease'[x].status = lease[x].status
              /\ lease'[x].status \in {lease[x].status, "releasing"}
          BY <1>5, <5>2
        <5>4. lease[x].status \notin Settled => lease'[x].status \notin Settled
          BY <5>3 DEF Settled
        <5>5. "active" \notin Settled
          BY DEF Settled
        <5>6. x = r \/ x \in job[Owner].todo \cup job[Owner].bad =>
                x \in job'[Owner].todo \cup job'[Owner].bad
          BY <1>1, <1>2, <3>1
        <5> QED
          BY <5>1, <5>3, <5>4, <5>5, <5>6
      <4>3. job[Owner].next = "work" => \A e \in Executions : Over(e)'
        BY <1>7, <2>1, <4>1 DEF Begun, Res
      <4> QED
        BY <1>0, <3>1, <4>2, <4>3 DEF Begun, Making, Executing, Verifying
    <3>2. CASE p # Owner
      BY <1>4, <1>7, <3>2 DEF Begun, Making, Executing, Verifying, Looping, Handling
    <3> QED
      BY <3>1, <3>2
  <2>3. SweepOf(p)'
    <3>1. SweepOf(p)
      BY <1>7 DEF Sweeps
    <3>2. \A e \in Executions : Over(e)' \/ e \in job'[p].todo \cup job'[p].bad
      <4>1. \A e \in Executions : Over(e) \/ e \in job[p].todo \cup job[p].bad
        BY <1>0, <3>1 DEF SweepOf, Looping, Handling
      <4>2. job[p].todo \cup job[p].bad \subseteq job'[p].todo \cup job'[p].bad
        BY <1>1
      <4> QED
        BY <4>1, <4>2, <2>1 DEF Res
    <3>3. r \in Executions => /\ job[p].seen.dispatched = lease'[r].dispatched
                              /\ job[p].seen.handle => box[r] \in {"up", "gone"}
      BY <1>0, <1>2, <1>5, <3>1 DEF SweepOf
    <3> QED
      BY <1>0, <3>2, <3>3 DEF SweepOf
  <2>4. Sweeps'
    BY <1>0, <1>5, <1>7, <2>1, <2>3, SweepsKept
  <2> QED
    BY <2>1, <2>2, <2>4
<1> QED
  BY <1>4, <1>6, <1>7

\* The provider or Git is asked to prove the resource absent: calm is kept.
LEMMA CalmCleanResource ==
  ASSUME Shape, Shape', Safe, Undisturbed, NEW p \in Procs, CleanResource(p)
  PROVE  Undisturbed'
<1> DEFINE r == job[p].res
<1> USE ResourcesAssumption, Processes DEF Undisturbed, Shape, TypeOK
<1>0. /\ pc[p] = "clean" /\ pc'[p] \in {"persist", "mark_failed"}
      /\ \A q \in Procs \ {p} : pc'[q] = pc[q]
      /\ UNCHANGED <<run, lease, job, raced>>
  BY DEF CleanResource, Goto
<1>1. /\ \A e \in Executions : box'[e] \in {box[e], "gone"}
      /\ tree' \subseteq tree /\ (r \notin Worktrees => tree' = tree)
      /\ held' \subseteq held
  BY DEF CleanResource, ProveAbsent, CleanupExecution, ReconcileExecution, Remove, RemovalFails
<1>2. r \in Res
  BY <1>0 DEF Kinds
<1>3. TierOf(p)'
  BY <1>0 DEF Tiers, TierOf, Handling, Tier
<1>4. /\ Terms' /\ Tiers' /\ (Calm' <=> Calm)
      /\ Calm /\ p # Owner => pc[Owner] = "down" /\ pc'[Owner] = "down"
  BY <1>0, <1>3, CleanupMoves DEF Handling, Cleaning, Looping
<1>5. Own'
  <2>1. CASE p = Owner
    <3>1. pc'[Owner] = "persist" => r \notin held'
      BY <2>1, <1>2 DEF CleanResource, Goto, Res
    <3> QED
      BY <1>0, <2>1, <3>1 DEF Own, ExecLabels
  <2>2. CASE p # Owner
    BY <1>0, <1>1, <2>2, OwnKept
  <2> QED
    BY <2>1, <2>2
<1>6. ASSUME Calm PROVE Gone' /\ Begun' /\ Sweeps'
  <2>1. \A q \in Res : Over(q)' = Over(q)
    BY <1>0 DEF Over
  <2>2. SweepOf(p)
    BY <1>6 DEF Sweeps
  <2>3. \A e \in Executions : Over(e) \/ e \in job[p].todo \cup job[p].bad
    BY <1>0, <2>2 DEF SweepOf, Looping, Handling
  <2>4. \A e \in Executions : Done(e) => Done(e)'
    BY <1>1 DEF Done
  <2>5. r \in Worktrees => \A e \in Executions : box[e] # "up"
    <3> SUFFICES ASSUME r \in Worktrees, NEW e \in Executions PROVE box[e] # "up"
      OBVIOUS
    <3>1. Over(e)
      BY <1>0, <2>3 DEF Tiers, TierOf, Handling, Tier
    <3>2. CASE lease[e].status \in Settled
      BY <1>6, <3>2 DEF Gone, Done
    <3>3. CASE lease[e].status = "none"
      BY <3>3 DEF Safe, Checkpoint, NoContainerWithoutCheckpoint, Res
    <3> QED
      BY <3>1, <3>2, <3>3 DEF Over
  <2>6. Gone'
    <3>1. \A e \in Executions : lease'[e].status \in Settled => Done(e)'
      BY <1>0, <1>6, <2>4 DEF Gone
    <3>2. \A w \in Worktrees : Over(w)' => w \notin tree'
      BY <1>1, <1>6, <2>1 DEF Gone, Res
    <3>3. ASSUME NEW e \in Executions,
                 lease'[SandboxOf[e]].status \notin {"active", "releasing", "failed"}
          PROVE  Over(e)'
      BY <1>0, <1>6, <2>1, <3>3 DEF Gone, Res
    <3>4. NoContainerOutlivesItsWorktree'
      BY <1>1, <1>6, <2>5 DEF Gone, NoContainerOutlivesItsWorktree
    <3> QED
      BY <3>1, <3>2, <3>3, <3>4 DEF Gone
  <2>7. Begun'
    <3>1. CASE p = Owner
      BY <1>0, <1>1, <1>6, <2>1, <3>1
      DEF Begun, Making, Executing, Verifying, Looping, Handling, Res
    <3>2. CASE p # Owner
      BY <1>4, <1>6, <3>2 DEF Begun, Making, Executing, Verifying, Looping, Handling
    <3> QED
      BY <3>1, <3>2
  <2>8. SweepOf(p)'
    <3>1. \A e \in Executions : Over(e)' \/ e \in job'[p].todo \cup job'[p].bad
      BY <1>0, <2>1, <2>3 DEF Res
    <3>2. pc'[p] = "persist" /\ r \in Executions => Done(r)'
      <4> SUFFICES ASSUME pc'[p] = "persist", r \in Executions PROVE Done(r)'
        OBVIOUS
      <4>1. ProveAbsent(r, job[p].seen)
        BY DEF CleanResource, Goto, Res
      <4>2. CASE box[r] = "up" /\ Remove(r)
        BY <1>0, <4>2 DEF Done, Remove
      <4>3. CASE job[p].seen.handle /\ box[r] # "up" /\ UNCHANGED box
        BY <1>0, <2>2, <4>3 DEF SweepOf, Done
      <4>4. CASE ~job[p].seen.dispatched /\ UNCHANGED box
        <5>1. ~lease[r].dispatched
          BY <1>0, <2>2, <4>4 DEF SweepOf
        <5>2. box[r] = "no"
          BY <5>1 DEF Safe, Checkpoint, NoContainerWithoutCheckpoint
        <5> QED
          BY <1>0, <4>4, <5>2 DEF Done
      <4> QED
        BY <4>1, <4>2, <4>3, <4>4 DEF ProveAbsent, CleanupExecution, ReconcileExecution
    <3>3. pc'[p] = "persist" /\ r \in Worktrees => r \notin tree'
      BY DEF CleanResource, Goto, Res
    <3> QED
      BY <1>0, <3>1, <3>2, <3>3 DEF SweepOf
  <2>9. Sweeps'
    BY <1>0, <1>1, <1>6, <2>1, <2>8, SweepsKept
  <2> QED
    BY <2>6, <2>7, <2>9
<1> QED
  BY <1>4, <1>5, <1>6

\* The outcome of a cleanup is written: calm is kept.
LEMMA CalmPersistCleanup ==
  ASSUME Shape, Shape', Safe, Undisturbed, NEW p \in Procs, PersistCleanup(p)
  PROVE  Undisturbed'
<1> DEFINE r == job[p].res
           status == IF pc[p] = "persist" THEN job[p].target ELSE "failed"
<1> USE ResourcesAssumption, Processes DEF Undisturbed, Shape, TypeOK
<1>j. job[p] \in Job
  OBVIOUS
<1>0. /\ pc[p] \in {"persist", "mark_failed"} /\ pc'[p] = "pick"
      /\ \A q \in Procs \ {p} : pc'[q] = pc[q] /\ job'[q] = job[q]
      /\ job'[p].next = job[p].next
      /\ UNCHANGED <<run, tree, box, held, raced>>
  BY <1>j, FailedNotes DEF PersistCleanup, Goto, Job
<1>1. \/ /\ pc[p] = "persist" /\ CanUpdate(r, status) /\ UpdateLeaseStatus(r, status)
         /\ job'[p].todo = job[p].todo \ {r} /\ job'[p].bad = job[p].bad
      \/ /\ pc[p] = "mark_failed" /\ CanUpdate(r, status) /\ UpdateLeaseStatus(r, status)
         /\ job'[p].todo = job[p].todo \ {r} /\ job'[p].bad = job[p].bad \cup {r}
      \/ /\ lease' = lease
         /\ job'[p].todo = job[p].todo \ {r} /\ job'[p].bad = job[p].bad \cup {r}
  BY <1>0, <1>j, FailedNotes DEF PersistCleanup, Job
<1>2. r \in Res /\ r \in job[p].todo
  BY <1>0 DEF Kinds, Tiers, TierOf, Handling
<1>3. TierOf(p)'
  BY <1>0 DEF TierOf, Handling
<1>4. /\ Terms' /\ Tiers' /\ (Calm' <=> Calm)
      /\ Calm /\ p # Owner => pc[Owner] = "down" /\ pc'[Owner] = "down"
  BY <1>0, <1>3, CleanupMoves DEF Handling, Cleaning, Looping
<1>s. status \notin {"none", "creating"} /\ (pc[p] = "persist" => status \in Settled)
  BY <1>j DEF Job, Settled
<1>5. \A q \in Res : /\ lease'[q].status \in {lease[q].status, status}
                     /\ q # r => lease'[q].status = lease[q].status
                     /\ lease'[q].dispatched = lease[q].dispatched
  BY <1>1, <1>2, StatusWritten
<1>6. Own'
  <2>1. CASE p = Owner
    BY <1>0, <2>1 DEF Own, ExecLabels
  <2>2. CASE p # Owner
    BY <1>0, <1>5, <1>s, <2>2, OwnKept
  <2> QED
    BY <2>1, <2>2
<1>7. ASSUME Calm PROVE Gone' /\ Begun' /\ Sweeps'
  <2>0. SweepOf(p)
    BY <1>7 DEF Sweeps
  <2>1. Gone' /\ \A q \in Res : Over(q) => Over(q)'
    <3>1. CASE lease' = lease
      BY <1>0, <1>7, <3>1, GoneStays
    <3>2. CASE CanUpdate(r, status) /\ UpdateLeaseStatus(r, status)
      <4>1. status \in Settled => pc[p] = "persist"
        BY <1>0 DEF Settled
      <4>2. r \in Executions /\ status \in Settled => Done(r)
        BY <4>1, <2>0 DEF SweepOf
      <4>3. r \in Worktrees /\ status \in Settled => r \notin tree
        BY <4>1, <2>0 DEF SweepOf
      <4>4. r \in Sandboxes => \A e \in Executions : Over(e)
        BY <1>0, <2>0 DEF SweepOf, Tiers, TierOf, Looping, Handling, Tier
      <4> HIDE DEF status, r
      <4> QED
        BY <1>0, <1>2, <1>7, <1>s, <3>2, <4>2, <4>3, <4>4, GoneKept
    <3> QED
      BY <1>1, <3>1, <3>2
  <2>2. Begun'
    <3>1. CASE p = Owner
      <4>1. job[Owner].next = "work" => Verifying
        BY <1>0, <3>1 DEF Verifying, Looping, Handling
      <4>2. ASSUME job[Owner].next = "work", NEW x \in held
            PROVE  \/ lease'[x].status = "active"
                   \/ /\ lease'[x].status \notin Settled
                      /\ x \in job'[Owner].todo \cup job'[Owner].bad
        <5>1. \/ lease[x].status = "active"
              \/ /\ lease[x].status \notin Settled
                 /\ x \in job[Owner].todo \cup job[Owner].bad
          BY <1>7, <4>1, <4>2 DEF Begun
        <5>2. x \in Res
          BY DEF Res
        <5>3. CASE x # r
          BY <1>1, <1>5, <3>1, <5>1, <5>2, <5>3
        <5>4. CASE x = r
          <6>1. pc[p] = "mark_failed"
            BY <1>0, <3>1, <5>4 DEF Own
          <6>2. lease'[x].status \notin Settled
            BY <1>5, <5>1, <5>2, <6>1 DEF Settled
          <6>3. x \in job'[Owner].bad
            BY <1>1, <3>1, <5>4, <6>1
          <6> QED
            BY <6>2, <6>3
        <5> QED
          BY <5>3, <5>4
      <4>3. job[Owner].next = "work" => \A e \in Executions : Over(e)'
        BY <1>7, <2>1, <4>1 DEF Begun, Res
      <4> QED
        BY <1>0, <3>1, <4>2, <4>3 DEF Begun, Making, Executing, Verifying
    <3>2. CASE p # Owner
      BY <1>4, <1>7, <3>2 DEF Begun, Making, Executing, Verifying, Looping, Handling
    <3> QED
      BY <3>1, <3>2
  <2>3. SweepOf(p)'
    <3>1. ASSUME NEW e \in Executions PROVE Over(e)' \/ e \in job'[p].todo \cup job'[p].bad
      <4>1. e \in Res /\ (Over(e) \/ e \in job[p].todo \cup job[p].bad)
        BY <1>0, <2>0 DEF SweepOf, Looping, Handling, Res
      <4>2. CASE Over(e)
        BY <2>1, <4>1, <4>2
      <4>3. CASE e # r /\ e \in job[p].todo \cup job[p].bad
        BY <1>1, <4>3
      <4>4. CASE e = r
        <5>1. CASE r \in job'[p].bad
          BY <4>4, <5>1
        <5>2. CASE pc[p] = "persist" /\ UpdateLeaseStatus(r, status)
          BY <1>2, <1>s, <4>4, <5>2, StatusWritten DEF Over
        <5> QED
          BY <1>1, <5>1, <5>2
      <4> QED
        BY <4>1, <4>2, <4>3, <4>4
    <3> QED
      BY <1>0, <3>1 DEF SweepOf
  <2>4. Sweeps'
    BY <1>0, <1>5, <1>7, <2>1, <2>3, SweepsKept
  <2> QED
    BY <2>1, <2>2, <2>4
<1> QED
  BY <1>4, <1>6, <1>7

\* A cleanup is over: calm is kept.
LEMMA CalmFinishCleanup ==
  ASSUME Shape, Shape', Safe, Undisturbed, NEW p \in Procs, FinishCleanup(p)
  PROVE  Undisturbed'
<1> USE ResourcesAssumption, Processes DEF Undisturbed, Shape, TypeOK
<1>j. job[p] \in Job
  OBVIOUS
<1>0. /\ pc[p] = "pick" /\ pc'[p] \in {"work", "present", "down", "idle", "fail"}
      /\ pc'[p] = "work" => job[p].next = "work" /\ job[p].bad = {}
      /\ \A q \in Procs \ {p} : pc'[q] = pc[q] /\ job'[q] = job[q]
      /\ UNCHANGED <<run, lease, tree, box, held, raced>>
  BY <1>j DEF FinishCleanup, Goto, Job
<1>1. TierOf(p)'
  BY <1>0 DEF TierOf, Handling
<1>2. /\ Terms' /\ Tiers' /\ (Calm' <=> Calm)
      /\ Calm /\ p # Owner => pc[Owner] = "down" /\ pc'[Owner] = "down"
  BY <1>0, <1>1, CleanupMoves DEF Cleaning, Looping
<1>3. Own'
  <2>1. CASE p = Owner
    BY <1>0, <2>1 DEF Own, ExecLabels
  <2>2. CASE p # Owner
    BY <1>0, <2>2, OwnKept
  <2> QED
    BY <2>1, <2>2
<1>4. ASSUME Calm PROVE Gone' /\ Begun' /\ Sweeps'
  <2>1. Gone' /\ \A q \in Res : Over(q)' = Over(q)
    BY <1>0, <1>4, GoneStays
  <2>2. SweepOf(p)'
    BY <1>0 DEF SweepOf, Looping, Handling
  <2>3. Sweeps'
    BY <1>0, <1>4, <2>1, <2>2, SweepsKept
  <2>4. Begun'
    <3>1. CASE p = Owner /\ pc'[Owner] = "work"
      <4>1. Verifying /\ job[Owner].bad = {}
        BY <1>0, <3>1 DEF Verifying, Looping
      <4>2. job[Owner].todo = {}
        <5>1. \A r : r \notin Candidates(Owner)
          BY <3>1 DEF FinishCleanup
        <5>2. \A r \in job[Owner].todo : Tier(r) \in {1, 2, 3}
          BY DEF Tier
        <5>3. \A r \in job[Owner].todo : Tier(r) # 1
          BY <4>1, <5>1, <5>2 DEF Candidates
        <5>4. \A r \in job[Owner].todo : Tier(r) # 2
          BY <4>1, <5>1, <5>2, <5>3 DEF Candidates
        <5>5. \A r \in job[Owner].todo : Tier(r) # 3
          BY <4>1, <5>1, <5>2, <5>3, <5>4 DEF Candidates
        <5> QED
          BY <5>2, <5>3, <5>4, <5>5
      <4>3. \A x \in held' : lease'[x].status = "active"
        BY <1>0, <1>4, <4>1, <4>2 DEF Begun
      <4>4. \A e \in Executions : Over(e)'
        BY <1>4, <2>1, <4>1 DEF Begun, Res
      <4> QED
        BY <3>1, <4>3, <4>4 DEF Begun, Making, Executing, Verifying, Looping, Handling
    <3>2. CASE p = Owner /\ pc'[Owner] # "work"
      BY <1>0, <3>2 DEF Begun, Making, Executing, Verifying, Looping, Handling
    <3>3. CASE p # Owner
      BY <1>2, <1>4, <3>3 DEF Begun, Making, Executing, Verifying, Looping, Handling
    <3> QED
      BY <3>1, <3>2, <3>3
  <2> QED
    BY <2>1, <2>3, <2>4
<1> QED
  BY <1>2, <1>3, <1>4

\* A step of a command before it cleans up leaves the resources alone.
LEMMA CommandMoves ==
  ASSUME Shape, Shape', Undisturbed, NEW c \in Cleaners, Terms', Calm' => Calm,
         pc'[c] \notin Looping,
         \A q \in Procs \ {c} : pc'[q] = pc[q] /\ job'[q] = job[q],
         UNCHANGED <<lease, tree, box, held>>
  PROVE  Undisturbed'
<1> USE ResourcesAssumption, Processes DEF Undisturbed
<1>0. pc'[Owner] = pc[Owner] /\ job'[Owner] = job[Owner]
  OBVIOUS
<1>1. Tiers'
  BY DEF Tiers, TierOf, Tier, Looping
<1>2. Own'
  BY <1>0 DEF Own
<1>3. ASSUME Calm PROVE Gone' /\ Begun' /\ Sweeps'
  <2>1. Gone' /\ \A q \in Res : Over(q)' = Over(q)
    BY <1>3, GoneStays
  <2>2. Begun'
    BY <1>0, <1>3, <2>1 DEF Begun, Verifying, Res
  <2>3. SweepOf(c)'
    BY DEF SweepOf, Looping, Handling
  <2>4. Sweeps'
    BY <1>3, <2>1, <2>3, SweepsKept
  <2> QED
    BY <2>1, <2>2, <2>4
<1> QED
  BY <1>1, <1>2, <1>3

\* A cancel begins: calm is kept, or is over.
LEMMA CalmStartCancel ==
  ASSUME Shape, Shape', Safe, Undisturbed, NEW c \in Cancellers, StartCancel(c)
  PROVE  Undisturbed'
<1> USE ResourcesAssumption, Processes DEF Undisturbed, Shape, TypeOK
<1>c. c \in Cleaners /\ c # Owner
  BY DEF Cleaners
<1>0. /\ pc'[c] = "look" /\ job'[c].saw = run
      /\ \A q \in Procs \ {c} : pc'[q] = pc[q] /\ job'[q] = job[q]
      /\ UNCHANGED <<run, lease, tree, box, held>>
      /\ raced' = (raced \/ pc[Owner] # "down")
  BY IdleType DEF StartCancel, Goto, Job
<1>1. Terms' /\ (Calm' => Calm)
  BY <1>0, <1>c DEF Terms, Calm, Cleaning, Looping, Handling
<1> QED
  BY <1>0, <1>1, <1>c, CommandMoves DEF Looping, Handling

\* A cancel looks at what there is to do: calm is kept.
LEMMA CalmCancelLooks ==
  ASSUME Shape, Shape', Safe, Undisturbed, NEW c \in Cancellers, CancelLooks(c)
  PROVE  Undisturbed'
<1> USE ResourcesAssumption, Processes DEF Undisturbed, Shape, TypeOK
<1>c. c \in Cleaners /\ c # Owner
  BY DEF Cleaners
<1>j. job[c] \in Job
  OBVIOUS
<1>0. /\ pc[c] = "look" /\ pc'[c] \in {"idle", "save", "list"}
      /\ pc'[c] = "list" => job[c].saw = "cancelled"
      /\ \A q \in Procs \ {c} : pc'[q] = pc[q] /\ job'[q] = job[q]
      /\ UNCHANGED <<run, lease, tree, box, held, raced>>
  BY <1>j DEF CancelLooks, Goto, Job
<1>1. Terms' /\ (Calm' => Calm)
  BY <1>0, <1>c DEF Terms, Calm, Cleaning, Looping, Handling, Ended
<1> QED
  BY <1>0, <1>1, <1>c, CommandMoves DEF Looping, Handling

\* A cancel ends the run, if that is allowed: calm is kept, or is over.
LEMMA CalmCancelSaves ==
  ASSUME Shape, Shape', Safe, Undisturbed, NEW c \in Cancellers, CancelSaves(c)
  PROVE  Undisturbed'
<1> USE ResourcesAssumption, Processes DEF Undisturbed, Shape, TypeOK
<1>c. c \in Cleaners /\ c # Owner
  BY DEF Cleaners
<1>0. /\ pc[c] = "save" /\ pc'[c] \in {"idle", "list"}
      /\ pc'[c] = "list" => run' = "cancelled"
      /\ run' \in {run, "cancelled"}
      /\ \A q \in Procs \ {c} : pc'[q] = pc[q] /\ job'[q] = job[q]
      /\ UNCHANGED <<lease, tree, box, held, raced>>
  BY DEF CancelSaves, Goto
<1>1. Terms' /\ (Calm' => Calm)
  BY <1>0, <1>c DEF Terms, Calm, Cleaning, Looping, Handling, Ended
<1> QED
  BY <1>0, <1>1, <1>c, CommandMoves DEF Looping, Handling

\* A recovery fails the run that was interrupted: calm is kept.
LEMMA CalmStartRecovery ==
  ASSUME Shape, Shape', Safe, Undisturbed, NEW c \in Recoverers, StartRecovery(c)
  PROVE  Undisturbed'
<1> USE ResourcesAssumption, Processes DEF Undisturbed, Shape, TypeOK
<1>c. c \in Cleaners /\ c # Owner
  BY DEF Cleaners
<1>0. /\ pc[Owner] = "down" /\ pc'[c] = "list" /\ run' \in Ended
      /\ run \in Ended => run' = run
      /\ \A q \in Procs \ {c} : pc'[q] = pc[q] /\ job'[q] = job[q]
      /\ UNCHANGED <<lease, tree, box, held, raced>>
  BY DEF StartRecovery, Goto, Ended
<1>1. Terms' /\ (Calm' => Calm)
  BY <1>0, <1>c DEF Terms, Calm, Cleaning, Looping, Handling, Ended
<1> QED
  BY <1>0, <1>1, <1>c, CommandMoves DEF Looping, Handling

\* A command is killed: calm is kept.
LEMMA CalmCleanerCrash ==
  ASSUME Shape, Shape', Safe, Undisturbed, NEW c \in Cleaners, CleanerCrash(c)
  PROVE  Undisturbed'
<1> USE ResourcesAssumption, Processes DEF Undisturbed, Shape, TypeOK
<1>0. /\ pc'[c] = "idle"
      /\ \A q \in Procs \ {c} : pc'[q] = pc[q] /\ job'[q] = job[q]
      /\ UNCHANGED <<run, lease, tree, box, held, raced>>
  BY DEF CleanerCrash, Goto
<1>1. Terms' /\ (Calm' => Calm)
  BY <1>0 DEF Terms, Calm, Cleaning, Looping, Handling
<1> QED
  BY <1>0, <1>1, CommandMoves DEF Looping, Handling

\* The run begins calm.
LEMMA CalmInit == Init => Undisturbed
<1> SUFFICES ASSUME Init PROVE Undisturbed
  OBVIOUS
<1> USE ResourcesAssumption, Processes
<1>1. \A p \in Procs : pc[p] = IF p = Owner THEN "work" ELSE "idle"
  BY DEF Init
<1>2. \A r \in Res : lease[r].status = "none" /\ Over(r)
  BY DEF Init, Over
<1>3. Terms
  BY <1>1 DEF Init, Terms, Cleaning, Looping, Handling
<1>4. Tiers /\ Sweeps
  BY <1>1 DEF Tiers, TierOf, Sweeps, SweepOf, Looping, Handling
<1>5. Own
  BY <1>1 DEF Own, ExecLabels
<1>6. Gone
  BY <1>2 DEF Init, Gone, Settled, NoContainerOutlivesItsWorktree, Res
<1>7. Begun
  BY <1>1, <1>2 DEF Init, Begun, Making, Executing, Verifying, Looping, Handling, Res
<1> QED
  BY <1>3, <1>4, <1>5, <1>6, <1>7 DEF Undisturbed

\* Every step of every process preserves it.
LEMMA CalmStep == Shape /\ Safe /\ Undisturbed /\ [Next]_vars => Undisturbed'
<1> SUFFICES ASSUME Shape, Safe, Undisturbed, [Next]_vars PROVE Undisturbed'
  OBVIOUS
<1>1. Shape'
  BY ShapeStep
<1>2. CASE Next
  BY <1>1, <1>2,
     CalmSaveLease, CalmMaterialize, CalmActivate, CalmAbortWorktree, CalmPrepare,
     CalmUnprepare, CalmRefuseExecution, CalmMarkExecutionCreationDispatched,
     CalmDispatchCreate, CalmCreateAnswers, CalmBindCreatedResource,
     CalmRunAndRemove, CalmFinalizeExecution, CalmCleanupFailedExecution,
     CalmSettleFailedExecution, CalmProveFailedExecution,
     CalmPersistFailedExecution, CalmPause, CalmStartPresenting, CalmPresent,
     CalmDriverFails, CalmRehydrate, CalmResume, CalmCrash, CalmBegin,
     CalmReleaseVerifier, CalmEndRun, CalmDaemonCreates, CalmListLeases,
     CalmPickLease, CalmMarkReleasing, CalmCleanResource, CalmPersistCleanup,
     CalmFinishCleanup, CalmStartCancel, CalmCancelLooks, CalmCancelSaves,
     CalmStartRecovery, CalmCleanerCrash
     DEF Next, Driver, Cleanup
<1>3. CASE UNCHANGED vars
  BY <1>3
  DEF vars, Undisturbed, Terms, Tiers, TierOf, Tier, Own, Calm, Gone, Done, Begun, Verifying,
      Over, Sweeps, SweepOf, NoContainerOutlivesItsWorktree
<1> QED
  BY <1>2, <1>3

\* The invariant of every behaviour.
LEMMA CalmInvariant == Spec => []Undisturbed
<1>1. Init => Shape /\ Safe /\ Undisturbed
  BY ShapeInit, SafeInit, CalmInit
<1>2. Shape /\ Safe /\ Undisturbed /\ [Next]_vars => (Shape /\ Safe /\ Undisturbed)'
  BY ShapeStep, SafeStep, CalmStep
<1> QED
  BY <1>1, <1>2, PTL DEF Spec

\* The containers of a sandbox whose executions are over are gone.
LEMMA QuietSandbox ==
  ASSUME Safe, Gone, NEW s \in Sandboxes,
         \A e \in Executions : SandboxOf[e] = s => Over(e)
  PROVE  Containers(s) = {}
<1> SUFFICES ASSUME NEW e \in Executions, SandboxOf[e] = s, box[e] = "up" PROVE FALSE
  BY DEF Containers
<1>1. Over(e)
  OBVIOUS
<1>2. CASE lease[e].status \in Settled
  BY <1>2 DEF Gone, Done
<1>3. CASE lease[e].status = "none"
  BY <1>3 DEF Safe, Checkpoint, NoContainerWithoutCheckpoint, Res
<1> QED
  BY <1>1, <1>2, <1>3 DEF Over

\* cleanup_run, the executor and the restored driver settle a lease only when
\* what it stands for is gone, as long as no cancel overlaps the driver.
THEOREM SettledMeansGone == Spec => []SettledIsGone
<1>1. Safe /\ Undisturbed => SettledIsGone
  <2> SUFFICES ASSUME Safe, Undisturbed, ~raced, NEW r \in Res,
                      lease[r].status \in Settled
               PROVE  Absent(r)
    BY DEF SettledIsGone
  <2>1. Gone
    BY DEF Undisturbed, Calm
  <2>2. CASE r \in Executions
    BY <2>1, <2>2 DEF Absent, Gone, Done
  <2>3. CASE r \in Worktrees
    BY <2>1, <2>3, ResourcesAssumption DEF Absent, Gone, Over
  <2>4. CASE r \in Sandboxes
    <3>1. \A e \in Executions : SandboxOf[e] = r => Over(e)
      BY <2>1 DEF Gone, Settled
    <3>2. Containers(r) = {}
      BY <2>1, <2>4, <3>1, QuietSandbox
    <3> QED
      BY <2>4, <3>2, ResourcesAssumption DEF Absent
  <2> QED
    BY <2>2, <2>3, <2>4 DEF Res
<1> QED
  BY <1>1, Invariant, CalmInvariant, PTL

\* cleanup_run never removes a worktree under a container that mounts it, as
\* long as no cancel overlaps the driver: "Never destroy a parent sandbox or
\* worktree until every dependent child resource ... has been proven absent".
THEOREM TiersProtect == Spec => []TiersProtectContainers
<1>1. Undisturbed => TiersProtectContainers
  BY DEF Undisturbed, Calm, Gone, TiersProtectContainers
<1> QED
  BY <1>1, CalmInvariant, PTL

\* A step that presents the run presents a clean one; a presented run stays clean.
LEMMA ReadyStep == Shape /\ Safe /\ Undisturbed /\ ReadyRunIsClean /\ [Next]_vars => ReadyRunIsClean'
<1> SUFFICES ASSUME Shape, Safe, Undisturbed, ReadyRunIsClean, [Next]_vars, run' = "ready"
             PROVE  (/\ Outstanding = {} /\ tree = {}
                     /\ \A e \in Executions : box[e] \notin {"asked", "up"})'
  BY DEF ReadyRunIsClean
<1> USE ResourcesAssumption, Processes DEF Shape, TypeOK
<1>1. CASE run = "ready"
  <2>1. Outstanding = {} /\ tree = {} /\ \A e \in Executions : box[e] \notin {"asked", "up"}
    BY <1>1 DEF ReadyRunIsClean
  <2>2. pc[Owner] = "down" /\ \A p \in Procs : pc[p] \notin Cleaning
    BY <1>1 DEF Undisturbed, Terms, Ended, Procs, Cleaning, Looping, Handling
  <2>3. UNCHANGED <<lease, tree, box>>
    <3>1. \A e \in Executions : ~DaemonCreates(e)
      BY <2>1 DEF DaemonCreates
    <3>2. \A p \in Procs : ~Cleanup(p)
      BY <2>2
      DEF Cleanup, ListLeases, PickLease, MarkReleasing, CleanResource, PersistCleanup,
          FinishCleanup, Cleaning, Looping, Handling
    <3>3. Driver => UNCHANGED <<lease, tree, box>>
      BY <2>2
      DEF Driver, Begin, SaveLease, Materialize, Activate, AbortWorktree, Prepare,
          Unprepare, RefuseExecution, MarkExecutionCreationDispatched, DispatchCreate,
          CreateAnswers, BindCreatedResource, RunAndRemove, FinalizeExecution,
          CleanupFailedExecution, SettleFailedExecution, ProveFailedExecution,
          PersistFailedExecution, ReleaseVerifier, Pause, StartPresenting, Present,
          DriverFails, EndRun, Rehydrate, Resume, Crash
    <3> QED
      BY <3>1, <3>2, <3>3
      DEF Next, StartCancel, CancelLooks, CancelSaves, StartRecovery, CleanerCrash, vars
  <2> QED
    BY <2>1, <2>3 DEF Outstanding
<1>2. CASE run # "ready"
  <2>1. Present
    <3>1. \A p \in Procs : Cleanup(p) => UNCHANGED run
      BY DEF Cleanup, ListLeases, PickLease, MarkReleasing, CleanResource, PersistCleanup,
             FinishCleanup
    <3>2. Driver => Present
      BY <1>2
      DEF Driver, Begin, SaveLease, Materialize, Activate, AbortWorktree, Prepare,
          Unprepare, RefuseExecution, MarkExecutionCreationDispatched, DispatchCreate,
          CreateAnswers, BindCreatedResource, RunAndRemove, FinalizeExecution,
          CleanupFailedExecution, SettleFailedExecution, ProveFailedExecution,
          PersistFailedExecution, ReleaseVerifier, Pause, StartPresenting,
          DriverFails, EndRun, Ended, Rehydrate, Resume, Crash
    <3> QED
      BY <1>2, <3>1, <3>2
      DEF Next, DaemonCreates, StartCancel, CancelLooks, CancelSaves, StartRecovery,
          CleanerCrash, Ended, vars
  <2>2. Outstanding = {} /\ UNCHANGED <<lease, tree, box>> /\ run = "running"
    BY <1>2, <2>1 DEF Present, CanSaveRun, Ended
  <2>3. Gone
    BY <2>2 DEF Undisturbed, Calm, Ended
  <2>4. \A r \in Res : Over(r)
    BY <2>2 DEF Outstanding, Over
  <2>5. tree = {}
    BY <2>3, <2>4 DEF Gone, Res
  <2>6. ASSUME NEW e \in Executions PROVE box[e] \notin {"asked", "up"}
    <3>1. CASE lease[e].status \in Settled
      BY <2>3, <3>1 DEF Gone, Done
    <3>2. CASE lease[e].status = "none"
      BY <3>2 DEF Safe, Checkpoint, NoContainerWithoutCheckpoint, Res
    <3> QED
      BY <2>4, <3>1, <3>2 DEF Over, Res
  <2> QED
    BY <2>2, <2>5, <2>6 DEF Outstanding
<1> QED
  BY <1>1, <1>2

\* A run that is presented has left no lease, no directory and no container
\* behind, and none can appear, whatever cancels and recoveries do meanwhile.
THEOREM PresentedRunIsClean == Spec => []ReadyRunIsClean
<1>1. Init => ReadyRunIsClean
  BY DEF Init, ReadyRunIsClean
<1> QED
  BY <1>1, ReadyStep, Invariant, CalmInvariant, PTL DEF Spec
=============================================================================
