-------------------------- MODULE Baseline_proofs --------------------------
(***************************************************************************)
(* Proofs about Baseline, for any number of command lines and sessions:    *)
(* the rows stay readable, a complete cleanup is one, a verdict is final,  *)
(* and the command is dispatched and started as the ledger allows.         *)
(***************************************************************************)
EXTENDS Baseline, TLAPS

Results == {None, "conclusive", "inconclusive"}

Row == [status : Statuses, rev : Nat, auth : {None, "available", "revoked", "consumed"},
        owner : Procs \cup {None}, dispatch : BOOLEAN, fence : Nat]

LeaseRow == [status : {None, "creating", "active", "released", "failed"},
             dispatched : BOOLEAN, handle : BOOLEAN]

ReportRow == [status : {None, "observed", "inconclusive", "recovery_required"},
              complete : BOOLEAN, gap : BOOLEAN]

Job == [rev : Nat, fence : Nat, result : Results, kind : Kinds \cup {None},
        complete : BOOLEAN, error : BOOLEAN]

\* The owner between its claim and its fence; whoever cleans up behind a fence.
Working == Owning \cup {"drain"}
Cleaning == {"clean", "remove", "finalize", "publish"}
Labels == Working \cup Cleaning \cup
  {"idle", "confirmed", "admit", "authorize", "claim", "recover", "over", "gone"}

Types ==
  /\ row \in Row
  /\ lease \in [Kinds -> LeaseRow]
  /\ observation \in Results
  /\ report \in ReportRow
  /\ worktree \in BOOLEAN /\ container \in {None, "asked", "up"} /\ starts \in Nat
  /\ guard \in Procs \cup {None}
  /\ pc \in [Procs -> Labels]
  /\ job \in [Procs -> Job]

\* The execution has not been fenced, and nobody has reported on it.
Unfenced == row.status \in {"planned", "revoked", "owned", "executing"}

\* Who may do what: the owner works only with its claim; whoever cleans up is the
\* owner, or the owner has ended; and after a report the owner does nothing more.
Roles ==
  /\ \A p \in Procs : pc[p] \in Working => HasClaim(p)
  /\ \A p \in Procs : pc[p] \in Cleaning => ~Unfenced /\ (p = row.owner \/ pc[row.owner] = "gone")
  /\ \A p \in Procs : pc[p] = "recover" => row.owner # None
  /\ Unfenced <=> row.fence = 0
  /\ report.status # None => ~Unfenced /\ pc[row.owner] \in {"over", "gone"}

\* What the owner has done by its label, and that it holds the gateway's guard from
\* there on; nobody has done anything before the claim.
Dispatching == {"dispatch", "mark", "create", "created", "bind", "start", "record"}
Progress ==
  /\ row.owner = None => \A k \in Kinds : lease[k] = NoLease
  /\ row.owner = None => starts = 0
  /\ \A p \in Procs :
       /\ pc[p] = "workspace" => lease["workspace"] = NoLease
       /\ pc[p] \in {"materialize", "materialized"} => lease["workspace"].status = "creating"
       /\ pc[p] \in {"workspace", "materialize", "materialized", "sandbox"}
            => lease["sandbox"] = NoLease
       /\ pc[p] = "prepared" => lease["workspace"].status = "active"
       /\ pc[p] \in {"mark", "create", "created", "bind"}
            => lease["execution"].status = "creating" /\ ~lease["execution"].handle
       /\ pc[p] \in {"create", "created", "bind"} => lease["execution"].dispatched
       /\ pc[p] \in {"start", "record"} => lease["execution"].handle /\ row.dispatch
       /\ pc[p] = "bind" => container = "up"
       /\ pc[p] \in Owning \ {"record"} => starts = 0
       /\ pc[p] \in Dispatching => guard = p /\ "command" \notin edits

\* What is settled, or was never begun, is not there; and what a proof of absence
\* rests on: nothing is asked of the daemon before it is recorded, nor is an answer
\* out once it is kept.
Absence ==
  /\ lease["execution"].status \in {None, "released"} => container = None
  /\ ~lease["execution"].dispatched => container = None
  /\ lease["execution"].handle => container # "asked"
  /\ lease["workspace"].status \in {None, "released"} => ~worktree
  /\ \A p \in Procs : pc[p] = "finalize" /\ job[p].complete =>
       /\ job[p].kind = "execution" => container = None
       /\ job[p].kind = "workspace" => ~worktree

\* An error is known only to the owner, and an inconclusive report has its reason.
Reasons ==
  /\ \A p \in Procs : job[p].error => p = row.owner
  /\ report.status = "inconclusive" => observation # "conclusive" \/ report.gap

Agreement == OwnerAgrees /\ SnapshotAgrees /\ ObservationAgrees /\ ReportAgrees

Inv == Types /\ Roles /\ Progress /\ Absence /\ Reasons /\ Agreement

\* A new revision changes nothing else of the row.
LEMMA BumpedRow ==
  ASSUME Types
  PROVE  /\ Bumped \in Row
         /\ Bumped.status = row.status /\ Bumped.auth = row.auth /\ Bumped.owner = row.owner
         /\ Bumped.dispatch = row.dispatch /\ Bumped.fence = row.fence
  BY DEF Types, Row, Bumped

\* Every way the store writes the row leaves a row.
LEMMA RowFields ==
  ASSUME NEW r \in Row
  PROVE  /\ \A s \in Statuses : [r EXCEPT !.status = s] \in Row
         /\ \A a \in {None, "available", "revoked", "consumed"} : [r EXCEPT !.auth = a] \in Row
         /\ \A s \in Statuses, a \in {None, "available", "revoked", "consumed"} :
              [r EXCEPT !.status = s, !.auth = a] \in Row
         /\ \A s \in Statuses, a \in {None, "available", "revoked", "consumed"}, p \in Procs :
              [r EXCEPT !.status = s, !.auth = a, !.owner = p] \in Row
         /\ \A s \in Statuses, b \in BOOLEAN : [r EXCEPT !.status = s, !.dispatch = b] \in Row
         /\ \A s \in Statuses, n \in Nat : [r EXCEPT !.status = s, !.fence = n] \in Row
<1>1. \A s \in Statuses : [r EXCEPT !.status = s] \in Row
  BY DEF Row
<1>2. \A a \in {None, "available", "revoked", "consumed"} : [r EXCEPT !.auth = a] \in Row
  BY DEF Row
<1>3. \A s \in Statuses, a \in {None, "available", "revoked", "consumed"} :
              [r EXCEPT !.status = s, !.auth = a] \in Row
  BY DEF Row
<1>4. \A s \in Statuses, a \in {None, "available", "revoked", "consumed"}, p \in Procs :
              [r EXCEPT !.status = s, !.auth = a, !.owner = p] \in Row
  BY DEF Row
<1>5. \A s \in Statuses, b \in BOOLEAN : [r EXCEPT !.status = s, !.dispatch = b] \in Row
  BY DEF Row
<1>6. \A s \in Statuses, n \in Nat : [r EXCEPT !.status = s, !.fence = n] \in Row
  BY DEF Row
<1> QED
  BY <1>1, <1>2, <1>3, <1>4, <1>5, <1>6

\* Every way the store writes a lease leaves a lease.
LEMMA LeaseFields ==
  ASSUME lease \in [Kinds -> LeaseRow], NEW k \in Kinds
  PROVE  /\ lease[k] \in LeaseRow
         /\ \A l \in LeaseRow : [lease EXCEPT ![k] = l] \in [Kinds -> LeaseRow]
         /\ \A s \in {None, "creating", "active", "released", "failed"} :
              /\ [lease[k] EXCEPT !.status = s] \in LeaseRow
              /\ [lease[k] EXCEPT !.status = s, !.handle = TRUE] \in LeaseRow
              /\ [NoLease EXCEPT !.status = s] \in LeaseRow
         /\ [lease[k] EXCEPT !.dispatched = TRUE] \in LeaseRow
  BY DEF LeaseRow, NoLease, None

\* Every way a process notes something leaves a job.
LEMMA JobFields ==
  /\ NoJob \in Job
  /\ \A n \in Nat, b \in BOOLEAN : [NoJob EXCEPT !.fence = n, !.error = b] \in Job
  /\ \A b \in BOOLEAN : [NoJob EXCEPT !.error = b] \in Job
  /\ \A j \in Job :
       /\ j.error \in BOOLEAN /\ j.complete \in BOOLEAN /\ j.fence \in Nat /\ j.result \in Results
       /\ \A n \in Nat : [j EXCEPT !.rev = n] \in Job
       /\ \A r \in Results : [j EXCEPT !.result = r] \in Job
       /\ \A k \in Kinds : [j EXCEPT !.kind = k] \in Job
       /\ \A b \in BOOLEAN : [j EXCEPT !.complete = b] \in Job
  BY DEF Job, NoJob, Results, None, Kinds
\* Before the review is authorized the invariant holds.
LEMMA InvInit == Init => Inv
<1> SUFFICES ASSUME Init PROVE Inv
  OBVIOUS
<1>1. Types
  <2>1. row \in Row
    BY DEF Init, Row, Statuses
  <2>2. lease \in [Kinds -> LeaseRow] /\ report \in ReportRow
    BY DEF Init, LeaseRow, ReportRow, NoLease, NoReport
  <2>3. pc \in [Procs -> Labels] /\ job \in [Procs -> Job]
    BY JobFields DEF Init, Labels
  <2> QED
    BY <2>1, <2>2, <2>3 DEF Init, Types, Results
<1>2. Roles /\ Progress
  BY BaselineAssumption
  DEF Init, Roles, Unfenced, HasClaim, Working, Owning, Cleaning, Progress, Dispatching,
      NoReport
<1>3. Absence /\ Reasons
  BY DEF Init, Absence, Reasons, NoLease, NoReport, NoJob, None
<1>4. Agreement
  BY BaselineAssumption
  DEF Init, Agreement, OwnerAgrees, SnapshotAgrees, ObservationAgrees, ReportAgrees, Before,
      Kinds, NoLease, NoReport, None
<1> QED
  BY <1>1, <1>2, <1>3, <1>4 DEF Inv

\* The review runs out of time.
LEMMA StepExpire ==
  ASSUME Inv, Expire
  PROVE  Inv'
<1> USE BaselineAssumption
    DEF Inv, Types, None, Row, Expire, storeVars, worldVars, Working, Cleaning, Owning
<1>1. Types'
  BY DEF ReportRow, Statuses, Results, LeaseRow, Job, Labels, Kinds
<1>2. Roles'
  BY DEF Roles, Unfenced, HasClaim
<1>3. Progress'
  BY DEF Progress, NoLease, Dispatching, Kinds, HasClaim, Unfenced, Roles
<1>4. Absence'
  BY DEF Absence, Progress, Dispatching, Roles, Unfenced, HasClaim, Kinds
<1>5. Reasons'
  BY DEF Reasons, Roles, HasClaim, Unfenced
<1>6. Agreement'
  BY DEF Agreement, OwnerAgrees, SnapshotAgrees, ObservationAgrees, ReportAgrees, Roles,
         Progress, HasClaim, Unfenced, Left, Released, Before, Kinds, NoLease
<1> QED
  BY <1>1, <1>2, <1>3, <1>4, <1>5, <1>6 DEF Inv

\* Something changes since the review: the guard that is held excludes the commands.
LEMMA StepEdit ==
  ASSUME Inv, NEW by, Edit(by)
  PROVE  Inv'
<1> USE BaselineAssumption
    DEF Inv, Types, None, Row, Edit, storeVars, worldVars, Working, Cleaning, Owning
<1>1. Types'
  BY DEF ReportRow, Statuses, Results, LeaseRow, Job, Labels, Kinds
<1>2. Roles'
  BY DEF Roles, Unfenced, HasClaim
<1>3. Progress'
  BY DEF Progress, NoLease, Dispatching, Kinds, HasClaim, Unfenced, Roles
<1>4. Absence'
  BY DEF Absence, Progress, Dispatching, Roles, Unfenced, HasClaim, Kinds
<1>5. Reasons'
  BY DEF Reasons, Roles, HasClaim, Unfenced
<1>6. Agreement'
  BY DEF Agreement, OwnerAgrees, SnapshotAgrees, ObservationAgrees, ReportAgrees, Roles,
         Progress, HasClaim, Unfenced, Left, Released, Before, Kinds, NoLease
<1> QED
  BY <1>1, <1>2, <1>3, <1>4, <1>5, <1>6 DEF Inv

\* The review is revoked before anybody owns it.
LEMMA StepRevoke ==
  ASSUME Inv, Revoke
  PROVE  Inv'
<1>1. Types'
  <2> DEFINE a == IF Bumped.auth = "available" THEN "revoked" ELSE Bumped.auth
  <2>1. a \in {None, "available", "revoked", "consumed"}
    BY BumpedRow DEF Inv, Row
  <2>2. [Bumped EXCEPT !.status = "revoked", !.auth = a] \in Row
    BY <2>1, BumpedRow, RowFields DEF Inv, Statuses
  <2> QED
    BY <2>2 DEF Inv, Types, Revoke, worldVars
<1> USE BaselineAssumption
    DEF Inv, Types, None, Row, Revoke, worldVars, Unfenced, HasClaim, Working, Cleaning,
        Owning, Bumped
<1>2. Roles'
  BY DEF Roles
<1>3. Progress'
  BY DEF Progress, NoLease, Dispatching, Kinds, Roles
<1>4. Absence'
  BY DEF Absence, Progress, Dispatching, Roles, Kinds
<1>5. Reasons'
  BY DEF Reasons, Roles
<1>6. Agreement'
  BY DEF Agreement, OwnerAgrees, SnapshotAgrees, ObservationAgrees, ReportAgrees, Roles,
         Progress, Left, Released, Before, Kinds, NoLease
<1> QED
  BY <1>1, <1>2, <1>3, <1>4, <1>5, <1>6 DEF Inv

\* A session confirms.
LEMMA StepConfirm ==
  ASSUME Inv, NEW p \in Procs, Confirm(p)
  PROVE  Inv'
<1> USE BaselineAssumption
    DEF Inv, Types, None, Row, Confirm, Goto, At, worldVars, Working, Cleaning, Owning,
        CanAuthorize, SessionAdmission, AsReviewed
<1>1. Types'
  BY DEF ReportRow, Statuses, Results, LeaseRow, Job, Labels, Kinds
<1>2. Roles'
  BY DEF Roles, Unfenced, HasClaim
<1>3. Progress'
  BY DEF Progress, NoLease, Dispatching, Kinds, HasClaim, Unfenced, Roles
<1>4. Absence'
  BY DEF Absence, Progress, Dispatching, Roles, Unfenced, HasClaim, Kinds
<1>5. Reasons'
  BY DEF Reasons, Roles, HasClaim, Unfenced
<1>6. Agreement'
  BY DEF Agreement, OwnerAgrees, SnapshotAgrees, ObservationAgrees, ReportAgrees, Roles,
         Progress, HasClaim, Unfenced, Left, Released, Before, Kinds, NoLease
<1> QED
  BY <1>1, <1>2, <1>3, <1>4, <1>5, <1>6 DEF Inv

\* A run looks at the review.
LEMMA StepLook ==
  ASSUME Inv, NEW p \in Procs, Look(p)
  PROVE  Inv'
<1> USE BaselineAssumption
    DEF Inv, Types, None, Row, Look, Goto, At, storeVars, worldVars, Working, Cleaning,
        Owning
<1>1. Types'
  BY DEF ReportRow, Statuses, Results, LeaseRow, Job, Labels, Kinds
<1>2. Roles'
  BY DEF Roles, Unfenced, HasClaim
<1>3. Progress'
  BY DEF Progress, NoLease, Dispatching, Kinds, HasClaim, Unfenced, Roles
<1>4. Absence'
  BY DEF Absence, Progress, Dispatching, Roles, Unfenced, HasClaim, Kinds
<1>5. Reasons'
  BY DEF Reasons, Roles, HasClaim, Unfenced
<1>6. Agreement'
  BY DEF Agreement, OwnerAgrees, SnapshotAgrees, ObservationAgrees, ReportAgrees, Roles,
         Progress, HasClaim, Unfenced, Left, Released, Before, Kinds, NoLease
<1> QED
  BY <1>1, <1>2, <1>3, <1>4, <1>5, <1>6 DEF Inv

\* A run takes the guard.
LEMMA StepAdmit ==
  ASSUME Inv, NEW p \in Procs, Admit(p)
  PROVE  Inv'
<1> USE BaselineAssumption
    DEF Inv, Types, None, Row, Admit, Goto, At, storeVars, worldVars, Working, Cleaning,
        Owning, AsReviewed
<1>1. Types'
  BY DEF ReportRow, Statuses, Results, LeaseRow, Job, Labels, Kinds
<1>2. Roles'
  BY DEF Roles, Unfenced, HasClaim
<1>3. Progress'
  BY DEF Progress, NoLease, Dispatching, Kinds, HasClaim, Unfenced, Roles
<1>4. Absence'
  BY DEF Absence, Progress, Dispatching, Roles, Unfenced, HasClaim, Kinds
<1>5. Reasons'
  BY DEF Reasons, Roles, HasClaim, Unfenced
<1>6. Agreement'
  BY DEF Agreement, OwnerAgrees, SnapshotAgrees, ObservationAgrees, ReportAgrees, Roles,
         Progress, HasClaim, Unfenced, Left, Released, Before, Kinds, NoLease
<1> QED
  BY <1>1, <1>2, <1>3, <1>4, <1>5, <1>6 DEF Inv

\* A run authorizes.
LEMMA StepAuthorize ==
  ASSUME Inv, NEW p \in Procs, Authorize(p)
  PROVE  Inv'
<1> USE BaselineAssumption
    DEF Inv, Types, None, Row, Authorize, Goto, At, worldVars, Working, Cleaning, Owning,
        CanAuthorize
<1>1. Types'
  BY DEF ReportRow, Statuses, Results, LeaseRow, Job, Labels, Kinds
<1>2. Roles'
  BY DEF Roles, Unfenced, HasClaim
<1>3. Progress'
  BY DEF Progress, NoLease, Dispatching, Kinds, HasClaim, Unfenced, Roles
<1>4. Absence'
  BY DEF Absence, Progress, Dispatching, Roles, Unfenced, HasClaim, Kinds
<1>5. Reasons'
  BY DEF Reasons, Roles, HasClaim, Unfenced
<1>6. Agreement'
  BY DEF Agreement, OwnerAgrees, SnapshotAgrees, ObservationAgrees, ReportAgrees, Roles,
         Progress, HasClaim, Unfenced, Left, Released, Before, Kinds, NoLease
<1> QED
  BY <1>1, <1>2, <1>3, <1>4, <1>5, <1>6 DEF Inv

\* The one claim: there is no owner yet, so nobody works and nothing has been made.
LEMMA StepClaim ==
  ASSUME Inv, NEW p \in Procs, Claim(p)
  PROVE  Inv'
<1>1. Types'
  <2>1. row' \in Row
    BY BumpedRow, RowFields DEF Inv, Types, Claim, CanClaim, Statuses
  <2>2. job' \in [Procs -> Job]
    BY JobFields DEF Inv, Types, Claim
  <2>3. pc' \in [Procs -> Labels]
    BY DEF Inv, Types, Claim, Goto, Labels, Working, Owning
  <2> QED
    BY <2>1, <2>2, <2>3, BaselineAssumption DEF Inv, Types, Claim, vars, storeVars, worldVars
<1> USE BaselineAssumption
    DEF Inv, Types, None, Row, Claim, Goto, At, worldVars, Unfenced, HasClaim, Working,
        Cleaning, Owning, CanClaim, Bumped, NoJob
<1>2. Roles'
  BY DEF Roles
<1>3. Progress'
  BY DEF Progress, NoLease, Dispatching, Kinds, Roles, Agreement, OwnerAgrees
<1>4. Absence'
  BY DEF Absence, Progress, Dispatching, Roles, Kinds
<1>5. Reasons'
  BY DEF Reasons, Roles, Agreement, OwnerAgrees
<1>6. Agreement'
  BY DEF Agreement, OwnerAgrees, SnapshotAgrees, ObservationAgrees, ReportAgrees, Roles,
         Progress, Left, Released, Before, Kinds, NoLease
<1> QED
  BY <1>1, <1>2, <1>3, <1>4, <1>5, <1>6 DEF Inv

\* A run or a recovery ends before it owns anything.
LEMMA StepRefuse ==
  ASSUME Inv, NEW p \in Procs, Refuse(p)
  PROVE  Inv'
<1> USE BaselineAssumption
    DEF Inv, Types, None, Row, Refuse, Goto, storeVars, worldVars, Working, Cleaning,
        Owning, End, Stop, Unguarded, NoJob
<1>1. Types'
  BY DEF ReportRow, Statuses, Results, LeaseRow, Job, Labels, Kinds
<1>2. Roles'
  BY DEF Roles, Unfenced, HasClaim
<1>3. Progress'
  BY DEF Progress, NoLease, Dispatching, Kinds, HasClaim, Unfenced, Roles
<1>4. Absence'
  BY DEF Absence, Progress, Dispatching, Roles, Unfenced, HasClaim, Kinds
<1>5. Reasons'
  BY DEF Reasons, Roles, HasClaim, Unfenced
<1>6. Agreement'
  BY DEF Agreement, OwnerAgrees, SnapshotAgrees, ObservationAgrees, ReportAgrees, Roles,
         Progress, HasClaim, Unfenced, Left, Released, Before, Kinds, NoLease
<1> QED
  BY <1>1, <1>2, <1>3, <1>4, <1>5, <1>6 DEF Inv

\* The lease of the workspace or the sandbox, before either.
LEMMA StepReserve ==
  ASSUME Inv, NEW p \in Procs, NEW k \in Kinds, Reserve(p, k)
  PROVE  Inv'
<1>1. Types'
  <2>1. row' \in Row
    BY BumpedRow, RowFields DEF Inv, Types, Reserve, SetLease
  <2>2. lease' \in [Kinds -> LeaseRow]
    BY LeaseFields DEF Inv, Types, Reserve, SetLease
  <2>3. pc' \in [Procs -> Labels]
    BY DEF Inv, Types, Reserve, Goto, Labels, Working, Owning
  <2> QED
    BY <2>1, <2>2, <2>3, BaselineAssumption
    DEF Inv, Types, Reserve, storeVars, worldVars, SetLease
<1> USE BaselineAssumption
    DEF Inv, Types, None, Row, Reserve, Goto, At, worldVars, Unfenced, HasClaim, Working,
        Cleaning, Owning, CanReserve, SetLease, Bumped, NoLease
<1>2. Roles'
  BY DEF Roles
<1>3. Progress'
  <2>1. CASE k = "workspace"
    BY <2>1 DEF Progress, Dispatching, Kinds, Roles
  <2>2. CASE k = "sandbox"
    BY <2>2 DEF Progress, Dispatching, Kinds, Roles
  <2> QED
    BY <2>1, <2>2 DEF Reserve
<1>4. Absence'
  BY DEF Absence, Progress, Dispatching, Roles, Kinds
<1>5. Reasons'
  BY DEF Reasons, Roles
<1>6. Agreement'
  BY DEF Agreement, OwnerAgrees, SnapshotAgrees, ObservationAgrees, ReportAgrees, Roles,
         Progress, Left, Released, Before, Kinds
<1> QED
  BY <1>1, <1>2, <1>3, <1>4, <1>5, <1>6 DEF Inv

\* The workspace is made.
LEMMA StepMaterialize ==
  ASSUME Inv, NEW p \in Procs, Materialize(p)
  PROVE  Inv'
<1> USE BaselineAssumption
    DEF Inv, Types, None, Row, Materialize, Goto, At, storeVars, Working, Cleaning, Owning
<1>1. Types'
  BY DEF ReportRow, Statuses, Results, LeaseRow, Job, Labels, Kinds
<1>2. Roles'
  BY DEF Roles, Unfenced, HasClaim
<1>3. Progress'
  BY DEF Progress, NoLease, Dispatching, Kinds, HasClaim, Unfenced, Roles
<1>4. Absence'
  BY DEF Absence, Progress, Dispatching, Roles, Unfenced, HasClaim, Kinds
<1>5. Reasons'
  BY DEF Reasons, Roles, HasClaim, Unfenced
<1>6. Agreement'
  BY DEF Agreement, OwnerAgrees, SnapshotAgrees, ObservationAgrees, ReportAgrees, Roles,
         Progress, HasClaim, Unfenced, Left, Released, Before, Kinds, NoLease
<1> QED
  BY <1>1, <1>2, <1>3, <1>4, <1>5, <1>6 DEF Inv

\* The workspace or the sandbox can be used.
LEMMA StepActivate ==
  ASSUME Inv, NEW p \in Procs, NEW k \in Kinds, Activate(p, k)
  PROVE  Inv'
<1>1. Types'
  <2>1. row' \in Row
    BY BumpedRow, RowFields DEF Inv, Types, Activate, SetLease
  <2>2. lease' \in [Kinds -> LeaseRow]
    BY LeaseFields DEF Inv, Types, Activate, SetLease
  <2>3. pc' \in [Procs -> Labels]
    BY DEF Inv, Types, Activate, Goto, Labels, Working, Owning
  <2> QED
    BY <2>1, <2>2, <2>3, BaselineAssumption
    DEF Inv, Types, Activate, storeVars, worldVars, SetLease
<1> USE BaselineAssumption
    DEF Inv, Types, None, Row, Activate, Goto, At, worldVars, Unfenced, HasClaim, Working,
        Cleaning, Owning, SetLease, Bumped
<1>2. Roles'
  BY DEF Roles
<1>3. Progress'
  <2>1. CASE k = "workspace"
    BY <2>1 DEF Progress, NoLease, Dispatching, Kinds, Roles
  <2>2. CASE k = "sandbox"
    BY <2>2 DEF Progress, NoLease, Dispatching, Kinds, Roles
  <2> QED
    BY <2>1, <2>2 DEF Activate
<1>4. Absence'
  BY DEF Absence, Progress, Dispatching, Roles, Kinds
<1>5. Reasons'
  BY DEF Reasons, Roles
<1>6. Agreement'
  BY DEF Agreement, OwnerAgrees, SnapshotAgrees, ObservationAgrees, ReportAgrees, Roles,
         Progress, Left, Released, Before, Kinds, NoLease
<1> QED
  BY <1>1, <1>2, <1>3, <1>4, <1>5, <1>6 DEF Inv

\* The gateway takes its guard and compares.
LEMMA StepEnter ==
  ASSUME Inv, NEW p \in Procs, Enter(p)
  PROVE  Inv'
<1> USE BaselineAssumption
    DEF Inv, Types, None, Row, Enter, Goto, At, storeVars, worldVars, Working, Cleaning,
        Owning, AsReviewed
<1>1. Types'
  BY DEF ReportRow, Statuses, Results, LeaseRow, Job, Labels, Kinds
<1>2. Roles'
  BY DEF Roles, Unfenced, HasClaim
<1>3. Progress'
  BY DEF Progress, NoLease, Dispatching, Kinds, HasClaim, Unfenced, Roles
<1>4. Absence'
  BY DEF Absence, Progress, Dispatching, Roles, Unfenced, HasClaim, Kinds
<1>5. Reasons'
  BY DEF Reasons, Roles, HasClaim, Unfenced
<1>6. Agreement'
  BY DEF Agreement, OwnerAgrees, SnapshotAgrees, ObservationAgrees, ReportAgrees, Roles,
         Progress, HasClaim, Unfenced, Left, Released, Before, Kinds, NoLease
<1> QED
  BY <1>1, <1>2, <1>3, <1>4, <1>5, <1>6 DEF Inv

\* The dispatch is recorded.
LEMMA StepDispatch ==
  ASSUME Inv, NEW p \in Procs, Dispatch(p)
  PROVE  Inv'
<1>1. Types'
  <2>1. row' \in Row
    BY BumpedRow, RowFields DEF Inv, Types, Dispatch, Statuses
  <2>2. lease' \in [Kinds -> LeaseRow]
    BY LeaseFields DEF Inv, Types, Dispatch, Kinds
  <2>3. pc' \in [Procs -> Labels]
    BY DEF Inv, Types, Dispatch, Goto, Labels, Working, Owning
  <2> QED
    BY <2>1, <2>2, <2>3, BaselineAssumption DEF Inv, Types, Dispatch, storeVars, worldVars
<1> USE BaselineAssumption
    DEF Inv, Types, None, Row, Dispatch, Goto, At, worldVars, Unfenced, HasClaim, Working,
        Cleaning, Owning, CanDispatch, Bumped, NoLease
<1>2. Roles'
  BY DEF Roles
<1>3. Progress'
  BY DEF Progress, Dispatching, Kinds, Roles
<1>4. Absence'
  BY DEF Absence, Progress, Dispatching, Roles, Kinds
<1>5. Reasons'
  BY DEF Reasons, Roles
<1>6. Agreement'
  BY DEF Agreement, OwnerAgrees, SnapshotAgrees, ObservationAgrees, ReportAgrees, Roles,
         Progress, Left, Released, Before, Kinds
<1> QED
  BY <1>1, <1>2, <1>3, <1>4, <1>5, <1>6 DEF Inv

\* The create is recorded before it is asked for.
LEMMA StepMarkDispatched ==
  ASSUME Inv, NEW p \in Procs, MarkDispatched(p)
  PROVE  Inv'
<1>1. Types'
  <2>1. row' \in Row
    BY BumpedRow, RowFields DEF Inv, Types, MarkDispatched, SetLease
  <2>2. lease' \in [Kinds -> LeaseRow]
    BY LeaseFields DEF Inv, Types, MarkDispatched, SetLease, Kinds
  <2>3. pc' \in [Procs -> Labels]
    BY DEF Inv, Types, MarkDispatched, Goto, Labels, Working, Owning
  <2> QED
    BY <2>1, <2>2, <2>3, BaselineAssumption
    DEF Inv, Types, MarkDispatched, storeVars, worldVars, SetLease
<1> USE BaselineAssumption
    DEF Inv, Types, None, Row, MarkDispatched, Goto, At, worldVars, Unfenced, HasClaim,
        Working, Cleaning, Owning, SetLease, Bumped
<1>2. Roles'
  BY DEF Roles
<1>3. Progress'
  BY DEF Progress, NoLease, Dispatching, Kinds, Roles
<1>4. Absence'
  BY DEF Absence, Progress, Dispatching, Roles, Kinds
<1>5. Reasons'
  BY DEF Reasons, Roles
<1>6. Agreement'
  BY DEF Agreement, OwnerAgrees, SnapshotAgrees, ObservationAgrees, ReportAgrees, Roles,
         Progress, Left, Released, Before, Kinds, NoLease
<1> QED
  BY <1>1, <1>2, <1>3, <1>4, <1>5, <1>6 DEF Inv

\* The daemon is asked: the record is there, and no identity is kept yet.
LEMMA StepCreate ==
  ASSUME Inv, NEW p \in Procs, Create(p)
  PROVE  Inv'
<1> USE BaselineAssumption
    DEF Inv, Types, None, Row, Create, Goto, At, storeVars, Working, Cleaning, Owning
<1>1. Types'
  BY DEF ReportRow, Statuses, Results, LeaseRow, Job, Labels, Kinds
<1>2. Roles'
  BY DEF Roles, Unfenced, HasClaim
<1>3. Progress'
  BY DEF Progress, NoLease, Dispatching, Kinds, HasClaim, Unfenced, Roles
<1>4. Absence'
  BY DEF Absence, Progress, Dispatching, Roles, Unfenced, HasClaim, Kinds
<1>5. Reasons'
  BY DEF Reasons, Roles, HasClaim, Unfenced
<1>6. Agreement'
  BY DEF Agreement, OwnerAgrees, SnapshotAgrees, ObservationAgrees, ReportAgrees, Roles,
         Progress, HasClaim, Unfenced, Left, Released, Before, Kinds, NoLease
<1> QED
  BY <1>1, <1>2, <1>3, <1>4, <1>5, <1>6 DEF Inv

\* The daemon answers: nothing relies on the absence of what is asked for.
LEMMA StepDaemonAnswers ==
  ASSUME Inv, DaemonAnswers
  PROVE  Inv'
<1> USE BaselineAssumption
    DEF Inv, Types, None, Row, DaemonAnswers, storeVars, Working, Cleaning, Owning
<1>1. Types'
  BY DEF ReportRow, Statuses, Results, LeaseRow, Job, Labels, Kinds
<1>2. Roles'
  BY DEF Roles, Unfenced, HasClaim
<1>3. Progress'
  BY DEF Progress, NoLease, Dispatching, Kinds, HasClaim, Unfenced, Roles
<1>4. Absence'
  BY DEF Absence, Progress, Dispatching, Roles, Unfenced, HasClaim, Kinds
<1>5. Reasons'
  BY DEF Reasons, Roles, HasClaim, Unfenced
<1>6. Agreement'
  BY DEF Agreement, OwnerAgrees, SnapshotAgrees, ObservationAgrees, ReportAgrees, Roles,
         Progress, HasClaim, Unfenced, Left, Released, Before, Kinds, NoLease
<1> QED
  BY <1>1, <1>2, <1>3, <1>4, <1>5, <1>6 DEF Inv

\* The owner sees the container.
LEMMA StepCreated ==
  ASSUME Inv, NEW p \in Procs, Created(p)
  PROVE  Inv'
<1> USE BaselineAssumption
    DEF Inv, Types, None, Row, Created, Goto, At, storeVars, worldVars, Working, Cleaning,
        Owning
<1>1. Types'
  BY DEF ReportRow, Statuses, Results, LeaseRow, Job, Labels, Kinds
<1>2. Roles'
  BY DEF Roles, Unfenced, HasClaim
<1>3. Progress'
  BY DEF Progress, NoLease, Dispatching, Kinds, HasClaim, Unfenced, Roles
<1>4. Absence'
  BY DEF Absence, Progress, Dispatching, Roles, Unfenced, HasClaim, Kinds
<1>5. Reasons'
  BY DEF Reasons, Roles, HasClaim, Unfenced
<1>6. Agreement'
  BY DEF Agreement, OwnerAgrees, SnapshotAgrees, ObservationAgrees, ReportAgrees, Roles,
         Progress, HasClaim, Unfenced, Left, Released, Before, Kinds, NoLease
<1> QED
  BY <1>1, <1>2, <1>3, <1>4, <1>5, <1>6 DEF Inv

\* Its identity is kept.
LEMMA StepBind ==
  ASSUME Inv, NEW p \in Procs, Bind(p)
  PROVE  Inv'
<1>1. Types'
  <2>1. row' \in Row
    BY BumpedRow, RowFields DEF Inv, Types, Bind, SetLease
  <2>2. lease' \in [Kinds -> LeaseRow]
    BY LeaseFields DEF Inv, Types, Bind, SetLease, Kinds
  <2>3. pc' \in [Procs -> Labels]
    BY DEF Inv, Types, Bind, Goto, Labels, Working, Owning
  <2> QED
    BY <2>1, <2>2, <2>3, BaselineAssumption
    DEF Inv, Types, Bind, storeVars, worldVars, SetLease
<1> USE BaselineAssumption
    DEF Inv, Types, None, Row, Bind, Goto, At, worldVars, Unfenced, HasClaim, Working,
        Cleaning, Owning, SetLease, Bumped
<1>2. Roles'
  BY DEF Roles
<1>3. Progress'
  BY DEF Progress, NoLease, Dispatching, Kinds, Roles, Agreement, SnapshotAgrees
<1>4. Absence'
  BY DEF Absence, Progress, Dispatching, Roles, Kinds
<1>5. Reasons'
  BY DEF Reasons, Roles
<1>6. Agreement'
  BY DEF Agreement, OwnerAgrees, SnapshotAgrees, ObservationAgrees, ReportAgrees, Roles,
         Progress, Left, Released, Before, Kinds, NoLease
<1> QED
  BY <1>1, <1>2, <1>3, <1>4, <1>5, <1>6 DEF Inv

\* The command is started.
LEMMA StepStartCommand ==
  ASSUME Inv, NEW p \in Procs, StartCommand(p)
  PROVE  Inv'
<1> USE BaselineAssumption
    DEF Inv, Types, None, Row, StartCommand, Goto, At, storeVars, Working, Cleaning, Owning
<1>1. Types'
  BY DEF ReportRow, Statuses, Results, LeaseRow, Job, Labels, Kinds
<1>2. Roles'
  BY DEF Roles, Unfenced, HasClaim
<1>3. Progress'
  BY DEF Progress, NoLease, Dispatching, Kinds, HasClaim, Unfenced, Roles
<1>4. Absence'
  BY DEF Absence, Progress, Dispatching, Roles, Unfenced, HasClaim, Kinds
<1>5. Reasons'
  BY DEF Reasons, Roles, HasClaim, Unfenced
<1>6. Agreement'
  BY DEF Agreement, OwnerAgrees, SnapshotAgrees, ObservationAgrees, ReportAgrees, Roles,
         Progress, HasClaim, Unfenced, Left, Released, Before, Kinds, NoLease
<1> QED
  BY <1>1, <1>2, <1>3, <1>4, <1>5, <1>6 DEF Inv

\* The observation is recorded, before any report.
LEMMA StepRecord ==
  ASSUME Inv, NEW p \in Procs, Record(p)
  PROVE  Inv'
<1>1. Types'
  <2>1. row' \in Row
    BY BumpedRow, RowFields DEF Inv, Types, Record
  <2>2. job' \in [Procs -> Job]
    BY JobFields DEF Inv, Types, Record
  <2>3. pc' \in [Procs -> Labels]
    BY DEF Inv, Types, Record, Goto, Labels, Working
  <2> QED
    BY <2>1, <2>2, <2>3, BaselineAssumption DEF Inv, Types, Record, storeVars, worldVars, Job
<1> USE BaselineAssumption
    DEF Inv, Types, None, Row, Record, Goto, At, worldVars, Unfenced, HasClaim, Working,
        Cleaning, Owning, Bumped
<1>2. Roles'
  BY DEF Roles
<1>3. Progress'
  BY DEF Progress, NoLease, Dispatching, Kinds, Roles
<1>4. Absence'
  BY DEF Absence, Progress, Dispatching, Roles, Kinds
<1>5. Reasons'
  BY DEF Reasons, Roles
<1>6. Agreement'
  BY DEF Agreement, OwnerAgrees, SnapshotAgrees, ObservationAgrees, ReportAgrees, Roles,
         Progress, Left, Released, Before, Kinds, NoLease
<1> QED
  BY <1>1, <1>2, <1>3, <1>4, <1>5, <1>6 DEF Inv

\* The owner fails, wherever it is.
LEMMA StepFails ==
  ASSUME Inv, NEW p \in Procs, Fails(p)
  PROVE  Inv'
<1>1. Types'
  <2>1. job' \in [Procs -> Job]
    BY JobFields DEF Inv, Types, Fails
  <2>2. pc' \in [Procs -> Labels]
    BY DEF Inv, Types, Fails, Goto, Labels, Working
  <2> QED
    BY <2>1, <2>2, BaselineAssumption DEF Inv, Types, Fails, storeVars, worldVars, Unguarded
<1> USE BaselineAssumption
    DEF Inv, Types, None, Row, Fails, Goto, At, storeVars, Unfenced, HasClaim, Working,
        Cleaning, Owning, Unguarded, NoJob
<1>2. Roles'
  BY DEF Roles
<1>3. Progress'
  BY DEF Progress, NoLease, Dispatching, Kinds, Roles
<1>4. Absence'
  BY DEF Absence, Progress, Dispatching, Roles, Kinds
<1>5. Reasons'
  BY DEF Reasons, Roles
<1>6. Agreement'
  BY DEF Agreement, OwnerAgrees, SnapshotAgrees, ObservationAgrees, ReportAgrees, Roles,
         Progress, Left, Released, Before, Kinds, NoLease
<1> QED
  BY <1>1, <1>2, <1>3, <1>4, <1>5, <1>6 DEF Inv

\* The owner fences itself.
LEMMA StepBeginCleanup ==
  ASSUME Inv, NEW p \in Procs, BeginCleanup(p)
  PROVE  Inv'
<1>1. Types'
  <2>1. row' \in Row
    <3>1. Bumped.fence + 1 \in Nat
      BY BumpedRow DEF Inv, Row
    <3>2. [Bumped EXCEPT !.status = "cleaning", !.fence = Bumped.fence + 1] \in Row
      BY <3>1, BumpedRow, RowFields DEF Inv, Statuses
    <3> QED
      BY <3>2 DEF BeginCleanup, Fence
  <2>2. job' \in [Procs -> Job]
    <3>1. row.fence + 1 \in Nat /\ job[p].error \in BOOLEAN
      BY DEF Inv, Types, Row, Job
    <3>2. [NoJob EXCEPT !.fence = row.fence + 1, !.error = job[p].error] \in Job
      BY <3>1, JobFields
    <3> QED
      BY <3>2 DEF Inv, Types, BeginCleanup, Fence
  <2>3. pc' \in [Procs -> Labels]
    BY DEF Inv, Types, BeginCleanup, Fence, Goto, Labels, Cleaning
  <2> QED
    BY <2>1, <2>2, <2>3 DEF Inv, Types, BeginCleanup, Fence, worldVars
<1> USE BaselineAssumption
    DEF Inv, Types, None, Row, BeginCleanup, Goto, At, worldVars, Unfenced, HasClaim,
        Working, Cleaning, Owning, Fence, Bumped, NoJob
<1>2. Roles'
  BY DEF Roles
<1>3. Progress'
  BY DEF Progress, NoLease, Dispatching, Kinds, Roles
<1>4. Absence'
  BY DEF Absence, Progress, Dispatching, Roles, Kinds
<1>5. Reasons'
  BY DEF Reasons, Roles
<1>6. Agreement'
  BY DEF Agreement, OwnerAgrees, SnapshotAgrees, ObservationAgrees, ReportAgrees, Roles,
         Progress, Left, Released, Before, Kinds, NoLease
<1> QED
  BY <1>1, <1>2, <1>3, <1>4, <1>5, <1>6 DEF Inv

\* An operator looks at the baseline.
LEMMA StepShow ==
  ASSUME Inv, NEW p \in Procs, Show(p)
  PROVE  Inv'
<1> USE BaselineAssumption
    DEF Inv, Types, None, Row, Show, Goto, At, storeVars, worldVars, Working, Cleaning,
        Owning
<1>1. Types'
  BY DEF ReportRow, Statuses, Results, LeaseRow, Job, Labels, Kinds
<1>2. Roles'
  BY DEF Roles, Unfenced, HasClaim
<1>3. Progress'
  BY DEF Progress, NoLease, Dispatching, Kinds, HasClaim, Unfenced, Roles
<1>4. Absence'
  BY DEF Absence, Progress, Dispatching, Roles, Unfenced, HasClaim, Kinds
<1>5. Reasons'
  BY DEF Reasons, Roles, HasClaim, Unfenced
<1>6. Agreement'
  BY DEF Agreement, OwnerAgrees, SnapshotAgrees, ObservationAgrees, ReportAgrees, Roles,
         Progress, HasClaim, Unfenced, Left, Released, Before, Kinds, NoLease
<1> QED
  BY <1>1, <1>2, <1>3, <1>4, <1>5, <1>6 DEF Inv

\* A recovery fences: the owner has ended, so nobody works.
LEMMA StepRecover ==
  ASSUME Inv, NEW p \in Procs, Recover(p)
  PROVE  Inv'
<1>1. Types'
  <2>1. row' \in Row
    <3>1. Bumped.fence + 1 \in Nat
      BY BumpedRow DEF Inv, Row
    <3>2. [Bumped EXCEPT !.status = "cleaning", !.fence = Bumped.fence + 1] \in Row
      BY <3>1, BumpedRow, RowFields DEF Inv, Statuses
    <3> QED
      BY <3>2 DEF Recover, Fence
  <2>2. job' \in [Procs -> Job]
    <3>1. row.fence + 1 \in Nat /\ job[p].error \in BOOLEAN
      BY DEF Inv, Types, Row, Job
    <3>2. [NoJob EXCEPT !.fence = row.fence + 1, !.error = job[p].error] \in Job
      BY <3>1, JobFields
    <3> QED
      BY <3>2 DEF Inv, Types, Recover, Fence
  <2>3. pc' \in [Procs -> Labels]
    BY DEF Inv, Types, Recover, Fence, Goto, Labels, Cleaning
  <2> QED
    BY <2>1, <2>2, <2>3 DEF Inv, Types, Recover, Fence, worldVars
<1> USE BaselineAssumption
    DEF Inv, Types, None, Row, Recover, Goto, At, worldVars, Unfenced, HasClaim, Working,
        Cleaning, Owning, Fence, OwnerStopped, Bumped, NoJob
<1>2. Roles'
  BY DEF Roles
<1>3. Progress'
  BY DEF Progress, NoLease, Dispatching, Kinds, Roles
<1>4. Absence'
  BY DEF Absence, Progress, Dispatching, Roles, Kinds
<1>5. Reasons'
  BY DEF Reasons, Roles
<1>6. Agreement'
  BY DEF Agreement, OwnerAgrees, SnapshotAgrees, ObservationAgrees, ReportAgrees, Roles,
         Progress, Left, Released, Before, Kinds, NoLease
<1> QED
  BY <1>1, <1>2, <1>3, <1>4, <1>5, <1>6 DEF Inv

\* The next resource to remove.
LEMMA StepSelect ==
  ASSUME Inv, NEW p \in Procs, Select(p)
  PROVE  Inv'
<1>1. Types'
  <2>1. pc' \in [Procs -> Labels]
    BY DEF Inv, Types, Select, Goto, Labels, Cleaning
  <2>2. \A k \in Kinds : [job[p] EXCEPT !.kind = k] \in Job
    BY JobFields DEF Inv, Types
  <2>3. job' \in [Procs -> Job]
    BY <2>2 DEF Inv, Types, Select, Left
  <2> QED
    BY <2>1, <2>3 DEF Inv, Types, Select, storeVars, worldVars
<1> USE BaselineAssumption
    DEF Inv, Types, None, Row, Select, Goto, At, storeVars, worldVars, Unfenced, HasClaim,
        Working, Cleaning, Owning, Left, Released, Before, Fenced
<1>2. Roles'
  BY BaselineAssumption
  DEF Inv, Types, Row, Roles, Select, Goto, At, HasClaim, Unfenced, Working, Cleaning, Owning,
      storeVars, worldVars, Agreement, OwnerAgrees, None
<1>3. Progress'
  BY DEF Progress, NoLease, Dispatching, Kinds, Roles
<1>4. Absence'
  BY DEF Absence, Progress, Dispatching, Roles, Kinds
<1>5. Reasons'
  BY DEF Inv, Types, Reasons, Select, Job, storeVars, worldVars
<1>6. Agreement'
  BY DEF Agreement, OwnerAgrees, SnapshotAgrees, ObservationAgrees, ReportAgrees, Roles,
         Progress, Kinds, NoLease
<1> QED
  BY <1>1, <1>2, <1>3, <1>4, <1>5, <1>6 DEF Inv

\* A resource is removed: a removal that calls itself complete leaves nothing, since
\* what is not listed was there once or was never asked for.
LEMMA StepRemove ==
  ASSUME Inv, NEW p \in Procs, Remove(p)
  PROVE  Inv'
<1> USE BaselineAssumption
    DEF Inv, Types, None, Row, Remove, Goto, At, storeVars, Working, Cleaning, Owning,
        Absent, ProvesAbsence
<1>1. Types'
  BY DEF ReportRow, Statuses, Results, LeaseRow, Job, Labels, Kinds
<1>2. Roles'
  BY DEF Roles, Unfenced, HasClaim
<1>3. Progress'
  BY DEF Progress, NoLease, Dispatching, Kinds, HasClaim, Unfenced, Roles
<1>4. Absence'
  <2>1. PICK complete \in BOOLEAN :
          /\ complete => CASE job[p].kind = "execution" -> ~Absent \/ ProvesAbsence(lease["execution"])
                           [] job[p].kind = "sandbox"   -> Absent
                           [] job[p].kind = "workspace" -> TRUE
          /\ job' = [job EXCEPT ![p].complete = complete]
          /\ \E removed \in {TRUE, complete} :
               /\ container' = IF removed /\ job[p].kind = "execution" /\ ~Absent THEN None ELSE container
               /\ worktree' = (worktree /\ ~(removed /\ job[p].kind = "workspace"))
    BY DEF Remove
  <2>2. PICK removed \in {TRUE, complete} :
          /\ container' = IF removed /\ job[p].kind = "execution" /\ ~Absent THEN None ELSE container
          /\ worktree' = (worktree /\ ~(removed /\ job[p].kind = "workspace"))
    BY <2>1
  <2>3. complete /\ job[p].kind = "execution" => container' = None
    BY <2>1, <2>2 DEF Inv, Types, Absence, Absent, ProvesAbsence, LeaseRow
  <2>4. complete /\ job[p].kind = "workspace" => ~worktree'
    BY <2>2
  <2>5. container' \in {container, None} /\ (worktree' => worktree)
    BY <2>2 DEF Inv, Types
  <2>6. /\ job'[p].kind = job[p].kind /\ job'[p].complete = complete
        /\ \A q \in Procs \ {p} : job'[q] = job[q] /\ pc'[q] = pc[q]
        /\ UNCHANGED lease
    BY <2>1 DEF Inv, Types, Job, Remove, Goto, storeVars
  <2> QED
    BY <2>3, <2>4, <2>5, <2>6 DEF Inv, Absence, None
<1>5. Reasons'
  BY DEF Reasons, Roles, HasClaim, Unfenced
<1>6. Agreement'
  BY DEF Agreement, OwnerAgrees, SnapshotAgrees, ObservationAgrees, ReportAgrees, Roles,
         Progress, HasClaim, Unfenced, Left, Released, Before, Kinds, NoLease
<1> QED
  BY <1>1, <1>2, <1>3, <1>4, <1>5, <1>6 DEF Inv

\* What the removal says is recorded.
LEMMA StepFinalize ==
  ASSUME Inv, NEW p \in Procs, Finalize(p)
  PROVE  Inv'
<1>1. Types'
  <2>1. row' \in Row
    BY BumpedRow, RowFields DEF Inv, Types, Finalize, SetLease
  <2>2. lease' \in [Kinds -> LeaseRow]
    BY LeaseFields DEF Inv, Types, Finalize, SetLease, Left
  <2>3. job' \in [Procs -> Job]
    BY JobFields DEF Inv, Types, Finalize, Settled
  <2>4. pc' \in [Procs -> Labels]
    BY DEF Inv, Types, Finalize, Goto, Labels, Cleaning
  <2> QED
    BY <2>1, <2>2, <2>3, <2>4, BaselineAssumption
    DEF Inv, Types, Finalize, storeVars, worldVars, SetLease
<1> USE BaselineAssumption
    DEF Inv, Types, None, Row, Finalize, Goto, At, worldVars, Unfenced, HasClaim, Working,
        Cleaning, Owning, Fenced, SetLease, Bumped, Settled, NoJob, Left
<1>2. Roles'
  BY DEF Roles
<1>3. Progress'
  BY DEF Progress, NoLease, Dispatching, Kinds, Roles
<1>4. Absence'
  BY DEF Absence, Progress, Dispatching, Roles, Kinds
<1>5. Reasons'
  BY DEF Reasons, Roles
<1>6. Agreement'
  BY DEF Agreement, OwnerAgrees, SnapshotAgrees, ObservationAgrees, ReportAgrees, Roles,
         Progress, Released, Before, Kinds, NoLease
<1> QED
  BY <1>1, <1>2, <1>3, <1>4, <1>5, <1>6 DEF Inv

\* The cleanup cannot go on.
LEMMA StepCleanupFails ==
  ASSUME Inv, NEW p \in Procs, CleanupFails(p)
  PROVE  Inv'
<1>1. Types'
  <2>1. job' \in [Procs -> Job]
    BY JobFields DEF Inv, Types, CleanupFails, Settled
  <2>2. pc' \in [Procs -> Labels]
    BY DEF Inv, Types, CleanupFails, Goto, Labels, Cleaning
  <2> QED
    BY <2>1, <2>2, BaselineAssumption DEF Inv, Types, CleanupFails, vars, storeVars, worldVars
<1> USE BaselineAssumption
    DEF Inv, Types, None, Row, CleanupFails, Goto, storeVars, worldVars, Unfenced, HasClaim,
        Working, Cleaning, Owning, Settled, NoJob
<1>2. Roles'
  BY DEF Roles
<1>3. Progress'
  BY DEF Progress, NoLease, Dispatching, Kinds, Roles
<1>4. Absence'
  BY DEF Absence, Progress, Dispatching, Roles, Kinds
<1>5. Reasons'
  BY DEF Reasons, Roles
<1>6. Agreement'
  BY DEF Agreement, OwnerAgrees, SnapshotAgrees, ObservationAgrees, ReportAgrees, Roles,
         Progress, Left, Released, Before, Kinds, NoLease
<1> QED
  BY <1>1, <1>2, <1>3, <1>4, <1>5, <1>6 DEF Inv

\* The report is written over the records.
LEMMA StepPublish ==
  ASSUME Inv, NEW p \in Procs, Publish(p)
  PROVE  Inv'
<1>1. Types'
  <2>1. Verdict(Gap(p)) \in Statuses \cap {"observed", "inconclusive", "recovery_required"}
    BY DEF Verdict, Statuses
  <2>2. [Bumped EXCEPT !.status = Verdict(Gap(p))] \in Row
    BY <2>1, BumpedRow, RowFields DEF Inv
  <2>3. Gap(p) \in BOOLEAN
    BY JobFields DEF Inv, Types, Gap, ReportRow
  <2>4. report' \in ReportRow
    BY <2>1, <2>3 DEF Publish, ReportRow, Released
  <2>5. job' \in [Procs -> Job] /\ pc' \in [Procs -> Labels] /\ guard' \in Procs \cup {None}
    BY JobFields DEF Inv, Types, Publish, End, Stop, Goto, Labels, Unguarded
  <2> QED
    BY <2>2, <2>4, <2>5 DEF Inv, Types, Publish, worldVars
<1> USE BaselineAssumption
    DEF Inv, Types, None, Row, Publish, Goto, At, worldVars, Unfenced, HasClaim, Working,
        Cleaning, Owning, Fenced, Gap, Verdict, Bumped, End, Stop, Unguarded, NoJob
<1>2. Roles'
  BY DEF Roles
<1>3. Progress'
  BY DEF Progress, NoLease, Dispatching, Kinds, Roles
<1>4. Absence'
  BY DEF Absence, Progress, Dispatching, Roles, Kinds
<1>5. Reasons'
  BY DEF Reasons, Roles
<1>6. Agreement'
  <2>1. OwnerAgrees'
    BY DEF Agreement, OwnerAgrees, Roles, Progress, Left, Released, Before, Kinds, NoLease
  <2>2. SnapshotAgrees'
    BY DEF Agreement, SnapshotAgrees, Roles, Progress, Left, Released, Before, Kinds, NoLease
  <2>3. ObservationAgrees'
    BY DEF Agreement, ObservationAgrees, Roles, Progress, Left, Released, Before, Kinds, NoLease
  <2>4. ReportAgrees'
    BY DEF Agreement, ReportAgrees, Roles, Progress, Left, Released, Before, Kinds, NoLease
  <2> QED
    BY <2>1, <2>2, <2>3, <2>4 DEF Agreement
<1> QED
  BY <1>1, <1>2, <1>3, <1>4, <1>5, <1>6 DEF Inv

\* A cleanup that was overtaken ends.
LEMMA StepSuperseded ==
  ASSUME Inv, NEW p \in Procs, Superseded(p)
  PROVE  Inv'
<1> USE BaselineAssumption
    DEF Inv, Types, None, Row, Superseded, Goto, At, storeVars, worldVars, Working,
        Cleaning, Owning, End, Stop, Unguarded, NoJob, Fenced
<1>1. Types'
  BY DEF ReportRow, Statuses, Results, LeaseRow, Job, Labels, Kinds
<1>2. Roles'
  BY DEF Roles, Unfenced, HasClaim
<1>3. Progress'
  BY DEF Progress, NoLease, Dispatching, Kinds, HasClaim, Unfenced, Roles
<1>4. Absence'
  BY DEF Absence, Progress, Dispatching, Roles, Unfenced, HasClaim, Kinds
<1>5. Reasons'
  BY DEF Reasons, Roles, HasClaim, Unfenced
<1>6. Agreement'
  BY DEF Agreement, OwnerAgrees, SnapshotAgrees, ObservationAgrees, ReportAgrees, Roles,
         Progress, HasClaim, Unfenced, Left, Released, Before, Kinds, NoLease
<1> QED
  BY <1>1, <1>2, <1>3, <1>4, <1>5, <1>6 DEF Inv

\* A process dies.
LEMMA StepDie ==
  ASSUME Inv, NEW p \in Procs, Die(p)
  PROVE  Inv'
<1> USE BaselineAssumption
    DEF Inv, Types, None, Row, Die, Goto, storeVars, worldVars, Working, Cleaning, Owning,
        Stop, Unguarded, NoJob
<1>1. Types'
  BY DEF ReportRow, Statuses, Results, LeaseRow, Job, Labels, Kinds
<1>2. Roles'
  BY DEF Roles, Unfenced, HasClaim
<1>3. Progress'
  BY DEF Progress, NoLease, Dispatching, Kinds, HasClaim, Unfenced, Roles
<1>4. Absence'
  BY DEF Absence, Progress, Dispatching, Roles, Unfenced, HasClaim, Kinds
<1>5. Reasons'
  BY DEF Reasons, Roles, HasClaim, Unfenced
<1>6. Agreement'
  BY DEF Agreement, OwnerAgrees, SnapshotAgrees, ObservationAgrees, ReportAgrees, Roles,
         Progress, HasClaim, Unfenced, Left, Released, Before, Kinds, NoLease
<1> QED
  BY <1>1, <1>2, <1>3, <1>4, <1>5, <1>6 DEF Inv

\* Every step of every process preserves the invariant.
LEMMA InvStep == Inv /\ [Next]_vars => Inv'
<1> SUFFICES ASSUME Inv, [Next]_vars PROVE Inv'
  OBVIOUS
<1>1. CASE Next
  <2>1. ASSUME NEW p \in Procs, Confirm(p) \/ Own(p) \/ Clean(p) \/ Die(p)
        PROVE  Inv'
    BY <2>1, StepConfirm, StepLook, StepAdmit, StepAuthorize, StepClaim, StepRefuse,
       StepReserve,
       StepActivate, StepMaterialize, StepEnter, StepDispatch, StepMarkDispatched, StepCreate,
       StepCreated, StepBind, StepStartCommand, StepRecord, StepFails, StepBeginCleanup, StepShow,
       StepRecover, StepSelect, StepRemove, StepFinalize, StepCleanupFails, StepPublish,
       StepSuperseded, StepDie
    DEF Own, Clean
  <2> QED
    BY <1>1, <2>1, StepExpire, StepRevoke, StepDaemonAnswers, StepEdit DEF Next
<1>2. CASE UNCHANGED vars
  BY <1>2
  DEF vars, storeVars, worldVars, Inv, Types, Roles, Unfenced, HasClaim, Progress, Absence,
      Reasons, Agreement, OwnerAgrees, SnapshotAgrees, ObservationAgrees, ReportAgrees,
      Released, Left
<1> QED
  BY <1>1, <1>2

\* The invariant of every behaviour.
LEMMA Invariant == Spec => []Inv
  BY InvInit, InvStep, PTL DEF Spec

\* Types, and what every reader of the store insists on: no failure, death or
\* recovery leaves a baseline that can no longer be shown or recovered
\* (persistence/baseline.py _owner, _snapshot, _observation, _validate_report_facts).
THEOREM RowsStayReadable == Spec => []Readable
<1>1. Inv => Readable
  BY DEF Inv, Types, Agreement, Readable, Row, LeaseRow, Results, ReportRow, Job
<1> QED
  BY <1>1, Invariant, PTL

\* A report that calls the cleanup complete is true of the daemon and of the disk:
\* every lease it counts was released over a proof of absence (baseline_docker.py
\* reconcile, resources.py _cleanup_baseline_fixed).
THEOREM CompleteCleanups == Spec => []CompleteIsGone
<1>1. Inv => CompleteIsGone
  BY DEF Inv, Agreement, ReportAgrees, Released, Left, Absence, Kinds, CompleteIsGone
<1> QED
  BY <1>1, Invariant, PTL

\* A final report can only be followed by one that says the same: who reports again
\* is not the owner, so it knows of no error but the one the report kept.
LEMMA VerdictRepeats ==
  ASSUME Inv, NEW p \in Procs, Publish(p), report.status \in {"observed", "inconclusive"}
  PROVE  report'.status = report.status
<1>1. Released
  BY DEF Inv, Agreement, ReportAgrees
<1>2. p # row.owner
  BY DEF Inv, Roles, None, Publish, At
<1>3. Gap(p) = report.gap
  <2>1. job[p].error = FALSE /\ report.gap \in BOOLEAN
    BY <1>2 DEF Inv, Types, Job, ReportRow, Reasons
  <2> QED
    BY <2>1 DEF Gap
<1>4. Verdict(report.gap) = report.status
  BY <1>1 DEF Inv, Types, ReportRow, Agreement, ReportAgrees, Reasons, Verdict
<1> QED
  BY <1>3, <1>4 DEF Publish

\* A verdict is final: a later recovery that reports again repeats it (baseline.py
\* _publish), whatever the owner's error was and however often it is recovered.
THEOREM VerdictsStay == Spec => VerdictStays
<1>1. Inv /\ [Next]_vars
        => [report.status \in {"observed", "inconclusive"} => report'.status = report.status]_vars
  <2> SUFFICES ASSUME Inv, Next, report.status \in {"observed", "inconclusive"}
               PROVE  report'.status = report.status
    BY DEF vars
  <2>1. UNCHANGED report \/ \E p \in Procs : Publish(p)
    BY ZenonT(60)
       DEF Next, Expire, Revoke, DaemonAnswers, Edit, Confirm, Own, Look, Admit, Authorize,
           Claim, Refuse, Reserve, Activate, Materialize, Enter, Dispatch, MarkDispatched, Create, Created,
           Bind, StartCommand, Record, Fails, Clean, BeginCleanup, Show, Recover, Fence, Select,
           Remove, Finalize, CleanupFails, Superseded, Die, storeVars
  <2> QED
    BY <2>1, VerdictRepeats
<1> QED
  BY <1>1, Invariant, PTL DEF Spec, VerdictStays

\* May the command still be dispatched?
Open == row.status \in {"planned", "owned", "executing"} /\ "command" \notin edits

\* What neither dispatches nor starts the command can only take away the chance to.
Quiet == row'.dispatch = row.dispatch /\ starts' = starts /\ (Open' => Open)

\* A step dispatches, or starts, or is quiet.
LEMMA Effects ==
  ASSUME Inv, Next
  PROVE  Quiet \/ \E p \in Procs : Dispatch(p) \/ StartCommand(p)
<1> USE DEF Quiet, Open
<1>1. ASSUME NEW p \in Procs, Look(p) \/ Admit(p) \/ Refuse(p) \/ Materialize(p) \/ Enter(p) \/ Create(p)
               \/ Created(p) \/ Fails(p) \/ Show(p) \/ Select(p) \/ Remove(p) \/ CleanupFails(p)
               \/ Superseded(p) \/ Die(p)
      PROVE  Quiet
  BY <1>1
  DEF Look, Admit, Refuse, Materialize, Enter, Create, Created, Fails, Show, Select, Remove,
      CleanupFails, Superseded, Die, storeVars, worldVars
<1>2. ASSUME NEW p \in Procs, Confirm(p) \/ Authorize(p) \/ Claim(p)
      PROVE  Quiet
  BY <1>2 DEF Inv, Types, Row, Confirm, Authorize, Claim, CanClaim, Bumped, worldVars
<1>3. ASSUME NEW p \in Procs, NEW k \in Kinds, Reserve(p, k) \/ Activate(p, k)
      PROVE  Quiet
  BY <1>3, BumpedRow DEF Inv, Reserve, Activate, SetLease, worldVars
<1>4. ASSUME NEW p \in Procs, MarkDispatched(p) \/ Bind(p) \/ Record(p) \/ Finalize(p)
      PROVE  Quiet
  BY <1>4, BumpedRow DEF Inv, MarkDispatched, Bind, Record, Finalize, SetLease, worldVars
<1>5. ASSUME NEW p \in Procs, BeginCleanup(p) \/ Recover(p)
      PROVE  Quiet
  <2>1. row' = [Bumped EXCEPT !.status = "cleaning", !.fence = @ + 1] /\ UNCHANGED <<starts, edits>>
    BY <1>5 DEF BeginCleanup, Recover, Fence, worldVars
  <2> QED
    BY <2>1, BumpedRow DEF Inv, Row
<1>6. ASSUME NEW p \in Procs, Publish(p)
      PROVE  Quiet
  BY <1>6, BumpedRow DEF Inv, Row, Publish, Verdict, worldVars
<1>7. ASSUME Expire \/ DaemonAnswers \/ Revoke \/ \E by \in {"command", "hand", "turn"} : Edit(by)
      PROVE  Quiet
  BY <1>7, BumpedRow DEF Inv, Row, Expire, DaemonAnswers, Revoke, Edit, storeVars, worldVars
<1> QED
  BY <1>1, <1>2, <1>3, <1>4, <1>5, <1>6, <1>7 DEF Next, Own, Clean

\* The command is dispatched at most once, under what was reviewed, and started at
\* most once for it: every step is one of the ledger's or changes nothing there
\* (gateway.py execute_baseline, persistence/baseline.py claim_baseline_dispatch).
THEOREM ImplementsLedger == Spec => LedgerSpec
<1>1. Init => Ledger!Init
  BY DEF Init, Ledger!Init
<1>2. Inv /\ [Next]_vars => [Ledger!Next]_(Ledger!ledgerVars)
  <2> SUFFICES ASSUME Inv, [Next]_vars
               PROVE  [Ledger!Next]_(Ledger!ledgerVars)
    OBVIOUS
  <2> USE DEF Ledger!Next, Ledger!ledgerVars, Ledger!Close
  <2>1. CASE Quiet
    BY <2>1 DEF Quiet, Open
  <2>2. ASSUME NEW p \in Procs, Dispatch(p)
        PROVE  Ledger!Claim("command")
    BY <2>2, BumpedRow
    DEF Inv, Progress, Dispatching, Dispatch, CanDispatch, HasClaim, At, Row, Ledger!Claim,
        worldVars
  <2>3. ASSUME NEW p \in Procs, StartCommand(p)
        PROVE  Ledger!TakeEffect("command")
    BY <2>3
    DEF Inv, Progress, Owning, StartCommand, At, Ledger!TakeEffect, storeVars
  <2>4. CASE UNCHANGED vars
    BY <2>4 DEF vars, storeVars, worldVars
  <2> QED
    BY <2>1, <2>2, <2>3, <2>4, Effects
<1> QED
  BY <1>1, <1>2, Invariant, PTL DEF Spec, LedgerSpec, Ledger!Spec
=============================================================================
