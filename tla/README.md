# Agent Fleet Foundry: TLA+ models, checks and proofs

The program (Python, `src/agent_fleet`) drives teams of coding agents over a
Git repository. A *run* goes through fixed stages; agents ask for tool calls
through a gateway; a broker decides each call from the user's trust policy;
everything durable is in one SQLite database, in one policy file and in
immutable artifacts. Several commands may work on one database at once (`fleet
start`, `resume`, `cancel`, `recover`, `approve`, `chat`), any of them may be
killed, and nothing but SQLite transactions, a file lock and explicit claims
orders them. This project models that: the claims, fences and transactions, and
what they promise to each other.

Paths below are relative to `src/agent_fleet` of the repository.

## 1. Inventory

| Component | State it keeps | Operations | Hard behaviour | What makes it correct |
| --- | --- | --- | --- | --- |
| Run transitions (`domain/workflow.py`) | none: a table | `validate_transition` | a stale copy of a run is saved late | an ended run never comes back |
| State store (`adapters/persistence/sqlite.py`) | runs, tasks, agents, intents, requests, grants, dispatch claims, leases, events | one transaction per method | two processes at one row; a run is saved whole, without compare-and-swap | reservation with consumption, request with pause, claim for ever |
| Permission policy and broker (`application/permission_policy.py`, `approvals.py`, `adapters/trust/filesystem.py`) | the trust policy file with its revision | approve, deny, revoke, reset, configure | two stores, no common transaction; a process dies between them | no decision of the user is lost; a staged rule is dormant |
| Tool gateway (`application/gateway.py`, `runtime_tools.py`) | none of its own | `execute`, the executors | a decision is stale when it is used; a crash after the effect | at most one dispatch, only what was authorized |
| Workflow engine (`application/workflow.py`) | the in-memory copy of the run | start, resume, continue, engineer, verify, present, accept, cancel | several drivers of a run, copies saved late | a question is always asked, a run ends once, one owner drives it |
| Resources (`application/resources.py`, `adapters/sandbox`, `adapters/repository/git.py`) | execution leases, sandboxes, worktrees | register, cleanup, rehydrate, recover | a crash between the resource and its lease, a cleanup that fails half way | nothing is released while it exists; reverse order |
| Runtime budgets (`adapters/persistence/runtime_budgets.py`) | attempts, requests and tool batches per run, and its clock | begin, reserve, record, finish | answers that are lost or late, several owners of one budget | what may have been spent is always covered by the limits |
| Adaptive graph (`adapters/persistence/graphs.py`, `application/graph*.py`) | nodes, node claims, driver claims, revision | claim, complete, fail, cancel, continue | two coordinators, a stopped owner, cancel racing a child | one owner per node and per continuation |
| Conversations (`adapters/persistence/conversations.py`, `application/conversations.py`, `session_review.py`, `session_recovery.py`) | sessions, turns, attempts, owners, review tickets | begin, resume, finish, review, recover | a chat process dies, a ticket outlives what it reviewed | one owner per session; a ticket is used once, for what it reviewed |
| Plan review (`application/plan_review.py`, `adapters/persistence/plan_review.py`) | checkpoints of a plan | stage, decide, consume | a decision races a resume | a plan is executed once, as reviewed |
| Baseline tests (`application/baseline.py`, `adapters/persistence/baseline.py`, `adapters/sandbox/baseline_docker.py`) | reviews, authorizations, executions, leases, observations, reports | review, authorize, claim, dispatch, record, fence, recover, publish | an owner that dies around its one dispatch, two recoverers | the command runs at most once, as reviewed; a report of a complete cleanup is true |
| Evolution and publication (`application/evolution.py`, `patches.py`, `adapters/persistence/evolution.py`, `adapters/config/publication.py`) | proposals, generations, publication journal, two directories | propose, review, apply, rollback, recover | a crash between journal and rename | the published tree is always one whole generation |
| Evaluations (`adapters/persistence/evaluation*.py`, `application/evaluation*.py`) | manifests, slots, attempts, executions | reserve, preflight, register, admit, settle, fence | a slot executed twice, a claim that ends between two requests | an attempt is run once or reported as not run; a campaign stays within its envelope |
| Evidence (`application/evidence.py`, `graph_evidence.py`) | evidence bundles | assemble | what is shown was made from another candidate | a presented run shows its own evidence |
| Runtime adapters, CLI, profilers, dashboards, schemas, config parsing, secrets | - | - | pure I/O, rendering, SDK glue | not modelled (section 9) |

How they interact. The workflow engine builds a catalog of tools for each agent
over the gateway. A tool call reads and writes the state store in several
transactions and asks the broker once; the broker reads the policy file and the
store. The user's commands write the same two stores from other processes. The
engine pauses a run by letting `ApprovalRequiredError` end the command; a later
`resume` finds the resolved request and goes on. The resources service records
a lease for every sandbox, worktree and execution, so that `recover` can clean
up behind a dead process.

`PROJECT.json` lists every component with its status, and under `hazards`
everything found here that a test hardly reaches, at its line.

## 2. Plan

Order: authorization and dispatch first (they decide what may happen in the
user's repository), then what has to be cleaned up, then who owns a run, then the
ledgers.

1. `WorkflowTransitions`, `StateStore`, `PermissionPolicy`, `ToolGateway`, with
   the abstract `DispatchLedger` it implements. Done, with theorems.
2. `Resources`: leases, cleanup order, rehydration and recovery. Done, with theorems.
3. `Publication`: journal, exchange and recovery of an organization tree, with the
   abstract `GenerationLog` it implements, and the application of candidates
   under the same lock. Done, with theorems.
4. `GraphScheduler`: node, driver and continuation claims over a small dependency
   graph, with the abstract `TaskGraph` it implements. Done, with theorems.
5. `RuntimeBudgets` and `Evaluations`, composed in `Campaign` with the processes
   that spend, with the abstract `TokenLedger` they implement. Done, with theorems.
6. `Conversations`: turns, claims, fences and reviews in the store, composed in
   `Sessions` with the processes that work on them. Done, with theorems.
7. `Baseline`: reviewed baselines, an implementation of `DispatchLedger` too. Done,
   with theorems.
8. The life of a run is divided over these: plan review and claims in `Sessions`, agents,
   approvals and stages in `ToolGateway`, presentation against the leases in
   `Resources`, invocations under a budget in `Campaign`. The repair loop is left.

Every safety and action property of the passing runs is stated by a theorem (section 6). What is left to
prove goes with what is left to model: the repair loop of a joined parent, and a process that is killed
while it cancels or recovers a graph.

## 3. Modules

`WorkflowTransitions` is the transition table of a run: pairs of a status and a
stage. `ValidTransition` is `validate_transition`, with its three cases: no
change, an abort of a run that has not ended, an edge of the table.

`StateStore` is one run's authorization tables. Each public method of the store
is one `BEGIN IMMEDIATE` transaction, hence one operator: its conditions (`Can...`)
and its writes. Rows are addressed by the idempotency key of the logical call,
because an intent is unique per run and key, a request per intent and a grant
per request. What a key decides never changes (its stage, its kind, its exact
scope): a caller that presents something else under the key is refused by the
intent hash, which the model therefore leaves out. The checks of a stored row
against its own JSON are left out too.

`PermissionPolicy` is the policy file, the broker and the user's commands. A
command that loads the policy and publishes the next revision is two steps, the
reset of a project one more per grant; `UserCrash` may fall between any two.
`Publish` is the compare-and-swap on the revision. `revoke` names an allow or a deny rule
(`RevokeRuleLoad`, `RevokeDenyLoad`), `reset` revokes every rule of either effect. `denied` holds
the deny rules in force; they come from the user's own hand (`WriteDenyRule`), and nothing
else of a hand edit is modelled. `Evaluations` is the broker:
deny rules, grants, allow rules, the question, the plain permission. Which of
several matching grants is taken is left open.

`ToolGateway` is `execute` as a program counter per process, one label per
store call, and around it the driver: resume, checkpoint of the agent identity,
start and completion of the agent, its report, the next stage, and every way a
command ends. `call` holds what the process has read (its copy of the policy, its
decision, the status it found), `row` the copy of the run it is about to save.
`effects` counts what the executor did; the program does not see it.
`save_run` is not a compare-and-swap, so reading and saving a run are separate
steps wherever other code, an `await` or a transaction lies between; saves of
evidence and runtime observations between a read and a save touch fields that
are not modelled and are part of the same window. The identity under which an
Engineer that was paused without a checkpoint is resumed is taken from the
approved intent (`SaveAdopted`).

`DispatchLedger` is what the gateway promises: while the run is open a call may
be claimed, once and for ever, what is claimed takes effect at most once, and
closing opens nothing. `ToolGateway` implements it with `claimed <- claims`, `count
<- effects` and `open <- run.status \notin Terminal`.

`Resources` is what a run holds outside the database: worktrees, sandboxes and the
containers of its executions, each behind a lease. The owner creates (lease, then the
resource, then the handle in the lease), runs one command at a time, and releases; a
cancel or a recovery in another process lists the leases and cleans them up in tiers,
executions before sandboxes before worktrees (`Candidates`). `job` is what a process has
read: its copy of the lease it works on, its list of leases, what it could not clean.
The Docker daemon may answer a create after the client gave up (`DaemonCreates`), so
a listing that finds no container proves nothing by itself. `raced` is not a state of
the program: it marks behaviours in which a cancel and the owner overlapped, the case that
the `leases_cancel` run is about and the other properties exclude where they say so.

`Publication` is the organization tree `.fleet`, its versions and its journal. A directory
is named by the operation that staged it, which is its inode; a tree is a set of
entries. Commands of any number of processes share one advisory lock, so the model has one
`session`; what they read before they got the lock (`seen`) may be of an
earlier version. One action per durable step: `Check`, `Stage`, `Prepare` (journal and fence
in one transaction), `Swap` (one `renameat2`), `SyncExchanged`, `Verify`,
`CommitOperation`, `CleanupOwned`, and the recovery from `Inspect`. `Crash` may come
between any two. Transactions whose commit is known to be lost on the way
back are an alternative of the same action (`Prepare`, `CommitOperation`,
`AbortOperation`). The user edits `.fleet`, and a directory that was `.fleet` before
an exchange, at any time (`EditOrganization`), and the sources (`EditSource`); runs move
without the lock (`MoveRun`). `touched` is not a state of the program: it
records which directories the user has changed, for the properties.

`GenerationLog` is what a publication promises a reader: a generation is fenced, shown
whole, then committed, or given up while the last one is still shown. `Publication`
implements it with `fence <- pending`, `shown <- fleet` and the operations of the versions as
`history`.

`GraphScheduler` is the adaptive graph of one parent run: the graph row with its revision,
generation and claim, a row per node, the parent and the child runs, and the
asyncio tasks of a driver. Every store method is one action or one guard; `loc` is what a
process has read (the revision it will claim with, the parent it saw). A coordinator is
a program counter: `Resume` reads the parent and the graph in two steps, `ClaimDriver` compares the
revision, `Scan` and `StartNode` take ready nodes in order, the tasks then interleave
until the coordinator settles those that are over. `Abort`
is what an error, a cancellation of the task and a denied child have in common: stop the tasks, fence, end the
nodes, clean up the children, end the parent. The resources of a run are one value (`none`,
`held`, `left`); `Resources` has their inside. The joined parent goes on under its own
claim (`ClaimContinuation`, `Rest`): verification is one step and may pause for an approval.
`Cancel` and `Recover` are other processes.

`TaskGraph` is what the graph promises: a node works only when all it depends on is done and
fewer than `max` work, what is done or stopped stays so, nothing starts after the close, one join from all.

`RuntimeBudgets` is the accounting of one database: attempts, requests with their allowance,
tool batches, simulated steps, the seconds of running attempts, all charged to the
run that owns the budget (`Payer`). Its guards are the checks of the transactions, in terms
of what is reserved, reported or unknown. `Evaluations` is the ledger of a campaign over it: slots,
preflight outcomes, the claim of the one run of an attempt, and what the campaign
still admits (`AdmitCampaign`). `Campaign` composes them with clients: a process that reserves,
registers or resumes a run and drives its agents, one task per agent, each
request in three steps (reserve, send, answer or loss). `Invoke` compares nothing of the stored agent:
a driver saves it as running and begins an attempt whatever an earlier driver made of it, so an agent is
invoked again after an interrupt and a resume, after a death between its end and the end of its
run, and by a second driver after the first has completed it; what refuses an attempt is `CanBegin`.
The stages of a run and what it saves of an agent's result are not modelled, so the model also invokes again an
agent whose result a real run would have kept. A response without a total is an answer
that is lost (`LoseAnswer`). A run may be cancelled, its claim fenced, a
client interrupted or killed between any two. Sums over agents and
requests are `Total` of `Totals`, whose rules are in `Totals_proofs`. `TokenLedger` is what they promise about tokens: a draft
is drawn only from what is left, is held until its response is known, and when that never
comes it is lost, which nothing undoes.

`Conversations` is the store of one conversation: turns with revision and claim generation, the run
and plan review of each turn, one lease that stands for what the run holds, and `up`, whether that really
exists. `Snapshot` is what a review of a recovery shows and what its confirmation must find again
(`PrepareReviewedRecovery`). `Sessions` is the processes: submit and execute, resume, cancel,
recover, review and confirm a recovery or a plan, apply. `job` is what a
command has read, `ticket` the review code a process has issued. Cleaning up is `Mark`
and `Sweep` per run; without a conversation, turn 1 is an ordinary run that requires a plan review.
An operator may confirm that an owner has stopped when it has not; `late` is
not a state of the program: it marks the runs for which such an owner has taken resources.

`Baseline` is one reviewed baseline with its three leases, the two locks of its admission (`guard`),
and what the daemon and the disk hold. `edits` says who has changed the source or the policy since the
review, `starts` counts starts of the command, which the program does not see. `job` holds
the revision, fence and lease a process works with. Owner and recoverer share the
cleanup (`Select`, `Remove`, `Finalize`, `Publish`), which is fenced; a create of the daemon
may come late (`DaemonAnswers`). `Readable` contains what every reader of the rows checks, reader by reader: a row that
violates it makes the baseline unreadable for ever, hence a property. It implements
`DispatchLedger` with one call, `count` being the starts, `open` being a live
execution that no command has changed under.

The `MC` modules give constants their values, and symmetry sets where the instance has interchangeable
values; each `.cfg` chooses the sets and bounds of one question. `MCToolGateway` also names the
driver of the liveness property. The `_proofs` modules hold the theorems.

## 4. Runs

| Run | Question | Instance |
| --- | --- | --- |
| `dispatch` | is a call claimed and executed at most once, on an open run; does every call end | 2 drivers, 1 approval-fixture call, 2 agent identities, once approvals, cancel, fair execution |
| `authority` | is what is dispatched authorized, does revocation bite | 1 driver, 2 commands of one scope, once, run and always approvals, revocations, expiry, recover |
| `policy` | is a policy decision ever lost, is a pending request always the one the run is paused on | 2 user processes, 1 driver with 1 command, 3 revisions, all policy commands with the revocation of a deny rule, deny, a deny rule written by hand, cancel, expiry |
| `leases` | is what is settled gone, do worktrees outlive their containers, is a presented run clean | 1 worktree, 1 sandbox, 1 execution, 1 driver, 1 cancel, 1 recovery |
| `publication` | is `.fleet` one whole generation at every instant, can every death be recovered, does a candidate meet its own organization | 2 proposals, 2 operations, 1 run, 2 configuration files and a note of the user |
| `graph` | one driver, one verifier, a join from all, nothing forgotten, no stuck parent; refinement of the task graph | 2 nodes under 3 plans (side by side, one at a time, one after the other), 2 drivers, 1 user process that cancels and recovers, 2 claims |
| `campaign` | is what may have been spent always covered, one owner per attempt and agent; refinement of the token ledger | 4 situations: two runs of a campaign, a graph of two children, one child with two agents, one ordinary run resumed by two; 1 death |
| `conversations` | does one owner execute a run, is a settled turn over, does a reviewed recovery end what was shown | 2 processes, 2 turns, 1 death; or 3 processes and 1 turn; or 3 processes and an ordinary run |
| `baseline` | at most one dispatch, as reviewed, is a complete cleanup complete, is a verdict final | 1 session, 2 command lines |
| `cutoff` (violation) | does a reset stop a call that already decided | 1 driver, 2 commands |
| `executed` (violation) | is an executed result kept | 2 drivers, 1 file call, a deny rule |
| `leases_cancel` (violation) | does a container end before its worktree when a cancel meets a working driver | as `leases` |

Every passing run finishes in between some seconds and about two and a half minutes. `leases` and
`publication` check deadlock. The others say `CHECK_DEADLOCK FALSE`, because what they model
really stops: a run that has ended, with the clock and the revisions at their bound; a
graph that was joined, or cancelled and cleaned up; a campaign whose slots are used; a conversation that had its turns;
a baseline that was reported.

Bounds. `MaxTime` (clock), `MaxAgents` (agent identities), `MaxRev` (policy
revisions), `Commands` (which commands the user gives). Two drivers are enough for a
race for one claim, and one key for the race: keys interact only through
reusable grants and rules, which `authority` gives two keys. Two time steps let a grant
be issued, used and expire. Two agent identities let one driver replace the
agent of another. None of the safety properties, action properties and refinements rests on the bounds: they are
proved for all values of the constants (section 6), `EveryQuestionIsAsked` for one driver, as are
three statements that no run repeats because the ledger contains them, `AtMostOnceDispatch`,
`DispatchExclusive` and `EndedRunDispatchesNothing`.

`EveryQuestionIsAsked` is checked with one driver: with two it is false, since ordinary saves of
a run are no compare-and-swap, which `docs/MVP_ACCEPTANCE.md:979` accepts.

`leases` needs no bound beside its sets: every driver and cleaner ends. One execution is
enough because a command that fails ends the run, and one that succeeds leaves nothing
of itself; the instance with two executions was checked once (4.0 million states, no error).
`publication` needs none either: proposals and operations are used once. Two
proposals and two operations are the least in which a version is rolled back, so that a later
revision has the bytes of an earlier one, and in which an operation is recovered
after another was committed. A second run would meet the first only in `Blockers`, an "exists".

`graph` bounds the driver claims of a behaviour by `MaxGen`: the first driver and one that resumes after it, with
two drivers that may both have read the state in which the second claims. Two nodes are
the least with a dependency and with a limit that binds; the store treats nodes one by one, except in
`PrepareJoin` and `RequestCancel`, an "all".

`campaign` has limits that two or three steps reach: 3 tokens with requests of 2, so that a second
request gets what is left; usages of 0 (less than allowed) and 4 (more than allowed), while an answer without a usage is a lost one; 2 requests, 1
tool call, and 2 invocations per run, so that an agent is invoked again once and a third attempt is refused; an envelope of 2 attempts and 7 tokens, one more than two
runs may spend. `MaxSeconds` is 1: a run reaches its limit, an overrun in seconds is not reached.

`conversations` bounds the claims of a turn (`MaxClaims`: the first and one resume) and the revision up to which a recovery
may begin (`MaxRevision`), and only the first turn is given commands (`Commanded`); the second is there because it may
begin only when the first is settled, and its run competes with what a late owner of the first does. With three processes there is no
death: a process that never moves again is a dead one to the others.

`baseline` needs no bound: every process gives one command, so revisions are
bounded. Expiry and edits are taken only while some later step reads them.

Symmetry: the operations of `publication`, the processes and the idempotency keys of `conversations`, the clients and the
two sides of `campaign`, the two command lines of `baseline` are interchangeable; no property of those runs names
one, and none of them is a liveness property. The run with a liveness property uses none, and states it
for one driver: nothing in the specification or its fairness tells the two apart.

Each property has a mutant in `PROJECT.json`: a change of one definition, written
beside it as a variant, that the run must reject: a claim that is only a
lease, a claim that ignores the run, a consumption that takes no use, a policy
publication by the last writer, a loser that waits for the owner, a cleanup that ignores its
tier, a fence that is forgotten, a driver claim that compares no revision, an owner who is believed to have stopped.

## 5. Fairness

Only `dispatch` assumes it: weak fairness of `ExecuteStep(d)` for every driver, that is, a
process that is not killed goes on with a call it has begun. `execute` has no
loop, no retry and no wait for another process; its one `await` is the
executor, which is bounded by the timeouts of commands and file operations. Nothing is assumed of
users, of the clock or of the drivers between calls, and a driver may still crash.

Elsewhere nothing must happen by itself: a graph, a conversation or a baseline whose process died waits for a user, whose
commands no fairness obliges. What such a user can still do is stated as a safety property
(`WaitingCanResume`, `AlwaysRecoverable`, `Readable`).

## 6. Proofs

Every safety property, action property and refinement of the passing runs is a theorem, for every value of
the constants that the named assumptions allow. Each module below has one inductive invariant, or one
on top of another, and per action of the model one lemma that the invariant survives it.

`ToolGateway_proofs` (`KeysAssumption`, `PolicyAssumption`):

- `TypeCorrect`. It is split along the modules: one lemma for the operators of the store
  (`StoreOpTypes`), one for the policy (`PolicyTypes`), one for the calls
  (`ExecuteStepTypes`), one for the driver (`DriverStepTypes`); `StepTypes` combines them.
- `ExclusiveDispatch`: `DispatchExclusive`, and from it `AtMostOnce`.
  `AtMostOnceDispatch` alone is not inductive: a driver about to execute must be known
  to hold the claim, alone, with no effect yet. `DispatchExclusive` says that. It is
  preserved because `Claim` requires that the claim does not exist, claims are never
  removed, and only `Execute`, which leaves its label, adds to `effects`.
- `EndedRunIsFenced`: no claim after the end, no revival. `CanClaim` needs a
  running run and `ValidTransition` has no edge out of `Terminal` but to itself.
- `ImplementsLedger`: every step is a `Claim`, a `TakeEffect`, a `Close` or a stutter
  of the ledger; `Execute` is a `TakeEffect` because of `DispatchExclusive`, and
  `Claim` happens on an open run.
- `PolicyDecisionsStay`: no policy decision is lost. A process may publish from a copy it read long ago, so
  the invariant (`Loaded`) says what a copy is worth: its revision is at most the one on disk,
  and if they are equal so are the contents. Hence a copy that would undo a revoked rule or a cutoff loses the
  comparison of revisions, and what may be undone, a deny rule by a reset or its own revocation and
  the mode by a configure, is undone only from the policy that is in force.
- `RevokedIsInert`: a revoked grant reserves nothing. It needs what the rows say of one another (`Requested`) and what
  no operation takes back (`Lasting`), and that every step of the gateway is an operation of the store
  or leaves it alone.
- `DispatchIsAuthorized` and `OneUse`: what is dispatched is authorized, and one use is one reservation.
  `Authorized` is what the rows say per key; `Calls` is what a call knows at each of its labels,
  although the policy and the rows it read may have changed since. Deny rules may come and go while the
  approval fixture waits, and an intent recorded for a call that was then denied outlives its driver; so
  what is kept of the fixture is that some request of its scope was approved, not that its own was.
- `QuestionsAreAsked`: the pending request is the one the run is paused on, under the hypothesis
  `OneDriver`, the case the run checks. With two drivers it is false (section 4), so the hypothesis is needed. The
  invariant (`Asked`) says what a driver still owes the run on each of its ways.

`Resources_proofs` (`ResourcesAssumption`; any worktrees, sandboxes, executions, cancels and recoveries):

- `TypeCorrect`. `TypeOK` is not inductive: what a process works on must fit its label,
  a worktree when it materializes one, an execution when it dispatches. `Shape` adds that (`Kinds`).
- `CheckpointFirst`: a container exists, or may still appear, only behind a lease that says its creation
  was dispatched.
- `RecoveredStaysGone`: a recovered resource is gone for good, a late create included.
- `SettledMeansGone`, `TiersProtect`, `PresentedRunIsClean`: what is settled is gone, a worktree outlives its
  containers, a presented run has left nothing.

`CheckpointFirst` and `RecoveredStaysGone` rest on `Safe`: a container has its checkpoint (`Checkpoint`), a recovery works
only after the driver stopped (`Alone`), what the driver and a recovery read of an
execution still holds where they act on it (`KnowsOwn`, `Knows`), and the driver never creates
for a recovered lease (`Open`). Without `Knows` a recovery that acts on an old copy could
settle a lease whose container appears later. The last three rest on `Undisturbed` on top of it: `Terms` (who may be at
work at the same time), `Tiers` (a cleanup handles the lowest tier it has left), `Own` (what the driver has
saved), and, unless a cancel has overlapped the driver and ended the run (`Calm`), `Gone`, `Begun` and `Sweeps`.
`Sweeps` carries the argument: a lease that a cleanup has not settled is still on its list or among its failures,
so no tier is begun over a forgotten lease of the tier before, even when the lease was read long ago.

`Publication_proofs` (`PublicationAssumption`; any proposals, operations, runs, trees and edits):

- `TypeCorrect`.
- `JournalAgrees`: `JournalAndVersionsAgree`, that is, fence, journal and versions tell one story.
- `RunsStayCurrent` and `AppliedUnderOwn`: runs and candidates meet only the version they
  were admitted to, wherever the process that applies one dies.
- `ImplementsLog`: every step is an `Open`, `Switch`, `Commit` or `GiveUp` of `GenerationLog`, or a
  stutter. The registration of the first version stutters: the history was `<<Origin>>` and stays so.
- `FleetIsWhole`, `EditsAreKept`, `RecoveryCanFinish`: what the directories hold.

The first five share one inductive invariant, `Inv`. `Kinds` says what the session works on by its label,
`Knows` what its earlier checks still guarantee where it acts on them: behind the fence only the session
that holds it moves `.fleet`, so `commit` may rely on `fleet = session.op` and `abort` on the
opposite. `Journal` adds to the property where the versions come from, `Shown` that `.fleet` is the
current version or the fenced one, `Apart` that no run works under a fence. None is
inductive alone: a commit keeps `ActiveRunsAreCurrent` because it checks the blockers, an
admission keeps it because `pending = None` in its session and its transaction, which is `Knows`.
The last three need `Inside` as well: a version's tree is that of its operation and a proposal starts from the tree
its target holds (`Lineage`); the fenced operation's two directories hold their generations, up to the
user's edits, in one of two orientations, which the exchange swaps (`Facing`); and a directory the user has
reached is that of a journaled operation and not removed (`Edits`).

`GraphScheduler_proofs` (`GraphAssumption`; any finite set of nodes, any plans, drivers, cancellers and recoverers,
any bound on claims):

- `TypeCorrect`, `OneDriver`, `OneVerification`, `JoinsAreWhole`, `WaitingParents`, from `Inv`. `Claims` says that
  a process which holds the graph has the last generation and no two have the same; so a second driver can
  hold it only by a claim that made the first's stale. `Order` and `Limit` are about the nodes, `Joins` and `Waits` about the parent,
  `Roles` about what a process knows by its label.
- `ImplementsTaskGraph`: every step is a step of `TaskGraph` on one node, its close, its join, or a stutter.
- `EndedRunsAreClean`: nothing of an ended run is forgotten. `Care`, on top of `Inv`, says who still owes the cleanup.
  Once the parent has ended, either a canceller or a recoverer is about to fence the graph, or no child holds
  anything and no driver holds the graph (`Fenced`). In a cancelled graph every child that holds something has a process on its way to
  clean it (`Tended`), and a driver that aborts has the list it needs for that (`Aborts`). It is stated for
  cancellers and recoverers that run to their end; section 8 says what happens when one is killed.

`Campaign_proofs` (`BudgetAssumption`, with finitely many agents; `CampaignAssumption`; `ClientAssumption`):

- `TypeCorrect`, `OneOwns`, `SpendingCovered`, from `Inv`. `Within` is inductive because a
  request is allowed only what is left, so that exposure never passes the limit by more than the
  overshoot the providers reported, and because settling a request moves its amount from one outcome to another.
  `Claimed` and `OneAttempt` say who may charge: one client per run of a campaign, one running attempt per agent, one task per
  attempt; none of them rests on the stored status of an agent, which every invocation sets to running again. `OwnTasks` says that an attempt has no reserved request but the one its task waits for; hence the end of
  an attempt leaves none behind.
- `ImplementsTokens`: drafts are the image of the requests, and what is left of an account is its limit less its
  exposure. A step that takes a new request draws a draft, an answer settles it, a lost answer closes the
  run, and with it what a campaign admits, because admission demands complete accounts.

Both rest on `Totals_proofs`, the rules for sums over finite sets: of none, with a member more or less, with
the same weights, of smaller weights, of two disjoint sets, of an image. A sum is a recursive function, and the induction schemes of the library take an
operator that the provers cannot instantiate; each rule is proved from a smallest set for which it fails.

`Sessions_proofs` (`SessionsAssumption`, `ConversationsAssumption`; any processes, turns and claims):

- `TypeCorrect`, `OneOwnerExecutes`, `SettledTurnsAreOver`, and the action property `RecoveryIsReviewed`
  (`ReviewedOwnerOnly`). In `Inv`, `Store` says that the turns are in order, only the last is active and
  what exists has its lease; `Roles` that whoever executes a run that has not ended has its claim;
  `Apart` that no two processes ever had the same claim generation. Generations only grow, so an owner
  that a review declared stopped finds another generation than its own.

`Baseline_proofs` (`BaselineAssumption`; any sessions and other command lines):

- `RowsStayReadable`, `CompleteCleanups`, the action property `VerdictsStay`, and `ImplementsLedger`, from `Inv`:
  the owner works only with its claim and whoever cleans up is the owner or
  comes after it (`Roles`); the guard is held from the dispatch on (`Progress`); what is settled is not there,
  and a proof of absence comes after the last answer of the daemon (`Absence`); a report without a conclusion has its reason
  (`Reasons`); the row agrees with what its readers compare (`Agreement`).

Only model-checked: `EveryCallEnds`, because the proof system does not treat fairness. The properties of the
three violation runs are false of the code, hence of the model.

## 7. What the violations show

`cutoff`: the documents say that grants at or before a reset's cutoff cannot
authorize even if the cleanup of grants fails. The broker compares the cutoff
with its own copy of the policy; the reserving transaction does not know it. A
call that decided before the reset was published still consumes its grant, as
long as the grant itself has not been revoked yet.

`executed`: `deny_intent` has no condition on the current status. A driver whose
decision has become a denial overwrites the executed intent of another.

`leases_cancel`: a comment says that no parent is destroyed until its dependents are proven
absent. `cancel` needs no stopped owner and lists the leases once; a driver that had claimed its
command saves the lease of its execution, or marks its dispatch, after that
listing. The worktree goes while the container runs.

All are disagreements between a document and the code in a narrow
interleaving; the runs keep the shortest traces.

## 8. What the models show beside the properties

What follows is behaviour of the code that the traces and guards make visible and that no document
excludes. Each explains why a property is stated as it is.

Of the gateway: a deny rule added while a call is pending marks the intent denied; its
request can then never be resolved (`application/gateway.py:391`), and the run stays paused until it is
cancelled.

Of the graph: the continuation claim is released before the parent's last save
(`application/workflow.py:1492`, `1518`), so that a resume that read the pause before may
take the next claim in between; `OneVerifier` therefore speaks of the verification only. A resume that read the parent
before it waited cancels the graph, although nobody asked for it. A cancel that listed no
leases before the join began leaves the worktree of the join; a second cancel finds it. A cancel that is killed
after it has saved the end of the parent and before it fences the graph is not in the model: a coordinator that then
fails for a reason of its own finds that it may no longer end its nodes, skips the clean-up of its children
and leaves them to a second cancel. `EndedRunIsClean` is stated, and proved, for processes that cancel and recover to
their end.

Of budgets and campaigns: an attempt whose process died stays `RUNNING` and its seconds go on counting, until its
owner, and by the overrun its campaign, is refused. When the failure handler finds the
run cancelled or paused, the claim of the attempt is not settled (`application/workflow.py:581`). A second resume
that loses marks the agent failed and with it the run.

Of conversations: a recovery without review that read the run `RUNNING` before its owner paused it may
save `FAILED` over a turn that waits, which only a cancel settles. A resume refused by
configuration, credentials or rehydration at an approval keeps its claim, as does a failed cleanup in the
failure handler: the turn can then only be recovered as failed. A review of a settled turn whose application
died is offered and always refused (`adapters/persistence/conversations.py:949`); plain `fleet recover`
works. A fenced owner that is still alive may save a lease after its turn was settled, which is what
`SettledIsOver` says of `late`.

Of baselines: after a native callback that failed or was lost, the baseline stays `recovery_required`
even when the transport did remove the container. A recoverer may fence another that is alive. A chat
process blocks the recovery of its own baseline until it is left, and a process cannot try a second recovery. The error of an owner is
kept only in its report: an owner that dies before that loses it.

## 9. Not modelled

Runtime adapters (SDK glue), the CLI and dashboards (rendering), repository profilers,
configuration parsing and schemas (pure functions of files), secret redaction, provider
accounting formats, evidence bundles (pure functions of what is stored), model profiles (one revisioned row per
command). Of the modelled parts: validation of stored JSON
against its columns, events and artifacts, evidence contents, project and task rows.
Of `Resources`: the inside of reviewed recoveries and graph descendants, which `Sessions` and `GraphScheduler` treat as one
lease, the joining of two cleanups in one process, the fake and local providers, a Git
child that survives its killed driver. Of `Publication`: re-initialisation of a project,
runs from before there were admissions, the extra bindings of a confirmed review, a `.fleet` or
repository that is itself replaced by another directory, and power loss (the flushes are there for it;
the model's crash is the death of a process).
Of `GraphScheduler`: the contents of reports and patches, identity checks of rows and artifacts, the repair
loop of the joined parent, and liveness, for which users would have to be fair. Of `Campaign`: registration and
revisions of manifests, idempotency keys of repeated commands, digests, terminal outcomes
(`record_terminal` always refuses), the report, the stages and checkpoints of a run. Of `Sessions`: what a turn's text carries into the next, plans that need no
team, a second tier of leases, codes for patches, organizations, approvals, models and
baselines, the chat in front of it; one process holds one code and gives no other command meanwhile.
Of `Baseline`: planning the review, the digests the records bind, a reused process identity, a late start (only a
create may be late). The gateway's executors are one nondeterministic step: an effect or none, then a
result, an error or an interruption.
