--------------------------- MODULE GraphScheduler ---------------------------
(***************************************************************************)
(* The adaptive graph of one parent run: its nodes, the internal child run *)
(* of every node, and the claim of the process that drives them            *)
(* (application/graph.py, application/graph_workflow.py, the graph store   *)
(* of adapters/persistence/graphs.py).                                     *)
(*                                                                         *)
(* Every method of the store is one transaction, fenced by the driver's    *)
(* claim and by revisions.  A driver runs the children as asyncio tasks of *)
(* its own process, so a task moves only while its coordinator waits.      *)
(* Other processes resume, cancel and recover the parent, the user answers *)
(* what the children ask, and a driver may die at any point.               *)
(***************************************************************************)
EXTENDS Naturals, FiniteSets, FiniteSetsExt

CONSTANTS
  Nodes,          \* the nodes of the plan that have a child run, in order
  Plans,          \* what may be accepted: dependencies and max_parallel_agents
  Drivers,        \* processes that start or resume the parent
  First,          \* the one that accepted the plan
  Cancellers, Recoverers,
  MaxGen          \* bound on the driver claims of one behaviour

Procs == Drivers \cup Cancellers \cup Recoverers

ASSUME GraphAssumption ==
  /\ Nodes \subseteq Nat /\ IsFiniteSet(Nodes)
  /\ Plans \subseteq [dependsOn : [Nodes -> SUBSET Nodes], max : Nat \ {0}]
  /\ MaxGen \in Nat
  /\ First \in Drivers
  /\ Drivers \cap (Cancellers \cup Recoverers) = {}

VARIABLES
  plan,       \* the accepted plan, frozen with the graph
  parent,     \* the stored parent run
  child,      \* the stored child run of each node
  graph,      \* the graph row
  node,       \* the status of each node row
  pc, loc,    \* where each process is, and what it keeps in memory
  task        \* the asyncio task of each node in each driver
vars == <<plan, parent, child, graph, node, pc, loc, task>>

ParentStatus == {"running", "waiting", "paused", "ready", "failed", "rejected",
                 "cancelled"}
ParentEnded == {"failed", "rejected", "cancelled"}
ChildStatus == {"created", "running", "paused", "completed", "failed",
                "rejected", "cancelled"}
ChildEnded == {"completed", "failed", "rejected", "cancelled"}
NodeStatus == {"pending", "running", "waiting", "succeeded", "failed",
               "blocked", "cancelled"}
NodeEnded == {"succeeded", "failed", "blocked", "cancelled"}
GraphStatus == {"ready", "running", "paused", "joined", "failed", "cancelled"}
Answer == {"none", "pending", "approved", "denied"}

\* The worktree, sandbox and executions of a run; "left" when a clean-up of them
\* failed, or their driver died, and they wait for another one.
Resource == {"none", "held", "left"}
Cleaned(res) == IF res = "none" THEN {"none"} ELSE {"none", "left"}
Abandoned(res) == IF res = "none" THEN "none" ELSE "left"

TaskState == {"none", "begin", "prepare", "work", "clean",
              "failclean", "ok", "error", "stopped"}
TaskOver == {"ok", "error", "stopped"}

Running == {n \in Nodes : node[n] = "running"}
Tasks(p) == {n \in Nodes : task[p][n] # "none"}

Goto(p, label) == pc' = [pc EXCEPT ![p] = label]

\* A process that is done forgets everything.
NoLoc == [claim |-> 0, saw |-> <<"running", "implementing">>, rev |-> 0,
          left |-> {}, stop |-> FALSE, bad |-> FALSE, due |-> FALSE]

Finish(p) ==
  /\ Goto(p, "idle")
  /\ loc' = [loc EXCEPT ![p] = NoLoc]

\* initialize has inserted the graph, the child runs and their budgets in the
\* transaction that accepted the plan, and the parent is implementing.
Init ==
  /\ plan \in Plans
  /\ parent = [status |-> "running", stage |-> "implementing", ask |-> "none",
               patch |-> FALSE, res |-> "none"]
  /\ child = [n \in Nodes |-> [status |-> "created", ask |-> "none",
                               res |-> "none"]]
  /\ graph = [status |-> "ready", rev |-> 0, gen |-> 0, claim |-> 0,
              cancelled |-> FALSE, prepared |-> FALSE, completed |-> FALSE]
  /\ node = [n \in Nodes |-> "pending"]
  /\ pc = [p \in Procs |-> IF p = First THEN "acquire" ELSE "idle"]
  /\ loc = [p \in Procs |-> NoLoc]
  /\ task = [p \in Drivers |-> [n \in Nodes |-> "none"]]

(***************************************************************************)
(* Transactions of the graph store.                                        *)
(***************************************************************************)
Owned(p) ==
  /\ graph.claim = loc[p].claim /\ loc[p].claim # 0
  /\ ~graph.cancelled /\ graph.status \notin {"failed", "cancelled"}
  /\ parent.status \notin ParentEnded

\* What the coordinator compares when it reads the graph again.
Mine(p) == graph.claim = loc[p].claim /\ graph.status = "running"

NodeMoves ==
  ({"pending"} \X {"running", "blocked", "cancelled"})
  \cup ({"running"} \X {"waiting", "succeeded", "failed", "cancelled"})
  \cup ({"waiting"} \X {"running", "failed", "blocked", "cancelled"})

\* A bug: a dependency that has begun is enough.
DependenciesDone_begun(n) == \A d \in plan.dependsOn[n] : node[d] # "pending"

DependenciesDone(n) == \A d \in plan.dependsOn[n] : node[d] = "succeeded"

\* _successful_outputs: a result is taken from a child that has completed and
\* has no resource left.
GoodOutput(n) == child[n].status = "completed" /\ child[n].res = "none"

CanTransition(p, n, target) ==
  /\ Owned(p)
  /\ <<node[n], target>> \in NodeMoves
  /\ target = "running" =>
       /\ ~graph.prepared /\ DependenciesDone(n)
       /\ Cardinality(Running) < plan.max
       /\ IF node[n] = "waiting"
          THEN child[n].status = "paused" /\ child[n].ask = "approved"
          ELSE child[n].status \in {"created", "running"}
  /\ target = "waiting" => child[n].status = "paused" /\ child[n].ask # "none"
  /\ target = "succeeded" => GoodOutput(n)

TransitionNode(n, target) == node' = [node EXCEPT ![n] = target]

\* A bug: the claim does not read the row again.
CanClaimDriver_blind(rev) == ~graph.cancelled /\ parent.status \notin ParentEnded

CanClaimDriver(rev) ==
  /\ graph.rev = rev /\ graph.claim = 0 /\ ~graph.cancelled
  /\ graph.status \in {"ready", "paused"}
  /\ parent.status \notin ParentEnded
  /\ Running = {}

\* A bug: a continuation does not look for another one.
CanClaimContinuation_blind ==
  /\ graph.completed /\ ~graph.cancelled
  /\ parent.status \in {"running", "paused"}
  /\ parent.stage \in {"verifying", "presenting"}

CanClaimContinuation ==
  /\ graph.status = "joined" /\ graph.completed
  /\ graph.claim = 0 /\ ~graph.cancelled
  /\ parent.status \in {"running", "paused"}
  /\ parent.stage \in {"verifying", "presenting"}
  /\ \A n \in Nodes : node[n] = "succeeded"
  /\ parent.ask = IF parent.status = "paused" THEN "approved" ELSE "none"

TakeClaim(p) ==
  /\ graph' = [graph EXCEPT !.claim = graph.gen + 1, !.gen = graph.gen + 1,
                            !.rev = graph.rev + 1, !.status = "running"]
  /\ loc' = [loc EXCEPT ![p] = [NoLoc EXCEPT !.claim = graph.gen + 1]]

CanRelease(p, status) ==
  /\ Owned(p) /\ Running = {}
  /\ graph.prepared => graph.completed
  /\ (status = "joined") = graph.completed

\* A bug: the claim is given back, the status of the graph is not.
Release_running(status) ==
  graph' = [graph EXCEPT !.claim = 0, !.rev = graph.rev + 1]

Release(status) ==
  graph' = [graph EXCEPT !.claim = 0, !.status = status, !.rev = graph.rev + 1]

\* Two bugs: the children that have completed are cancelled too; a node is given
\* the status of its child.
RequestCancel_all ==
  /\ graph' = [graph EXCEPT !.claim = 0, !.cancelled = TRUE,
                            !.status = "cancelled", !.rev = graph.rev + 1]
  /\ child' = [n \in Nodes |-> [child[n] EXCEPT !.status = "cancelled"]]
  /\ node' = [n \in Nodes |-> IF node[n] \in NodeEnded THEN node[n] ELSE "cancelled"]
RequestCancel_copied ==
  /\ graph' = [graph EXCEPT !.claim = 0, !.cancelled = TRUE,
                            !.status = "cancelled", !.rev = graph.rev + 1]
  /\ child' = [n \in Nodes |-> IF child[n].status \in ChildEnded THEN child[n]
                               ELSE [child[n] EXCEPT !.status = "cancelled"]]
  /\ node' = [n \in Nodes |-> IF node[n] \in NodeEnded THEN node[n] ELSE child[n].status]

\* request_cancel ends every child that has not ended and every node with it,
\* and takes the claim from the driver.
RequestCancel ==
  /\ graph' = [graph EXCEPT !.claim = 0, !.cancelled = TRUE,
                            !.status = "cancelled", !.rev = graph.rev + 1]
  /\ child' = [n \in Nodes |-> IF child[n].status \in ChildEnded THEN child[n]
                               ELSE [child[n] EXCEPT !.status = "cancelled"]]
  /\ node' = [n \in Nodes |-> IF node[n] \in NodeEnded THEN node[n] ELSE "cancelled"]

(***************************************************************************)
(* A driver acquires the graph.                                            *)
(***************************************************************************)

\* resume: an adaptive parent that is running is nobody's to take over.  A
\* denied question of the parent rejects it.
Resume(p) ==
  /\ pc[p] = "idle" /\ graph.gen <= MaxGen
  /\ \/ /\ parent.status = "waiting" /\ graph.gen < MaxGen
        /\ Goto(p, "acquire") /\ UNCHANGED parent
     \/ /\ parent.status = "paused" /\ parent.ask = "approved"
        /\ Goto(p, "claimrest") /\ UNCHANGED parent
     \/ /\ parent.status = "paused" /\ parent.ask = "denied"
        /\ parent' = [parent EXCEPT !.status = "rejected"]
        /\ Goto(p, "cleanparent")
  /\ loc' = [loc EXCEPT ![p] = [NoLoc EXCEPT !.saw = <<parent.status, parent.stage>>]]
  /\ UNCHANGED <<plan, child, graph, node, task>>

\* _acquire reads the parent, then the graph, and claims by compare-and-swap;
\* whoever does not get the claim leaves everything alone.
ReadParent(p) ==
  /\ pc[p] = "acquire"
  /\ loc' = [loc EXCEPT ![p].saw = <<parent.status, parent.stage>>]
  /\ Goto(p, "readgraph")
  /\ UNCHANGED <<plan, parent, child, graph, node, task>>

ReadGraph(p) ==
  /\ pc[p] = "readgraph"
  /\ IF /\ graph.status = "joined" /\ graph.claim = 0
        /\ loc[p].saw = <<"running", "verifying">>
     THEN Goto(p, "claimrest") /\ UNCHANGED loc
     ELSE IF /\ graph.status \in {"ready", "paused"}
             /\ loc[p].saw \in {"running", "waiting"} \X {"implementing"}
     THEN Goto(p, "claim") /\ loc' = [loc EXCEPT ![p].rev = graph.rev]
     ELSE Finish(p)
  /\ UNCHANGED <<plan, parent, child, graph, node, task>>

ClaimDriver(p) ==
  /\ pc[p] = "claim"
  /\ \/ /\ CanClaimDriver(loc[p].rev) /\ TakeClaim(p)
        /\ Goto(p, IF loc[p].saw[1] = "waiting" THEN "wake" ELSE "scan")
     \/ ~CanClaimDriver(loc[p].rev) /\ UNCHANGED graph /\ Finish(p)
  /\ UNCHANGED <<plan, parent, child, node, task>>

\* Every failure of the coordinator goes through _abort; `stop` says whether it
\* is a cancellation.
Abort(p, stop) ==
  /\ loc' = [loc EXCEPT ![p].stop = stop, ![p].left = {}]
  /\ Goto(p, "gather")

\* The parent, as it was read before the claim, is saved as running.
Wake(p) ==
  /\ pc[p] = "wake"
  /\ \/ /\ parent.status \in {"running", "waiting"}
        /\ parent' = [parent EXCEPT !.status = "running"]
        /\ Goto(p, "scan") /\ UNCHANGED loc
     \/ parent.status \notin {"running", "waiting"} /\ Abort(p, FALSE) /\ UNCHANGED parent
  /\ UNCHANGED <<plan, child, graph, node, task>>

(***************************************************************************)
(* The loop of _drive_claimed.  One pass reads the fence and the parent,   *)
(* starts what is ready, in the order of the nodes, then waits or decides. *)
(***************************************************************************)
Scan(p) ==
  /\ \/ pc[p] = "scan"
     \/ pc[p] = "settle" /\ loc[p].left = {}
  /\ IF graph.cancelled \/ parent.status # "running" THEN Abort(p, TRUE)
     ELSE IF ~Mine(p) \/ \E n \in Nodes : node[n] \in {"failed", "blocked", "cancelled"}
          THEN Abort(p, FALSE)
     ELSE loc' = [loc EXCEPT ![p].left = Nodes] /\ Goto(p, "start")
  /\ UNCHANGED <<plan, parent, child, graph, node, task>>

ReadyNodes(p) ==
  {n \in loc[p].left :
     \/ node[n] = "pending" /\ DependenciesDone(n)
     \/ node[n] = "waiting" /\ child[n].ask = "approved"}

\* _ready raises for a question that was denied, and for a child that is no
\* longer paused.
Refused(p) ==
  {n \in loc[p].left :
     node[n] = "waiting" /\ (child[n].ask = "denied" \/ child[n].status # "paused")}

\* The end of a pass: wait for a task; or, when nothing runs and nothing is
\* ready, join, park or fail.
PassDone(p) ==
  /\ pc[p] = "start"
  /\ \/ Cardinality(Tasks(p)) >= plan.max
     \/ ReadyNodes(p) \cup Refused(p) = {}
  /\ LET next == IF Tasks(p) # {} THEN "wait"
                 ELSE IF \A n \in Nodes : node[n] = "succeeded" THEN "join"
                 ELSE IF \E n \in Nodes : node[n] = "waiting" THEN "park"
                 ELSE "fail"
     IN  IF Tasks(p) = {} /\ graph.cancelled THEN Abort(p, TRUE)
         ELSE IF Tasks(p) = {} /\ (~Mine(p) \/ next = "fail") THEN Abort(p, FALSE)
         ELSE Goto(p, next) /\ loc' = [loc EXCEPT ![p].left = {}]
  /\ UNCHANGED <<plan, parent, child, graph, node, task>>

\* A node whose question was denied, or the active seconds of the shared budget
\* are spent.
PassFails(p) ==
  /\ pc[p] = "start"
  /\ Cardinality(Tasks(p)) < plan.max
  /\ ReadyNodes(p) \cup Refused(p) # {}
  /\ Abort(p, FALSE)
  /\ UNCHANGED <<plan, parent, child, graph, node, task>>

\* prepare_graph_child binds the artifacts and the budget of a pending child,
\* the node is running, and the task of the child is created.  A cancellation
\* is seen by the fence read before, or by the transition itself.
StartNode(p) ==
  /\ pc[p] = "start"
  /\ Cardinality(Tasks(p)) < plan.max
  /\ ReadyNodes(p) \cup Refused(p) # {}
  /\ LET n == Min(ReadyNodes(p) \cup Refused(p))
     IN  /\ n \notin Refused(p)
         /\ IF CanTransition(p, n, "running")
            THEN /\ TransitionNode(n, "running")
                 /\ task' = [task EXCEPT ![p][n] = "begin"]
                 /\ loc' = [loc EXCEPT ![p].left = {m \in @ : m > n}]
                 /\ UNCHANGED pc
            ELSE /\ UNCHANGED <<node, task>>
                 /\ \E stop \in {FALSE, graph.cancelled} : Abort(p, stop)
  /\ UNCHANGED <<plan, parent, child, graph>>

\* The coordinator wakes up, because a task ended or a quarter of a second
\* passed, and reads its fence before it accepts any result.
Watch(p) ==
  /\ pc[p] = "wait"
  /\ IF graph.cancelled THEN Abort(p, TRUE)
     ELSE IF ~Mine(p) THEN Abort(p, FALSE)
     ELSE \/ /\ loc' = [loc EXCEPT ![p].left = {n \in Nodes : task[p][n] \in TaskOver}]
             /\ Goto(p, "settle")
          \/ Abort(p, FALSE)         \* the active seconds are spent
  /\ UNCHANGED <<plan, parent, child, graph, node, task>>

SettleTarget(n, state) ==
  IF state = "error" THEN "failed"
  ELSE IF child[n].status = "paused" THEN "waiting"
  ELSE IF child[n].status = "completed" THEN "succeeded"
  ELSE "failed"

Settle(p) ==
  /\ pc[p] = "settle" /\ loc[p].left # {}
  /\ LET n == Min(loc[p].left)
         target == SettleTarget(n, task[p][n])
     IN  /\ task' = [task EXCEPT ![p][n] = "none"]
         /\ IF CanTransition(p, n, target)
            THEN /\ TransitionNode(n, target)
                 /\ IF target = "failed" THEN Abort(p, FALSE)
                    ELSE loc' = [loc EXCEPT ![p].left = @ \ {n}] /\ UNCHANGED pc
            ELSE /\ UNCHANGED node
                 /\ \E stop \in {FALSE, graph.cancelled} : Abort(p, stop)
  /\ UNCHANGED <<plan, parent, child, graph>>

\* The parent is saved as waiting, then the driver is released.
Park(p) ==
  /\ pc[p] = "park"
  /\ IF parent.status \in {"running", "waiting"}
     THEN /\ parent' = [parent EXCEPT !.status = "waiting"]
          /\ Goto(p, "release") /\ UNCHANGED loc
     ELSE Abort(p, FALSE) /\ UNCHANGED parent
  /\ UNCHANGED <<plan, child, graph, node, task>>

ReleasePaused(p) ==
  /\ pc[p] = "release"
  /\ IF CanRelease(p, "paused")
     THEN Release("paused") /\ Finish(p)
     ELSE Abort(p, FALSE) /\ UNCHANGED graph
  /\ UNCHANGED <<plan, parent, child, node, task>>

(***************************************************************************)
(* The join: prepared in the graph, built in the parent's own candidate,   *)
(* completed in the graph, and only then released.                         *)
(***************************************************************************)
PrepareJoin(p) ==
  /\ pc[p] = "join"
  /\ IF /\ ~graph.prepared /\ Owned(p)
        /\ \A n \in Nodes : node[n] = "succeeded" /\ GoodOutput(n)
     THEN /\ graph' = [graph EXCEPT !.prepared = TRUE, !.rev = @ + 1]
          /\ Goto(p, "joinwork") /\ UNCHANGED loc
     ELSE Abort(p, FALSE) /\ UNCHANGED graph
  /\ UNCHANGED <<plan, parent, child, node, task>>

\* join_graph_candidates: the patches apply to a fresh candidate of the parent,
\* or not; the joined patch is saved and the parent is verifying.
JoinWork(p) ==
  /\ pc[p] = "joinwork"
  /\ \/ /\ parent.status = "running" /\ ~parent.patch
        /\ parent' = [parent EXCEPT !.patch = TRUE, !.res = "held", !.stage = "verifying"]
        /\ Goto(p, "joined") /\ UNCHANGED loc
     \/ \E res \in {parent.res, "held"} :
          parent' = [parent EXCEPT !.res = res] /\ Abort(p, FALSE)
  /\ UNCHANGED <<plan, child, graph, node, task>>

CompleteJoin(p) ==
  /\ pc[p] = "joined"
  /\ IF Owned(p) /\ graph.prepared /\ parent.patch /\ parent.res # "none"
     THEN /\ graph' = [graph EXCEPT !.completed = TRUE, !.status = "joined", !.rev = @ + 1]
          /\ Goto(p, "releasejoin") /\ UNCHANGED loc
     ELSE /\ UNCHANGED graph
          /\ \E stop \in {FALSE, graph.cancelled} : Abort(p, stop)
  /\ UNCHANGED <<plan, parent, child, node, task>>

ReleaseJoined(p) ==
  /\ pc[p] = "releasejoin"
  /\ IF CanRelease(p, "joined")
     THEN Release("joined") /\ Goto(p, "claimrest") /\ UNCHANGED loc
     ELSE Abort(p, FALSE) /\ UNCHANGED graph
  /\ UNCHANGED <<plan, parent, child, node, task>>

(***************************************************************************)
(* execute_graph_child: the task of one node, up to each of its awaits.    *)
(***************************************************************************)
At(p, n, label) == pc[p] = "wait" /\ task[p][n] = label
TaskGoto(p, n, label) == task' = [task EXCEPT ![p][n] = label]
SetChild(n, status) == child' = [child EXCEPT ![n].status = status]

\* A failure is saved unless the child has ended, then its resources go.
FailTask(p, n) ==
  /\ child' = [child EXCEPT ![n].status = IF @ \in ChildEnded THEN @ ELSE "failed"]
  /\ TaskGoto(p, n, "failclean")

\* It starts under whatever driver owns the graph; the sandboxes of a child
\* that waited are restored before it is saved as running.
TaskBegin(p, n) ==
  /\ At(p, n, "begin")
  /\ IF graph.claim = 0 \/ graph.status # "running" \/ node[n] # "running"
     THEN TaskGoto(p, n, "error") /\ UNCHANGED child
     ELSE \/ /\ child[n].status \in {"created", "paused"}
             /\ child' = [child EXCEPT ![n].status = "running", ![n].ask = "none"]
             /\ TaskGoto(p, n, IF child[n].status = "paused" THEN "work" ELSE "prepare")
          \/ child[n].status # "created" /\ FailTask(p, n)
  /\ UNCHANGED <<plan, parent, graph, node, pc, loc>>

TaskPrepare(p, n) ==
  /\ At(p, n, "prepare")
  /\ \/ /\ child[n].status = "running"
        /\ child' = [child EXCEPT ![n].res = "held"]
        /\ TaskGoto(p, n, "work")
     \/ /\ \E res \in {child[n].res, "held"} :
             child' = [child EXCEPT ![n].res = res,
                         ![n].status = IF @ \in ChildEnded THEN @ ELSE "failed"]
        /\ TaskGoto(p, n, "failclean")
  /\ UNCHANGED <<plan, parent, graph, node, pc, loc>>

\* The agent works, asks, or fails.
TaskWork(p, n) ==
  /\ At(p, n, "work")
  /\ \/ /\ child[n].status = "running"
        /\ child' = [child EXCEPT ![n].status = "paused", ![n].ask = "pending"]
        /\ TaskGoto(p, n, "ok")
     \/ child[n].status = "running" /\ TaskGoto(p, n, "clean") /\ UNCHANGED child
     \/ FailTask(p, n)
  /\ UNCHANGED <<plan, parent, graph, node, pc, loc>>

\* The resources go first, then the receipt and the end of the child are saved.
TaskClean(p, n) ==
  /\ At(p, n, "clean")
  /\ \/ /\ child' = [child EXCEPT ![n].res = "none",
                     ![n].status = IF @ = "running" THEN "completed" ELSE @]
        /\ TaskGoto(p, n, IF child[n].status = "running" THEN "ok" ELSE "failclean")
     \/ FailTask(p, n)
  /\ UNCHANGED <<plan, parent, graph, node, pc, loc>>

TaskFailClean(p, n) ==
  /\ At(p, n, "failclean")
  /\ \E res \in Cleaned(child[n].res) : child' = [child EXCEPT ![n].res = res]
  /\ TaskGoto(p, n, "error")
  /\ UNCHANGED <<plan, parent, graph, node, pc, loc>>

\* A task that its coordinator cancels ends at the await it is at.
TaskStop(p, n) ==
  /\ pc[p] = "gather" /\ task[p][n] \notin TaskOver \cup {"none"}
  /\ \E res \in {child[n].res} \cup
                 (IF task[p][n] = "prepare" THEN {"held"}
                  ELSE IF task[p][n] \in {"clean", "failclean"} THEN {"none"} ELSE {}) :
       child' = [child EXCEPT ![n].res = res]
  /\ TaskGoto(p, n, "stopped")
  /\ UNCHANGED <<plan, parent, graph, node, pc, loc>>

(***************************************************************************)
(* _abort: every task has ended before the graph is touched.               *)
(***************************************************************************)
AfterAbort(p) == IF loc[p].stop THEN "cancelparent" ELSE "failsave"

\* A bug: a coordinator that lost its claim leaves the cleaning to the winner.
Gathered_left(p) ==
  /\ pc[p] = "gather"
  /\ \A n \in Nodes : task[p][n] \in TaskOver \cup {"none"}
  /\ task' = [task EXCEPT ![p] = [n \in Nodes |-> "none"]]
  /\ loc' = [loc EXCEPT ![p].rev = IF loc[p].stop /\ Mine(p) THEN graph.rev ELSE 0,
                       ![p].left = Nodes]
  /\ Goto(p, IF ~Mine(p) THEN AfterAbort(p)
             ELSE IF loc[p].stop THEN "abortfence" ELSE "endnodes")
  /\ UNCHANGED <<plan, parent, child, graph, node>>

Gathered(p) ==
  /\ pc[p] = "gather"
  /\ \A n \in Nodes : task[p][n] \in TaskOver \cup {"none"}
  /\ task' = [task EXCEPT ![p] = [n \in Nodes |-> "none"]]
  /\ loc' = [loc EXCEPT ![p].rev = IF loc[p].stop /\ Mine(p) THEN graph.rev ELSE 0,
                       ![p].left = Nodes]
  /\ Goto(p, IF ~Mine(p) THEN "cleankids"
             ELSE IF loc[p].stop THEN "abortfence" ELSE "endnodes")
  /\ UNCHANGED <<plan, parent, child, graph, node>>

AbortFence(p) ==
  /\ pc[p] = "abortfence"
  /\ IF graph.rev = loc[p].rev
     THEN RequestCancel /\ Goto(p, "cleankids")
     ELSE UNCHANGED <<graph, child, node>> /\ Goto(p, AfterAbort(p))
  /\ UNCHANGED <<plan, parent, loc, task>>

EndNodes(p) ==
  /\ pc[p] = "endnodes"
  /\ LET live == {n \in Nodes : node[n] \notin NodeEnded}
         n == Min(live)
         target == IF node[n] = "pending" THEN "blocked" ELSE "failed"
     IN  IF live = {} THEN Goto(p, "cleankids") /\ UNCHANGED node
         ELSE IF CanTransition(p, n, target) THEN TransitionNode(n, target) /\ UNCHANGED pc
         ELSE Goto(p, AfterAbort(p)) /\ UNCHANGED node
  /\ UNCHANGED <<plan, parent, child, graph, loc, task>>

\* Child by child; cleanup_graph_children of a driver also ends the child of a
\* node that failed or was blocked, cancel and recover have fenced them all.
Cleaning == {"cleankids", "cleanfenced"}

CleanChild(p) ==
  /\ pc[p] \in Cleaning /\ loc[p].left # {}
  /\ LET n == Min(loc[p].left)
         end == IF p \in Drivers /\ node[n] \in {"failed", "blocked"}
                   /\ child[n].status \notin ChildEnded
                THEN IF child[n].ask = "denied" THEN "rejected" ELSE "failed"
                ELSE child[n].status
     IN  \E res \in Cleaned(child[n].res) :
           /\ child' = [child EXCEPT ![n].status = end, ![n].res = res]
           /\ loc' = [loc EXCEPT ![p].left = @ \ {n}, ![p].bad = @ \/ res = "left"]
  /\ UNCHANGED <<plan, parent, graph, node, pc, task>>

AbortCleaned(p) ==
  /\ pc[p] = "cleankids" /\ loc[p].left = {}
  /\ IF ~loc[p].bad /\ Mine(p) /\ ~graph.prepared /\ CanRelease(p, "failed")
     THEN Release("failed") ELSE UNCHANGED graph
  /\ Goto(p, AfterAbort(p))
  /\ UNCHANGED <<plan, parent, child, node, loc, task>>

\* The failure handler of start and resume.
FailSave(p) ==
  /\ pc[p] = "failsave"
  /\ IF parent.status \in {"paused", "rejected", "cancelled"}
     THEN UNCHANGED parent /\ Finish(p)
     ELSE /\ parent' = [parent EXCEPT !.status = "failed"]
          /\ loc' = [loc EXCEPT ![p] = NoLoc] /\ Goto(p, "cleanparent")
  /\ UNCHANGED <<plan, child, graph, node, task>>

CleanParent(p) ==
  /\ pc[p] = "cleanparent"
  /\ \E res \in Cleaned(parent.res) : parent' = [parent EXCEPT !.res = res]
  /\ Finish(p)
  /\ UNCHANGED <<plan, child, graph, node, task>>

(***************************************************************************)
(* Cancellation: cancel_parent of an interrupted driver, `fleet cancel`,   *)
(* `fleet recover`.  Each ends the parent first, then fences the graph.    *)
(***************************************************************************)
CancelParent(p) ==
  /\ pc[p] = "cancelparent"
  /\ parent' = [parent EXCEPT !.status = IF @ \in ParentEnded \cup {"ready"} THEN @
                                         ELSE "cancelled"]
  /\ loc' = [loc EXCEPT ![p] = [NoLoc EXCEPT !.due = TRUE]]
  /\ Goto(p, "readfence")
  /\ UNCHANGED <<plan, child, graph, node, task>>

SomethingHeld == parent.res # "none" \/ \E n \in Nodes : child[n].res # "none"

Cancel(p) ==
  /\ pc[p] = "idle"
  /\ IF \/ parent.status \in {"failed", "rejected"}
        \/ parent.status = "cancelled" /\ ~SomethingHeld
     THEN UNCHANGED parent /\ Finish(p)
     ELSE /\ parent' = [parent EXCEPT !.status = "cancelled"]
          /\ loc' = [loc EXCEPT ![p].due = (parent.res # "none")] /\ Goto(p, "readfence")
  /\ UNCHANGED <<plan, child, graph, node, task>>

\* recover --confirm-owner-stopped: the user has made sure no driver is left.
Recover(p) ==
  /\ pc[p] = "idle"
  /\ \A d \in Drivers : pc[d] = "idle"
  /\ LET interrupted == \/ parent.status = "running"
                        \/ graph.claim # 0 /\ parent.status \in {"paused", "waiting"}
     IN  IF interrupted \/ parent.status \in ParentEnded
         THEN /\ parent' = [parent EXCEPT !.status = IF interrupted THEN "failed" ELSE @]
              /\ loc' = [loc EXCEPT ![p].due = TRUE] /\ Goto(p, "readfence")
         ELSE UNCHANGED parent /\ Finish(p)
  /\ UNCHANGED <<plan, child, graph, node, task>>

ReadFence(p) ==
  /\ pc[p] = "readfence"
  /\ IF graph.cancelled
     THEN loc' = [loc EXCEPT ![p].left = Nodes] /\ Goto(p, "cleanfenced")
     ELSE loc' = [loc EXCEPT ![p].rev = graph.rev] /\ Goto(p, "fence")
  /\ UNCHANGED <<plan, parent, child, graph, node, task>>

Fence(p) ==
  /\ pc[p] = "fence"
  /\ IF graph.rev = loc[p].rev
     THEN /\ RequestCancel /\ Goto(p, "cleanfenced")
          /\ loc' = [loc EXCEPT ![p].rev = 0, ![p].left = Nodes]
     ELSE /\ UNCHANGED <<graph, child, node>>
          /\ IF p \in Drivers
             THEN loc' = [loc EXCEPT ![p] = NoLoc] /\ Goto(p, "cleanparent")
             ELSE Finish(p)
  /\ UNCHANGED <<plan, parent, task>>

FencedClean(p) ==
  /\ pc[p] = "cleanfenced" /\ loc[p].left = {}
  /\ IF loc[p].due /\ (p \in Drivers \/ ~loc[p].bad)
     THEN Goto(p, "cleanparent") /\ loc' = [loc EXCEPT ![p] = NoLoc]
     ELSE Finish(p)
  /\ UNCHANGED <<plan, parent, child, graph, node, task>>

(***************************************************************************)
(* After the join: the parent's own verification, under a new claim.       *)
(***************************************************************************)
ClaimContinuation(p) ==
  /\ pc[p] = "claimrest"
  /\ \/ /\ CanClaimContinuation /\ TakeClaim(p)
        /\ Goto(p, IF loc[p].saw[1] = "paused" THEN "rehydrate" ELSE "rest")
     \/ UNCHANGED graph /\ Finish(p)
  /\ UNCHANGED <<plan, parent, child, node, task>>

\* The sandboxes of an approved parent are restored, then the run is saved as
\* running.  A failure ends the parent and fences the graph.
Rehydrate(p) ==
  /\ pc[p] = "rehydrate"
  /\ \/ /\ parent.status \in {"paused", "running"}
        /\ parent' = [parent EXCEPT !.status = "running", !.ask = "none"]
        /\ Goto(p, "rest") /\ UNCHANGED loc
     \/ /\ parent.status \notin ParentEnded
        /\ parent' = [parent EXCEPT !.status = "failed"]
        /\ loc' = [loc EXCEPT ![p].due = TRUE] /\ Goto(p, "readfence")
     \/ /\ parent.status \in ParentEnded
        /\ UNCHANGED parent /\ Finish(p)
  /\ UNCHANGED <<plan, child, graph, node, task>>

\* The verifier passes, asks, rejects or fails (the repair loop is left out).
Rest(p) ==
  /\ pc[p] = "rest"
  /\ \/ parent.status = "paused" /\ UNCHANGED parent /\ Goto(p, "leave")
     \/ /\ parent.status = "running" /\ parent.stage = "verifying"
        /\ \/ /\ parent' = [parent EXCEPT !.status = "paused", !.ask = "pending"]
              /\ Goto(p, "leave")
           \/ parent' = [parent EXCEPT !.stage = "presenting"] /\ Goto(p, "present")
           \/ UNCHANGED parent /\ Goto(p, "reject")
     \/ parent.stage = "presenting" /\ UNCHANGED parent /\ Goto(p, "present")
     \/ UNCHANGED parent /\ Goto(p, "leavefailed")
  /\ UNCHANGED <<plan, child, graph, node, loc, task>>

\* _release_parent_continuation: `next` when it returns.
ReleaseContinuation(p, next) ==
  LET own == ~graph.cancelled /\ graph.claim = loc[p].claim
      lost == ~graph.cancelled /\ ~own /\ (graph.claim # 0 \/ graph.status # "joined")
      label == IF own /\ ~CanRelease(p, "joined") THEN "failsave" ELSE next
  IN  /\ IF own /\ CanRelease(p, "joined") THEN Release("joined") ELSE UNCHANGED graph
      /\ IF lost \/ label = "idle" THEN Finish(p) ELSE Goto(p, label) /\ UNCHANGED loc

Leave(p) ==
  /\ \/ pc[p] = "leave" /\ ReleaseContinuation(p, "idle")
     \/ pc[p] = "leavefailed" /\ ReleaseContinuation(p, "failsave")
     \/ pc[p] = "reject" /\ ReleaseContinuation(p, "saverejected")
     \/ pc[p] = "presented" /\ ReleaseContinuation(p, "saveready")
  /\ UNCHANGED <<plan, parent, child, node, task>>

SaveRejected(p) ==
  /\ pc[p] = "saverejected"
  /\ IF parent.status \in {"running", "rejected"} /\ parent.stage = "verifying"
     THEN parent' = [parent EXCEPT !.status = "rejected"] /\ Goto(p, "cleanparent")
     ELSE UNCHANGED parent /\ Goto(p, "leavefailed")
  /\ UNCHANGED <<plan, child, graph, node, loc, task>>

\* The final clean-up of the children and of the parent, and its receipt.
Present(p) ==
  /\ pc[p] = "present"
  /\ \/ /\ parent.status = "running"
        /\ parent' = [parent EXCEPT !.res = "none"] /\ Goto(p, "presented")
     \/ UNCHANGED parent /\ Goto(p, "leavefailed")
  /\ UNCHANGED <<plan, child, graph, node, loc, task>>

SaveReady(p) ==
  /\ pc[p] = "saveready"
  /\ IF parent.status \in {"running", "ready"} /\ parent.stage = "presenting"
     THEN parent' = [parent EXCEPT !.status = "ready"] /\ Goto(p, "leave")
     ELSE UNCHANGED parent /\ Goto(p, "leavefailed")
  /\ UNCHANGED <<plan, child, graph, node, loc, task>>

(***************************************************************************)
(* The user, interrupts and deaths.                                        *)
(***************************************************************************)
AnswerChild(n, a) ==
  /\ child[n].status = "paused" /\ child[n].ask = "pending"
  /\ child' = [child EXCEPT ![n].ask = a]
  /\ UNCHANGED <<plan, parent, graph, node, pc, loc, task>>

AnswerParent(a) ==
  /\ parent.status = "paused" /\ parent.ask = "pending"
  /\ parent' = [parent EXCEPT !.ask = a]
  /\ UNCHANGED <<plan, child, graph, node, pc, loc, task>>

\* Ctrl-C reaches a driver at an await.
Interrupt(p) ==
  /\ \/ pc[p] \in {"wait", "joinwork"} /\ Abort(p, TRUE)
     \/ /\ pc[p] \in {"rest", "present"}
        /\ loc' = [loc EXCEPT ![p].stop = TRUE] /\ Goto(p, "cancelparent")
  /\ UNCHANGED <<plan, parent, child, graph, node, task>>

\* A process dies; whoever is started next in its place knows nothing.
Die(p) ==
  /\ pc[p] # "idle"
  /\ task' = [task EXCEPT ![p] = [n \in Nodes |-> "none"]]
  /\ IF loc[p].claim # 0 \/ pc[p] \in {"readfence", "fence", "cleanfenced", "cleanparent"}
     THEN /\ child' = [n \in Nodes |-> [child[n] EXCEPT !.res = Abandoned(@)]]
          /\ parent' = [parent EXCEPT !.res = Abandoned(@)]
     ELSE UNCHANGED <<child, parent>>
  /\ Finish(p)
  /\ UNCHANGED <<plan, graph, node>>

TaskStep(p, n) ==
  \/ TaskBegin(p, n) \/ TaskPrepare(p, n) \/ TaskWork(p, n)
  \/ TaskClean(p, n) \/ TaskFailClean(p, n)

Coordinate(p) ==
  \/ ReadParent(p) \/ ReadGraph(p) \/ ClaimDriver(p) \/ Wake(p)
  \/ Scan(p) \/ PassDone(p) \/ PassFails(p) \/ StartNode(p)
  \/ Watch(p) \/ Settle(p) \/ Park(p) \/ ReleasePaused(p)
  \/ PrepareJoin(p) \/ JoinWork(p) \/ CompleteJoin(p) \/ ReleaseJoined(p)
  \/ Gathered(p) \/ AbortFence(p) \/ EndNodes(p) \/ AbortCleaned(p) \/ FailSave(p)
  \/ CancelParent(p) \/ ClaimContinuation(p) \/ Rehydrate(p) \/ Rest(p) \/ Leave(p)
  \/ SaveRejected(p) \/ Present(p) \/ SaveReady(p)
  \/ \E n \in Nodes : TaskStop(p, n)

Fencing(p) ==
  CleanChild(p) \/ CleanParent(p) \/ ReadFence(p) \/ Fence(p) \/ FencedClean(p)

Next ==
  \/ \E p \in Drivers :
       \/ Resume(p) \/ Coordinate(p) \/ Interrupt(p) \/ Die(p)
       \/ \E n \in Nodes : TaskStep(p, n)
  \/ \E p \in Procs : Fencing(p)
  \/ \E p \in Cancellers : Cancel(p)
  \/ \E p \in Recoverers : Recover(p)
  \/ \E a \in {"approved", "denied"} :
       AnswerParent(a) \/ \E n \in Nodes : AnswerChild(n, a)

Spec == Init /\ [][Next]_vars

(***************************************************************************)
(* Properties.                                                             *)
(***************************************************************************)

\* The stored rows and what the processes keep have the shapes the store
\* validates (GraphRecord, GraphNodeRecord, Run).
TypeOK ==
  /\ plan \in Plans
  /\ parent \in [status : ParentStatus, stage : {"implementing", "verifying", "presenting"},
                 ask : Answer, patch : BOOLEAN, res : Resource]
  /\ child \in [Nodes -> [status : ChildStatus, ask : Answer, res : Resource]]
  /\ graph \in [status : GraphStatus, rev : Nat, gen : Nat, claim : Nat,
                cancelled : BOOLEAN, prepared : BOOLEAN, completed : BOOLEAN]
  /\ node \in [Nodes -> NodeStatus]
  /\ task \in [Drivers -> [Nodes -> TaskState]]

\* Only one process runs children, whoever else resumed the parent on a stale
\* snapshot: claim_driver compares the revision the loser has read.
OneDriverWorks ==
  \A p, q \in Drivers : Tasks(p) # {} /\ Tasks(q) # {} => p = q

\* A join that was completed stays a join of every node: the joined patch is
\* there and each child it was taken from has completed and left nothing, also
\* after a cancellation or a recovery (mark_join_prepared, request_cancel).
JoinedFromAll ==
  graph.completed =>
    /\ parent.patch
    /\ \A n \in Nodes : /\ node[n] = "succeeded"
                        /\ child[n].status = "completed" /\ child[n].res = "none"

Quiet == \A p \in Procs : pc[p] = "idle"

\* When everybody who worked on an ended parent has returned, no resource of a
\* child is forgotten: what is left was left by a clean-up that failed or by a
\* driver that died.  A task may create resources after a cancel in another
\* process has cleaned up; its own coordinator has to find them (_abort).
EndedRunIsClean ==
  Quiet /\ parent.status \in ParentEnded
    => \A n \in Nodes : child[n].res # "held"

\* A parent that waits for its children can be resumed on a question somebody
\* was asked, or its graph has an owner or a cancellation, for which there is
\* `fleet recover`: the parent and the graph are saved in two transactions.
WaitingCanResume ==
  parent.status = "waiting" /\ Quiet
    => \/ graph.cancelled \/ graph.claim # 0
       \/ /\ CanClaimDriver(graph.rev)
          /\ \E n \in Nodes : node[n] = "waiting" /\ child[n].ask # "none"

\* Two processes never verify or repair the joined parent at once, although two
\* may resume the same approved pause (claim_continuation).
OneVerifier ==
  \A p, q \in Drivers : pc[p] = "rest" /\ pc[q] = "rest" => p = q

Work(n) ==
  CASE child[n].status = "created" -> "todo"
    [] child[n].status = "running" -> "busy"
    [] child[n].status = "paused" -> "waiting"
    [] child[n].status = "completed" -> "done"
    [] OTHER -> "stopped"

Abstract == INSTANCE TaskGraph WITH work <- [n \in Nodes |-> Work(n)],
                                    closed <- graph.cancelled,
                                    joined <- graph.completed

\* The child runs implement the abstract task graph: in the order of the plan,
\* never more than it allows at once, nothing after a cancellation, one join,
\* whichever drivers come, die or are cancelled.
TaskGraphSpec == Abstract!Spec
=============================================================================
