------------------------ MODULE GraphScheduler_proofs ------------------------
(***************************************************************************)
(* Proofs about GraphScheduler, for any plan, any number of drivers and of *)
(* processes that cancel and recover, and any number of claims: one driver *)
(* works, one verifies, a join is a join of everything, a parent that      *)
(* waits can be resumed, an ended run is clean, and the children implement *)
(* the task graph.                                                         *)
(***************************************************************************)
EXTENDS GraphScheduler, FiniteSetTheorems, WellFoundedInduction, TLAPS

Stages == {"implementing", "verifying", "presenting"}

Parent == [status : ParentStatus, stage : Stages, ask : Answer, patch : BOOLEAN, res : Resource]
Child == [status : ChildStatus, ask : Answer, res : Resource]
Graph == [status : GraphStatus, rev : Nat, gen : Nat, claim : Nat,
          cancelled : BOOLEAN, prepared : BOOLEAN, completed : BOOLEAN]
Loc == [claim : Nat, saw : ParentStatus \X Stages, rev : Nat, left : SUBSET Nodes,
        stop : BOOLEAN, bad : BOOLEAN, due : BOOLEAN]

\* The loop of a driver up to its join; its whole time with the claim of the graph,
\* which it may have lost to a cancellation, but to no other driver.
Looping == {"wake", "scan", "start", "wait", "settle", "park", "release"}
Joining == {"join", "joinwork", "joined", "releasejoin"}
Aborting == {"gather", "abortfence", "endnodes", "cleankids"}
Holding == Looping \cup Joining \cup Aborting \cup {"rehydrate", "rest", "present"}
Outside == {"idle", "acquire", "readgraph", "claim", "claimrest", "leave", "leavefailed", "reject",
            "presented", "saverejected", "saveready", "failsave", "cleanparent", "cancelparent",
            "readfence", "cleanfenced"}
Labels == Holding \cup Outside \cup {"fence"}

Types ==
  /\ plan \in Plans
  /\ parent \in Parent
  /\ child \in [Nodes -> Child]
  /\ graph \in Graph
  /\ node \in [Nodes -> NodeStatus]
  /\ pc \in [Procs -> Labels]
  /\ loc \in [Procs -> Loc]
  /\ task \in [Drivers -> [Nodes -> TaskState]]

\* The claim of the graph is that of the last driver that took one, if any, and no
\* two drivers have had the same.
Claims ==
  /\ graph.claim \in {0, graph.gen}
  /\ graph.cancelled <=> graph.status = "cancelled"
  /\ graph.claim # 0 => graph.status \in {"running", "joined"}
  /\ \A p, q \in Drivers : loc[p].claim # 0 /\ loc[p].claim = loc[q].claim => p = q

\* The order of the plan, and what the nodes say of the children.
Order ==
  /\ \A n \in Nodes : node[n] = "succeeded" => GoodOutput(n)
  /\ \A n \in Nodes : node[n] = "running" => DependenciesDone(n)
  /\ \A n \in Nodes : node[n] = "waiting" => child[n].ask # "none"

\* The limit of the plan.
Limit == Cardinality(Running) <= plan.max

\* A join is prepared when everything has succeeded; a graph that can be claimed has
\* none, and nothing runs in it.
Joins ==
  /\ graph.prepared => \A n \in Nodes : node[n] = "succeeded"
  /\ graph.completed => graph.prepared /\ parent.patch
  /\ graph.status \in {"ready", "paused"} =>
       ~graph.prepared /\ \A n \in Nodes : child[n].status # "running"

\* Nothing runs and a question is open: what a parent waits for.
Asking == Running = {} /\ \E n \in Nodes : node[n] = "waiting"
Waiting == parent.status = "waiting" /\ ~graph.cancelled

Waits ==
  Waiting => ~graph.completed /\ (graph.claim = 0 => graph.status = "paused" /\ Asking)

\* While nobody cancels, the tasks of the coordinator are all that runs.
Busy(p) ==
  \A n \in Nodes :
    /\ child[n].status = "running"
         => node[n] = "running" /\ task[p][n] \in {"prepare", "work", "clean"}
    /\ node[n] = "running" => task[p][n] # "none"

\* Where a process may be, and what it keeps in memory there.  Who is about to fence
\* a revision has read it before the fence.  A driver that holds the graph is the
\* last that has claimed it; it has tasks only in its loop, for the nodes it runs.
Fits(p) ==
  /\ pc[p] \in {"abortfence", "fence"} =>
       loc[p].rev <= graph.rev /\ (loc[p].rev = graph.rev => ~graph.cancelled)
  /\ p \in Drivers =>
       /\ loc[p].claim <= graph.gen
       /\ pc[p] \in Holding =>
            /\ graph.gen # 0 /\ loc[p].claim = graph.gen
            /\ graph.claim = graph.gen \/ graph.cancelled
       /\ \A n \in Nodes : task[p][n] # "none" =>
            pc[p] \in {"start", "wait", "settle", "gather"} /\ node[n] \in {"running", "cancelled"}
       /\ pc[p] = "settle" => \A n \in loc[p].left : task[p][n] \in TaskOver
       /\ pc[p] \in Looping /\ ~graph.cancelled => Busy(p) /\ ~graph.prepared
       /\ pc[p] \in {"joinwork", "joined"} => ~graph.completed
       /\ pc[p] \in {"park", "release"} /\ ~graph.cancelled => Asking
       /\ Waiting =>
            /\ pc[p] \notin {"start", "wait", "settle", "park", "endnodes"} \cup Joining
            /\ pc[p] = "gather" => loc[p].stop
            /\ pc[p] = "cleankids" => graph.status # "running"

Roles == \A p \in Procs : Fits(p)

Inv == Types /\ Claims /\ Order /\ Limit /\ Joins /\ Waits /\ Roles

\* One process moves to a label, with something in memory.
Moves(p, l, m) ==
  /\ pc' \in [Procs -> Labels] /\ loc' \in [Procs -> Loc]
  /\ pc'[p] = l /\ loc'[p] = m
  /\ \A q \in Procs \ {p} : pc'[q] = pc[q] /\ loc'[q] = loc[q]

\* The least of some natural numbers is one of them: the order of the nodes.
LEMMA LeastIsOne ==
  ASSUME NEW S, S \subseteq Nat, S # {}
  PROVE  Min(S) \in S
<1>1. PICK x \in S : \A y \in S : ~ (<<y, x>> \in OpToRel(<, Nat))
  BY WFMin, NatLessThanWellFounded, Zenon
<1>2. ASSUME NEW y \in S, y < x PROVE FALSE
  <2> DEFINE t == <<y, x>>
  <2>1. t \in Nat \X Nat /\ t[1] = y /\ t[2] = x
    OBVIOUS
  <2>2. t[1] < t[2]
    BY <2>1, <1>2
  <2> HIDE DEF t
  <2>3. t \in OpToRel(<, Nat)
    BY <2>1, <2>2 DEF OpToRel
  <2> QED
    BY <2>3, <1>1 DEF t
<1>3. \A y \in S : x <= y
  BY <1>2
<1> QED
  BY <1>3 DEF Min

\* Drivers are processes; an idle one has a memory.
LEMMA Processes == Drivers \subseteq Procs /\ Cancellers \subseteq Procs /\ Recoverers \subseteq Procs
  BY DEF Procs

LEMMA NoLocType == NoLoc \in Loc /\ NoLoc.claim = 0
  BY DEF NoLoc, Loc, ParentStatus, Stages

\* Every way a process notes something leaves a memory with the same claim.
LEMMA LocFields ==
  ASSUME NEW m \in Loc
  PROVE  /\ \A S \in SUBSET Nodes : [m EXCEPT !.left = S] \in Loc /\ [m EXCEPT !.left = S].claim = m.claim
         /\ \A b \in BOOLEAN, S \in SUBSET Nodes :
              /\ [m EXCEPT !.stop = b, !.left = S] \in Loc
              /\ [m EXCEPT !.stop = b, !.left = S].claim = m.claim
              /\ [m EXCEPT !.left = S, !.bad = b] \in Loc
              /\ [m EXCEPT !.left = S, !.bad = b].claim = m.claim
         /\ \A b \in BOOLEAN :
              /\ [m EXCEPT !.due = b] \in Loc /\ [m EXCEPT !.due = b].claim = m.claim
              /\ [m EXCEPT !.stop = b] \in Loc /\ [m EXCEPT !.stop = b].claim = m.claim
         /\ \A n \in Nat : [m EXCEPT !.rev = n] \in Loc /\ [m EXCEPT !.rev = n].claim = m.claim
         /\ \A n \in Nat, S \in SUBSET Nodes :
              /\ [m EXCEPT !.rev = n, !.left = S] \in Loc
              /\ [m EXCEPT !.rev = n, !.left = S].claim = m.claim
         /\ \A s \in ParentStatus \X Stages :
              [m EXCEPT !.saw = s] \in Loc /\ [m EXCEPT !.saw = s].claim = m.claim
         /\ m.left \subseteq Nodes /\ m.claim \in Nat /\ m.rev \in Nat
  BY DEF Loc

\* What the transactions of the store write in the row of the graph.
LEMMA GraphFields ==
  ASSUME NEW g \in Graph
  PROVE  /\ LET r == [g EXCEPT !.claim = 0, !.cancelled = TRUE, !.status = "cancelled",
                               !.rev = g.rev + 1]
            IN  /\ r \in Graph /\ r.claim = 0 /\ r.cancelled /\ r.status = "cancelled"
                /\ r.rev = g.rev + 1 /\ r.gen = g.gen
                /\ r.prepared = g.prepared /\ r.completed = g.completed
         /\ LET r == [g EXCEPT !.claim = g.gen + 1, !.gen = g.gen + 1, !.rev = g.rev + 1,
                               !.status = "running"]
            IN  /\ r \in Graph /\ r.claim = g.gen + 1 /\ r.gen = g.gen + 1
                /\ r.status = "running" /\ r.rev = g.rev + 1 /\ r.cancelled = g.cancelled
                /\ r.prepared = g.prepared /\ r.completed = g.completed
         /\ LET r == [g EXCEPT !.prepared = TRUE, !.rev = g.rev + 1]
            IN  /\ r \in Graph /\ r.prepared /\ r.rev = g.rev + 1 /\ r.gen = g.gen
                /\ r.claim = g.claim /\ r.status = g.status /\ r.cancelled = g.cancelled
                /\ r.completed = g.completed
         /\ LET r == [g EXCEPT !.completed = TRUE, !.status = "joined", !.rev = g.rev + 1]
            IN  /\ r \in Graph /\ r.completed /\ r.status = "joined" /\ r.rev = g.rev + 1
                /\ r.gen = g.gen /\ r.claim = g.claim /\ r.cancelled = g.cancelled
                /\ r.prepared = g.prepared
<1>1. /\ g.status \in GraphStatus /\ g.rev \in Nat /\ g.gen \in Nat /\ g.claim \in Nat
      /\ g.cancelled \in BOOLEAN /\ g.prepared \in BOOLEAN /\ g.completed \in BOOLEAN
  BY DEF Graph
<1>2. {"cancelled", "running", "joined"} \subseteq GraphStatus
  BY DEF GraphStatus
<1>3. g.rev + 1 \in Nat /\ g.gen + 1 \in Nat
  BY <1>1
<1> QED
  BY <1>1, <1>2, <1>3 DEF Graph

LEMMA ReleaseFields ==
  ASSUME Inv, NEW status \in GraphStatus, Release(status)
  PROVE  /\ graph' \in Graph /\ graph'.claim = 0 /\ graph'.status = status
         /\ graph'.rev = graph.rev + 1 /\ graph'.gen = graph.gen
         /\ graph'.cancelled = graph.cancelled /\ graph'.prepared = graph.prepared
         /\ graph'.completed = graph.completed
<1>1. /\ graph.status \in GraphStatus /\ graph.rev \in Nat /\ graph.gen \in Nat /\ graph.claim \in Nat
      /\ graph.cancelled \in BOOLEAN /\ graph.prepared \in BOOLEAN /\ graph.completed \in BOOLEAN
      /\ graph \in Graph
  BY DEF Inv, Types, Graph
<1>2. graph.rev + 1 \in Nat
  BY <1>1
<1>3. graph' = [graph EXCEPT !.claim = 0, !.status = status, !.rev = graph.rev + 1]
  BY DEF Release
<1> QED
  BY <1>1, <1>2, <1>3 DEF Graph

\* Only one driver holds the graph.
LEMMA Alone ==
  ASSUME Inv, NEW p \in Drivers, NEW q \in Drivers, pc[p] \in Holding, pc[q] \in Holding
  PROVE  p = q
<1>1. Fits(p) /\ Fits(q)
  BY Processes DEF Inv, Roles
<1>2. loc[p].claim # 0 /\ loc[p].claim = loc[q].claim
  BY <1>1 DEF Fits
<1> QED
  BY <1>2 DEF Inv, Claims

\* What anybody may do to the children: nothing runs that did not, nothing that was
\* taken as a result changes, and no question is forgotten.
Milder ==
  /\ child' \in [Nodes -> Child]
  /\ \A n \in Nodes : /\ child'[n].status = "running" => child[n].status = "running"
                      /\ GoodOutput(n) => child'[n].status = "completed" /\ child'[n].res = "none"
                      /\ child[n].ask # "none" => child'[n].ask # "none"

\* A driver changes no tasks but its own.
OwnTasks(p) ==
  /\ task' \in [Drivers -> [Nodes -> TaskState]]
  /\ \A q \in Drivers \ {p} : task'[q] = task[q]

LEMMA Unchanged ==
  ASSUME Inv
  PROVE  /\ UNCHANGED child => Milder
         /\ UNCHANGED task => \A p : OwnTasks(p)
  BY DEF Inv, Types, Milder, GoodOutput, OwnTasks

\* A process moves, and the parent is saved: what has to be shown is that the process
\* fits where it comes to.
LEMMA LocalStep ==
  ASSUME Inv, NEW p \in Procs, NEW l \in Labels, NEW m \in Loc, Moves(p, l, m),
         UNCHANGED <<plan, graph, node>>, Milder, OwnTasks(p),
         parent' \in Parent, graph.completed => parent'.patch,
         parent'.status = "waiting" => parent.status = "waiting" \/ (p \in Drivers /\ pc[p] = "park"),
         m.claim \in {0, loc[p].claim}, Fits(p)'
  PROVE  Inv'
<1>1. Types'
  BY DEF Inv, Types, Moves, Milder, OwnTasks
<1>2. Claims'
  BY Processes DEF Inv, Types, Claims, Moves
<1>3. Order' /\ Limit'
  BY DEF Inv, Order, Limit, GoodOutput, DependenciesDone, Running, Milder
<1>4. Joins'
  BY DEF Inv, Joins, Milder
<1>5. Waits'
  BY Processes
  DEF Inv, Types, Graph, Waits, Waiting, Asking, Running, Joins, Roles, Fits, Looping, Holding
<1>6. ASSUME NEW q \in Procs, q # p PROVE Fits(q)'
  <2>1. /\ pc'[q] = pc[q] /\ loc'[q] = loc[q] /\ Fits(q)
        /\ q \in Drivers => task'[q] = task[q] /\ (Busy(q) => Busy(q)')
    BY <1>6 DEF Moves, Inv, Roles, OwnTasks, Milder, Busy
  <2>2. CASE q \in Drivers /\ Waiting' /\ ~Waiting
    <3>1. p \in Drivers /\ pc[p] = "park"
      BY <2>2 DEF Waiting
    <3>2. pc[q] \notin Holding
      BY <3>1, <2>2, <1>6, Alone DEF Holding, Looping
    <3> QED
      BY <2>1, <3>2
      DEF Fits, Asking, Running, Waiting, Holding, Looping, Joining, Aborting
  <2>3. CASE ~(q \in Drivers /\ Waiting' /\ ~Waiting)
    BY <2>1, <2>3 DEF Fits, Asking, Running, Waiting
  <2> QED
    BY <2>2, <2>3
<1>7. Roles'
  BY <1>6 DEF Roles, Moves
<1> QED
  BY <1>1, <1>2, <1>3, <1>4, <1>5, <1>7 DEF Inv

\* A process without tasks may go wherever nothing is held.
LEMMA LeaveStep ==
  ASSUME Inv, NEW p \in Procs, NEW l \in Outside, NEW m \in Loc,
         Moves(p, l, m), UNCHANGED <<plan, child, graph, node, task>>,
         parent' \in Parent, graph.completed => parent'.patch,
         parent'.status = "waiting" => parent.status = "waiting",
         m.claim \in {0, loc[p].claim},
         pc[p] \notin {"start", "wait", "settle", "gather"}
  PROVE  Inv'
<1>1. Fits(p)'
  BY DEF Inv, Types, Graph, Loc, Moves, Roles, Fits, Outside, Holding, Looping, Joining, Aborting
<1>2. l \in Labels
  BY DEF Labels
<1>3. Milder /\ OwnTasks(p)
  BY Unchanged
<1> QED
  BY <1>1, <1>2, <1>3, LocalStep

\* A driver that holds the graph may abort whenever it likes, but the parent does not
\* wait then, unless the graph is to be cancelled.
LEMMA AbortStep ==
  ASSUME Inv, NEW p \in Drivers, NEW stop \in BOOLEAN, Abort(p, stop),
         pc[p] \in Looping \cup Joining, UNCHANGED <<plan, child, graph, node>>, OwnTasks(p),
         \A n \in Nodes : task'[p][n] # "none" => task[p][n] # "none",
         parent' \in Parent, graph.completed => parent'.patch,
         parent'.status = "waiting" => parent.status = "waiting",
         Waiting' => stop
  PROVE  Inv'
<1> DEFINE m == [loc[p] EXCEPT !.stop = stop, !.left = {}]
<1>1. p \in Procs /\ loc[p] \in Loc
  BY Processes DEF Inv, Types
<1>2. m \in Loc /\ m.claim = loc[p].claim /\ m.stop = stop
  BY <1>1 DEF Loc
<1>3. Moves(p, "gather", m)
  BY <1>1, <1>2 DEF Inv, Types, Abort, Goto, Moves, Labels, Holding, Aborting
<1> HIDE DEF m
<1>4. Fits(p)'
  <2>1. Fits(p) /\ pc[p] \in Holding
    BY <1>1 DEF Inv, Roles, Holding
  <2> QED
    BY <1>2, <1>3, <2>1 DEF Moves, Fits, Holding, Looping, Joining, Aborting
<1>5. "gather" \in Labels
  BY DEF Labels, Holding, Aborting
<1>6. Milder
  BY Unchanged
<1> QED
  BY <1>1, <1>2, <1>3, <1>4, <1>5, <1>6, LocalStep

\* A driver writes the row of the graph while nobody else holds it.
LEMMA GraphStep ==
  ASSUME Inv, NEW p \in Drivers, NEW l \in Labels, NEW m \in Loc, Moves(p, l, m),
         UNCHANGED <<plan, parent, child, node, task>>,
         graph' \in Graph, ~graph.cancelled, ~graph'.cancelled, graph'.status # "cancelled",
         graph'.rev = graph.rev + 1, graph'.gen >= graph.gen, graph'.claim \in {0, graph'.gen},
         graph'.claim # 0 => graph'.status \in {"running", "joined"},
         \A q \in Drivers \ {p} : pc[q] \notin Holding,
         m.claim \in {0, loc[p].claim} \/ m.claim > graph.gen,
         Joins', Waits', Fits(p)'
  PROVE  Inv'
<1>1. Types'
  BY DEF Inv, Types, Moves
<1>2. Claims'
  <2>1. \A q \in Drivers \ {p} : loc'[q].claim = loc[q].claim /\ loc[q].claim <= graph.gen
    BY Processes DEF Moves, Inv, Roles, Fits
  <2>2. p \in Procs /\ \A q \in Drivers : loc[q].claim \in Nat
    BY Processes DEF Inv, Types, Loc
  <2>3. graph.gen \in Nat /\ m.claim \in Nat
    BY DEF Inv, Types, Graph, Loc
  <2> QED
    BY <2>1, <2>2, <2>3 DEF Inv, Types, Claims, Moves
<1>3. Order' /\ Limit'
  BY DEF Inv, Order, Limit, GoodOutput, DependenciesDone, Running
<1>4. ASSUME NEW q \in Procs, q # p PROVE Fits(q)'
  <2>1. /\ pc'[q] = pc[q] /\ loc'[q] = loc[q] /\ Fits(q) /\ loc[q].rev \in Nat /\ loc[q].claim \in Nat
        /\ graph.rev \in Nat /\ graph.gen \in Nat /\ graph'.gen \in Nat
        /\ q \in Drivers => pc[q] \notin Holding
    BY <1>4 DEF Moves, Inv, Types, Roles, Loc, Graph
  <2> QED
    BY <2>1 DEF Fits, Holding, Looping, Joining, Aborting
<1>5. Roles'
  BY <1>4 DEF Roles
<1> QED
  BY <1>1, <1>2, <1>3, <1>5 DEF Inv

\* A cancellation: whoever holds the graph holds a cancelled one.
LEMMA CancelStep ==
  ASSUME Inv, NEW p \in Procs, NEW l \in {"cleankids", "cleanfenced"}, NEW m \in Loc,
         Moves(p, l, m), RequestCancel, UNCHANGED <<plan, parent, task>>,
         m.claim \in {0, loc[p].claim}, pc[p] \notin {"start", "wait", "settle", "gather"},
         l = "cleankids" => pc[p] \in Holding /\ m.claim = loc[p].claim
  PROVE  Inv'
<1>1. /\ graph' \in Graph /\ graph'.claim = 0 /\ graph'.cancelled /\ graph'.status = "cancelled"
      /\ graph'.rev = graph.rev + 1 /\ graph'.gen = graph.gen
      /\ graph'.prepared = graph.prepared /\ graph'.completed = graph.completed
  <2>1. graph \in Graph
    BY DEF Inv, Types
  <2>2. graph' = [graph EXCEPT !.claim = 0, !.cancelled = TRUE, !.status = "cancelled",
                               !.rev = graph.rev + 1]
    BY DEF RequestCancel
  <2> QED
    BY <2>1, <2>2, GraphFields
<1>2. /\ child' \in [Nodes -> Child]
      /\ \A n \in Nodes : /\ child'[n].status # "running" /\ child'[n].ask = child[n].ask
                          /\ GoodOutput(n) => child'[n] = child[n]
  BY DEF Inv, Types, Child, ChildStatus, ChildEnded, RequestCancel, GoodOutput
<1>3. /\ node' \in [Nodes -> NodeStatus]
      /\ \A n \in Nodes : IF node[n] \in NodeEnded THEN node'[n] = node[n] ELSE node'[n] = "cancelled"
  BY DEF Inv, Types, NodeStatus, NodeEnded, RequestCancel
<1>4. Types'
  BY <1>1, <1>2, <1>3 DEF Inv, Types, Moves
<1>5. Claims'
  BY <1>1, Processes DEF Inv, Types, Claims, Moves
<1>6. Order'
  BY <1>2, <1>3 DEF Inv, Order, GoodOutput, DependenciesDone, NodeEnded
<1>7. Limit'
  <2>1. Running' = {}
    BY <1>3 DEF Running, NodeEnded
  <2>2. plan.max \in Nat /\ UNCHANGED plan
    BY GraphAssumption DEF Inv, Types
  <2> QED
    BY <2>1, <2>2, FS_EmptySet DEF Limit
<1>8. Joins'
  BY <1>1, <1>2, <1>3 DEF Inv, Joins, NodeEnded
<1>9. Waits'
  BY <1>1 DEF Waits, Waiting
<1>10. Roles'
  <2> SUFFICES ASSUME NEW q \in Procs PROVE Fits(q)'
    BY DEF Roles
  <2>1. /\ Fits(q) /\ graph.rev \in Nat /\ loc[q].rev \in Nat /\ loc[q].claim \in Nat
        /\ graph.gen \in Nat
    BY DEF Inv, Types, Roles, Graph, Loc
  <2>2. CASE q = p
    <3>1. /\ pc'[p] = l /\ loc'[p] = m
          /\ p \in Drivers => m.claim <= graph.gen
      BY <2>1, <2>2 DEF Moves, Fits
    <3> QED
      BY <1>1, <2>1, <2>2, <3>1 DEF Moves, Fits, Holding, Looping, Joining, Aborting, Waiting
  <2>3. CASE q # p
    BY <1>1, <1>3, <2>1, <2>3 DEF Moves, Fits, Waiting, NodeEnded
  <2> QED
    BY <2>2, <2>3
<1> QED
  BY <1>4, <1>5, <1>6, <1>7, <1>8, <1>9, <1>10 DEF Inv

\* The task of a node that runs goes on, and writes its child.
LEMMA ChildStep ==
  ASSUME Inv, NEW p \in Drivers, NEW n \in Nodes, pc[p] \in {"wait", "gather"},
         task[p][n] # "none", NEW c \in Child, NEW t \in TaskState \ {"none"},
         child' = [child EXCEPT ![n] = c], task' = [task EXCEPT ![p][n] = t],
         UNCHANGED <<plan, parent, graph, node, pc, loc>>,
         c.status = "running" => child[n].status = "running" \/ node[n] = "running",
         pc[p] = "wait" /\ ~graph.cancelled /\ c.status = "running" => t \in {"prepare", "work", "clean"}
  PROVE  Inv'
<1>1. Types'
  BY DEF Inv, Types
<1>2. /\ Fits(p) /\ p \in Procs /\ pc[p] \in Holding /\ node[n] \in {"running", "cancelled"}
      /\ graph.claim # 0 \/ graph.cancelled
  BY Processes DEF Inv, Roles, Fits, Holding, Looping, Aborting
<1>3. Claims' /\ Limit' /\ Waits'
  BY DEF Inv, Claims, Limit, Running, Waits, Waiting, Asking
<1>4. Order' /\ Joins'
  <2>1. \A k \in Nodes \ {n} : child'[k] = child[k]
    BY DEF Inv, Types
  <2>2. graph.status \notin {"ready", "paused"}
    BY <1>2 DEF Inv, Claims
  <2> QED
    BY <1>2, <2>1, <2>2 DEF Inv, Order, GoodOutput, DependenciesDone, Joins
<1>5. Fits(p)'
  <2>1. /\ child'[n] = c /\ task'[p][n] = t
        /\ \A k \in Nodes \ {n} : child'[k] = child[k] /\ task'[p][k] = task[p][k]
    BY DEF Inv, Types
  <2>2. pc[p] = "wait" /\ ~graph.cancelled => Busy(p)'
    BY <1>2, <2>1 DEF Fits, Looping, Busy
  <2> QED
    BY <1>2, <2>1, <2>2 DEF Fits, Looping, Joining, Aborting, Holding, Waiting, Asking, Running
<1>6. ASSUME NEW q \in Procs, q # p PROVE Fits(q)'
  <2>1. /\ Fits(q)
        /\ q \in Drivers => pc[q] \notin Holding /\ task'[q] = task[q]
    BY <1>2, <1>6, Alone DEF Inv, Types, Roles
  <2> QED
    BY <2>1 DEF Fits, Looping, Joining, Aborting, Holding, Waiting
<1> QED
  BY <1>1, <1>3, <1>4, <1>5, <1>6 DEF Inv, Roles

\* The driver moves a node.
LEMMA NodeStep ==
  ASSUME Inv, NEW p \in Drivers, NEW l \in Labels, NEW m \in Loc, Moves(p, l, m),
         NEW n \in Nodes, NEW target \in NodeStatus, pc[p] \in Holding,
         CanTransition(p, n, target), TransitionNode(n, target),
         UNCHANGED <<plan, parent, child, graph>>, OwnTasks(p),
         m.claim = loc[p].claim, Fits(p)'
  PROVE  Inv'
<1>1. /\ node' \in [Nodes -> NodeStatus] /\ node'[n] = target
      /\ \A k \in Nodes \ {n} : node'[k] = node[k]
      /\ node[n] \in {"pending", "running", "waiting"} /\ target # node[n]
  BY DEF Inv, Types, TransitionNode, CanTransition, NodeMoves
<1>2. Types'
  BY <1>1 DEF Inv, Types, Moves, OwnTasks
<1>3. Claims'
  BY Processes DEF Inv, Types, Claims, Moves
<1>4. Order'
  <2>1. /\ \A k \in Nodes : plan.dependsOn[k] \subseteq Nodes
        /\ UNCHANGED <<plan, child>>
    BY GraphAssumption DEF Inv, Types
  <2>2. \A k \in Nodes : node'[k] = "succeeded" => GoodOutput(k)
    BY <1>1 DEF Inv, Order, CanTransition
  <2>3. \A k \in Nodes : node'[k] = "running" => DependenciesDone(k)
    BY <1>1 DEF Inv, Order, CanTransition
  <2>4. \A k \in Nodes : DependenciesDone(k) => DependenciesDone(k)'
    BY <1>1, <2>1 DEF DependenciesDone
  <2>5. \A k \in Nodes : node'[k] = "waiting" => child[k].ask # "none"
    BY <1>1 DEF Inv, Order, CanTransition
  <2> QED
    BY <2>1, <2>2, <2>3, <2>4, <2>5 DEF Order, GoodOutput
<1>5. Limit'
  <2>1. IsFiniteSet(Running) /\ Cardinality(Running) \in Nat /\ plan.max \in Nat
    BY GraphAssumption, FS_Subset, FS_CardinalityType DEF Running, Inv, Types
  <2>2. CASE target = "running"
    <3>1. Running' = Running \cup {n} /\ n \notin Running
      BY <1>1, <2>2 DEF Running
    <3>2. Cardinality(Running) < plan.max
      BY <2>2 DEF CanTransition
    <3>3. Cardinality(Running') = Cardinality(Running) + 1
      BY <2>1, <3>1, FS_AddElement
    <3> QED
      BY <2>1, <3>2, <3>3 DEF Limit
  <2>3. CASE target # "running"
    <3>1. Running' \subseteq Running
      BY <1>1, <2>3 DEF Running
    <3>2. Cardinality(Running') \in Nat /\ Cardinality(Running') <= Cardinality(Running)
      BY <2>1, <3>1, FS_Subset, FS_CardinalityType
    <3> QED
      BY <2>1, <3>2 DEF Limit, Inv
  <2> QED
    BY <2>2, <2>3
<1>6. Joins'
  BY <1>1 DEF Inv, Joins
<1>7. Waits'
  BY DEF Inv, Types, Waits, Waiting, CanTransition, Owned
<1>8. ASSUME NEW q \in Procs, q # p PROVE Fits(q)'
  <2>1. /\ Fits(q) /\ pc'[q] = pc[q] /\ loc'[q] = loc[q]
        /\ q \in Drivers => pc[q] \notin Holding /\ task'[q] = task[q]
    BY <1>8, Alone DEF Inv, Types, Roles, Moves, OwnTasks
  <2> QED
    BY <2>1 DEF Fits, Looping, Joining, Aborting, Holding, Waiting
<1> QED
  BY <1>2, <1>3, <1>4, <1>5, <1>6, <1>7, <1>8 DEF Inv, Roles

\* A process goes on, and what it had in memory stays, is noted or is forgotten.
LEMMA Going ==
  ASSUME Inv, NEW p \in Procs
  PROVE  /\ loc[p] \in Loc
         /\ \A l \in Labels : Goto(p, l) =>
              /\ UNCHANGED loc => Moves(p, l, loc[p])
              /\ \A m \in Loc : loc' = [loc EXCEPT ![p] = m] => Moves(p, l, m)
         /\ Finish(p) => Moves(p, "idle", NoLoc)
<1>1. loc[p] \in Loc
  BY DEF Inv, Types
<1>2. ASSUME NEW l \in Labels, Goto(p, l), UNCHANGED loc PROVE Moves(p, l, loc[p])
  BY <1>2 DEF Inv, Types, Moves, Goto
<1>3. ASSUME NEW l \in Labels, Goto(p, l), NEW m \in Loc, loc' = [loc EXCEPT ![p] = m]
      PROVE  Moves(p, l, m)
  BY <1>3 DEF Inv, Types, Moves, Goto
<1>4. "idle" \in Labels
  BY DEF Labels, Outside
<1> QED
  BY <1>1, <1>2, <1>3, <1>4, NoLocType DEF Finish

\* What is saved of a parent is a parent, with its patch.
LEMMA ParentFields ==
  ASSUME NEW r \in Parent
  PROVE  /\ \A s \in ParentStatus :
              /\ [r EXCEPT !.status = s] \in Parent
              /\ [r EXCEPT !.status = s].patch = r.patch /\ [r EXCEPT !.status = s].status = s
         /\ \A s \in ParentStatus, a \in Answer :
              /\ [r EXCEPT !.status = s, !.ask = a] \in Parent
              /\ [r EXCEPT !.status = s, !.ask = a].patch = r.patch
              /\ [r EXCEPT !.status = s, !.ask = a].status = s
         /\ \A g \in Stages :
              /\ [r EXCEPT !.stage = g] \in Parent
              /\ [r EXCEPT !.stage = g].patch = r.patch /\ [r EXCEPT !.stage = g].status = r.status
         /\ \A a \in Answer :
              /\ [r EXCEPT !.ask = a] \in Parent
              /\ [r EXCEPT !.ask = a].patch = r.patch /\ [r EXCEPT !.ask = a].status = r.status
         /\ \A x \in Resource :
              /\ [r EXCEPT !.res = x] \in Parent
              /\ [r EXCEPT !.res = x].patch = r.patch /\ [r EXCEPT !.res = x].status = r.status
         /\ r.status \in ParentStatus /\ r.stage \in Stages /\ r.res \in Resource
  BY DEF Parent

\* The parent that is there.
LEMMA Parents ==
  ASSUME Inv
  PROVE  parent \in Parent /\ (graph.completed => parent.patch)
  BY DEF Inv, Types, Joins

LEMMA ResumeStep ==
  ASSUME Inv, NEW p \in Drivers, Resume(p)
  PROVE  Inv'
<1> DEFINE m == [NoLoc EXCEPT !.saw = <<parent.status, parent.stage>>]
<1>1. p \in Procs /\ parent \in Parent /\ (graph.completed => parent.patch)
  BY Processes, Parents
<1>2. m \in Loc /\ m.claim = 0
  BY <1>1, NoLocType, LocFields, ParentFields
<1>3. \E l \in {"acquire", "claimrest", "cleanparent"} : Goto(p, l)
  BY DEF Resume
<1>4. PICK l \in {"acquire", "claimrest", "cleanparent"} : Goto(p, l)
  BY <1>3
<1>5. l \in Outside /\ l \in Labels
  BY DEF Outside, Labels
<1>6. loc' = [loc EXCEPT ![p] = m]
  BY DEF Resume
<1> HIDE DEF m
<1>7. Moves(p, l, m)
  BY <1>1, <1>2, <1>4, <1>5, <1>6, Going
<1>8. parent' \in {parent, [parent EXCEPT !.status = "rejected"]} /\ "rejected" \in ParentStatus
  BY DEF Resume, ParentStatus
<1>9. /\ parent' \in Parent /\ (graph.completed => parent'.patch)
      /\ parent'.status = "waiting" => parent.status = "waiting"
  <2>1. CASE parent' = parent
    BY <1>1, <2>1
  <2>2. CASE parent' = [parent EXCEPT !.status = "rejected"]
    <3>1. "rejected" \in ParentStatus
      BY <1>8
    <3>2. /\ parent' \in Parent /\ parent'.patch = parent.patch
          /\ parent'.status = "rejected"
      BY <1>1, <2>2, <3>1 DEF Parent
    <3> QED
      BY <1>1, <3>2
  <2> QED
    BY <1>8, <2>1, <2>2
<1>10. pc[p] \notin {"start", "wait", "settle", "gather"} /\ UNCHANGED <<plan, child, graph, node, task>>
  BY DEF Resume
<1> QED
  BY <1>1, <1>2, <1>5, <1>7, <1>9, <1>10, LeaveStep

LEMMA ReadParentStep ==
  ASSUME Inv, NEW p \in Drivers, ReadParent(p)
  PROVE  Inv'
<1> DEFINE m == [loc[p] EXCEPT !.saw = <<parent.status, parent.stage>>]
<1>1. p \in Procs /\ parent \in Parent /\ (graph.completed => parent.patch)
  BY Processes, Parents
<1>2. m \in Loc /\ m.claim = loc[p].claim
  <2>1. loc[p] \in Loc
    BY <1>1, Going
  <2>2. <<parent.status, parent.stage>> \in ParentStatus \X Stages
    BY <1>1 DEF Parent
  <2> QED
    BY <2>1, <2>2 DEF Loc
<1>3. loc' = [loc EXCEPT ![p] = m] /\ Goto(p, "readgraph")
  BY DEF ReadParent
<1> HIDE DEF m
<1>4. Moves(p, "readgraph", m)
  BY <1>1, <1>2, <1>3, Going DEF Labels, Outside
<1> QED
  BY <1>1, <1>2, <1>4, LeaveStep DEF ReadParent, Outside

LEMMA ReadGraphStep ==
  ASSUME Inv, NEW p \in Drivers, ReadGraph(p)
  PROVE  Inv'
<1> DEFINE m == [loc[p] EXCEPT !.rev = graph.rev]
<1>1. p \in Procs /\ parent \in Parent /\ (graph.completed => parent.patch) /\ loc[p] \in Loc
  BY Processes, Parents, Going
<1>2. m \in Loc /\ m.claim = loc[p].claim
  <2>1. graph.rev \in Nat
    BY DEF Inv, Types, Graph
  <2> QED
    BY <1>1, <2>1, LocFields
<1>3. \/ Goto(p, "claimrest") /\ UNCHANGED loc
      \/ Goto(p, "claim") /\ loc' = [loc EXCEPT ![p] = m]
      \/ Finish(p)
  BY DEF ReadGraph
<1> HIDE DEF m
<1>4. Moves(p, "claimrest", loc[p]) \/ Moves(p, "claim", m) \/ Moves(p, "idle", NoLoc)
  BY <1>1, <1>2, <1>3, Going DEF Labels, Outside
<1>5. pc[p] \notin {"start", "wait", "settle", "gather"}
      /\ UNCHANGED <<plan, parent, child, graph, node, task>>
  BY DEF ReadGraph
<1>6. {"claimrest", "claim", "idle"} \subseteq Outside
  BY DEF Outside
<1>7. CASE Moves(p, "claimrest", loc[p])
  BY <1>1, <1>5, <1>6, <1>7, LeaveStep
<1>8. CASE Moves(p, "claim", m)
  BY <1>1, <1>2, <1>5, <1>6, <1>8, LeaveStep
<1>9. CASE Moves(p, "idle", NoLoc)
  BY <1>1, <1>5, <1>6, <1>9, NoLocType, LeaveStep
<1> QED
  BY <1>4, <1>7, <1>8, <1>9

\* A process leaves for where nothing is held.
LEMMA Leaving ==
  ASSUME Inv, NEW p \in Procs, NEW l \in Outside, Goto(p, l), NEW m \in Loc,
         m.claim \in {0, loc[p].claim},
         loc' = [loc EXCEPT ![p] = m] \/ (UNCHANGED loc /\ m = loc[p]),
         UNCHANGED <<plan, child, graph, node, task>>,
         parent' \in Parent, graph.completed => parent'.patch,
         parent'.status = "waiting" => parent.status = "waiting",
         pc[p] \notin {"start", "wait", "settle", "gather"}
  PROVE  Inv'
<1>1. l \in Labels
  BY DEF Labels
<1>2. Moves(p, l, m)
  BY <1>1, Going
<1> QED
  BY <1>2, LeaveStep

LEMMA Finishing ==
  ASSUME Inv, NEW p \in Procs, Finish(p),
         UNCHANGED <<plan, child, graph, node, task>>,
         parent' \in Parent, graph.completed => parent'.patch,
         parent'.status = "waiting" => parent.status = "waiting",
         pc[p] \notin {"start", "wait", "settle", "gather"}
  PROVE  Inv'
<1>1. Goto(p, "idle") /\ loc' = [loc EXCEPT ![p] = NoLoc] /\ "idle" \in Outside
  BY DEF Finish, Outside
<1> QED
  BY <1>1, NoLocType, Leaving

\* A status is saved.
LEMMA Saving ==
  ASSUME Inv, NEW s \in ParentStatus, parent' = [parent EXCEPT !.status = s]
  PROVE  parent' \in Parent /\ (graph.completed => parent'.patch) /\ parent'.status = s
<1>1. parent \in Parent /\ (graph.completed => parent.patch)
  BY Parents
<1>2. parent' \in Parent /\ parent'.patch = parent.patch /\ parent'.status = s
  BY <1>1 DEF Parent
<1> QED
  BY <1>1, <1>2

LEMMA FailSaveStep ==
  ASSUME Inv, NEW p \in Drivers, FailSave(p)
  PROVE  Inv'
<1>1. p \in Procs /\ parent \in Parent /\ (graph.completed => parent.patch)
      /\ pc[p] = "failsave" /\ UNCHANGED <<plan, child, graph, node, task>>
  BY Processes, Parents DEF FailSave
<1>2. CASE UNCHANGED parent /\ Finish(p)
  BY <1>1, <1>2, Finishing
<1>3. CASE /\ parent' = [parent EXCEPT !.status = "failed"]
           /\ loc' = [loc EXCEPT ![p] = NoLoc] /\ Goto(p, "cleanparent")
  <2>1. "failed" \in ParentStatus /\ "cleanparent" \in Outside
    BY DEF ParentStatus, Outside
  <2>2. parent' \in Parent /\ (graph.completed => parent'.patch) /\ parent'.status = "failed"
    BY <1>3, <2>1, Saving
  <2> QED
    BY <1>1, <1>3, <2>1, <2>2, NoLocType, Leaving
<1> QED
  BY <1>2, <1>3 DEF FailSave

LEMMA CleanParentStep ==
  ASSUME Inv, NEW p \in Procs, CleanParent(p)
  PROVE  Inv'
<1>1. parent \in Parent /\ (graph.completed => parent.patch)
      /\ pc[p] = "cleanparent" /\ UNCHANGED <<plan, child, graph, node, task>> /\ Finish(p)
  BY Parents DEF CleanParent
<1>2. PICK res \in Cleaned(parent.res) : parent' = [parent EXCEPT !.res = res]
  BY DEF CleanParent
<1>3. res \in Resource
  BY DEF Cleaned, Resource
<1>4. /\ parent' \in Parent /\ (graph.completed => parent'.patch)
      /\ parent'.status = parent.status
  BY <1>1, <1>2, <1>3 DEF Parent
<1> QED
  BY <1>1, <1>4, Finishing

LEMMA CancelParentStep ==
  ASSUME Inv, NEW p \in Drivers, CancelParent(p)
  PROVE  Inv'
<1> DEFINE m == [NoLoc EXCEPT !.due = TRUE]
           s == IF parent.status \in ParentEnded \cup {"ready"} THEN parent.status ELSE "cancelled"
<1>1. p \in Procs /\ parent \in Parent
      /\ pc[p] = "cancelparent" /\ UNCHANGED <<plan, child, graph, node, task>>
  BY Processes, Parents DEF CancelParent
<1>2. m \in Loc /\ m.claim = 0
  BY NoLocType, LocFields
<1>3. s \in ParentStatus /\ s # "waiting"
  BY <1>1, ParentFields DEF ParentStatus, ParentEnded
<1>4. parent' = [parent EXCEPT !.status = s]
  BY DEF CancelParent
<1>5. loc' = [loc EXCEPT ![p] = m] /\ Goto(p, "readfence") /\ "readfence" \in Outside
  BY DEF CancelParent, Outside
<1> HIDE DEF m, s
<1>6. parent' \in Parent /\ (graph.completed => parent'.patch) /\ parent'.status = s
  BY <1>3, <1>4, Saving
<1> QED
  BY <1>1, <1>2, <1>3, <1>5, <1>6, Leaving

LEMMA CancelBegins ==
  ASSUME Inv, NEW p \in Cancellers, Cancel(p)
  PROVE  Inv'
<1>1. p \in Procs /\ parent \in Parent /\ (graph.completed => parent.patch)
      /\ pc[p] = "idle" /\ UNCHANGED <<plan, child, graph, node, task>>
  BY Processes, Parents DEF Cancel
<1>2. CASE UNCHANGED parent /\ Finish(p)
  BY <1>1, <1>2, Finishing
<1>3. CASE /\ parent' = [parent EXCEPT !.status = "cancelled"]
           /\ loc' = [loc EXCEPT ![p].due = (parent.res # "none")] /\ Goto(p, "readfence")
  <2> DEFINE m == [loc[p] EXCEPT !.due = (parent.res # "none")]
  <2>1. "cancelled" \in ParentStatus /\ "readfence" \in Outside
    BY DEF ParentStatus, Outside
  <2>2. parent' \in Parent /\ (graph.completed => parent'.patch) /\ parent'.status = "cancelled"
    BY <1>3, <2>1, Saving
  <2>3. m \in Loc /\ m.claim = loc[p].claim /\ loc' = [loc EXCEPT ![p] = m]
    BY <1>1, <1>3, Going, LocFields
  <2> HIDE DEF m
  <2> QED
    BY <1>1, <1>3, <2>1, <2>2, <2>3, Leaving
<1> QED
  BY <1>2, <1>3 DEF Cancel

LEMMA RecoverBegins ==
  ASSUME Inv, NEW p \in Recoverers, Recover(p)
  PROVE  Inv'
<1>1. p \in Procs /\ parent \in Parent /\ (graph.completed => parent.patch)
      /\ pc[p] = "idle" /\ UNCHANGED <<plan, child, graph, node, task>>
  BY Processes, Parents DEF Recover
<1>2. CASE UNCHANGED parent /\ Finish(p)
  BY <1>1, <1>2, Finishing
<1>3. ASSUME NEW s \in {parent.status, "failed"}, parent' = [parent EXCEPT !.status = s],
             loc' = [loc EXCEPT ![p].due = TRUE], Goto(p, "readfence")
      PROVE  Inv'
  <2> DEFINE m == [loc[p] EXCEPT !.due = TRUE]
  <2>1. s \in ParentStatus /\ "readfence" \in Outside
    BY <1>1, ParentFields DEF ParentStatus, Outside
  <2>2. parent' \in Parent /\ (graph.completed => parent'.patch) /\ parent'.status = s
    BY <1>3, <2>1, Saving
  <2>3. m \in Loc /\ m.claim = loc[p].claim /\ loc' = [loc EXCEPT ![p] = m]
    BY <1>1, <1>3, Going, LocFields
  <2> HIDE DEF m
  <2> QED
    BY <1>1, <1>3, <2>1, <2>2, <2>3, Leaving
<1> QED
  BY <1>2, <1>3 DEF Recover

LEMMA ReadFenceStep ==
  ASSUME Inv, NEW p \in Procs, ReadFence(p)
  PROVE  Inv'
<1>1. /\ parent \in Parent /\ (graph.completed => parent.patch) /\ loc[p] \in Loc /\ graph.rev \in Nat
      /\ pc[p] = "readfence" /\ UNCHANGED <<plan, parent, child, graph, node, task>>
  BY Parents, Going DEF ReadFence, Inv, Types, Graph
<1>2. CASE graph.cancelled
  <2> DEFINE m == [loc[p] EXCEPT !.left = Nodes]
  <2>1. m \in Loc /\ m.claim = loc[p].claim
    BY <1>1, LocFields
  <2>2. loc' = [loc EXCEPT ![p] = m] /\ Goto(p, "cleanfenced") /\ "cleanfenced" \in Outside
    BY <1>2 DEF ReadFence, Outside
  <2> HIDE DEF m
  <2> QED
    BY <1>1, <2>1, <2>2, Leaving
<1>3. CASE ~graph.cancelled
  <2> DEFINE m == [loc[p] EXCEPT !.rev = graph.rev]
  <2>1. m \in Loc /\ m.claim = loc[p].claim /\ m.rev = graph.rev
    BY <1>1 DEF Loc
  <2>2. loc' = [loc EXCEPT ![p] = m] /\ Goto(p, "fence") /\ "fence" \in Labels
    BY <1>3 DEF ReadFence, Labels
  <2> HIDE DEF m
  <2>3. Moves(p, "fence", m)
    BY <2>1, <2>2, Going
  <2>4. Fits(p)'
    <3>1. Fits(p)
      BY DEF Inv, Roles
    <3> QED
      BY <1>1, <1>3, <2>1, <2>3, <3>1 DEF Moves, Fits, Holding, Looping, Joining, Aborting
  <2>5. Milder /\ OwnTasks(p)
    BY <1>1, Unchanged
  <2> QED
    BY <1>1, <2>1, <2>2, <2>3, <2>4, <2>5, LocalStep
<1> QED
  BY <1>2, <1>3

LEMMA FenceStep ==
  ASSUME Inv, NEW p \in Procs, Fence(p)
  PROVE  Inv'
<1>1. /\ parent \in Parent /\ (graph.completed => parent.patch) /\ loc[p] \in Loc
      /\ pc[p] = "fence" /\ UNCHANGED <<plan, parent, task>>
  BY Parents, Going DEF Fence
<1>2. CASE graph.rev = loc[p].rev
  <2> DEFINE m == [loc[p] EXCEPT !.rev = 0, !.left = Nodes]
  <2>1. m \in Loc /\ m.claim = loc[p].claim
    BY <1>1 DEF Loc
  <2>2. loc' = [loc EXCEPT ![p] = m] /\ Goto(p, "cleanfenced") /\ "cleanfenced" \in Labels
        /\ RequestCancel
    BY <1>2 DEF Fence, Labels, Outside
  <2> HIDE DEF m
  <2>3. Moves(p, "cleanfenced", m)
    BY <2>1, <2>2, Going
  <2> QED
    BY <1>1, <2>1, <2>2, <2>3, CancelStep
<1>3. CASE graph.rev # loc[p].rev
  <2>1. UNCHANGED <<child, graph, node>>
    BY <1>3 DEF Fence
  <2>2. CASE Finish(p)
    BY <1>1, <2>1, <2>2, Finishing
  <2>3. CASE loc' = [loc EXCEPT ![p] = NoLoc] /\ Goto(p, "cleanparent")
    BY <1>1, <2>1, <2>3, NoLocType, Leaving DEF Outside
  <2> QED
    BY <1>3, <2>2, <2>3 DEF Fence
<1> QED
  BY <1>2, <1>3

LEMMA FencedCleanStep ==
  ASSUME Inv, NEW p \in Procs, FencedClean(p)
  PROVE  Inv'
<1>1. /\ parent \in Parent /\ (graph.completed => parent.patch)
      /\ pc[p] = "cleanfenced" /\ UNCHANGED <<plan, parent, child, graph, node, task>>
  BY Parents DEF FencedClean
<1>2. CASE Finish(p)
  BY <1>1, <1>2, Finishing
<1>3. CASE Goto(p, "cleanparent") /\ loc' = [loc EXCEPT ![p] = NoLoc]
  BY <1>1, <1>3, NoLocType, Leaving DEF Outside
<1> QED
  BY <1>2, <1>3 DEF FencedClean

\* The clean-up of a child: it is not taken as a result if it was not, and nothing starts.
LEMMA CleanChildStep ==
  ASSUME Inv, NEW p \in Procs, CleanChild(p)
  PROVE  Inv'
<1> DEFINE n == Min(loc[p].left)
           end == IF p \in Drivers /\ node[n] \in {"failed", "blocked"}
                     /\ child[n].status \notin ChildEnded
                  THEN IF child[n].ask = "denied" THEN "rejected" ELSE "failed"
                  ELSE child[n].status
<1>1. /\ parent \in Parent /\ (graph.completed => parent.patch) /\ loc[p] \in Loc
      /\ pc[p] \in {"cleankids", "cleanfenced"}
      /\ UNCHANGED <<plan, parent, graph, node, pc, task>>
  BY Parents, Going DEF CleanChild, Cleaning
<1>2. n \in Nodes
  BY <1>1, LocFields, LeastIsOne, GraphAssumption DEF CleanChild
<1>3. PICK res \in Cleaned(child[n].res) :
        /\ child' = [child EXCEPT ![n].status = end, ![n].res = res]
        /\ loc' = [loc EXCEPT ![p].left = @ \ {n}, ![p].bad = @ \/ res = "left"]
  BY DEF CleanChild
<1>4. /\ end \in ChildStatus /\ (end = "running" => child[n].status = "running")
      /\ (child[n].status = "completed" => end = "completed")
  BY <1>2 DEF Inv, Types, Child, ChildStatus, ChildEnded
<1>5. res \in Resource /\ (child[n].res = "none" => res = "none")
  BY DEF Cleaned, Resource
<1> HIDE DEF end
<1>6. Milder
  <2>1. child' = [child EXCEPT ![n] = [child[n] EXCEPT !.status = end, !.res = res]]
    BY <1>2, <1>3 DEF Inv, Types
  <2>2. child[n] \in Child /\ child \in [Nodes -> Child]
    BY <1>2 DEF Inv, Types
  <2>3. [child[n] EXCEPT !.status = end, !.res = res] \in Child
    BY <1>4, <1>5, <2>2 DEF Child
  <2> QED
    BY <1>2, <1>4, <1>5, <2>1, <2>2, <2>3 DEF Milder, GoodOutput
<1> DEFINE m == [loc[p] EXCEPT !.left = loc[p].left \ {n}, !.bad = loc[p].bad \/ res = "left"]
<1>7. m \in Loc /\ m.claim = loc[p].claim /\ m.rev = loc[p].rev /\ m.stop = loc[p].stop
  BY <1>1 DEF Loc
<1>8. Moves(p, pc[p], m)
  BY <1>1, <1>3, <1>7 DEF Moves, Inv, Types
<1> HIDE DEF m, n
<1>9. Fits(p)'
  <2>1. Fits(p)
    BY DEF Inv, Roles
  <2> QED
    BY <1>1, <1>6, <1>7, <1>8, <2>1
    DEF Moves, Fits, Holding, Looping, Joining, Aborting, Waiting
<1>10. pc[p] \in Labels /\ OwnTasks(p)
  BY <1>1, Unchanged DEF Inv, Types
<1> QED
  BY <1>1, <1>6, <1>7, <1>8, <1>9, <1>10, LocalStep

LEMMA AbortFenceStep ==
  ASSUME Inv, NEW p \in Drivers, AbortFence(p)
  PROVE  Inv'
<1>1. /\ p \in Procs /\ parent \in Parent /\ (graph.completed => parent.patch) /\ loc[p] \in Loc
      /\ pc[p] = "abortfence" /\ UNCHANGED <<plan, parent, loc, task>>
  BY Processes, Parents, Going DEF AbortFence
<1>2. CASE graph.rev = loc[p].rev
  <2>1. Goto(p, "cleankids") /\ RequestCancel /\ "cleankids" \in Labels /\ pc[p] \in Holding
    BY <1>1, <1>2 DEF AbortFence, Labels, Holding, Aborting
  <2>2. Moves(p, "cleankids", loc[p])
    BY <1>1, <2>1, Going
  <2> QED
    BY <1>1, <2>1, <2>2, CancelStep
<1>3. CASE graph.rev # loc[p].rev
  <2>1. UNCHANGED <<child, graph, node>> /\ Goto(p, AfterAbort(p)) /\ AfterAbort(p) \in Outside
    BY <1>3 DEF AbortFence, AfterAbort, Outside
  <2> QED
    BY <1>1, <2>1, Leaving
<1> QED
  BY <1>2, <1>3

LEMMA EndNodesStep ==
  ASSUME Inv, NEW p \in Drivers, EndNodes(p)
  PROVE  Inv'
<1> DEFINE live == {n \in Nodes : node[n] \notin NodeEnded}
           n == Min(live)
           target == IF node[n] = "pending" THEN "blocked" ELSE "failed"
<1>1. /\ p \in Procs /\ parent \in Parent /\ (graph.completed => parent.patch) /\ loc[p] \in Loc
      /\ pc[p] = "endnodes" /\ UNCHANGED <<plan, parent, child, graph, loc, task>>
  BY Processes, Parents, Going DEF EndNodes
<1>2. Fits(p) /\ Milder /\ OwnTasks(p)
  BY <1>1, Unchanged DEF Inv, Roles
<1>3. CASE live = {}
  <2>1. Goto(p, "cleankids") /\ UNCHANGED node /\ "cleankids" \in Labels
    BY <1>3 DEF EndNodes, Labels, Holding, Aborting
  <2>2. Moves(p, "cleankids", loc[p])
    BY <1>1, <2>1, Going
  <2>3. Fits(p)'
    BY <1>1, <1>2, <2>1, <2>2 DEF Moves, Fits, Holding, Looping, Joining, Aborting, Waiting
  <2> QED
    BY <1>1, <1>2, <2>1, <2>2, <2>3, LocalStep
<1>4. CASE live # {} /\ CanTransition(p, n, target)
  <2>1. n \in Nodes
    BY <1>4, LeastIsOne, GraphAssumption
  <2>2. target \in NodeStatus /\ pc[p] \in Holding /\ pc[p] \in Labels
    BY <1>1 DEF NodeStatus, Holding, Aborting, Labels
  <2>3. TransitionNode(n, target) /\ UNCHANGED pc
    BY <1>4 DEF EndNodes
  <2>4. Moves(p, pc[p], loc[p])
    BY <1>1, <2>2, <2>3 DEF Moves, Inv, Types
  <2>5. Fits(p)'
    BY <1>1, <1>2, <2>3 DEF Fits, Holding, Looping, Joining, Aborting, Waiting
  <2> HIDE DEF n, target
  <2> QED
    BY <1>1, <1>2, <1>4, <2>1, <2>2, <2>3, <2>4, <2>5, NodeStep
<1>5. CASE live # {} /\ ~CanTransition(p, n, target)
  <2>1. UNCHANGED node /\ Goto(p, AfterAbort(p)) /\ AfterAbort(p) \in Outside
    BY <1>5 DEF EndNodes, AfterAbort, Outside
  <2> QED
    BY <1>1, <2>1, Leaving
<1> QED
  BY <1>3, <1>4, <1>5

LEMMA GatheredStep ==
  ASSUME Inv, NEW p \in Drivers, Gathered(p)
  PROVE  Inv'
<1> DEFINE l == IF ~Mine(p) THEN "cleankids" ELSE IF loc[p].stop THEN "abortfence" ELSE "endnodes"
           r == IF loc[p].stop /\ Mine(p) THEN graph.rev ELSE 0
           m == [loc[p] EXCEPT !.rev = r, !.left = Nodes]
<1>1. /\ p \in Procs /\ parent \in Parent /\ (graph.completed => parent.patch) /\ loc[p] \in Loc
      /\ pc[p] = "gather" /\ UNCHANGED <<plan, parent, child, graph, node>>
      /\ graph.rev \in Nat /\ graph.gen \in Nat
  BY Processes, Parents, Going DEF Gathered, Inv, Types, Graph
<1>2. r \in Nat
  BY <1>1
<1>3. /\ m \in Loc /\ m.claim = loc[p].claim /\ m.rev = r /\ m.stop = loc[p].stop
  BY <1>1, <1>2 DEF Loc
<1>4. Goto(p, l) /\ l \in Labels /\ loc' = [loc EXCEPT ![p] = m]
  BY DEF Gathered, Labels, Holding, Aborting
<1>5. /\ OwnTasks(p)
      /\ \A k \in Nodes : task'[p][k] = "none"
  BY DEF Gathered, Inv, Types, OwnTasks, TaskState
<1> HIDE DEF m
<1>6. Moves(p, l, m)
  BY <1>1, <1>3, <1>4, Going
<1>7. Fits(p)'
  <2>1. Fits(p) /\ (graph.cancelled <=> graph.status = "cancelled")
    BY <1>1 DEF Inv, Roles, Claims
  <2>2. /\ graph.claim = graph.gen \/ graph.cancelled
        /\ loc[p].claim = graph.gen /\ graph.gen # 0
        /\ Waiting => loc[p].stop
    BY <1>1, <2>1 DEF Fits, Holding, Aborting
  <2>3. pc'[p] = l /\ loc'[p] = m
    BY <1>6 DEF Moves
  <2>4. l = "abortfence" => r = graph.rev /\ ~graph.cancelled
    BY <2>1 DEF Mine
  <2>5. Waiting => l # "endnodes" /\ (l = "cleankids" => graph.status # "running")
    BY <2>2 DEF Mine, Waiting
  <2>6. l \in {"cleankids", "abortfence", "endnodes"}
    OBVIOUS
  <2> HIDE DEF l, r
  <2> QED
    BY <1>1, <1>3, <1>5, <2>2, <2>3, <2>4, <2>5, <2>6
    DEF Fits, Holding, Looping, Joining, Aborting, Waiting
<1>8. Milder
  BY <1>1, Unchanged
<1> HIDE DEF l
<1> QED
  BY <1>1, <1>3, <1>4, <1>5, <1>6, <1>7, <1>8, LocalStep

LEMMA AbortCleanedStep ==
  ASSUME Inv, NEW p \in Drivers, AbortCleaned(p)
  PROVE  Inv'
<1>1. /\ p \in Procs /\ parent \in Parent /\ (graph.completed => parent.patch) /\ loc[p] \in Loc
      /\ pc[p] = "cleankids" /\ UNCHANGED <<plan, parent, child, node, loc, task>>
      /\ Goto(p, AfterAbort(p)) /\ AfterAbort(p) \in Outside /\ AfterAbort(p) \in Labels
  BY Processes, Parents, Going DEF AbortCleaned, AfterAbort, Outside, Labels
<1>2. CASE UNCHANGED graph
  BY <1>1, <1>2, Leaving
<1>3. CASE Release("failed") /\ Mine(p) /\ ~graph.prepared /\ CanRelease(p, "failed")
  <2>1. /\ graph \in Graph /\ "failed" \in GraphStatus /\ graph.gen \in Nat
    BY DEF Inv, Types, Graph, GraphStatus
  <2>2. /\ graph' \in Graph /\ graph'.claim = 0 /\ graph'.status = "failed"
        /\ graph'.rev = graph.rev + 1 /\ graph'.gen = graph.gen
        /\ graph'.cancelled = graph.cancelled /\ graph'.prepared = graph.prepared
        /\ graph'.completed = graph.completed
    BY <1>3, <2>1, ReleaseFields
  <2>3. ~graph.cancelled
    BY <1>3 DEF CanRelease, Owned
  <2>4. Moves(p, AfterAbort(p), loc[p])
    BY <1>1, Going
  <2>5. Fits(p) /\ pc[p] \in Holding
    BY <1>1 DEF Inv, Roles, Holding, Aborting
  <2>6. \A q \in Drivers \ {p} : pc[q] \notin Holding
    BY <2>5, Alone
  <2>7. Joins' /\ Waits'
    <3>1. ~Waiting
      BY <1>1, <1>3, <2>5 DEF Fits, Mine
    <3> QED
      BY <1>1, <2>2, <3>1 DEF Inv, Joins, Waits, Waiting
  <2>8. Fits(p)'
    BY <1>1, <2>1, <2>2, <2>4, <2>5
    DEF Moves, Fits, Outside, Holding, Looping, Joining, Aborting, Waiting
  <2>9. graph'.gen >= graph.gen
    BY <2>1, <2>2
  <2> QED
    BY <1>1, <2>2, <2>3, <2>4, <2>6, <2>7, <2>8, <2>9, GraphStep
<1> QED
  BY <1>2, <1>3 DEF AbortCleaned

LEMMA DieStep ==
  ASSUME Inv, NEW p \in Drivers, Die(p)
  PROVE  Inv'
<1>1. /\ p \in Procs /\ parent \in Parent /\ (graph.completed => parent.patch) /\ loc[p] \in Loc
      /\ Finish(p) /\ UNCHANGED <<plan, graph, node>> /\ "idle" \in Labels
  BY Processes, Parents, Going DEF Die, Labels, Outside
<1>2. \A res \in Resource : Abandoned(res) \in Resource /\ (res = "none" => Abandoned(res) = "none")
  BY DEF Abandoned, Resource
<1>3. Moves(p, "idle", NoLoc)
  BY <1>1, Going
<1>4. OwnTasks(p) /\ \A k \in Nodes : task'[p][k] = "none"
  BY DEF Die, Inv, Types, OwnTasks, TaskState
<1>5. /\ parent' \in Parent /\ (graph.completed => parent'.patch) /\ parent'.status = parent.status
  <2>1. CASE parent' = parent
    BY <1>1, <2>1
  <2>2. CASE parent' = [parent EXCEPT !.res = Abandoned(parent.res)]
    BY <1>1, <1>2, <2>2 DEF Parent
  <2> QED
    BY <2>1, <2>2 DEF Die
<1>6. Milder
  <2>1. CASE child' = child
    BY <2>1, Unchanged
  <2>2. CASE child' = [n \in Nodes |-> [child[n] EXCEPT !.res = Abandoned(child[n].res)]]
    <3>1. \A n \in Nodes : child[n] \in Child
      BY DEF Inv, Types
    <3>2. \A n \in Nodes : /\ child'[n] \in Child /\ child'[n].status = child[n].status
                           /\ child'[n].ask = child[n].ask /\ child'[n].res = Abandoned(child[n].res)
      BY <1>2, <2>2, <3>1 DEF Child
    <3> QED
      BY <1>2, <2>2, <3>1, <3>2 DEF Milder, GoodOutput, Child
  <2> QED
    BY <2>1, <2>2 DEF Die
<1>7. Fits(p)'
  BY <1>1, <1>3, <1>4, NoLocType
  DEF Moves, Fits, Holding, Looping, Joining, Aborting, Inv, Types, Graph
<1> QED
  BY <1>1, <1>3, <1>4, <1>5, <1>6, <1>7, NoLocType, LocalStep

\* Nobody holds a graph that is nobody's and not cancelled.
LEMMA Nobodys ==
  ASSUME Inv, graph.claim = 0, ~graph.cancelled
  PROVE  \A q \in Drivers : pc[q] \notin Holding
<1>1. \A q \in Drivers : Fits(q)
  BY Processes DEF Inv, Roles
<1> QED
  BY <1>1 DEF Fits

\* The driver aborts, and nothing else happens.
LEMMA JustAbort ==
  ASSUME Inv, NEW p \in Drivers, NEW stop \in BOOLEAN, Abort(p, stop),
         pc[p] \in Looping \cup Joining,
         UNCHANGED <<plan, parent, child, graph, node, task>>,
         Waiting => stop
  PROVE  Inv'
<1>1. parent \in Parent /\ (graph.completed => parent.patch) /\ OwnTasks(p)
  BY Parents, Unchanged
<1>2. Waiting' => stop
  BY DEF Waiting
<1> QED
  BY <1>1, <1>2, AbortStep

LEMMA ClaimDriverStep ==
  ASSUME Inv, NEW p \in Drivers, ClaimDriver(p)
  PROVE  Inv'
<1>1. /\ p \in Procs /\ parent \in Parent /\ (graph.completed => parent.patch)
      /\ pc[p] = "claim" /\ UNCHANGED <<plan, parent, child, node, task>>
      /\ graph \in Graph /\ graph.gen \in Nat /\ graph.rev \in Nat
  BY Processes, Parents DEF ClaimDriver, Inv, Types, Graph
<1>2. CASE UNCHANGED graph /\ Finish(p)
  BY <1>1, <1>2, Finishing
<1>3. CASE /\ CanClaimDriver(loc[p].rev) /\ TakeClaim(p)
           /\ Goto(p, IF loc[p].saw[1] = "waiting" THEN "wake" ELSE "scan")
  <2> DEFINE m == [NoLoc EXCEPT !.claim = graph.gen + 1]
  <2>1. PICK l \in {"wake", "scan"} : Goto(p, l)
    BY <1>3
  <2>2. l \in Labels
    BY DEF Labels, Holding, Looping
  <2>3. m \in Loc /\ m.claim = graph.gen + 1 /\ loc' = [loc EXCEPT ![p] = m]
    BY <1>1, <1>3, NoLocType DEF TakeClaim, Loc
  <2> HIDE DEF m
  <2>4. Moves(p, l, m)
    BY <1>1, <2>1, <2>2, <2>3, Going
  <2>5. /\ graph' \in Graph /\ graph'.claim = graph.gen + 1 /\ graph'.gen = graph.gen + 1
        /\ graph'.status = "running" /\ graph'.rev = graph.rev + 1
        /\ graph'.cancelled = graph.cancelled
        /\ graph'.prepared = graph.prepared /\ graph'.completed = graph.completed
    BY <1>1, <1>3, GraphFields DEF TakeClaim
  <2>6. /\ graph.claim = 0 /\ ~graph.cancelled /\ graph.status \in {"ready", "paused"}
        /\ Running = {} /\ ~graph.prepared /\ \A n \in Nodes : child[n].status # "running"
    BY <1>3 DEF CanClaimDriver, Inv, Joins
  <2>7. \A q \in Drivers \ {p} : pc[q] \notin Holding
    BY <2>6, Nobodys
  <2>8. Joins' /\ Waits'
    BY <1>1, <2>5, <2>6 DEF Inv, Joins, Waits, Waiting
  <2>9. Fits(p)'
    <3>1. Fits(p) /\ (\A n \in Nodes : task[p][n] = "none") /\ \A n \in Nodes : node[n] # "running"
      BY <1>1, <2>6 DEF Inv, Roles, Fits, Running
    <3>2. Busy(p)'
      BY <1>1, <2>6, <3>1 DEF Busy
    <3> QED
      BY <1>1, <2>3, <2>4, <2>5, <2>6, <3>1, <3>2
      DEF Moves, Fits, Holding, Looping, Joining, Aborting, Waiting
  <2>10. graph'.gen >= graph.gen /\ m.claim > graph.gen
    BY <1>1, <2>3, <2>5
  <2> QED
    BY <1>1, <2>2, <2>3, <2>4, <2>5, <2>6, <2>7, <2>8, <2>9, <2>10, GraphStep
<1> QED
  BY <1>2, <1>3 DEF ClaimDriver

LEMMA WakeStep ==
  ASSUME Inv, NEW p \in Drivers, Wake(p)
  PROVE  Inv'
<1>1. /\ p \in Procs /\ loc[p] \in Loc /\ Milder /\ OwnTasks(p) /\ Fits(p)
      /\ pc[p] = "wake" /\ UNCHANGED <<plan, child, graph, node, task>>
  BY Processes, Going, Unchanged DEF Wake, Inv, Roles
<1>2. CASE parent' = [parent EXCEPT !.status = "running"] /\ Goto(p, "scan") /\ UNCHANGED loc
  <2>1. "scan" \in Labels /\ "running" \in ParentStatus
    BY DEF Labels, Holding, Looping, ParentStatus
  <2>2. parent' \in Parent /\ (graph.completed => parent'.patch) /\ parent'.status = "running"
    BY <1>2, <2>1, Saving
  <2>3. Moves(p, "scan", loc[p])
    BY <1>1, <1>2, <2>1, Going
  <2>4. Fits(p)'
    BY <1>1, <2>2, <2>3 DEF Moves, Fits, Busy, Holding, Looping, Joining, Aborting, Waiting
  <2> QED
    BY <1>1, <2>1, <2>2, <2>3, <2>4, LocalStep
<1>3. CASE parent.status \notin {"running", "waiting"} /\ Abort(p, FALSE) /\ UNCHANGED parent
  BY <1>1, <1>3, JustAbort DEF Looping, Waiting
<1> QED
  BY <1>2, <1>3 DEF Wake

LEMMA ScanStep ==
  ASSUME Inv, NEW p \in Drivers, Scan(p)
  PROVE  Inv'
<1>1. /\ p \in Procs /\ loc[p] \in Loc /\ Milder /\ OwnTasks(p) /\ Fits(p)
      /\ parent \in Parent /\ (graph.completed => parent.patch)
      /\ pc[p] \in {"scan", "settle"} /\ pc[p] \in Looping
      /\ UNCHANGED <<plan, parent, child, graph, node, task>>
  BY Processes, Parents, Going, Unchanged DEF Scan, Inv, Roles, Looping
<1>2. CASE Abort(p, TRUE)
  BY <1>1, <1>2, JustAbort
<1>3. CASE parent.status = "running" /\ Abort(p, FALSE)
  BY <1>1, <1>3, JustAbort DEF Waiting
<1>4. CASE parent.status = "running" /\ loc' = [loc EXCEPT ![p].left = Nodes] /\ Goto(p, "start")
  <2> DEFINE m == [loc[p] EXCEPT !.left = Nodes]
  <2>1. m \in Loc /\ m.claim = loc[p].claim
    BY <1>1, LocFields
  <2>2. loc' = [loc EXCEPT ![p] = m] /\ "start" \in Labels
    BY <1>4 DEF Labels, Holding, Looping
  <2> HIDE DEF m
  <2>3. Moves(p, "start", m)
    BY <1>1, <1>4, <2>1, <2>2, Going
  <2>4. Fits(p)'
    BY <1>1, <1>4, <2>1, <2>3 DEF Moves, Fits, Busy, Holding, Looping, Joining, Aborting, Waiting
  <2> QED
    BY <1>1, <2>1, <2>2, <2>3, <2>4, LocalStep
<1> QED
  BY <1>2, <1>3, <1>4 DEF Scan

LEMMA PassDoneStep ==
  ASSUME Inv, NEW p \in Drivers, PassDone(p)
  PROVE  Inv'
<1>1. /\ p \in Procs /\ loc[p] \in Loc /\ Milder /\ OwnTasks(p) /\ Fits(p)
      /\ parent \in Parent /\ (graph.completed => parent.patch)
      /\ pc[p] = "start" /\ pc[p] \in Looping
      /\ UNCHANGED <<plan, parent, child, graph, node, task>>
  BY Processes, Parents, Going, Unchanged DEF PassDone, Inv, Roles, Looping
<1>2. ~Waiting
  BY <1>1 DEF Fits
<1>3. CASE \E stop \in BOOLEAN : Abort(p, stop)
  BY <1>1, <1>2, <1>3, JustAbort
<1>4. ASSUME NEW l \in {"wait", "join", "park"}, Goto(p, l), loc' = [loc EXCEPT ![p].left = {}],
             l # "wait" => Tasks(p) = {} /\ ~graph.cancelled,
             l = "park" => \E n \in Nodes : node[n] = "waiting"
      PROVE  Inv'
  <2> DEFINE m == [loc[p] EXCEPT !.left = {}]
  <2>1. m \in Loc /\ m.claim = loc[p].claim
    BY <1>1, LocFields
  <2>2. loc' = [loc EXCEPT ![p] = m] /\ l \in Labels
    BY <1>4 DEF Labels, Holding, Looping, Joining
  <2> HIDE DEF m
  <2>3. Moves(p, l, m)
    BY <1>1, <1>4, <2>1, <2>2, Going
  <2>4. /\ l # "wait" => \A n \in Nodes : task[p][n] = "none"
        /\ l = "park" => Asking
    BY <1>1, <1>4 DEF Tasks, Fits, Busy, Asking, Running
  <2>5. Fits(p)'
    BY <1>1, <1>2, <2>1, <2>3, <2>4
    DEF Moves, Fits, Busy, Holding, Looping, Joining, Aborting, Waiting, Asking, Running
  <2> QED
    BY <1>1, <2>1, <2>2, <2>3, <2>5, LocalStep
<1>5. CASE ~(Tasks(p) = {} /\ graph.cancelled)
  <2>1. CASE Tasks(p) # {}
    BY <1>3, <1>4, <1>5, <2>1 DEF PassDone
  <2>2. CASE Tasks(p) = {}
    BY <1>3, <1>4, <1>5, <2>2 DEF PassDone
  <2> QED
    BY <2>1, <2>2
<1>6. CASE Tasks(p) = {} /\ graph.cancelled
  BY <1>3, <1>6 DEF PassDone
<1> QED
  BY <1>5, <1>6

LEMMA PassFailsStep ==
  ASSUME Inv, NEW p \in Drivers, PassFails(p)
  PROVE  Inv'
<1>1. Fits(p) /\ pc[p] = "start" /\ UNCHANGED <<plan, parent, child, graph, node, task>>
  BY Processes DEF PassFails, Inv, Roles
<1>2. ~Waiting
  BY <1>1 DEF Fits
<1> QED
  BY <1>1, <1>2, JustAbort DEF PassFails, Looping

LEMMA StartNodeStep ==
  ASSUME Inv, NEW p \in Drivers, StartNode(p)
  PROVE  Inv'
<1> DEFINE ready == ReadyNodes(p) \cup Refused(p)
           n == Min(ready)
<1>1. /\ p \in Procs /\ loc[p] \in Loc /\ Fits(p)
      /\ pc[p] = "start" /\ pc[p] \in Looping /\ pc[p] \in Holding
      /\ UNCHANGED <<plan, parent, child, graph>>
  BY Processes, Going DEF StartNode, Inv, Roles, Looping, Holding
<1>2. ~Waiting
  BY <1>1 DEF Fits
<1>3. n \in Nodes
  <2>1. ready \subseteq Nodes
    BY <1>1, LocFields DEF ReadyNodes, Refused
  <2>2. ready # {}
    BY DEF StartNode
  <2>3. n \in ready
    BY <2>1, <2>2, GraphAssumption, LeastIsOne
  <2> QED
    BY <2>1, <2>3
<1>4. CASE CanTransition(p, n, "running")
  <2> DEFINE m == [loc[p] EXCEPT !.left = {k \in loc[p].left : k > n}]
  <2>1. m \in Loc /\ m.claim = loc[p].claim
    BY <1>1 DEF Loc
  <2>2. /\ TransitionNode(n, "running") /\ task' = [task EXCEPT ![p][n] = "begin"]
        /\ loc' = [loc EXCEPT ![p] = m] /\ UNCHANGED pc
    BY <1>4 DEF StartNode
  <2> HIDE DEF m, n
  <2>3. Moves(p, "start", m) /\ "start" \in Labels
    BY <1>1, <2>1, <2>2 DEF Moves, Inv, Types, Labels, Holding, Looping
  <2>4. /\ OwnTasks(p) /\ task'[p][n] = "begin"
        /\ \A k \in Nodes \ {n} : task'[p][k] = task[p][k]
    BY <1>3, <2>2 DEF OwnTasks, Inv, Types, TaskState
  <2>5. node'[n] = "running" /\ \A k \in Nodes \ {n} : node'[k] = node[k]
    BY <1>3, <2>2 DEF TransitionNode, Inv, Types
  <2>6. ~graph.cancelled /\ child[n].status # "running" /\ ~graph.prepared /\ Busy(p)
    <3>1. ~graph.cancelled /\ ~graph.prepared /\ <<node[n], "running">> \in NodeMoves
      BY <1>4 DEF CanTransition, Owned
    <3>2. Busy(p)
      BY <1>1, <3>1 DEF Fits
    <3> QED
      BY <1>3, <3>1, <3>2 DEF Busy, NodeMoves
  <2>7. Busy(p)'
    BY <1>1, <2>4, <2>5, <2>6 DEF Busy
  <2>8. Fits(p)'
    BY <1>1, <1>2, <2>1, <2>3, <2>4, <2>5, <2>6, <2>7
    DEF Moves, Fits, Holding, Looping, Joining, Aborting, Waiting
  <2>9. "running" \in NodeStatus
    BY DEF NodeStatus
  <2> QED
    BY <1>1, <1>3, <1>4, <2>1, <2>2, <2>3, <2>4, <2>8, <2>9, NodeStep
<1>5. CASE ~CanTransition(p, n, "running")
  <2>1. UNCHANGED <<node, task>> /\ \E stop \in BOOLEAN : Abort(p, stop)
    <3>1. graph.cancelled \in BOOLEAN
      BY DEF Inv, Types, Graph
    <3> QED
      BY <1>5, <3>1 DEF StartNode
  <2> QED
    BY <1>1, <1>2, <2>1, JustAbort
<1> QED
  BY <1>4, <1>5

LEMMA WatchStep ==
  ASSUME Inv, NEW p \in Drivers, Watch(p)
  PROVE  Inv'
<1>1. /\ p \in Procs /\ loc[p] \in Loc /\ Milder /\ OwnTasks(p) /\ Fits(p)
      /\ parent \in Parent /\ (graph.completed => parent.patch)
      /\ pc[p] = "wait" /\ pc[p] \in Looping
      /\ UNCHANGED <<plan, parent, child, graph, node, task>>
  BY Processes, Parents, Going, Unchanged DEF Watch, Inv, Roles, Looping
<1>2. ~Waiting
  BY <1>1 DEF Fits
<1>3. CASE \E stop \in BOOLEAN : Abort(p, stop)
  BY <1>1, <1>2, <1>3, JustAbort
<1>4. CASE /\ loc' = [loc EXCEPT ![p].left = {n \in Nodes : task[p][n] \in TaskOver}]
           /\ Goto(p, "settle")
  <2> DEFINE over == {n \in Nodes : task[p][n] \in TaskOver}
             m == [loc[p] EXCEPT !.left = over]
  <2>1. m \in Loc /\ m.claim = loc[p].claim /\ m.left = over
    BY <1>1 DEF Loc
  <2>2. loc' = [loc EXCEPT ![p] = m] /\ "settle" \in Labels
    BY <1>4 DEF Labels, Holding, Looping
  <2> HIDE DEF m
  <2>3. Moves(p, "settle", m)
    BY <1>1, <1>4, <2>1, <2>2, Going
  <2>4. Fits(p)'
    BY <1>1, <1>2, <2>1, <2>3 DEF Moves, Fits, Busy, Holding, Looping, Joining, Aborting, Waiting
  <2> QED
    BY <1>1, <2>1, <2>2, <2>3, <2>4, LocalStep
<1> QED
  BY <1>3, <1>4 DEF Watch

LEMMA SettleStep ==
  ASSUME Inv, NEW p \in Drivers, Settle(p)
  PROVE  Inv'
<1> DEFINE n == Min(loc[p].left)
           target == SettleTarget(n, task[p][n])
<1>1. /\ p \in Procs /\ loc[p] \in Loc /\ Fits(p)
      /\ parent \in Parent /\ (graph.completed => parent.patch)
      /\ pc[p] = "settle" /\ pc[p] \in Looping /\ pc[p] \in Holding
      /\ UNCHANGED <<plan, parent, child, graph>>
  BY Processes, Parents, Going DEF Settle, Inv, Roles, Looping, Holding
<1>2. ~Waiting
  BY <1>1 DEF Fits
<1>3. n \in Nodes
  <2>1. loc[p].left \subseteq Nodes /\ loc[p].left # {}
    BY <1>1, LocFields DEF Settle
  <2> QED
    BY <2>1, GraphAssumption, LeastIsOne
<1>4. task' = [task EXCEPT ![p][n] = "none"]
  BY DEF Settle
<1>5. target \in {"failed", "waiting", "succeeded"} /\ target \in NodeStatus
      /\ (target = "waiting" => child[n].status = "paused")
      /\ (target = "succeeded" => child[n].status = "completed")
  BY DEF SettleTarget, NodeStatus
<1>6. CASE CanTransition(p, n, target)
  <2>1. TransitionNode(n, target)
    BY <1>6 DEF Settle
  <2> DEFINE m == [loc[p] EXCEPT !.left = loc[p].left \ {n}]
             a == [loc[p] EXCEPT !.stop = FALSE, !.left = {}]
  <2>2. /\ m \in Loc /\ m.claim = loc[p].claim /\ m.left = loc[p].left \ {n}
        /\ a \in Loc /\ a.claim = loc[p].claim
    BY <1>1 DEF Loc
  <2>3. \/ target = "failed" /\ loc' = [loc EXCEPT ![p] = a] /\ Goto(p, "gather")
        \/ target # "failed" /\ loc' = [loc EXCEPT ![p] = m] /\ UNCHANGED pc
    BY <1>6 DEF Settle, Abort
  <2> HIDE DEF m, n, a, target
  <2>4. "settle" \in Labels /\ "gather" \in Labels
    BY DEF Labels, Holding, Looping, Aborting
  <2>5. \/ target = "failed" /\ Moves(p, "gather", a)
        \/ target # "failed" /\ Moves(p, "settle", m)
    <3>1. CASE target = "failed"
      BY <1>1, <2>2, <2>3, <2>4, <3>1, Going
    <3>2. CASE target # "failed"
      BY <1>1, <2>2, <2>3, <2>4, <3>2 DEF Moves, Inv, Types
    <3> QED
      BY <3>1, <3>2
  <2>6. /\ OwnTasks(p) /\ task'[p][n] = "none"
        /\ \A k \in Nodes \ {n} : task'[p][k] = task[p][k]
    BY <1>3, <1>4 DEF OwnTasks, Inv, Types, TaskState
  <2>7. node'[n] = target /\ \A k \in Nodes \ {n} : node'[k] = node[k]
    BY <1>3, <2>1 DEF TransitionNode, Inv, Types
  <2>8. ~graph.cancelled /\ Busy(p) /\ ~graph.prepared
    <3>1. ~graph.cancelled
      BY <1>6 DEF CanTransition, Owned
    <3> QED
      BY <1>1, <3>1 DEF Fits
  <2>9. target # "failed" => Busy(p)'
    BY <1>1, <1>5, <2>6, <2>7, <2>8 DEF Busy
  <2>10. Fits(p)'
    <3>1. CASE target = "failed"
      BY <1>1, <1>2, <2>2, <2>5, <2>6, <2>7, <2>8, <3>1
      DEF Moves, Fits, Holding, Looping, Joining, Aborting, Waiting
    <3>2. CASE target # "failed"
      <4>1. pc'[p] = "settle" /\ loc'[p] = m /\ Busy(p)'
        BY <2>5, <2>9, <3>2 DEF Moves
      <4>2. \A k \in Nodes : task'[p][k] # "none" => node'[k] \in {"running", "cancelled"}
        BY <1>1, <2>6, <2>7 DEF Fits
      <4>3. \A k \in m.left : task'[p][k] \in TaskOver
        <5>1. loc[p].left \subseteq Nodes
          BY <1>1, LocFields
        <5> QED
          BY <1>1, <2>2, <2>6, <5>1 DEF Fits
      <4> QED
        BY <1>1, <1>2, <2>2, <2>8, <4>1, <4>2, <4>3
        DEF Fits, Holding, Looping, Joining, Aborting, Waiting
    <3> QED
      BY <3>1, <3>2
  <2>11. CASE target = "failed"
    BY <1>1, <1>3, <1>5, <1>6, <2>1, <2>2, <2>4, <2>5, <2>6, <2>10, <2>11, NodeStep
  <2>12. CASE target # "failed"
    BY <1>1, <1>3, <1>5, <1>6, <2>1, <2>2, <2>4, <2>5, <2>6, <2>10, <2>12, NodeStep
  <2> QED
    BY <2>11, <2>12
<1>7. CASE ~CanTransition(p, n, target)
  <2>1. UNCHANGED node /\ \E stop \in BOOLEAN : Abort(p, stop)
    <3>1. graph.cancelled \in BOOLEAN
      BY DEF Inv, Types, Graph
    <3> QED
      BY <1>7, <3>1 DEF Settle
  <2>2. OwnTasks(p) /\ \A k \in Nodes : task'[p][k] # "none" => task[p][k] # "none"
    BY <1>3, <1>4 DEF OwnTasks, Inv, Types, TaskState
  <2>3. ~Waiting'
    BY <1>1, <1>2 DEF Waiting
  <2> HIDE DEF n, target
  <2> QED
    BY <1>1, <2>1, <2>2, <2>3, AbortStep
<1> QED
  BY <1>6, <1>7

LEMMA ParkStep ==
  ASSUME Inv, NEW p \in Drivers, Park(p)
  PROVE  Inv'
<1>1. /\ p \in Procs /\ loc[p] \in Loc /\ Milder /\ OwnTasks(p) /\ Fits(p)
      /\ pc[p] = "park" /\ UNCHANGED <<plan, child, graph, node, task>>
  BY Processes, Going, Unchanged DEF Park, Inv, Roles
<1>2. CASE parent' = [parent EXCEPT !.status = "waiting"] /\ Goto(p, "release") /\ UNCHANGED loc
  <2>1. "release" \in Labels /\ "waiting" \in ParentStatus
    BY DEF Labels, Holding, Looping, ParentStatus
  <2>2. parent' \in Parent /\ (graph.completed => parent'.patch) /\ parent'.status = "waiting"
    BY <1>2, <2>1, Saving
  <2>3. Moves(p, "release", loc[p])
    BY <1>1, <1>2, <2>1, Going
  <2>4. Fits(p)'
    BY <1>1, <2>2, <2>3
    DEF Moves, Fits, Busy, Holding, Looping, Joining, Aborting, Asking, Running, Waiting
  <2> QED
    BY <1>1, <2>1, <2>2, <2>3, <2>4, LocalStep
<1>3. CASE parent.status \notin {"running", "waiting"} /\ Abort(p, FALSE) /\ UNCHANGED parent
  BY <1>1, <1>3, JustAbort DEF Looping, Waiting
<1> QED
  BY <1>2, <1>3 DEF Park

LEMMA ReleasePausedStep ==
  ASSUME Inv, NEW p \in Drivers, ReleasePaused(p)
  PROVE  Inv'
<1>1. /\ p \in Procs /\ loc[p] \in Loc /\ Fits(p)
      /\ parent \in Parent /\ (graph.completed => parent.patch)
      /\ pc[p] = "release" /\ pc[p] \in Looping /\ pc[p] \in Holding
      /\ UNCHANGED <<plan, parent, child, node, task>>
  BY Processes, Parents, Going DEF ReleasePaused, Inv, Roles, Looping, Holding
<1>2. CASE CanRelease(p, "paused")
  <2>1. Release("paused") /\ Finish(p) /\ "paused" \in GraphStatus /\ "idle" \in Labels
    BY <1>2 DEF ReleasePaused, GraphStatus, Labels, Outside
  <2>2. /\ graph' \in Graph /\ graph'.claim = 0 /\ graph'.status = "paused"
        /\ graph'.rev = graph.rev + 1 /\ graph'.gen = graph.gen
        /\ graph'.cancelled = graph.cancelled /\ graph'.prepared = graph.prepared
        /\ graph'.completed = graph.completed
    BY <2>1, ReleaseFields
  <2>3. ~graph.cancelled /\ Running = {} /\ Asking /\ Busy(p) /\ ~graph.prepared
    BY <1>1, <1>2 DEF CanRelease, Owned, Fits
  <2>4. Moves(p, "idle", NoLoc)
    BY <1>1, <2>1, Going
  <2>5. \A q \in Drivers \ {p} : pc[q] \notin Holding
    BY <1>1, Alone
  <2>6. Joins'
    <3>1. \A n \in Nodes : child[n].status # "running"
      BY <2>3 DEF Busy, Running
    <3> QED
      BY <1>1, <2>2, <2>3, <3>1 DEF Joins, Inv
  <2>7. Waits'
    BY <1>1, <2>2, <2>3 DEF Waits, Waiting, Asking, Running, Inv, Joins
  <2>8. /\ graph.gen \in Nat /\ graph'.gen >= graph.gen
        /\ \A n \in Nodes : task[p][n] = "none"
    BY <1>1, <2>2 DEF Inv, Types, Graph, Fits
  <2>9. Fits(p)'
    BY <1>1, <2>2, <2>4, <2>8, NoLocType
    DEF Moves, Fits, Holding, Looping, Joining, Aborting
  <2> QED
    BY <1>1, <2>1, <2>2, <2>3, <2>4, <2>5, <2>6, <2>7, <2>8, <2>9, NoLocType, GraphStep
<1>3. CASE ~CanRelease(p, "paused")
  <2>1. Abort(p, FALSE) /\ UNCHANGED graph
    BY <1>3 DEF ReleasePaused
  <2>2. ~Waiting
    <3> SUFFICES ASSUME Waiting PROVE FALSE
      OBVIOUS
    <3>1. ~graph.cancelled /\ parent.status = "waiting"
      BY DEF Waiting
    <3>2. /\ graph.claim = loc[p].claim /\ loc[p].claim # 0 /\ Running = {} /\ ~graph.prepared
          /\ graph.status \in {"running", "joined"}
      BY <1>1, <3>1 DEF Fits, Asking, Inv, Claims
    <3>3. graph.completed = FALSE
      BY <3>2 DEF Inv, Joins, Types, Graph
    <3> QED
      BY <1>3, <3>1, <3>2, <3>3 DEF CanRelease, Owned, ParentEnded
  <2> QED
    BY <1>1, <2>1, <2>2, JustAbort
<1> QED
  BY <1>2, <1>3

LEMMA PrepareJoinStep ==
  ASSUME Inv, NEW p \in Drivers, PrepareJoin(p)
  PROVE  Inv'
<1>1. /\ p \in Procs /\ loc[p] \in Loc /\ Fits(p)
      /\ pc[p] = "join" /\ pc[p] \in Joining /\ pc[p] \in Holding
      /\ UNCHANGED <<plan, parent, child, node, task>>
  BY Processes, Going DEF PrepareJoin, Inv, Roles, Joining, Holding
<1>2. ~Waiting
  BY <1>1 DEF Fits
<1>3. CASE Abort(p, FALSE) /\ UNCHANGED graph
  BY <1>1, <1>2, <1>3, JustAbort
<1>4. CASE /\ ~graph.prepared /\ Owned(p)
           /\ \A n \in Nodes : node[n] = "succeeded" /\ GoodOutput(n)
           /\ graph' = [graph EXCEPT !.prepared = TRUE, !.rev = @ + 1]
           /\ Goto(p, "joinwork") /\ UNCHANGED loc
  <2>1. /\ graph' \in Graph /\ graph'.prepared /\ graph'.rev = graph.rev + 1
        /\ graph'.gen = graph.gen /\ graph'.claim = graph.claim /\ graph'.status = graph.status
        /\ graph'.cancelled = graph.cancelled /\ graph'.completed = graph.completed
    <3>1. graph \in Graph
      BY DEF Inv, Types
    <3>2. graph' = [graph EXCEPT !.prepared = TRUE, !.rev = graph.rev + 1]
      BY <1>4
    <3>3. graph.rev + 1 \in Nat
      BY <3>1 DEF Graph
    <3> QED
      <4>1. graph' \in Graph
        BY <3>1, <3>2, <3>3 DEF Graph
      <4>2. /\ graph'.prepared = TRUE /\ graph'.rev = graph.rev + 1 /\ graph'.gen = graph.gen
            /\ graph'.claim = graph.claim /\ graph'.status = graph.status
            /\ graph'.cancelled = graph.cancelled /\ graph'.completed = graph.completed
        BY <3>1, <3>2 DEF Graph
      <4> QED
        BY <4>1, <4>2
  <2>2. /\ ~graph.cancelled /\ graph.claim # 0 /\ graph.claim \in {0, graph.gen}
        /\ graph.status \in {"running", "joined"} /\ ~graph.completed
    BY <1>4 DEF Owned, Inv, Claims, Joins
  <2>3. "joinwork" \in Labels
    BY DEF Labels, Holding, Joining
  <2>4. Moves(p, "joinwork", loc[p])
    BY <1>1, <1>4, <2>3, Going
  <2>5. \A q \in Drivers \ {p} : pc[q] \notin Holding
    BY <1>1, Alone
  <2>6. Joins' /\ Waits'
    BY <1>1, <1>2, <1>4, <2>1, <2>2 DEF Joins, Waits, Waiting, Inv
  <2>7. graph.gen \in Nat /\ graph.rev \in Nat /\ graph'.gen >= graph.gen
    BY <2>1 DEF Inv, Types, Graph
  <2>8. Fits(p)'
    BY <1>1, <1>2, <2>1, <2>2, <2>4, <2>7
    DEF Moves, Fits, Holding, Looping, Joining, Aborting, Waiting
  <2> QED
    BY <1>1, <2>1, <2>2, <2>3, <2>4, <2>5, <2>6, <2>7, <2>8, GraphStep
<1> QED
  BY <1>3, <1>4 DEF PrepareJoin

LEMMA JoinWorkStep ==
  ASSUME Inv, NEW p \in Drivers, JoinWork(p)
  PROVE  Inv'
<1>1. /\ p \in Procs /\ loc[p] \in Loc /\ Fits(p) /\ Milder /\ OwnTasks(p)
      /\ pc[p] = "joinwork" /\ pc[p] \in Joining
      /\ parent \in Parent /\ (graph.completed => parent.patch)
      /\ UNCHANGED <<plan, child, graph, node, task>>
  BY Processes, Parents, Going, Unchanged DEF JoinWork, Inv, Roles, Joining
<1>2. ~Waiting
  BY <1>1 DEF Fits
<1>3. CASE /\ parent.status = "running"
           /\ parent' = [parent EXCEPT !.patch = TRUE, !.res = "held", !.stage = "verifying"]
           /\ Goto(p, "joined") /\ UNCHANGED loc
  <2>1. parent' \in Parent /\ parent'.patch /\ parent'.status = "running"
    BY <1>1, <1>3 DEF Parent, Stages, Resource
  <2>2. "joined" \in Labels
    BY DEF Labels, Holding, Joining
  <2>3. Moves(p, "joined", loc[p])
    BY <1>1, <1>3, <2>2, Going
  <2>4. Fits(p)'
    BY <1>1, <2>1, <2>3 DEF Moves, Fits, Holding, Looping, Joining, Aborting, Waiting
  <2> QED
    BY <1>1, <2>1, <2>2, <2>3, <2>4, LocalStep
<1>4. ASSUME NEW res \in {parent.res, "held"}, parent' = [parent EXCEPT !.res = res],
             Abort(p, FALSE)
      PROVE  Inv'
  <2>1. /\ parent' \in Parent /\ (graph.completed => parent'.patch)
        /\ parent'.status = parent.status
    BY <1>1, <1>4 DEF Parent, Resource
  <2>2. ~Waiting'
    BY <1>1, <1>2, <2>1 DEF Waiting
  <2> QED
    BY <1>1, <1>4, <2>1, <2>2, AbortStep
<1> QED
  BY <1>3, <1>4 DEF JoinWork

LEMMA CompleteJoinStep ==
  ASSUME Inv, NEW p \in Drivers, CompleteJoin(p)
  PROVE  Inv'
<1>1. /\ p \in Procs /\ loc[p] \in Loc /\ Fits(p)
      /\ pc[p] = "joined" /\ pc[p] \in Joining /\ pc[p] \in Holding
      /\ UNCHANGED <<plan, parent, child, node, task>>
  BY Processes, Going DEF CompleteJoin, Inv, Roles, Joining, Holding
<1>2. ~Waiting
  BY <1>1 DEF Fits
<1>3. CASE UNCHANGED graph /\ \E stop \in {FALSE, graph.cancelled} : Abort(p, stop)
  <2>1. \E stop \in BOOLEAN : Abort(p, stop)
    BY <1>3 DEF Inv, Types, Graph
  <2> QED
    BY <1>1, <1>2, <1>3, <2>1, JustAbort
<1>4. CASE /\ Owned(p) /\ graph.prepared /\ parent.patch
           /\ graph' = [graph EXCEPT !.completed = TRUE, !.status = "joined", !.rev = @ + 1]
           /\ Goto(p, "releasejoin") /\ UNCHANGED loc
  <2>1. /\ graph' \in Graph /\ graph'.completed /\ graph'.status = "joined"
        /\ graph'.rev = graph.rev + 1 /\ graph'.gen = graph.gen /\ graph'.claim = graph.claim
        /\ graph'.cancelled = graph.cancelled /\ graph'.prepared = graph.prepared
    BY <1>4, GraphFields DEF Inv, Types
  <2>2. ~graph.cancelled /\ graph.claim # 0 /\ graph.claim \in {0, graph.gen}
    BY <1>4 DEF Owned, Inv, Claims
  <2>3. "releasejoin" \in Labels
    BY DEF Labels, Holding, Joining
  <2>4. Moves(p, "releasejoin", loc[p])
    BY <1>1, <1>4, <2>3, Going
  <2>5. \A q \in Drivers \ {p} : pc[q] \notin Holding
    BY <1>1, Alone
  <2>6. Joins' /\ Waits'
    BY <1>1, <1>2, <1>4, <2>1, <2>2 DEF Joins, Waits, Waiting, Inv
  <2>7. graph.gen \in Nat /\ graph.rev \in Nat /\ graph'.gen >= graph.gen
    BY <2>1 DEF Inv, Types, Graph
  <2>8. Fits(p)'
    BY <1>1, <1>2, <2>1, <2>2, <2>4, <2>7
    DEF Moves, Fits, Holding, Looping, Joining, Aborting, Waiting
  <2> QED
    BY <1>1, <2>1, <2>2, <2>3, <2>4, <2>5, <2>6, <2>7, <2>8, GraphStep
<1> QED
  BY <1>3, <1>4 DEF CompleteJoin

LEMMA ReleaseJoinedStep ==
  ASSUME Inv, NEW p \in Drivers, ReleaseJoined(p)
  PROVE  Inv'
<1>1. /\ p \in Procs /\ loc[p] \in Loc /\ Fits(p)
      /\ pc[p] = "releasejoin" /\ pc[p] \in Joining /\ pc[p] \in Holding
      /\ UNCHANGED <<plan, parent, child, node, task>>
  BY Processes, Going DEF ReleaseJoined, Inv, Roles, Joining, Holding
<1>2. ~Waiting
  BY <1>1 DEF Fits
<1>3. CASE Abort(p, FALSE) /\ UNCHANGED graph
  BY <1>1, <1>2, <1>3, JustAbort
<1>4. CASE CanRelease(p, "joined") /\ Release("joined") /\ Goto(p, "claimrest") /\ UNCHANGED loc
  <2>1. "joined" \in GraphStatus /\ "claimrest" \in Labels
    BY DEF GraphStatus, Labels, Outside
  <2>2. /\ graph' \in Graph /\ graph'.claim = 0 /\ graph'.status = "joined"
        /\ graph'.rev = graph.rev + 1 /\ graph'.gen = graph.gen
        /\ graph'.cancelled = graph.cancelled /\ graph'.prepared = graph.prepared
        /\ graph'.completed = graph.completed
    BY <1>4, <2>1, ReleaseFields
  <2>3. ~graph.cancelled
    BY <1>4 DEF CanRelease, Owned
  <2>4. Moves(p, "claimrest", loc[p])
    BY <1>1, <1>4, <2>1, Going
  <2>5. \A q \in Drivers \ {p} : pc[q] \notin Holding
    BY <1>1, Alone
  <2>6. Joins' /\ Waits'
    BY <1>1, <1>2, <2>2 DEF Joins, Waits, Waiting, Inv
  <2>7. graph.gen \in Nat /\ graph.rev \in Nat /\ graph'.gen >= graph.gen
    BY <2>2 DEF Inv, Types, Graph
  <2>8. Fits(p)'
    BY <1>1, <1>2, <2>2, <2>4, <2>7
    DEF Moves, Fits, Holding, Looping, Joining, Aborting, Waiting
  <2> QED
    BY <1>1, <2>1, <2>2, <2>3, <2>4, <2>5, <2>6, <2>7, <2>8, GraphStep
<1> QED
  BY <1>3, <1>4 DEF ReleaseJoined

LEMMA ClaimContinuationStep ==
  ASSUME Inv, NEW p \in Drivers, ClaimContinuation(p)
  PROVE  Inv'
<1>1. /\ p \in Procs /\ parent \in Parent /\ (graph.completed => parent.patch) /\ Fits(p)
      /\ pc[p] = "claimrest" /\ UNCHANGED <<plan, parent, child, node, task>>
      /\ graph \in Graph /\ graph.gen \in Nat /\ graph.rev \in Nat
  BY Processes, Parents DEF ClaimContinuation, Inv, Types, Graph, Roles
<1>2. CASE UNCHANGED graph /\ Finish(p)
  BY <1>1, <1>2, Finishing
<1>3. CASE /\ CanClaimContinuation /\ TakeClaim(p)
           /\ Goto(p, IF loc[p].saw[1] = "paused" THEN "rehydrate" ELSE "rest")
  <2> DEFINE m == [NoLoc EXCEPT !.claim = graph.gen + 1]
  <2>1. PICK l \in {"rehydrate", "rest"} : Goto(p, l)
    BY <1>3
  <2>2. l \in Labels
    BY DEF Labels, Holding
  <2>3. m \in Loc /\ m.claim = graph.gen + 1 /\ loc' = [loc EXCEPT ![p] = m]
    BY <1>1, <1>3, NoLocType DEF TakeClaim, Loc
  <2> HIDE DEF m
  <2>4. Moves(p, l, m)
    BY <1>1, <2>1, <2>2, <2>3, Going
  <2>5. /\ graph' \in Graph /\ graph'.claim = graph.gen + 1 /\ graph'.gen = graph.gen + 1
        /\ graph'.status = "running" /\ graph'.rev = graph.rev + 1
        /\ graph'.cancelled = graph.cancelled
        /\ graph'.prepared = graph.prepared /\ graph'.completed = graph.completed
    BY <1>1, <1>3, GraphFields DEF TakeClaim
  <2>6. /\ graph.claim = 0 /\ ~graph.cancelled /\ ~Waiting
    BY <1>3 DEF CanClaimContinuation, Waiting
  <2>7. \A q \in Drivers \ {p} : pc[q] \notin Holding
    BY <2>6, Nobodys
  <2>8. Joins' /\ Waits'
    BY <1>1, <2>5, <2>6 DEF Inv, Joins, Waits, Waiting
  <2>9. Fits(p)'
    <3>1. \A n \in Nodes : task[p][n] = "none"
      BY <1>1 DEF Fits
    <3> QED
      BY <1>1, <2>3, <2>4, <2>5, <2>6, <3>1
      DEF Moves, Fits, Holding, Looping, Joining, Aborting, Waiting
  <2>10. graph'.gen >= graph.gen /\ m.claim > graph.gen
    BY <1>1, <2>3, <2>5
  <2> QED
    BY <1>1, <2>2, <2>3, <2>4, <2>5, <2>6, <2>7, <2>8, <2>9, <2>10, GraphStep
<1> QED
  BY <1>2, <1>3 DEF ClaimContinuation

LEMMA RehydrateStep ==
  ASSUME Inv, NEW p \in Drivers, Rehydrate(p)
  PROVE  Inv'
<1>1. /\ p \in Procs /\ loc[p] \in Loc /\ Milder /\ OwnTasks(p) /\ Fits(p)
      /\ parent \in Parent /\ (graph.completed => parent.patch)
      /\ pc[p] = "rehydrate" /\ UNCHANGED <<plan, child, graph, node, task>>
  BY Processes, Parents, Going, Unchanged DEF Rehydrate, Inv, Roles
<1>2. CASE /\ parent' = [parent EXCEPT !.status = "running", !.ask = "none"]
           /\ Goto(p, "rest") /\ UNCHANGED loc
  <2>1. /\ parent' \in Parent /\ (graph.completed => parent'.patch)
        /\ parent'.status = "running"
    BY <1>1, <1>2 DEF Parent, ParentStatus, Answer
  <2>2. "rest" \in Labels
    BY DEF Labels, Holding
  <2>3. Moves(p, "rest", loc[p])
    BY <1>1, <1>2, <2>2, Going
  <2>4. Fits(p)'
    BY <1>1, <2>1, <2>3 DEF Moves, Fits, Holding, Looping, Joining, Aborting, Waiting
  <2> QED
    BY <1>1, <2>1, <2>2, <2>3, <2>4, LocalStep
<1>3. CASE /\ parent' = [parent EXCEPT !.status = "failed"]
           /\ loc' = [loc EXCEPT ![p].due = TRUE] /\ Goto(p, "readfence")
  <2> DEFINE m == [loc[p] EXCEPT !.due = TRUE]
  <2>1. "failed" \in ParentStatus /\ "readfence" \in Outside
    BY DEF ParentStatus, Outside
  <2>2. parent' \in Parent /\ (graph.completed => parent'.patch) /\ parent'.status = "failed"
    BY <1>3, <2>1, Saving
  <2>3. m \in Loc /\ m.claim = loc[p].claim /\ loc' = [loc EXCEPT ![p] = m]
    BY <1>1, <1>3, LocFields
  <2> HIDE DEF m
  <2> QED
    BY <1>1, <1>3, <2>1, <2>2, <2>3, Leaving
<1>4. CASE UNCHANGED parent /\ Finish(p)
  BY <1>1, <1>4, Finishing
<1> QED
  BY <1>2, <1>3, <1>4 DEF Rehydrate

LEMMA RestStep ==
  ASSUME Inv, NEW p \in Drivers, Rest(p)
  PROVE  Inv'
<1>1. /\ p \in Procs /\ loc[p] \in Loc /\ Milder /\ OwnTasks(p) /\ Fits(p)
      /\ parent \in Parent /\ (graph.completed => parent.patch)
      /\ pc[p] = "rest" /\ UNCHANGED <<plan, child, graph, node, loc, task>>
  BY Processes, Parents, Going, Unchanged DEF Rest, Inv, Roles
<1>2. /\ parent' \in {parent, [parent EXCEPT !.status = "paused", !.ask = "pending"],
                      [parent EXCEPT !.stage = "presenting"]}
      /\ \E l \in {"leave", "reject", "leavefailed", "present"} : Goto(p, l)
  BY DEF Rest
<1>3. /\ parent' \in Parent /\ (graph.completed => parent'.patch)
      /\ parent'.status \in {parent.status, "paused"}
  <2>1. {"paused"} \subseteq ParentStatus /\ {"presenting"} \subseteq Stages /\ {"pending"} \subseteq Answer
    BY DEF ParentStatus, Stages, Answer
  <2>2. CASE parent' = [parent EXCEPT !.status = "paused", !.ask = "pending"]
    BY <1>1, <2>1, <2>2 DEF Parent
  <2>3. CASE parent' = [parent EXCEPT !.stage = "presenting"]
    BY <1>1, <2>1, <2>3 DEF Parent
  <2> QED
    BY <1>1, <1>2, <2>2, <2>3
<1>4. ASSUME NEW l \in {"leave", "reject", "leavefailed"}, Goto(p, l) PROVE Inv'
  BY <1>1, <1>3, <1>4, Leaving DEF Outside
<1>5. CASE Goto(p, "present")
  <2>1. "present" \in Labels
    BY DEF Labels, Holding
  <2>2. Moves(p, "present", loc[p])
    BY <1>1, <1>5, <2>1, Going
  <2>3. Fits(p)'
    BY <1>1, <1>3, <2>2 DEF Moves, Fits, Holding, Looping, Joining, Aborting, Waiting
  <2> QED
    BY <1>1, <1>3, <2>1, <2>2, <2>3, LocalStep
<1> QED
  BY <1>2, <1>4, <1>5

\* Who releases a continuation holds the last claim that was given.
LEMMA LeaveContinuation ==
  ASSUME Inv, NEW p \in Drivers, Leave(p)
  PROVE  Inv'
<1>1. /\ p \in Procs /\ loc[p] \in Loc /\ Fits(p)
      /\ parent \in Parent /\ (graph.completed => parent.patch)
      /\ pc[p] \in {"leave", "leavefailed", "reject", "presented"}
      /\ UNCHANGED <<plan, parent, child, node, task>>
  BY Processes, Parents, Going DEF Leave, Inv, Roles
<1>2. PICK next \in {"idle", "failsave", "saverejected", "saveready"} : ReleaseContinuation(p, next)
  BY DEF Leave
<1>3. /\ UNCHANGED graph \/ (~graph.cancelled /\ CanRelease(p, "joined") /\ Release("joined"))
      /\ Finish(p) \/ \E l \in {"failsave", "saverejected", "saveready"} : Goto(p, l) /\ UNCHANGED loc
  BY <1>2 DEF ReleaseContinuation
<1>4. CASE UNCHANGED graph
  <2>1. CASE Finish(p)
    BY <1>1, <1>4, <2>1, Finishing
  <2>2. ASSUME NEW l \in {"failsave", "saverejected", "saveready"}, Goto(p, l), UNCHANGED loc
        PROVE  Inv'
    BY <1>1, <1>4, <2>2, Leaving DEF Outside
  <2> QED
    BY <1>3, <2>1, <2>2
<1>5. CASE ~graph.cancelled /\ CanRelease(p, "joined") /\ Release("joined")
  <2>1. "joined" \in GraphStatus
    BY DEF GraphStatus
  <2>2. /\ graph' \in Graph /\ graph'.claim = 0 /\ graph'.status = "joined"
        /\ graph'.rev = graph.rev + 1 /\ graph'.gen = graph.gen
        /\ graph'.cancelled = graph.cancelled /\ graph'.prepared = graph.prepared
        /\ graph'.completed = graph.completed
    BY <1>5, <2>1, ReleaseFields
  <2>3. \E l \in Labels \ (Holding \cup {"fence"}), m \in Loc :
          Moves(p, l, m) /\ m.claim \in {0, loc[p].claim}
    <3>1. {"idle", "failsave", "saverejected", "saveready"} \subseteq Labels \ (Holding \cup {"fence"})
      BY DEF Labels, Outside, Holding, Looping, Joining, Aborting
    <3>2. CASE Finish(p)
      BY <1>1, <3>1, <3>2, NoLocType, Going
    <3>3. ASSUME NEW l \in {"failsave", "saverejected", "saveready"}, Goto(p, l), UNCHANGED loc
          PROVE  Moves(p, l, loc[p])
      BY <1>1, <3>1, <3>3, Going
    <3> QED
      BY <1>1, <1>3, <3>1, <3>2, <3>3
  <2>4. PICK l \in Labels \ (Holding \cup {"fence"}), m \in Loc :
          Moves(p, l, m) /\ m.claim \in {0, loc[p].claim}
    BY <2>3
  <2>5. /\ graph.claim = loc[p].claim /\ loc[p].claim # 0 /\ graph.completed
        /\ graph.claim \in {0, graph.gen}
    BY <1>5 DEF CanRelease, Owned, Inv, Claims
  <2>6. ASSUME NEW q \in Drivers \ {p} PROVE pc[q] \notin Holding
    <3>1. pc[q] \in Holding => loc[q].claim = graph.gen
      BY Processes DEF Inv, Roles, Fits
    <3> QED
      BY <2>5, <3>1 DEF Inv, Claims
  <2>7. ~Waiting
    BY <2>5 DEF Inv, Waits
  <2>8. Joins' /\ Waits'
    BY <1>1, <2>2, <2>7 DEF Joins, Waits, Waiting, Inv
  <2>9. graph.gen \in Nat /\ graph.rev \in Nat /\ graph'.gen >= graph.gen /\ loc[p].claim \in Nat
    BY <1>1, <2>2 DEF Inv, Types, Graph, Loc
  <2>10. Fits(p)'
    <3>1. \A n \in Nodes : task[p][n] = "none"
      BY <1>1 DEF Fits
    <3> QED
      BY <1>1, <2>2, <2>4, <2>7, <2>9, <3>1
      DEF Moves, Fits, Holding, Looping, Joining, Aborting, Waiting
  <2> QED
    BY <1>1, <1>5, <2>2, <2>4, <2>6, <2>8, <2>9, <2>10, GraphStep
<1> QED
  BY <1>3, <1>4, <1>5

\* The last saves of a verified parent.
LEMMA LastSteps ==
  ASSUME Inv, NEW p \in Drivers, SaveRejected(p) \/ Present(p) \/ SaveReady(p)
  PROVE  Inv'
<1>1. /\ p \in Procs /\ loc[p] \in Loc
      /\ parent \in Parent /\ (graph.completed => parent.patch)
      /\ pc[p] \in {"saverejected", "present", "saveready"}
      /\ UNCHANGED <<plan, child, graph, node, loc, task>>
  BY Processes, Parents, Going DEF SaveRejected, Present, SaveReady
<1>2. /\ parent' \in {parent, [parent EXCEPT !.status = "rejected"], [parent EXCEPT !.res = "none"],
                      [parent EXCEPT !.status = "ready"]}
      /\ \E l \in {"cleanparent", "leavefailed", "presented", "leave"} : Goto(p, l)
  BY DEF SaveRejected, Present, SaveReady
<1>3. /\ parent' \in Parent /\ (graph.completed => parent'.patch)
      /\ parent'.status \in {parent.status, "rejected", "ready"}
  <2>1. {"rejected", "ready"} \subseteq ParentStatus /\ "none" \in Resource
    BY DEF ParentStatus, Resource
  <2>2. ASSUME NEW s \in {"rejected", "ready"}, parent' = [parent EXCEPT !.status = s]
        PROVE  /\ parent' \in Parent /\ (graph.completed => parent'.patch)
               /\ parent'.status = s
    BY <1>1, <2>1, <2>2, Saving
  <2>3. CASE parent' = [parent EXCEPT !.res = "none"]
    BY <1>1, <2>1, <2>3 DEF Parent
  <2> QED
    BY <1>1, <1>2, <2>2, <2>3
<1>4. ASSUME NEW l \in {"cleanparent", "leavefailed", "presented", "leave"}, Goto(p, l)
      PROVE  Inv'
  BY <1>1, <1>3, <1>4, Leaving DEF Outside
<1> QED
  BY <1>2, <1>4

LEMMA InterruptStep ==
  ASSUME Inv, NEW p \in Drivers, Interrupt(p)
  PROVE  Inv'
<1>1. /\ p \in Procs /\ loc[p] \in Loc
      /\ parent \in Parent /\ (graph.completed => parent.patch)
      /\ UNCHANGED <<plan, parent, child, graph, node, task>>
  BY Processes, Parents, Going DEF Interrupt
<1>2. CASE pc[p] \in {"wait", "joinwork"} /\ Abort(p, TRUE)
  BY <1>1, <1>2, JustAbort DEF Looping, Joining
<1>3. CASE /\ pc[p] \in {"rest", "present"}
           /\ loc' = [loc EXCEPT ![p].stop = TRUE] /\ Goto(p, "cancelparent")
  <2> DEFINE m == [loc[p] EXCEPT !.stop = TRUE]
  <2>1. m \in Loc /\ m.claim = loc[p].claim /\ loc' = [loc EXCEPT ![p] = m]
    BY <1>1, <1>3, LocFields
  <2> HIDE DEF m
  <2> QED
    BY <1>1, <1>3, <2>1, Leaving DEF Outside
<1> QED
  BY <1>2, <1>3 DEF Interrupt

\* Whoever answers, no process moves.
LEMMA AnswerStep ==
  ASSUME Inv, UNCHANGED <<plan, graph, node, pc, loc, task>>, Milder,
         parent' \in Parent, graph.completed => parent'.patch,
         parent'.status = parent.status,
         \A n \in Nodes : child'[n].status = child[n].status
  PROVE  Inv'
<1>1. /\ First \in Procs /\ loc[First] \in Loc /\ pc[First] \in Labels /\ OwnTasks(First)
  BY GraphAssumption, Processes, Unchanged DEF Inv, Types
<1>2. Moves(First, pc[First], loc[First])
  BY DEF Moves, Inv, Types
<1>3. Fits(First)'
  <2>1. Fits(First)
    BY <1>1 DEF Inv, Roles
  <2> QED
    BY <2>1 DEF Fits, Busy, Waiting, Asking, Running
<1> QED
  BY <1>1, <1>2, <1>3, LocalStep

LEMMA AnswerParentStep ==
  ASSUME Inv, NEW a \in {"approved", "denied"}, AnswerParent(a)
  PROVE  Inv'
<1>1. parent \in Parent /\ (graph.completed => parent.patch) /\ Milder
  BY Parents, Unchanged DEF AnswerParent
<1>2. parent' \in Parent /\ (graph.completed => parent'.patch) /\ parent'.status = parent.status
  BY <1>1 DEF AnswerParent, Parent, Answer
<1> QED
  BY <1>1, <1>2, AnswerStep DEF AnswerParent

LEMMA AnswerChildStep ==
  ASSUME Inv, NEW n \in Nodes, NEW a \in {"approved", "denied"}, AnswerChild(n, a)
  PROVE  Inv'
<1>1. parent \in Parent /\ (graph.completed => parent.patch) /\ UNCHANGED parent
  BY Parents DEF AnswerChild
<1>2. child' = [child EXCEPT ![n] = [child[n] EXCEPT !.ask = a]]
  BY DEF AnswerChild
<1>3. child[n] \in Child /\ child \in [Nodes -> Child]
  BY DEF Inv, Types
<1>4. /\ [child[n] EXCEPT !.ask = a] \in Child /\ [child[n] EXCEPT !.ask = a].ask = a
      /\ [child[n] EXCEPT !.ask = a].status = child[n].status
      /\ [child[n] EXCEPT !.ask = a].res = child[n].res
  BY <1>3 DEF Child, Answer
<1>5. Milder /\ \A k \in Nodes : child'[k].status = child[k].status
  BY <1>2, <1>3, <1>4 DEF Milder, GoodOutput
<1> QED
  BY <1>1, <1>5, AnswerStep DEF AnswerChild

\* What a task writes of its child.
LEMMA ChildFields ==
  ASSUME NEW c \in Child, NEW s \in ChildStatus, NEW r \in Resource
  PROVE  /\ [c EXCEPT !.status = s] \in Child /\ [c EXCEPT !.status = s].status = s
         /\ [c EXCEPT !.res = r] \in Child /\ [c EXCEPT !.res = r].status = c.status
         /\ [c EXCEPT !.res = r, !.status = s] \in Child
         /\ [c EXCEPT !.res = r, !.status = s].status = s
         /\ [c EXCEPT !.status = s, !.ask = "none"] \in Child
         /\ [c EXCEPT !.status = s, !.ask = "none"].status = s
         /\ [c EXCEPT !.status = s, !.ask = "pending"] \in Child
         /\ [c EXCEPT !.status = s, !.ask = "pending"].status = s
         /\ c.status \in ChildStatus /\ c.res \in Resource
  BY DEF Child, Answer

\* While nobody has cancelled, a driver that waits runs what it has tasks for.
LEMMA AtWait ==
  ASSUME Inv, NEW p \in Drivers, NEW n \in Nodes, NEW t \in TaskState, At(p, n, t), t # "none"
  PROVE  /\ pc[p] \in {"wait", "gather"} /\ task[p][n] # "none" /\ child[n] \in Child
         /\ ~graph.cancelled /\ child[n].status = "running" => t \in {"prepare", "work", "clean"}
<1>1. Fits(p)
  BY Processes DEF Inv, Roles
<1> QED
  BY <1>1 DEF At, Fits, Looping, Busy, Inv, Types

LEMMA FailTaskStep ==
  ASSUME Inv, NEW p \in Drivers, NEW n \in Nodes, NEW t \in {"begin", "work", "clean"},
         At(p, n, t), FailTask(p, n), UNCHANGED <<plan, parent, graph, node, pc, loc>>
  PROVE  Inv'
<1> DEFINE s == IF child[n].status \in ChildEnded THEN child[n].status ELSE "failed"
           c == [child[n] EXCEPT !.status = s]
<1>1. /\ t \in TaskState /\ t # "none" /\ "failclean" \in TaskState \ {"none"}
  BY DEF TaskState
<1>2. /\ pc[p] \in {"wait", "gather"} /\ task[p][n] # "none" /\ child[n] \in Child
  BY <1>1, AtWait
<1>3. s \in ChildStatus /\ s # "running"
  BY DEF ChildStatus, ChildEnded
<1>4. c \in Child /\ c.status = s
  BY <1>2, <1>3 DEF Child
<1>5. child' = [child EXCEPT ![n] = c] /\ task' = [task EXCEPT ![p][n] = "failclean"]
  BY DEF FailTask, TaskGoto
<1> HIDE DEF c, s
<1> QED
  BY <1>1, <1>2, <1>3, <1>4, <1>5, ChildStep

LEMMA TaskBeginStep ==
  ASSUME Inv, NEW p \in Drivers, NEW n \in Nodes, TaskBegin(p, n)
  PROVE  Inv'
<1>1. /\ At(p, n, "begin") /\ UNCHANGED <<plan, parent, graph, node, pc, loc>>
      /\ "begin" \in TaskState
  BY DEF TaskBegin, TaskState
<1>2. /\ pc[p] \in {"wait", "gather"} /\ task[p][n] # "none" /\ child[n] \in Child
      /\ ~graph.cancelled => child[n].status # "running"
  BY <1>1, AtWait
<1>3. CASE TaskGoto(p, n, "error") /\ UNCHANGED child
  <2>1. child' = [child EXCEPT ![n] = child[n]] /\ task' = [task EXCEPT ![p][n] = "error"]
    BY <1>3 DEF TaskGoto, Inv, Types
  <2>2. "error" \in TaskState \ {"none"}
    BY DEF TaskState
  <2> QED
    BY <1>1, <1>2, <2>1, <2>2, ChildStep
<1>4. CASE /\ node[n] = "running"
           /\ child' = [child EXCEPT ![n].status = "running", ![n].ask = "none"]
           /\ TaskGoto(p, n, IF child[n].status = "paused" THEN "work" ELSE "prepare")
  <2> DEFINE c == [child[n] EXCEPT !.status = "running", !.ask = "none"]
             t == IF child[n].status = "paused" THEN "work" ELSE "prepare"
  <2>1. c \in Child
    BY <1>2 DEF Child, ChildStatus, Answer
  <2>2. child' = [child EXCEPT ![n] = c] /\ task' = [task EXCEPT ![p][n] = t]
    BY <1>4 DEF TaskGoto, Inv, Types
  <2>3. t \in TaskState \ {"none"} /\ t \in {"prepare", "work", "clean"}
    BY DEF TaskState
  <2> HIDE DEF c, t
  <2> QED
    BY <1>1, <1>2, <1>4, <2>1, <2>2, <2>3, ChildStep
<1>5. CASE FailTask(p, n)
  BY <1>1, <1>5, FailTaskStep
<1> QED
  BY <1>3, <1>4, <1>5 DEF TaskBegin

LEMMA TaskPrepareStep ==
  ASSUME Inv, NEW p \in Drivers, NEW n \in Nodes, TaskPrepare(p, n)
  PROVE  Inv'
<1>1. /\ At(p, n, "prepare") /\ UNCHANGED <<plan, parent, graph, node, pc, loc>>
      /\ {"prepare", "work", "failclean"} \subseteq TaskState \ {"none"} /\ "held" \in Resource
  BY DEF TaskPrepare, TaskState, Resource
<1>2. /\ pc[p] \in {"wait", "gather"} /\ task[p][n] # "none" /\ child[n] \in Child
      /\ child \in [Nodes -> Child]
  BY <1>1, AtWait DEF Inv, Types
<1>3. CASE /\ child[n].status = "running" /\ child' = [child EXCEPT ![n].res = "held"]
           /\ TaskGoto(p, n, "work")
  <2> DEFINE c == [child[n] EXCEPT !.res = "held"]
  <2>1. c \in Child /\ child' = [child EXCEPT ![n] = c] /\ task' = [task EXCEPT ![p][n] = "work"]
    BY <1>1, <1>2, <1>3 DEF TaskGoto, Child
  <2> HIDE DEF c
  <2> QED
    BY <1>1, <1>2, <1>3, <2>1, ChildStep
<1>4. ASSUME NEW res \in {child[n].res, "held"}, TaskGoto(p, n, "failclean"),
             child' = [child EXCEPT ![n].res = res,
                         ![n].status = IF @ \in ChildEnded THEN @ ELSE "failed"]
      PROVE  Inv'
  <2> DEFINE s == IF child[n].status \in ChildEnded THEN child[n].status ELSE "failed"
             c == [child[n] EXCEPT !.res = res, !.status = s]
  <2>1. s \in ChildStatus /\ s # "running" /\ res \in Resource
    BY <1>1, <1>2 DEF ChildStatus, ChildEnded, Child
  <2>2. c \in Child /\ c.status = s
    BY <1>2, <2>1 DEF Child
  <2>3. child' = [child EXCEPT ![n] = c] /\ task' = [task EXCEPT ![p][n] = "failclean"]
    BY <1>2, <1>4 DEF TaskGoto
  <2> HIDE DEF c, s
  <2> QED
    BY <1>1, <1>2, <2>1, <2>2, <2>3, ChildStep
<1> QED
  BY <1>3, <1>4 DEF TaskPrepare

LEMMA TaskWorkStep ==
  ASSUME Inv, NEW p \in Drivers, NEW n \in Nodes, TaskWork(p, n)
  PROVE  Inv'
<1>1. /\ At(p, n, "work") /\ UNCHANGED <<plan, parent, graph, node, pc, loc>>
      /\ {"ok", "work", "clean"} \subseteq TaskState \ {"none"}
  BY DEF TaskWork, TaskState
<1>2. /\ pc[p] \in {"wait", "gather"} /\ task[p][n] # "none" /\ child[n] \in Child
      /\ child \in [Nodes -> Child]
  BY <1>1, AtWait DEF Inv, Types
<1>3. CASE /\ child' = [child EXCEPT ![n].status = "paused", ![n].ask = "pending"]
           /\ TaskGoto(p, n, "ok")
  <2> DEFINE c == [child[n] EXCEPT !.status = "paused", !.ask = "pending"]
  <2>1. c \in Child /\ c.status = "paused"
    BY <1>2 DEF Child, ChildStatus, Answer
  <2>2. child' = [child EXCEPT ![n] = c] /\ task' = [task EXCEPT ![p][n] = "ok"]
    BY <1>2, <1>3 DEF TaskGoto
  <2> HIDE DEF c
  <2> QED
    BY <1>1, <1>2, <2>1, <2>2, ChildStep
<1>4. CASE child[n].status = "running" /\ TaskGoto(p, n, "clean") /\ UNCHANGED child
  <2>1. child' = [child EXCEPT ![n] = child[n]] /\ task' = [task EXCEPT ![p][n] = "clean"]
    BY <1>2, <1>4 DEF TaskGoto
  <2> QED
    BY <1>1, <1>2, <1>4, <2>1, ChildStep
<1>5. CASE FailTask(p, n)
  BY <1>1, <1>5, FailTaskStep
<1> QED
  BY <1>3, <1>4, <1>5 DEF TaskWork

LEMMA TaskCleanStep ==
  ASSUME Inv, NEW p \in Drivers, NEW n \in Nodes, TaskClean(p, n)
  PROVE  Inv'
<1>1. /\ At(p, n, "clean") /\ UNCHANGED <<plan, parent, graph, node, pc, loc>>
      /\ {"ok", "failclean", "clean"} \subseteq TaskState \ {"none"}
  BY DEF TaskClean, TaskState
<1>2. /\ pc[p] \in {"wait", "gather"} /\ task[p][n] # "none" /\ child[n] \in Child
      /\ child \in [Nodes -> Child]
  BY <1>1, AtWait DEF Inv, Types
<1>3. CASE /\ child' = [child EXCEPT ![n].res = "none",
                          ![n].status = IF @ = "running" THEN "completed" ELSE @]
           /\ TaskGoto(p, n, IF child[n].status = "running" THEN "ok" ELSE "failclean")
  <2> DEFINE s == IF child[n].status = "running" THEN "completed" ELSE child[n].status
             t == IF child[n].status = "running" THEN "ok" ELSE "failclean"
             c == [child[n] EXCEPT !.res = "none", !.status = s]
  <2>1. s \in ChildStatus /\ s # "running"
    BY <1>2 DEF ChildStatus, Child
  <2>2. c \in Child /\ c.status = s
    BY <1>2, <2>1 DEF Child, Resource
  <2>3. child' = [child EXCEPT ![n] = c] /\ task' = [task EXCEPT ![p][n] = t]
    BY <1>2, <1>3 DEF TaskGoto
  <2>4. t \in TaskState \ {"none"}
    BY <1>1
  <2> HIDE DEF c, s, t
  <2> QED
    BY <1>1, <1>2, <2>1, <2>2, <2>3, <2>4, ChildStep
<1>4. CASE FailTask(p, n)
  BY <1>1, <1>4, FailTaskStep
<1> QED
  BY <1>3, <1>4 DEF TaskClean

\* A task that fails or is stopped leaves the status of its child.
LEMMA TaskEndStep ==
  ASSUME Inv, NEW p \in Drivers, NEW n \in Nodes, TaskFailClean(p, n) \/ TaskStop(p, n)
  PROVE  Inv'
<1>1. /\ UNCHANGED <<plan, parent, graph, node, pc, loc>>
      /\ {"error", "stopped", "failclean"} \subseteq TaskState \ {"none"}
  BY DEF TaskFailClean, TaskStop, TaskState
<1>2. child[n] \in Child /\ child \in [Nodes -> Child] /\ child[n].res \in Resource
  BY DEF Inv, Types, Child
<1>3. /\ pc[p] \in {"wait", "gather"} /\ task[p][n] # "none"
      /\ pc[p] = "wait" /\ ~graph.cancelled => child[n].status # "running"
  <2>1. CASE TaskFailClean(p, n)
    <3>1. At(p, n, "failclean")
      BY <2>1 DEF TaskFailClean
    <3> QED
      BY <1>1, <3>1, AtWait
  <2>2. CASE TaskStop(p, n)
    BY <2>2 DEF TaskStop
  <2> QED
    BY <2>1, <2>2
<1>4. \E t \in {"error", "stopped"}, res \in Resource :
        child' = [child EXCEPT ![n].res = res] /\ task' = [task EXCEPT ![p][n] = t]
  BY <1>2 DEF TaskFailClean, TaskStop, TaskGoto, Cleaned, Resource
<1>5. PICK t \in {"error", "stopped"}, res \in Resource :
        child' = [child EXCEPT ![n].res = res] /\ task' = [task EXCEPT ![p][n] = t]
  BY <1>4
<1> DEFINE c == [child[n] EXCEPT !.res = res]
<1>6. c \in Child /\ c.status = child[n].status /\ child' = [child EXCEPT ![n] = c]
  BY <1>2, <1>5 DEF Child
<1> HIDE DEF c
<1> QED
  BY <1>1, <1>2, <1>3, <1>5, <1>6, ChildStep

\* Nobody has begun but the driver that accepted the plan.
LEMMA InvInit == Init => Inv
<1> SUFFICES ASSUME Init PROVE Inv
  OBVIOUS
<1> USE DEF Init
<1>1. Types
  BY GraphAssumption, NoLocType
  DEF Types, Parent, ParentStatus, Stages, Answer, Resource, Child, ChildStatus, Graph,
      GraphStatus, NodeStatus, TaskState, Labels, Outside
<1>2. Claims /\ Order
  BY Processes, NoLocType DEF Claims, Order
<1>3. Limit
  <2>1. Running = {} /\ plan.max \in Nat
    BY GraphAssumption DEF Running
  <2> QED
    BY <2>1, FS_EmptySet DEF Limit
<1>4. Joins /\ Waits
  BY DEF Joins, Waits, Waiting
<1>5. ASSUME NEW p \in Procs PROVE Fits(p)
  <2>1. pc[p] \in {"acquire", "idle"} /\ loc[p].claim = 0
    BY NoLocType
  <2>2. p \in Drivers => \A n \in Nodes : task[p][n] = "none"
    OBVIOUS
  <2> QED
    BY <2>1, <2>2 DEF Fits, Holding, Looping, Joining, Aborting, Waiting
<1> QED
  BY <1>1, <1>2, <1>3, <1>4, <1>5 DEF Inv, Roles

\* Every step of every process preserves the invariant.
LEMMA InvStep == Inv /\ [Next]_vars => Inv'
<1> SUFFICES ASSUME Inv, [Next]_vars PROVE Inv'
  OBVIOUS
<1>1. ASSUME NEW p \in Drivers,
             Resume(p) \/ ReadParent(p) \/ ReadGraph(p) \/ ClaimDriver(p) \/ Wake(p) \/ Scan(p)
               \/ PassDone(p) \/ PassFails(p) \/ StartNode(p) \/ Watch(p) \/ Settle(p)
      PROVE  Inv'
  BY <1>1, ResumeStep, ReadParentStep, ReadGraphStep, ClaimDriverStep, WakeStep, ScanStep,
     PassDoneStep, PassFailsStep, StartNodeStep, WatchStep, SettleStep
<1>2. ASSUME NEW p \in Drivers,
             Park(p) \/ ReleasePaused(p) \/ PrepareJoin(p) \/ JoinWork(p) \/ CompleteJoin(p)
               \/ ReleaseJoined(p) \/ Gathered(p) \/ AbortFence(p) \/ EndNodes(p)
               \/ AbortCleaned(p) \/ FailSave(p) \/ CancelParent(p)
      PROVE  Inv'
  BY <1>2, ParkStep, ReleasePausedStep, PrepareJoinStep, JoinWorkStep, CompleteJoinStep,
     ReleaseJoinedStep, GatheredStep, AbortFenceStep, EndNodesStep, AbortCleanedStep,
     FailSaveStep, CancelParentStep
<1>3. ASSUME NEW p \in Drivers,
             ClaimContinuation(p) \/ Rehydrate(p) \/ Rest(p) \/ Leave(p) \/ SaveRejected(p)
               \/ Present(p) \/ SaveReady(p) \/ Interrupt(p) \/ Die(p)
      PROVE  Inv'
  BY <1>3, ClaimContinuationStep, RehydrateStep, RestStep, LeaveContinuation, LastSteps,
     InterruptStep, DieStep
<1>4. ASSUME NEW p \in Drivers, NEW n \in Nodes, TaskStep(p, n) \/ TaskStop(p, n)
      PROVE  Inv'
  BY <1>4, TaskBeginStep, TaskPrepareStep, TaskWorkStep, TaskCleanStep, TaskEndStep DEF TaskStep
<1>5. ASSUME NEW p \in Procs, Fencing(p)
      PROVE  Inv'
  BY <1>5, CleanChildStep, CleanParentStep, ReadFenceStep, FenceStep, FencedCleanStep DEF Fencing
<1>6. CASE UNCHANGED vars
  <2>1. parent \in Parent /\ (graph.completed => parent.patch) /\ Milder
    BY <1>6, Parents, Unchanged DEF vars
  <2> QED
    BY <1>6, <2>1, AnswerStep DEF vars
<1>7. CASE Next
  <2>1. ASSUME NEW p \in Drivers, Coordinate(p) PROVE Inv'
    BY <1>1, <1>2, <1>3, <1>4, <2>1 DEF Coordinate
  <2> QED
    BY <1>1, <1>3, <1>4, <1>5, <1>7, <2>1, CancelBegins, RecoverBegins, AnswerParentStep,
       AnswerChildStep
    DEF Next
<1> QED
  BY <1>6, <1>7

\* The invariant of every behaviour.
LEMMA Invariant == Spec => []Inv
  BY InvInit, InvStep, PTL DEF Spec

\* Types: what the store validates of each row it reads, whoever has written it
\* (domain/graph.py GraphRecord, GraphNodeRecord).
THEOREM TypeCorrect == Spec => []TypeOK
<1>1. Inv => TypeOK
  BY DEF Inv, Types, TypeOK, Parent, Stages, Child, Graph
<1> QED
  BY <1>1, Invariant, PTL

\* Only one process runs children, however many resume the parent: who has tasks
\* holds the last claim, and no other driver ever had the same (graphs.py
\* claim_driver, graph.py _drive_claimed).
THEOREM OneDriver == Spec => []OneDriverWorks
<1>1. Inv => OneDriverWorks
  <2> SUFFICES ASSUME Inv, NEW p \in Drivers, NEW q \in Drivers, Tasks(p) # {}, Tasks(q) # {}
               PROVE  p = q
    BY DEF OneDriverWorks
  <2>1. pc[p] \in Holding /\ pc[q] \in Holding
    BY Processes DEF Inv, Roles, Fits, Tasks, Holding, Looping, Aborting
  <2> QED
    BY <2>1, Alone
<1> QED
  BY <1>1, Invariant, PTL

\* Only one process verifies the joined parent (graphs.py claim_continuation).
THEOREM OneVerification == Spec => []OneVerifier
<1>1. Inv => OneVerifier
  BY Alone DEF OneVerifier, Holding
<1> QED
  BY <1>1, Invariant, PTL

\* A join stays a join of everything: it was prepared when every node had succeeded,
\* and no driver, cancellation or recovery changes such a child (graphs.py
\* mark_join_prepared, mark_join_complete, request_cancel).
THEOREM JoinsAreWhole == Spec => []JoinedFromAll
<1>1. Inv => JoinedFromAll
  BY DEF Inv, Joins, Order, GoodOutput, JoinedFromAll
<1> QED
  BY <1>1, Invariant, PTL

\* A parent that waits, when everybody has returned, waits for a question that was
\* asked, and its graph can be claimed as it is (graph.py _parent_status, graphs.py
\* release_driver, claim_driver).
THEOREM WaitingParents == Spec => []WaitingCanResume
<1>1. Inv => WaitingCanResume
  <2> SUFFICES ASSUME Inv, parent.status = "waiting", ~graph.cancelled, graph.claim = 0
               PROVE  /\ CanClaimDriver(graph.rev)
                      /\ \E n \in Nodes : node[n] = "waiting" /\ child[n].ask # "none"
    BY DEF WaitingCanResume
  <2>1. graph.status = "paused" /\ Asking
    BY DEF Inv, Waits, Waiting
  <2> QED
    BY <2>1 DEF Asking, CanClaimDriver, Inv, Order, ParentEnded
<1> QED
  BY <1>1, Invariant, PTL

\* The status of one child is written.
LEMMA WorkAfter ==
  ASSUME Inv, Inv', NEW n \in Nodes, \A k \in Nodes \ {n} : child'[k].status = child[k].status
  PROVE  [k \in Nodes |-> Work(k)]' = [[k \in Nodes |-> Work(k)] EXCEPT ![n] = Work(n)']
  BY DEF Work

\* Nothing that the task graph tells apart has changed.
Same == /\ UNCHANGED plan /\ graph'.cancelled = graph.cancelled /\ graph'.completed = graph.completed
        /\ \A n \in Nodes : child'[n].status = child[n].status

LEMMA Stutters ==
  ASSUME Same
  PROVE  UNCHANGED Abstract!vars
  BY DEF Same, Abstract!vars, Work

\* A child that had not ended fails, is rejected, or nothing has changed.
LEMMA Fails ==
  ASSUME Inv, Inv', NEW n \in Nodes, UNCHANGED <<plan, graph>>,
         \A k \in Nodes \ {n} : child'[k].status = child[k].status,
         \/ child'[n].status = child[n].status
         \/ child[n].status \notin ChildEnded /\ child'[n].status \in {"failed", "rejected"}
  PROVE  [Abstract!Next]_(Abstract!vars)
<1>1. CASE child'[n].status = child[n].status
  BY <1>1, Stutters DEF Same
<1>2. CASE child[n].status \notin ChildEnded /\ child'[n].status \in {"failed", "rejected"}
  <2>1. Work(n)' = "stopped" /\ Work(n) \notin {"done", "stopped"}
    BY <1>2 DEF Work, ChildEnded, Inv, Types, Child, ChildStatus
  <2> QED
    BY <2>1, WorkAfter DEF Abstract!Next, Abstract!Fail
<1> QED
  BY <1>1, <1>2

\* A task starts its child: everything it needs is done, and the children that run
\* are among the other nodes that run.
LEMMA Starts ==
  ASSUME Inv, Inv', NEW p \in Drivers, NEW n \in Nodes, pc[p] = "wait", ~graph.cancelled,
         node[n] = "running", child[n].status \in {"created", "paused"},
         child'[n].status = "running", UNCHANGED <<plan, graph>>,
         \A k \in Nodes \ {n} : child'[k].status = child[k].status
  PROVE  Abstract!Start(n)
<1> DEFINE w == [k \in Nodes |-> Work(k)]
           busy == {k \in Nodes : w[k] = "busy"}
<1>1. Work(n) \in {"todo", "waiting"} /\ Work(n)' = "busy"
  BY DEF Work
<1>2. w' = [w EXCEPT ![n] = "busy"]
  BY <1>1, WorkAfter
<1>3. plan.dependsOn[n] \subseteq {k \in Nodes : w[k] = "done"}
  <2>1. plan.dependsOn[n] \subseteq Nodes
    BY GraphAssumption DEF Inv, Types
  <2>2. \A d \in plan.dependsOn[n] : child[d].status = "completed"
    BY <2>1 DEF Inv, Order, DependenciesDone, GoodOutput
  <2> QED
    BY <2>1, <2>2 DEF Work
<1>4. Cardinality(busy) < plan.max
  <2>1. busy \subseteq Running \ {n}
    <3>1. \A k \in Nodes : w[k] = "busy" => child[k].status = "running"
      BY DEF Work
    <3>2. Busy(p)
      BY Processes DEF Inv, Roles, Fits, Looping
    <3> QED
      BY <3>1, <3>2 DEF Busy, Running
  <2>2. IsFiniteSet(Running) /\ n \in Running
    BY GraphAssumption, FS_Subset DEF Running
  <2>3. /\ IsFiniteSet(Running \ {n})
        /\ Cardinality(Running \ {n}) = Cardinality(Running) - 1
    BY <2>2, FS_RemoveElement
  <2>4. /\ IsFiniteSet(busy) /\ Cardinality(busy) <= Cardinality(Running \ {n})
    BY <2>1, <2>3, FS_Subset
  <2>5. /\ Cardinality(busy) \in Nat /\ Cardinality(Running) \in Nat /\ plan.max \in Nat
        /\ Cardinality(Running) <= plan.max
    BY <2>2, <2>4, FS_CardinalityType, GraphAssumption DEF Inv, Types, Limit
  <2> HIDE DEF busy
  <2> QED
    BY <2>3, <2>4, <2>5
<1>5. w[n] \in {"todo", "waiting"}
  BY <1>1
<1>6. Abstract!With("busy") = busy /\ Abstract!With("done") = {k \in Nodes : w[k] = "done"}
  BY DEF Abstract!With
<1> HIDE DEF w
<1>7. /\ plan.dependsOn[n] \subseteq Abstract!With("done")
      /\ Cardinality(Abstract!With("busy")) < plan.max
  BY <1>3, <1>4, <1>6
<1>8. /\ w[n] \in {"todo", "waiting"}
      /\ w' = [w EXCEPT ![n] = "busy"]
      /\ UNCHANGED <<plan, graph.cancelled, graph.completed>>
  BY <1>2, <1>5
<1>9. \A S : Abstract!Cardinality(S) = Cardinality(S)
  BY DEF Abstract!Cardinality, Cardinality
<1> QED
  BY <1>7, <1>8, <1>9 DEF Abstract!Start, w

\* A task leaves what it did.
LEMMA Leaves ==
  ASSUME Inv, Inv', NEW n \in Nodes, UNCHANGED <<plan, graph>>, child[n].status = "running",
         child'[n].status \in {"paused", "completed"},
         \A k \in Nodes \ {n} : child'[k].status = child[k].status
  PROVE  Abstract!Leave(n)
<1>1. Work(n) = "busy" /\ Work(n)' \in {"waiting", "done"}
  BY DEF Work
<1> QED
  BY <1>1, WorkAfter DEF Abstract!Leave

\* A cancellation closes the graph.
LEMMA Closes ==
  ASSUME Inv, Inv', RequestCancel, UNCHANGED plan, ~graph.cancelled
  PROVE  Abstract!Close
<1>1. graph'.cancelled = TRUE /\ graph'.completed = graph.completed
  BY GraphFields DEF RequestCancel, Inv, Types
<1>2. ASSUME NEW n \in Nodes PROVE Work(n)' = IF Work(n) = "done" THEN "done" ELSE "stopped"
  <2>1. child[n] \in Child
    BY DEF Inv, Types
  <2>2. child'[n].status = IF child[n].status \in ChildEnded THEN child[n].status ELSE "cancelled"
    BY <2>1 DEF RequestCancel, Child
  <2>3. child[n].status \in ChildStatus
    BY <2>1 DEF Child
  <2> QED
    BY <2>2, <2>3 DEF Work, ChildEnded, ChildStatus
<1>3. graph.cancelled = FALSE
  BY DEF Inv, Types, Graph
<1> QED
  BY <1>1, <1>2, <1>3 DEF Abstract!Close

\* The steps of the tasks.
LEMMA TaskAbstractly ==
  ASSUME Inv, Inv', NEW p \in Drivers, NEW n \in Nodes, TaskStep(p, n) \/ TaskStop(p, n)
  PROVE  [Abstract!Next]_(Abstract!vars)
<1>1. /\ UNCHANGED <<plan, graph, node, pc>>
      /\ child \in [Nodes -> Child] /\ child[n] \in Child
      /\ \A k \in Nodes \ {n} : child'[k] = child[k]
  BY DEF Inv, Types, TaskStep, TaskBegin, TaskPrepare, TaskWork, TaskClean, TaskFailClean, TaskStop,
     FailTask
<1>2. \/ child'[n].status = child[n].status
      \/ child[n].status \notin ChildEnded /\ child'[n].status = "failed"
      \/ child[n].status = "running" /\ child'[n].status \in {"paused", "completed"}
      \/ /\ pc[p] = "wait" /\ ~graph.cancelled
         /\ node[n] = "running" /\ child[n].status \in {"created", "paused"}
         /\ child'[n].status = "running"
  <2>1. CASE FailTask(p, n) \/ TaskPrepare(p, n) \/ TaskFailClean(p, n) \/ TaskStop(p, n)
    BY <1>1, <2>1 DEF FailTask, TaskPrepare, TaskFailClean, TaskStop, Child
  <2>2. CASE TaskBegin(p, n) /\ ~FailTask(p, n)
    <3>1. graph.status = "running" => ~graph.cancelled
      BY DEF Inv, Claims
    <3> QED
      BY <1>1, <2>2, <3>1 DEF TaskBegin, At, Child
  <2>3. CASE (TaskWork(p, n) \/ TaskClean(p, n)) /\ ~FailTask(p, n)
    BY <1>1, <2>3 DEF TaskWork, TaskClean, Child
  <2> QED
    BY <2>1, <2>2, <2>3 DEF TaskStep
<1> QED
  BY <1>1, <1>2, Fails, Leaves, Starts DEF Abstract!Next

\* The other steps tell nothing to the task graph, fail one child, close the graph
\* or join it.
LEMMA OthersAbstractly ==
  ASSUME Inv, Inv', Next, ~\E p \in Drivers, n \in Nodes : TaskStep(p, n) \/ TaskStop(p, n)
  PROVE  [Abstract!Next]_(Abstract!vars)
<1>1. ASSUME NEW p \in Drivers,
             Resume(p) \/ ReadParent(p) \/ ReadGraph(p) \/ Wake(p) \/ Scan(p)
               \/ PassDone(p) \/ PassFails(p) \/ StartNode(p) \/ Watch(p) \/ Settle(p)
               \/ Park(p) \/ JoinWork(p) \/ Gathered(p) \/ EndNodes(p)
               \/ FailSave(p) \/ CancelParent(p) \/ Rehydrate(p) \/ Rest(p)
               \/ SaveRejected(p) \/ Present(p) \/ SaveReady(p) \/ Interrupt(p)
      PROVE  [Abstract!Next]_(Abstract!vars)
  <2>1. CASE Resume(p) \/ ReadParent(p) \/ ReadGraph(p) \/ Wake(p) \/ Scan(p) \/ Watch(p)
               \/ PassDone(p) \/ PassFails(p)
    BY <2>1, Stutters
    DEF Same, Resume, ReadParent, ReadGraph, Wake, Scan, Watch, PassDone, PassFails
  <2>2. CASE StartNode(p) \/ Settle(p) \/ Park(p) \/ JoinWork(p) \/ Gathered(p) \/ EndNodes(p)
    BY <2>2, Stutters DEF Same, StartNode, Settle, Park, JoinWork, Gathered, EndNodes
  <2>3. CASE FailSave(p) \/ CancelParent(p) \/ Rehydrate(p) \/ Rest(p) \/ SaveRejected(p)
               \/ Present(p) \/ SaveReady(p) \/ Interrupt(p)
    BY <2>3, Stutters
    DEF Same, FailSave, CancelParent, Rehydrate, Rest, SaveRejected, Present, SaveReady, Interrupt
  <2> QED
    BY <1>1, <2>1, <2>2, <2>3
<1>2. CASE \E p \in Drivers :
             ClaimDriver(p) \/ ReleasePaused(p) \/ PrepareJoin(p) \/ ReleaseJoined(p)
               \/ AbortCleaned(p) \/ ClaimContinuation(p) \/ Leave(p)
  <2>1. UNCHANGED <<plan, child>>
    BY <1>2
    DEF ClaimDriver, ReleasePaused, PrepareJoin, ReleaseJoined, AbortCleaned, ClaimContinuation,
        Leave
  <2>2. \/ UNCHANGED graph
        \/ \E p \in Drivers : TakeClaim(p)
        \/ \E status \in GraphStatus : Release(status)
        \/ graph' = [graph EXCEPT !.prepared = TRUE, !.rev = @ + 1]
    BY <1>2
    DEF ClaimDriver, ReleasePaused, PrepareJoin, ReleaseJoined, AbortCleaned, ClaimContinuation,
        Leave, ReleaseContinuation, GraphStatus
  <2>3. graph'.cancelled = graph.cancelled /\ graph'.completed = graph.completed
    <3>1. graph \in Graph
      BY DEF Inv, Types
    <3>2. CASE \E p \in Drivers : TakeClaim(p)
      <4>1. graph' = [graph EXCEPT !.claim = graph.gen + 1, !.gen = graph.gen + 1,
                                   !.rev = graph.rev + 1, !.status = "running"]
        BY <3>2 DEF TakeClaim
      <4> QED
        BY <3>1, <4>1, GraphFields
    <3>3. CASE \E status \in GraphStatus : Release(status)
      BY <3>3, ReleaseFields
    <3>4. CASE graph' = [graph EXCEPT !.prepared = TRUE, !.rev = @ + 1]
      BY <3>1, <3>4, GraphFields
    <3> QED
      BY <2>2, <3>2, <3>3, <3>4
  <2> QED
    BY <2>1, <2>3, Stutters DEF Same
<1>3. ASSUME NEW p \in Drivers, CompleteJoin(p)
      PROVE  [Abstract!Next]_(Abstract!vars)
  <2>1. CASE UNCHANGED graph
    BY <1>3, <2>1, Stutters DEF Same, CompleteJoin
  <2>2. CASE graph' # graph
    <3>1. /\ Owned(p) /\ graph.prepared /\ pc[p] = "joined" /\ UNCHANGED <<plan, child>>
          /\ graph' = [graph EXCEPT !.completed = TRUE, !.status = "joined", !.rev = @ + 1]
      BY <1>3, <2>2 DEF CompleteJoin
    <3>2. graph'.completed = TRUE /\ graph'.cancelled = graph.cancelled
      BY <3>1, GraphFields DEF Inv, Types
    <3>3. graph.completed = FALSE /\ graph.cancelled = FALSE
      BY <3>1, Processes DEF Inv, Roles, Fits, Types, Graph, Owned
    <3>4. \A n \in Nodes : Work(n) = "done"
      BY <3>1 DEF Inv, Joins, Order, GoodOutput, Work
    <3>5. [n \in Nodes |-> Work(n)]' = [n \in Nodes |-> Work(n)]
      BY <3>1 DEF Work
    <3>6. Abstract!Join
      BY <3>1, <3>2, <3>3, <3>4, <3>5 DEF Abstract!Join, Abstract!With
    <3> QED
      BY <3>6 DEF Abstract!Next
  <2> QED
    BY <2>1, <2>2
<1>4. ASSUME NEW p \in Procs, (p \in Drivers /\ AbortFence(p)) \/ Fence(p)
      PROVE  [Abstract!Next]_(Abstract!vars)
  <2>1. CASE UNCHANGED <<graph, child>>
    BY <1>4, <2>1, Stutters DEF Same, AbortFence, Fence
  <2>2. CASE RequestCancel
    <3>1. UNCHANGED plan
      BY <1>4 DEF AbortFence, Fence
    <3>2. ~graph.cancelled
      <4>1. CASE graph.rev = loc[p].rev
        BY <1>4, <4>1 DEF AbortFence, Fence, Inv, Roles, Fits
      <4>2. CASE graph.rev # loc[p].rev
        <5>1. graph' = graph
          BY <1>4, <4>2 DEF AbortFence, Fence
        <5>2. graph'.rev = graph.rev + 1 /\ graph.rev \in Nat
          BY <2>2, GraphFields DEF RequestCancel, Inv, Types, Graph
        <5> QED
          BY <5>1, <5>2
      <4> QED
        BY <4>1, <4>2
    <3> QED
      BY <2>2, <3>1, <3>2, Closes DEF Abstract!Next
  <2> QED
    BY <1>4, <2>1, <2>2 DEF AbortFence, Fence
<1>5. ASSUME NEW p \in Procs, CleanChild(p)
      PROVE  [Abstract!Next]_(Abstract!vars)
  <2> DEFINE n == Min(loc[p].left)
  <2>1. n \in Nodes
    <3>1. loc[p].left \subseteq Nodes /\ loc[p].left # {}
      BY <1>5 DEF CleanChild, Inv, Types, Loc
    <3> QED
      BY <3>1, GraphAssumption, LeastIsOne
  <2>2. child \in [Nodes -> Child] /\ child[n] \in Child
    BY <2>1 DEF Inv, Types
  <2>3. /\ UNCHANGED <<plan, graph>>
        /\ \E end \in {child[n].status, "rejected", "failed"}, res \in Cleaned(child[n].res) :
             /\ end # child[n].status => child[n].status \notin ChildEnded
             /\ child' = [child EXCEPT ![n].status = end, ![n].res = res]
    BY <1>5 DEF CleanChild
  <2> HIDE DEF n
  <2>4. /\ \A k \in Nodes \ {n} : child'[k].status = child[k].status
        /\ \/ child'[n].status = child[n].status
           \/ child[n].status \notin ChildEnded /\ child'[n].status \in {"failed", "rejected"}
    BY <2>1, <2>2, <2>3 DEF Child
  <2> QED
    BY <2>1, <2>3, <2>4, Fails
<1>6. CASE \/ \E p \in Procs : CleanParent(p) \/ ReadFence(p) \/ FencedClean(p)
           \/ \E p \in Cancellers : Cancel(p)
           \/ \E p \in Recoverers : Recover(p)
           \/ \E a \in {"approved", "denied"} : AnswerParent(a)
  <2>1. UNCHANGED <<plan, graph, child>>
    BY <1>6 DEF CleanParent, ReadFence, FencedClean, Cancel, Recover, AnswerParent
  <2> QED
    BY <2>1, Stutters DEF Same
<1>7. CASE \/ \E p \in Drivers : Die(p)
           \/ \E a \in {"approved", "denied"}, n \in Nodes : AnswerChild(n, a)
  <2>1. UNCHANGED <<plan, graph>> /\ \A n \in Nodes : child'[n].status = child[n].status
    <3>1. \A n \in Nodes : child[n] \in Child
      BY DEF Inv, Types
    <3>2. CASE \E p \in Drivers : Die(p)
      BY <3>1, <3>2 DEF Die, Child
    <3>3. CASE \E a \in {"approved", "denied"}, n \in Nodes : AnswerChild(n, a)
      BY <3>1, <3>3 DEF AnswerChild, Child, Inv, Types
    <3> QED
      BY <1>7, <3>2, <3>3
  <2> QED
    BY <2>1, Stutters DEF Same
<1>8. ASSUME NEW p \in Drivers, Coordinate(p)
      PROVE  [Abstract!Next]_(Abstract!vars)
  BY <1>1, <1>2, <1>3, <1>4, <1>8, Processes DEF Coordinate
<1> QED
  BY <1>1, <1>4, <1>5, <1>6, <1>7, <1>8 DEF Next, Fencing

\* The child runs implement the abstract task graph: in the order of the plan, never
\* more than it allows at once, nothing after a cancellation, one join of them all,
\* whichever drivers come, die or are cancelled (graph.py, graph_workflow.py, graphs.py).
THEOREM ImplementsTaskGraph == Spec => TaskGraphSpec
<1>1. Init => Abstract!Init
  BY DEF Init, Abstract!Init, Work
<1>2. Inv /\ Inv' /\ [Next]_vars => [Abstract!Next]_(Abstract!vars)
  <2>1. CASE UNCHANGED vars
    BY <2>1, Stutters DEF Same, vars
  <2> QED
    BY <2>1, TaskAbstractly, OthersAbstractly
<1> QED
  BY <1>1, <1>2, Invariant, PTL DEF Spec, TaskGraphSpec, Abstract!Spec

(***************************************************************************)
(* What becomes of the resources of the children, while there is no join.  *)
(***************************************************************************)
Held(n) == child[n].res = "held"

\* A driver on its way to gather its tasks; where it comes to after a join; where it
\* has nothing to do with the children.
Working(p) == p \in Drivers /\ pc[p] \in Looping \cup Joining \cup {"gather"}
Later == {"rehydrate", "rest", "present", "leave", "leavefailed", "reject", "presented",
          "saverejected", "saveready"}
Apart == {"idle", "acquire", "readgraph", "claim", "claimrest", "cleanparent"}

\* Who is going to cancel the graph; who will clean up a node of a cancelled one.
Fences(q) == pc[q] = "readfence" \/ (pc[q] = "fence" /\ loc[q].rev = graph.rev)
Tends(q, n) == \/ Working(q) \/ pc[q] = "readfence"
               \/ pc[q] \in Cleaning /\ n \in loc[q].left

\* Once the parent has ended, somebody is about to fence its graph, or there is nothing
\* to clean up and nobody left who could leave something.
Fenced ==
  ~graph.cancelled /\ parent.status \in ParentEnded
    => \/ \E q \in Procs \ Drivers : Fences(q)
       \/ (\A n \in Nodes : ~Held(n)) /\ \A p \in Drivers : pc[p] \notin Holding
Tended == graph.cancelled => \A n \in Nodes : Held(n) => \E q \in Procs : Tends(q, n)

\* What a driver knows on the way through its abort.
Aborts(p) ==
  /\ pc[p] \notin Later
  /\ pc[p] \in {"abortfence", "endnodes"} => loc[p].left = Nodes
  /\ pc[p] = "abortfence" => loc[p].stop /\ (loc[p].rev = graph.rev \/ graph.cancelled)
  /\ pc[p] = "endnodes" => ~loc[p].stop
  /\ pc[p] = "cleankids" =>
       graph.cancelled \/ (~loc[p].stop /\ \A n \in Nodes : Held(n) => n \in loc[p].left)
  /\ pc[p] = "cancelparent" => graph.cancelled
  /\ pc[p] = "failsave" =>
       /\ loc[p].claim = graph.gen /\ graph.gen # 0
       /\ graph.status \notin {"ready", "paused"}
       /\ graph.cancelled \/ parent.status \in ParentEnded \/ \A n \in Nodes : ~Held(n)

Care ==
  ~graph.completed =>
    /\ parent.status # "paused" /\ graph.status # "joined"
    /\ Fenced /\ Tended /\ \A p \in Drivers : Aborts(p)

OthersStay(p) == \A q \in Procs \ {p} : pc'[q] = pc[q] /\ loc'[q] = loc[q]

\* How a process moves.
LEMMA Moving ==
  ASSUME Inv, NEW p \in Procs
  PROVE  /\ \A l \in Labels : Goto(p, l) => pc'[p] = l /\ \A q \in Procs \ {p} : pc'[q] = pc[q]
         /\ UNCHANGED loc => loc'[p] = loc[p] /\ \A q \in Procs \ {p} : loc'[q] = loc[q]
         /\ \A m : loc' = [loc EXCEPT ![p] = m]
                     => loc'[p] = m /\ \A q \in Procs \ {p} : loc'[q] = loc[q]
         /\ Finish(p) => pc'[p] = "idle" /\ loc'[p] = NoLoc /\ OthersStay(p)
  BY DEF Inv, Types, Goto, Finish, OthersStay

\* Somebody moves, the graph stays, and nothing new is held.
LEMMA Calmly ==
  ASSUME Inv, Care, ~graph.completed, NEW p \in Procs, OthersStay(p), UNCHANGED graph,
         \A n \in Nodes : Held(n)' => Held(n),
         parent'.status # "paused",
         parent.status \in ParentEnded => parent'.status \in ParentEnded,
         Fenced', p \in Drivers => Aborts(p)',
         graph.cancelled => \A n \in Nodes : Held(n)' /\ Tends(p, n) => Tends(p, n)'
  PROVE  Care'
<1>1. Tended'
  <2> SUFFICES ASSUME graph.cancelled, NEW n \in Nodes, Held(n)'
               PROVE  \E q \in Procs : Tends(q, n)'
    BY DEF Tended
  <2>1. PICK q \in Procs : Tends(q, n)
    BY DEF Care, Tended
  <2>2. q # p => Tends(q, n)'
    BY <2>1 DEF Tends, Working, OthersStay
  <2> QED
    BY <2>1, <2>2
<1>2. ASSUME NEW q \in Drivers PROVE Aborts(q)'
  <2>1. CASE q # p
    <3>1. Aborts(q) /\ pc'[q] = pc[q] /\ loc'[q] = loc[q]
      BY <2>1, Processes DEF Care, OthersStay
    <3> QED
      BY <3>1 DEF Aborts
  <2> QED
    BY <2>1
<1> QED
  BY <1>1, <1>2 DEF Care

\* The end of the parent stays fenced.
LEMMA StaysFenced ==
  ASSUME Inv, Care, ~graph.completed, NEW p \in Procs, OthersStay(p), UNCHANGED graph,
         \A n \in Nodes : Held(n)' => Held(n),
         parent'.status \in ParentEnded => parent.status \in ParentEnded,
         p \in Drivers => (pc'[p] \in Holding => pc[p] \in Holding),
         p \notin Drivers /\ Fences(p) => Fences(p)' \/ graph.cancelled
  PROVE  Fenced'
<1> SUFFICES ASSUME ~graph.cancelled, parent.status \in ParentEnded
             PROVE  \/ \E q \in Procs \ Drivers : Fences(q)'
                    \/ (\A n \in Nodes : ~Held(n)') /\ \A q \in Drivers : pc'[q] \notin Holding
  BY DEF Fenced
<1>1. CASE \E q \in Procs \ Drivers : Fences(q)
  <2>1. PICK q \in Procs \ Drivers : Fences(q)
    BY <1>1
  <2>2. q # p => Fences(q)'
    BY <2>1 DEF Fences, OthersStay
  <2> QED
    BY <2>1, <2>2
<1>2. CASE (\A n \in Nodes : ~Held(n)) /\ \A q \in Drivers : pc[q] \notin Holding
  BY <1>2, Processes DEF OthersStay
<1> QED
  BY <1>1, <1>2 DEF Care, Fenced

\* A driver that works goes on, or aborts.
LEMMA WorksOn ==
  ASSUME Inv, Care, ~graph.completed, NEW p \in Drivers, OthersStay(p),
         UNCHANGED <<graph, child>>,
         pc[p] \in Looping \cup Joining, pc'[p] \in Looping \cup Joining \cup {"gather"},
         parent'.status = parent.status \/ {parent.status, parent'.status} \subseteq {"running", "waiting"}
  PROVE  Care'
<1>1. p \in Procs /\ parent.status # "paused"
  BY Processes DEF Care
<1>2. \A n \in Nodes : Held(n)' <=> Held(n)
  BY DEF Held
<1>3. parent'.status # "paused" /\ (parent'.status \in ParentEnded <=> parent.status \in ParentEnded)
  BY <1>1 DEF ParentEnded
<1>4. Fenced'
  BY <1>1, <1>2, <1>3, StaysFenced DEF Holding, Aborting
<1>5. Aborts(p)' /\ \A n \in Nodes : Tends(p, n)'
  BY DEF Aborts, Tends, Working, Later, Looping, Joining
<1> QED
  BY <1>1, <1>2, <1>3, <1>4, <1>5, Calmly

\* A driver that has nothing to do with the children goes on.
LEMMA PassesBy ==
  ASSUME Inv, Care, ~graph.completed, NEW p \in Drivers, OthersStay(p),
         UNCHANGED <<graph, child>>,
         pc[p] \in Apart \cup {"failsave", "fence"}, pc'[p] \in Apart, parent'.status = parent.status
  PROVE  Care'
<1>1. p \in Procs /\ parent.status # "paused"
  BY Processes DEF Care
<1>2. \A n \in Nodes : Held(n)' <=> Held(n)
  BY DEF Held
<1>3. Fenced'
  BY <1>1, <1>2, StaysFenced DEF Holding, Looping, Joining, Aborting, Apart
<1>4. Aborts(p)' /\ \A n \in Nodes : ~Tends(p, n)
  BY DEF Aborts, Tends, Working, Cleaning, Later, Looping, Joining, Apart
<1> QED
  BY <1>1, <1>2, <1>3, <1>4, Calmly

\* Aborting is going to gather.
LEMMA AbortMoves ==
  ASSUME Inv, NEW p \in Procs, NEW stop, Abort(p, stop)
  PROVE  OthersStay(p) /\ pc'[p] = "gather"
<1>1. Goto(p, "gather") /\ loc' = [loc EXCEPT ![p] = [loc[p] EXCEPT !.stop = stop, !.left = {}]]
  BY DEF Abort, Inv, Types
<1>2. "gather" \in Labels
  BY DEF Labels, Holding, Aborting
<1> QED
  BY <1>1, <1>2, Moving DEF OthersStay

LEMMA CareAbort ==
  ASSUME Inv, Care, ~graph.completed, NEW p \in Drivers, NEW stop, Abort(p, stop),
         UNCHANGED <<graph, child>>, pc[p] \in Looping \cup Joining, parent'.status = parent.status
  PROVE  Care'
  BY Processes, AbortMoves, WorksOn

\* Anything else a driver that works does without writing the graph.
LEMMA CareWork ==
  ASSUME Inv, Care, ~graph.completed, NEW p \in Drivers,
         Wake(p) \/ Scan(p) \/ PassDone(p) \/ PassFails(p) \/ StartNode(p) \/ Watch(p)
           \/ Settle(p) \/ Park(p) \/ JoinWork(p)
           \/ (Interrupt(p) /\ pc[p] \in {"wait", "joinwork"})
  PROVE  Care'
<1>1. /\ p \in Procs /\ UNCHANGED <<graph, child>>
      /\ parent \in Parent /\ "running" \in ParentStatus /\ "waiting" \in ParentStatus
  BY Processes, Parents
  DEF Wake, Scan, PassDone, PassFails, StartNode, Watch, Settle, Park, JoinWork, Interrupt,
      ParentStatus
<1>2. pc[p] \in Looping \cup Joining
  BY DEF Wake, Scan, PassDone, PassFails, StartNode, Watch, Settle, Park, JoinWork, Interrupt,
         Looping, Joining
<1>3. \/ parent'.status = parent.status
      \/ {parent.status, parent'.status} \subseteq {"running", "waiting"}
  <2>1. CASE Wake(p) \/ Park(p)
    BY <1>1, <2>1 DEF Wake, Park, Parent
  <2>2. CASE JoinWork(p)
    BY <1>1, <2>2 DEF JoinWork, Parent
  <2>3. CASE ~(Wake(p) \/ Park(p) \/ JoinWork(p))
    BY <2>3 DEF Scan, PassDone, PassFails, StartNode, Watch, Settle, Interrupt
  <2> QED
    BY <2>1, <2>2, <2>3
<1>4. \/ \E stop \in BOOLEAN : Abort(p, stop)
      \/ /\ \E l \in Looping \cup Joining : Goto(p, l) \/ (UNCHANGED pc /\ l = pc[p])
         /\ \E m : loc' = [loc EXCEPT ![p] = m] \/ (UNCHANGED loc /\ m = loc[p])
  <2>1. CASE Wake(p) \/ Scan(p) \/ PassFails(p) \/ Park(p) \/ JoinWork(p) \/ Interrupt(p)
    BY <1>2, <2>1 DEF Wake, Scan, PassFails, Park, JoinWork, Interrupt, Looping, Joining
  <2>2. CASE PassDone(p)
    BY <2>2 DEF PassDone, Looping, Joining
  <2>3. CASE StartNode(p)
    <3>1. \/ UNCHANGED pc /\ \E X : loc' = [loc EXCEPT ![p].left = X]
          \/ \E stop \in {FALSE, graph.cancelled} : Abort(p, stop)
      BY <2>3 DEF StartNode
    <3>2. graph.cancelled \in BOOLEAN
      BY DEF Inv, Types, Graph
    <3> QED
      BY <1>2, <3>1, <3>2
  <2>4. CASE Watch(p)
    <3>1. \/ Goto(p, "settle") /\ \E X : loc' = [loc EXCEPT ![p].left = X]
          \/ \E stop \in BOOLEAN : Abort(p, stop)
      BY <2>4 DEF Watch
    <3> QED
      BY <3>1 DEF Looping
  <2>5. CASE Settle(p)
    <3>1. \/ UNCHANGED pc /\ \E X : loc' = [loc EXCEPT ![p].left = X]
          \/ \E stop \in {FALSE, graph.cancelled} : Abort(p, stop)
      BY <2>5 DEF Settle
    <3>2. graph.cancelled \in BOOLEAN
      BY DEF Inv, Types, Graph
    <3> QED
      BY <1>2, <3>1, <3>2
  <2> QED
    BY <2>1, <2>2, <2>3, <2>4, <2>5
<1>5. CASE \E stop \in BOOLEAN : Abort(p, stop)
  <2>1. OthersStay(p) /\ pc'[p] = "gather"
    BY <1>1, <1>5, AbortMoves
  <2> QED
    BY <1>1, <1>2, <1>3, <2>1, WorksOn
<1>6. CASE /\ \E l \in Looping \cup Joining : Goto(p, l) \/ (UNCHANGED pc /\ l = pc[p])
           /\ \E m : loc' = [loc EXCEPT ![p] = m] \/ (UNCHANGED loc /\ m = loc[p])
  <2>1. Looping \cup Joining \subseteq Labels
    BY DEF Labels, Holding
  <2>2. OthersStay(p) /\ pc'[p] \in Looping \cup Joining
    BY <1>1, <1>6, <2>1, Moving DEF OthersStay
  <2> QED
    BY <1>1, <1>2, <1>3, <2>2, WorksOn
<1> QED
  BY <1>4, <1>5, <1>6

\* Whatever does not concern the children.
LEMMA CareApart ==
  ASSUME Inv, Care, ~graph.completed, NEW p \in Drivers,
         \/ Resume(p) \/ ReadParent(p) \/ ReadGraph(p) \/ ClaimContinuation(p)
         \/ ClaimDriver(p) /\ UNCHANGED graph /\ Finish(p)
  PROVE  Care'
<1>1. p \in Procs /\ UNCHANGED child /\ parent.status # "paused" /\ Apart \subseteq Labels
  BY Processes
  DEF Resume, ReadParent, ReadGraph, ClaimContinuation, ClaimDriver, Care, Apart, Labels, Outside
<1>2. /\ UNCHANGED graph /\ parent'.status = parent.status
      /\ pc[p] \in Apart
      /\ \/ Finish(p)
         \/ /\ \E l \in Apart : Goto(p, l)
            /\ \E m : loc' = [loc EXCEPT ![p] = m] \/ (UNCHANGED loc /\ m = loc[p])
  <2>1. CASE Resume(p)
    BY <1>1, <2>1 DEF Resume, Apart
  <2>2. CASE ReadParent(p)
    BY <2>2 DEF ReadParent, Apart
  <2>3. CASE ReadGraph(p)
    BY <2>3 DEF ReadGraph, Apart
  <2>4. CASE ClaimContinuation(p)
    BY <2>4 DEF ClaimContinuation, CanClaimContinuation, Apart
  <2>5. CASE ClaimDriver(p) /\ UNCHANGED graph /\ Finish(p)
    BY <2>5 DEF ClaimDriver, Apart
  <2> QED
    BY <2>1, <2>2, <2>3, <2>4, <2>5
<1>3. OthersStay(p) /\ pc'[p] \in Apart
  BY <1>1, <1>2, Moving DEF OthersStay, Apart
<1> QED
  BY <1>1, <1>2, <1>3, PassesBy

\* A driver whose abort has come to its end has the last claim, so that nobody else
\* holds the graph.
LEMMA LastOne ==
  ASSUME Inv, NEW p \in Drivers, loc[p].claim = graph.gen, graph.gen # 0,
         NEW q \in Drivers, pc[q] \in Holding
  PROVE  p = q
<1>1. Fits(q)
  BY Processes DEF Inv, Roles
<1>2. loc[q].claim = graph.gen
  BY <1>1 DEF Fits
<1> QED
  BY <1>2 DEF Inv, Claims

LEMMA CareFailSave ==
  ASSUME Inv, Care, ~graph.completed, NEW p \in Drivers, FailSave(p)
  PROVE  Care'
<1>1. /\ p \in Procs /\ UNCHANGED <<graph, child>> /\ pc[p] = "failsave"
      /\ parent \in Parent /\ "failed" \in ParentStatus /\ parent.status # "paused"
      /\ "cleanparent" \in Labels
  BY Processes, Parents DEF FailSave, Care, ParentStatus, Labels, Outside
<1>2. CASE UNCHANGED parent /\ Finish(p)
  <2>1. OthersStay(p) /\ pc'[p] = "idle"
    BY <1>1, <1>2, Moving
  <2> QED
    BY <1>1, <1>2, <2>1, PassesBy DEF Apart
<1>3. CASE /\ parent' = [parent EXCEPT !.status = "failed"]
           /\ loc' = [loc EXCEPT ![p] = NoLoc] /\ Goto(p, "cleanparent")
  <2>1. OthersStay(p) /\ pc'[p] = "cleanparent"
    BY <1>1, <1>3, Moving DEF OthersStay
  <2>2. parent'.status = "failed"
    BY <1>1, <1>3 DEF Parent
  <2>3. \A n \in Nodes : Held(n)' <=> Held(n)
    BY <1>1 DEF Held
  <2>4. Aborts(p) /\ p \notin {q \in Drivers : pc[q] \in Holding}
    BY <1>1 DEF Care, Holding, Looping, Joining, Aborting
  <2>5. Aborts(p)' /\ \A n \in Nodes : ~Tends(p, n)
    BY <1>1, <2>1 DEF Aborts, Tends, Working, Cleaning, Later, Looping, Joining
  <2>6. Fenced'
    <3>1. CASE graph.cancelled \/ parent.status \in ParentEnded
      <4>1. CASE graph.cancelled
        BY <1>1, <4>1 DEF Fenced
      <4>2. CASE parent.status \in ParentEnded
        BY <1>1, <2>1, <2>3, <4>2, StaysFenced DEF Holding, Looping, Joining, Aborting
      <4> QED
        BY <3>1, <4>1, <4>2
    <3>2. CASE ~(graph.cancelled \/ parent.status \in ParentEnded)
      <4>1. loc[p].claim = graph.gen /\ graph.gen # 0 /\ \A n \in Nodes : ~Held(n)
        BY <1>1, <2>4, <3>2 DEF Aborts
      <4>2. \A q \in Drivers : pc[q] \notin Holding
        BY <1>1, <2>4, <4>1, LastOne
      <4>3. \A q \in Drivers : pc'[q] \notin Holding
        BY <2>1, <4>2, Processes DEF OthersStay, Holding, Looping, Joining, Aborting
      <4> QED
        BY <2>3, <4>1, <4>3 DEF Fenced
    <3> QED
      BY <3>1, <3>2
  <2> QED
    BY <1>1, <2>1, <2>2, <2>3, <2>5, <2>6, Calmly DEF ParentEnded
<1> QED
  BY <1>2, <1>3 DEF FailSave

LEMMA CareCancelParent ==
  ASSUME Inv, Care, ~graph.completed, NEW p \in Drivers, CancelParent(p)
  PROVE  Care'
<1>1. /\ p \in Procs /\ UNCHANGED <<graph, child>> /\ pc[p] = "cancelparent"
      /\ parent \in Parent /\ parent.status # "paused" /\ "readfence" \in Labels
  BY Processes, Parents DEF CancelParent, Care, Labels, Outside
<1>2. OthersStay(p) /\ pc'[p] = "readfence"
  BY <1>1, Moving DEF OthersStay, CancelParent
<1>3. graph.cancelled
  BY <1>1 DEF Care, Aborts
<1>4. parent'.status # "paused" /\ (parent.status \in ParentEnded => parent'.status \in ParentEnded)
  BY <1>1 DEF CancelParent, Parent
<1>5. Fenced' /\ \A n \in Nodes : Held(n)' <=> Held(n)
  BY <1>1, <1>3 DEF Fenced, Held
<1>6. Aborts(p)' /\ \A n \in Nodes : Tends(p, n)'
  BY <1>2 DEF Aborts, Tends, Later
<1> QED
  BY <1>1, <1>2, <1>4, <1>5, <1>6, Calmly

\* A cancel or a recovery begins: it is going to fence the graph.
LEMMA CareFencer ==
  ASSUME Inv, Care, ~graph.completed, NEW p \in Procs \ Drivers, Goto(p, "readfence"), pc[p] = "idle",
         \A q \in Procs \ {p} : loc'[q] = loc[q],
         UNCHANGED <<graph, child>>, parent'.status = parent.status \/ parent'.status \in ParentEnded
  PROVE  Care'
<1>1. "readfence" \in Labels /\ parent.status # "paused"
  BY DEF Care, Labels, Outside
<1>2. OthersStay(p) /\ pc'[p] = "readfence"
  BY <1>1, Moving DEF OthersStay
<1>3. Fences(p)' /\ \A n \in Nodes : Tends(p, n)'
  BY <1>2 DEF Fences, Tends
<1>4. Fenced' /\ \A n \in Nodes : Held(n)' <=> Held(n)
  BY <1>3 DEF Fenced, Held
<1> QED
  BY <1>1, <1>2, <1>3, <1>4, Calmly DEF ParentEnded

LEMMA Unbothered ==
  ASSUME Inv, Care, ~graph.completed, NEW p \in Procs \ Drivers, OthersStay(p),
         UNCHANGED <<graph, child>>, parent'.status = parent.status,
         ~Fences(p), \A n \in Nodes : ~Tends(p, n)
  PROVE  Care'
<1>1. parent.status # "paused" /\ \A n \in Nodes : Held(n)' <=> Held(n)
  BY DEF Care, Held
<1>2. Fenced'
  BY <1>1, StaysFenced
<1> QED
  BY <1>1, <1>2, Calmly

LEMMA CareBegins ==
  ASSUME Inv, Care, ~graph.completed, NEW p \in Procs \ Drivers,
         (p \in Cancellers /\ Cancel(p)) \/ (p \in Recoverers /\ Recover(p))
  PROVE  Care'
<1>1. /\ UNCHANGED <<graph, child>> /\ pc[p] = "idle" /\ parent \in Parent
      /\ {"cancelled", "failed"} \subseteq ParentEnded
  BY Parents DEF Cancel, Recover, ParentEnded
<1>2. \/ UNCHANGED parent /\ Finish(p)
      \/ /\ parent'.status = parent.status \/ parent'.status \in ParentEnded
         /\ Goto(p, "readfence") /\ \E b : loc' = [loc EXCEPT ![p].due = b]
  <2>1. CASE Cancel(p)
    BY <1>1, <2>1 DEF Cancel, Parent
  <2>2. CASE Recover(p)
    BY <1>1, <2>2 DEF Recover, Parent
  <2> QED
    BY <2>1, <2>2
<1>3. CASE UNCHANGED parent /\ Finish(p)
  <2>1. OthersStay(p) /\ ~Fences(p) /\ \A n \in Nodes : ~Tends(p, n)
    BY <1>1, <1>3, Moving DEF Fences, Tends, Working, Cleaning
  <2> QED
    BY <1>1, <1>3, <2>1, Unbothered
<1>4. CASE /\ parent'.status = parent.status \/ parent'.status \in ParentEnded
           /\ Goto(p, "readfence") /\ \E b : loc' = [loc EXCEPT ![p].due = b]
  <2>1. \A q \in Procs \ {p} : loc'[q] = loc[q]
    BY <1>4 DEF Inv, Types
  <2> QED
    BY <1>1, <1>4, <2>1, CareFencer
<1> QED
  BY <1>2, <1>3, <1>4

\* The graph is cancelled: whoever does it cleans up every child.
LEMMA CareCancels ==
  ASSUME Inv, Care, ~graph.completed, NEW p \in Procs, OthersStay(p), RequestCancel,
         UNCHANGED parent, pc'[p] \in Cleaning, loc'[p].left = Nodes
  PROVE  Care'
<1>1. /\ graph'.cancelled /\ graph'.status = "cancelled" /\ graph'.gen = graph.gen
  <2>1. graph \in Graph
    BY DEF Inv, Types
  <2> QED
    BY <2>1 DEF RequestCancel, Graph
<1>2. Fenced'
  BY <1>1 DEF Fenced
<1>3. Tended'
  BY DEF Tended, Tends
<1>4. ASSUME NEW q \in Drivers PROVE Aborts(q)'
  <2>1. CASE q # p
    <3>1. Aborts(q) /\ pc'[q] = pc[q] /\ loc'[q] = loc[q]
      BY <2>1, Processes DEF Care, OthersStay
    <3> QED
      BY <1>1, <3>1 DEF Aborts
  <2>2. CASE q = p
    BY <1>1, <2>2 DEF Aborts, Cleaning, Later
  <2> QED
    BY <2>1, <2>2
<1> QED
  BY <1>1, <1>2, <1>3, <1>4 DEF Care

\* A process that is done with the children, with the fence or with the clean-up.
LEMMA CareDone ==
  ASSUME Inv, Care, ~graph.completed, NEW p \in Procs, OthersStay(p), UNCHANGED <<graph, child>>,
         parent'.status = parent.status, pc'[p] \in Apart,
         pc[p] \notin Holding \cup {"readfence"}, ~Fences(p),
         pc[p] \in Cleaning => loc[p].left = {}
  PROVE  Care'
<1>1. parent.status # "paused" /\ \A n \in Nodes : Held(n)' <=> Held(n)
  BY DEF Care, Held
<1>2. Fenced'
  BY <1>1, StaysFenced DEF Holding, Looping, Joining, Aborting, Apart
<1>3. \A n \in Nodes : ~Tends(p, n)
  BY DEF Tends, Working, Holding, Aborting
<1>4. Aborts(p)'
  BY DEF Aborts, Apart, Later
<1> QED
  BY <1>1, <1>2, <1>3, <1>4, Calmly

LEMMA CareFence ==
  ASSUME Inv, Care, ~graph.completed, NEW p \in Procs,
         CleanParent(p) \/ ReadFence(p) \/ Fence(p) \/ FencedClean(p)
  PROVE  Care'
<1>1. /\ loc[p] \in Loc /\ parent \in Parent /\ parent.status # "paused"
      /\ {"cleanparent", "idle", "fence", "cleanfenced"} \subseteq Labels
      /\ {"cleanparent", "idle"} \subseteq Apart
  BY Parents, Going DEF Care, Labels, Outside, Apart
<1>2. CASE CleanParent(p)
  <2>1. /\ pc[p] = "cleanparent" /\ Finish(p) /\ UNCHANGED <<graph, child>>
        /\ parent'.status = parent.status
    BY <1>1, <1>2 DEF CleanParent, Parent
  <2>2. OthersStay(p) /\ pc'[p] = "idle" /\ ~Fences(p)
    BY <2>1, Moving DEF Fences
  <2> QED
    BY <1>1, <2>1, <2>2, CareDone DEF Holding, Looping, Joining, Aborting, Cleaning
<1>3. CASE ReadFence(p)
  <2>1. /\ pc[p] = "readfence" /\ UNCHANGED <<graph, child, parent>>
        /\ \A n \in Nodes : Held(n)' <=> Held(n)
    BY <1>3 DEF ReadFence, Held
  <2>2. CASE graph.cancelled
    <3> DEFINE m == [loc[p] EXCEPT !.left = Nodes]
    <3>1. Goto(p, "cleanfenced") /\ loc' = [loc EXCEPT ![p] = m] /\ m.left = Nodes
      BY <1>1, <1>3, <2>2 DEF ReadFence, Loc
    <3> HIDE DEF m
    <3>2. OthersStay(p) /\ pc'[p] = "cleanfenced" /\ loc'[p].left = Nodes
      BY <1>1, <3>1, Moving DEF OthersStay
    <3>3. Fenced'
      BY <2>1, <2>2 DEF Fenced
    <3>4. Aborts(p)' /\ \A n \in Nodes : Tends(p, n)'
      BY <3>2 DEF Aborts, Tends, Later, Cleaning
    <3> QED
      BY <1>1, <2>1, <3>2, <3>3, <3>4, Calmly
  <2>3. CASE ~graph.cancelled
    <3> DEFINE m == [loc[p] EXCEPT !.rev = graph.rev]
    <3>1. Goto(p, "fence") /\ loc' = [loc EXCEPT ![p] = m] /\ m.rev = graph.rev
      BY <1>1, <1>3, <2>3 DEF ReadFence, Loc
    <3> HIDE DEF m
    <3>2. OthersStay(p) /\ pc'[p] = "fence" /\ loc'[p].rev = graph.rev
      BY <1>1, <3>1, Moving DEF OthersStay
    <3>3. Fences(p)' /\ Aborts(p)'
      BY <2>1, <3>2 DEF Fences, Aborts, Later
    <3>4. Fenced'
      BY <2>1, <3>2, <3>3, StaysFenced DEF Holding, Looping, Joining, Aborting
    <3> QED
      BY <1>1, <2>1, <2>3, <3>2, <3>3, <3>4, Calmly
  <2> QED
    BY <2>2, <2>3
<1>4. CASE Fence(p)
  <2>1. pc[p] = "fence" /\ UNCHANGED parent
    BY <1>4 DEF Fence
  <2>2. CASE graph.rev = loc[p].rev
    <3> DEFINE m == [loc[p] EXCEPT !.rev = 0, !.left = Nodes]
    <3>1. Goto(p, "cleanfenced") /\ loc' = [loc EXCEPT ![p] = m] /\ m.left = Nodes /\ RequestCancel
      BY <1>1, <1>4, <2>2 DEF Fence, Loc
    <3> HIDE DEF m
    <3>2. OthersStay(p) /\ pc'[p] = "cleanfenced" /\ loc'[p].left = Nodes
      BY <1>1, <3>1, Moving DEF OthersStay
    <3> QED
      BY <2>1, <3>1, <3>2, CareCancels DEF Cleaning
  <2>3. CASE graph.rev # loc[p].rev
    <3>1. /\ UNCHANGED <<graph, child>>
          /\ Finish(p) \/ (loc' = [loc EXCEPT ![p] = NoLoc] /\ Goto(p, "cleanparent"))
      BY <1>4, <2>3 DEF Fence
    <3>2. OthersStay(p) /\ pc'[p] \in Apart
      BY <1>1, <3>1, Moving DEF OthersStay
    <3>3. ~Fences(p) /\ pc[p] \notin Holding \cup {"readfence"} \cup Cleaning
      BY <2>1, <2>3 DEF Fences, Holding, Looping, Joining, Aborting, Cleaning
    <3> QED
      BY <2>1, <3>1, <3>2, <3>3, CareDone
  <2> QED
    BY <2>2, <2>3
<1>5. CASE FencedClean(p)
  <2>1. /\ pc[p] = "cleanfenced" /\ loc[p].left = {} /\ UNCHANGED <<graph, child, parent>>
        /\ Finish(p) \/ (loc' = [loc EXCEPT ![p] = NoLoc] /\ Goto(p, "cleanparent"))
    BY <1>5 DEF FencedClean
  <2>2. OthersStay(p) /\ pc'[p] \in Apart
    BY <1>1, <2>1, Moving DEF OthersStay
  <2>3. ~Fences(p) /\ pc[p] \notin Holding \cup {"readfence"}
    BY <2>1 DEF Fences, Holding, Looping, Joining, Aborting
  <2> QED
    BY <2>1, <2>2, <2>3, CareDone
<1> QED
  BY <1>2, <1>3, <1>4, <1>5

LEMMA CareCleanChild ==
  ASSUME Inv, Care, ~graph.completed, NEW p \in Procs, CleanChild(p)
  PROVE  Care'
<1> DEFINE n == Min(loc[p].left)
<1>1. /\ loc[p] \in Loc /\ parent.status # "paused" /\ pc[p] \in Cleaning
      /\ UNCHANGED <<parent, graph, pc>>
  BY Going DEF CleanChild, Care
<1>2. n \in Nodes
  BY <1>1, LocFields, LeastIsOne, GraphAssumption DEF CleanChild
<1>3. PICK res, end :
        /\ res \in Cleaned(child[n].res)
        /\ child' = [child EXCEPT ![n].status = end, ![n].res = res]
        /\ loc' = [loc EXCEPT ![p].left = @ \ {n}, ![p].bad = @ \/ res = "left"]
  BY DEF CleanChild
<1> DEFINE m == [loc[p] EXCEPT !.left = loc[p].left \ {n}, !.bad = loc[p].bad \/ res = "left"]
<1>4. m.left = loc[p].left \ {n} /\ m.stop = loc[p].stop /\ loc' = [loc EXCEPT ![p] = m]
  BY <1>1, <1>3 DEF Loc, Inv, Types
<1>5. \A k \in Nodes : Held(k)' => Held(k) /\ k # n
  <2>1. \A k \in Nodes \ {n} : child'[k] = child[k]
    BY <1>3 DEF Inv, Types
  <2>2. child'[n].res = res /\ res # "held"
    <3>1. child[n] \in Child /\ child \in [Nodes -> Child]
      BY <1>2 DEF Inv, Types
    <3> QED
      BY <1>2, <1>3, <3>1 DEF Child, Cleaned
  <2> QED
    BY <2>1, <2>2 DEF Held
<1> HIDE DEF m, n
<1>6. OthersStay(p) /\ pc'[p] = pc[p] /\ loc'[p] = m
  BY <1>1, <1>4, Moving DEF OthersStay
<1>7. Fenced'
  BY <1>1, <1>5, <1>6, StaysFenced DEF Fences, Cleaning
<1>8. p \in Drivers => Aborts(p)'
  <2>1. p \in Drivers => Aborts(p)
    BY DEF Care
  <2> QED
    BY <1>1, <1>4, <1>5, <1>6, <2>1 DEF Aborts, Cleaning, Later
<1>9. \A k \in Nodes : Held(k)' /\ Tends(p, k) => Tends(p, k)'
  BY <1>1, <1>4, <1>5, <1>6 DEF Tends, Working, Cleaning
<1> QED
  BY <1>1, <1>5, <1>6, <1>7, <1>8, <1>9, Calmly

\* What a driver that aborts knows of its claim.
LEMMA Claimant ==
  ASSUME Inv, Care, ~graph.completed, NEW p \in Drivers, pc[p] \in Holding
  PROVE  /\ loc[p].claim = graph.gen /\ graph.gen # 0
         /\ graph.status \notin {"ready", "paused", "failed"}
         /\ graph.cancelled \/ (graph.claim = loc[p].claim /\ graph.claim # 0 /\ Mine(p))
         /\ graph.cancelled => ~Mine(p)
<1>1. Fits(p) /\ graph \in Graph /\ Claims
  BY Processes DEF Inv, Types, Roles
<1>2. graph.status # "joined"
  BY DEF Care
<1> QED
  BY <1>1, <1>2 DEF Fits, Claims, Mine

LEMMA CareGathered ==
  ASSUME Inv, Care, ~graph.completed, NEW p \in Drivers, Gathered(p)
  PROVE  Care'
<1> DEFINE l == IF ~Mine(p) THEN "cleankids" ELSE IF loc[p].stop THEN "abortfence" ELSE "endnodes"
           r == IF loc[p].stop /\ Mine(p) THEN graph.rev ELSE 0
           m == [loc[p] EXCEPT !.rev = r, !.left = Nodes]
<1>1. /\ p \in Procs /\ loc[p] \in Loc /\ parent.status # "paused" /\ pc[p] = "gather"
      /\ UNCHANGED <<parent, graph, child>>
  BY Processes, Going DEF Gathered, Care
<1>2. m.rev = r /\ m.left = Nodes /\ m.stop = loc[p].stop /\ loc' = [loc EXCEPT ![p] = m]
      /\ Goto(p, l) /\ l \in Labels
  BY <1>1 DEF Loc, Gathered, Labels, Holding, Aborting
<1> HIDE DEF m
<1>3. OthersStay(p) /\ pc'[p] = l /\ loc'[p] = m
  BY <1>1, <1>2, Moving DEF OthersStay
<1>4. (graph.cancelled => ~Mine(p)) /\ (~graph.cancelled => Mine(p))
  BY <1>1, Claimant DEF Holding, Aborting
<1>5. \A n \in Nodes : Held(n)' <=> Held(n)
  BY <1>1 DEF Held
<1>6. Fenced'
  BY <1>1, <1>3, <1>5, StaysFenced DEF Holding, Aborting
<1>7. Aborts(p)'
  BY <1>1, <1>2, <1>3, <1>4 DEF Aborts, Later
<1>8. graph.cancelled => \A n \in Nodes : Tends(p, n)'
  BY <1>2, <1>3, <1>4 DEF Tends, Cleaning
<1> QED
  BY <1>1, <1>3, <1>5, <1>6, <1>7, <1>8, Calmly

\* A driver leaves its abort.
LEMMA CareAborted ==
  ASSUME Inv, Care, ~graph.completed, NEW p \in Drivers, OthersStay(p),
         UNCHANGED <<parent, graph, child, loc>>,
         pc[p] \in {"abortfence", "endnodes", "cleankids"}, pc'[p] = AfterAbort(p),
         pc[p] = "cleankids" => loc[p].left = {},
         graph.cancelled \/ (~loc[p].stop /\ (parent.status \in ParentEnded \/ \A n \in Nodes : ~Held(n)))
  PROVE  Care'
<1>1. p \in Procs /\ parent.status # "paused" /\ pc[p] \in Holding
  BY Processes DEF Care, Holding, Aborting
<1>2. \A n \in Nodes : Held(n)' <=> Held(n)
  BY DEF Held
<1>3. Fenced'
  BY <1>1, <1>2, StaysFenced
<1>4. /\ loc[p].claim = graph.gen /\ graph.gen # 0 /\ graph.status \notin {"ready", "paused"}
  BY <1>1, Claimant
<1>5. Aborts(p)'
  BY <1>4 DEF Aborts, AfterAbort, Later, Held
<1>6. \A n \in Nodes : ~Tends(p, n)
  BY DEF Tends, Working, Looping, Joining, Cleaning
<1> QED
  BY <1>1, <1>2, <1>3, <1>5, <1>6, Calmly

LEMMA CareAbortFence ==
  ASSUME Inv, Care, ~graph.completed, NEW p \in Drivers, AbortFence(p)
  PROVE  Care'
<1>1. /\ p \in Procs /\ pc[p] = "abortfence" /\ UNCHANGED <<parent, loc>> /\ Aborts(p)
      /\ "cleankids" \in Labels /\ AfterAbort(p) \in Labels
  BY Processes DEF AbortFence, AfterAbort, Care, Labels, Holding, Aborting, Outside
<1>2. CASE graph.rev = loc[p].rev
  <2>1. RequestCancel /\ Goto(p, "cleankids")
    BY <1>2 DEF AbortFence
  <2>2. OthersStay(p) /\ pc'[p] = "cleankids" /\ loc'[p].left = Nodes
    BY <1>1, <2>1, Moving DEF OthersStay, Aborts
  <2> QED
    BY <1>1, <2>1, <2>2, CareCancels DEF Cleaning
<1>3. CASE graph.rev # loc[p].rev
  <2>1. UNCHANGED <<graph, child>> /\ Goto(p, AfterAbort(p))
    BY <1>3 DEF AbortFence
  <2>2. OthersStay(p) /\ pc'[p] = AfterAbort(p) /\ graph.cancelled
    BY <1>1, <1>3, <2>1, Moving DEF OthersStay, Aborts
  <2> QED
    BY <1>1, <2>1, <2>2, CareAborted
<1> QED
  BY <1>2, <1>3

LEMMA CareEndNodes ==
  ASSUME Inv, Care, ~graph.completed, NEW p \in Drivers, EndNodes(p)
  PROVE  Care'
<1> DEFINE live == {n \in Nodes : node[n] \notin NodeEnded}
           n == Min(live)
           target == IF node[n] = "pending" THEN "blocked" ELSE "failed"
<1>1. /\ p \in Procs /\ pc[p] = "endnodes" /\ UNCHANGED <<parent, graph, child, loc>>
      /\ Aborts(p) /\ parent.status # "paused"
      /\ "cleankids" \in Labels /\ AfterAbort(p) \in Labels
  BY Processes DEF EndNodes, AfterAbort, Care, Labels, Holding, Aborting, Outside
<1>2. \A k \in Nodes : Held(k)' <=> Held(k)
  BY <1>1 DEF Held
<1>3. CASE Goto(p, "cleankids") \/ UNCHANGED pc
  <2>1. OthersStay(p) /\ pc'[p] \in {"cleankids", "endnodes"} /\ loc'[p] = loc[p]
    BY <1>1, <1>3, Moving DEF OthersStay
  <2>2. Fenced'
    BY <1>1, <1>2, <2>1, StaysFenced DEF Holding, Aborting
  <2>3. Aborts(p)'
    BY <1>1, <2>1 DEF Aborts, Later
  <2>4. \A k \in Nodes : ~Tends(p, k)
    BY <1>1 DEF Tends, Working, Looping, Joining, Cleaning
  <2> QED
    BY <1>1, <1>2, <2>1, <2>2, <2>3, <2>4, Calmly
<1>4. CASE live # {} /\ ~CanTransition(p, n, target)
  <2>1. n \in Nodes /\ node[n] \notin NodeEnded
    <3>1. n \in live
      BY <1>4, LeastIsOne, GraphAssumption
    <3> QED
      BY <3>1
  <2>2. Goto(p, AfterAbort(p))
    BY <1>4 DEF EndNodes
  <2> HIDE DEF live, n
  <2>3. <<node[n], target>> \in NodeMoves /\ target \in {"blocked", "failed"}
    BY <2>1 DEF Inv, Types, NodeStatus, NodeEnded, NodeMoves
  <2>4. ~Owned(p)
    BY <1>4, <2>3 DEF CanTransition
  <2>5. graph.cancelled \/ (~loc[p].stop /\ parent.status \in ParentEnded)
    BY <1>1, <2>4, Claimant DEF Owned, Holding, Aborting, Aborts, Inv, Claims
  <2>6. OthersStay(p) /\ pc'[p] = AfterAbort(p)
    BY <1>1, <2>2, Moving DEF OthersStay
  <2> QED
    BY <1>1, <2>5, <2>6, CareAborted
<1> QED
  BY <1>3, <1>4 DEF EndNodes

\* The row of a graph that is not cancelled is written, by its driver or by the one that
\* claims it.
LEMMA CareWrites ==
  ASSUME Inv, Care, ~graph.completed, NEW p \in Drivers, OthersStay(p), UNCHANGED <<parent, child>>,
         ~graph.cancelled, parent.status \notin ParentEnded,
         pc[p] \in Holding \/ (graph.claim = 0 /\ graph.status \in {"ready", "paused"}),
         ~graph'.cancelled, graph'.status # "joined", Aborts(p)'
  PROVE  Care'
<1>1. Fenced' /\ Tended'
  BY DEF Fenced, Tended
<1>2. ASSUME NEW q \in Drivers, q # p PROVE Aborts(q)'
  <2>1. pc'[q] = pc[q] /\ Aborts(q)
    BY <1>2, Processes DEF OthersStay, Care
  <2>2. pc[q] \notin Holding
    BY <1>2, Alone, Nobodys
  <2>3. pc[q] # "failsave"
    <3>1. CASE pc[p] \in Holding
      <4>1. loc[p].claim = graph.gen /\ graph.gen # 0
        BY <3>1, Claimant
      <4> QED
        BY <1>2, <2>1, <4>1 DEF Aborts, Inv, Claims
    <3>2. CASE graph.claim = 0 /\ graph.status \in {"ready", "paused"}
      BY <2>1, <3>2 DEF Aborts
    <3> QED
      BY <3>1, <3>2
  <2> QED
    BY <2>1, <2>2, <2>3 DEF Aborts, Holding, Aborting
<1> QED
  BY <1>1, <1>2 DEF Care

LEMMA CareAbortCleaned ==
  ASSUME Inv, Care, ~graph.completed, NEW p \in Drivers, AbortCleaned(p)
  PROVE  Care'
<1>1. /\ p \in Procs /\ pc[p] = "cleankids" /\ loc[p].left = {} /\ UNCHANGED <<parent, child, loc>>
      /\ Aborts(p) /\ Goto(p, AfterAbort(p)) /\ AfterAbort(p) \in Labels /\ pc[p] \in Holding
  BY Processes DEF AbortCleaned, AfterAbort, Care, Labels, Outside, Holding, Aborting
<1>2. OthersStay(p) /\ pc'[p] = AfterAbort(p) /\ loc'[p] = loc[p]
  BY <1>1, Moving DEF OthersStay
<1>3. graph.cancelled \/ (~loc[p].stop /\ \A n \in Nodes : ~Held(n))
  BY <1>1 DEF Aborts
<1>4. CASE UNCHANGED graph
  BY <1>1, <1>2, <1>3, <1>4, CareAborted
<1>5. CASE Release("failed") /\ CanRelease(p, "failed")
  <2>1. "failed" \in GraphStatus
    BY DEF GraphStatus
  <2>2. /\ graph'.status = "failed" /\ graph'.cancelled = graph.cancelled /\ graph'.gen = graph.gen
    BY <1>5, <2>1, ReleaseFields
  <2>3. ~graph.cancelled /\ parent.status \notin ParentEnded
    BY <1>5 DEF CanRelease, Owned
  <2>4. loc[p].claim = graph.gen /\ graph.gen # 0
    BY <1>1, Claimant
  <2>5. \A n \in Nodes : ~Held(n)'
    BY <1>1, <1>3, <2>3 DEF Held
  <2>6. Aborts(p)'
    BY <1>2, <1>3, <2>2, <2>3, <2>4, <2>5 DEF Aborts, AfterAbort, Later
  <2> QED
    BY <1>1, <1>2, <2>2, <2>3, <2>6, CareWrites
<1> QED
  BY <1>4, <1>5 DEF AbortCleaned

LEMMA CareClaimDriver ==
  ASSUME Inv, Care, ~graph.completed, NEW p \in Drivers, ClaimDriver(p)
  PROVE  Care'
<1>1. CASE UNCHANGED graph /\ Finish(p)
  BY <1>1, CareApart
<1>2. CASE /\ CanClaimDriver(loc[p].rev) /\ TakeClaim(p)
           /\ Goto(p, IF loc[p].saw[1] = "waiting" THEN "wake" ELSE "scan")
  <2>1. p \in Procs /\ UNCHANGED <<parent, child>> /\ graph \in Graph /\ {"wake", "scan"} \subseteq Labels
    BY Processes DEF ClaimDriver, Inv, Types, Labels, Holding, Looping
  <2>2. OthersStay(p) /\ pc'[p] \in {"wake", "scan"}
    BY <1>2, <2>1, Moving DEF OthersStay, TakeClaim
  <2>3. graph'.status = "running" /\ graph'.cancelled = graph.cancelled
    BY <1>2, <2>1, GraphFields DEF TakeClaim
  <2>4. Aborts(p)'
    BY <2>2 DEF Aborts, Later
  <2> QED
    BY <1>2, <2>1, <2>2, <2>3, <2>4, CareWrites DEF CanClaimDriver
<1> QED
  BY <1>1, <1>2 DEF ClaimDriver

LEMMA CareReleasePaused ==
  ASSUME Inv, Care, ~graph.completed, NEW p \in Drivers, ReleasePaused(p)
  PROVE  Care'
<1>1. p \in Procs /\ UNCHANGED <<parent, child>> /\ pc[p] = "release" /\ pc[p] \in Looping
      /\ pc[p] \in Holding
  BY Processes DEF ReleasePaused, Looping, Holding
<1>2. CASE CanRelease(p, "paused")
  <2>1. Release("paused") /\ Finish(p) /\ "paused" \in GraphStatus
    BY <1>2 DEF ReleasePaused, GraphStatus
  <2>2. OthersStay(p) /\ pc'[p] = "idle"
    BY <1>1, <2>1, Moving
  <2>3. graph'.status = "paused" /\ graph'.cancelled = graph.cancelled
    BY <2>1, ReleaseFields
  <2>4. Aborts(p)'
    BY <2>2 DEF Aborts, Later
  <2> QED
    BY <1>1, <1>2, <2>2, <2>3, <2>4, CareWrites DEF CanRelease, Owned
<1>3. CASE ~CanRelease(p, "paused")
  BY <1>1, <1>3, CareAbort DEF ReleasePaused
<1> QED
  BY <1>2, <1>3

\* Up to the completion of the join; after it there is nothing left to show.
LEMMA CareJoin ==
  ASSUME Inv, Care, ~graph.completed, NEW p \in Drivers,
         PrepareJoin(p) \/ CompleteJoin(p) \/ ReleaseJoined(p)
  PROVE  Care'
<1>1. p \in Procs /\ UNCHANGED <<parent, child>> /\ pc[p] \in Joining
      /\ pc[p] \in Holding /\ graph \in Graph
  BY Processes DEF PrepareJoin, CompleteJoin, ReleaseJoined, Joining, Holding, Inv, Types
<1>2. CASE UNCHANGED graph /\ \E stop : Abort(p, stop)
  BY <1>1, <1>2, CareAbort
<1>3. CASE /\ Owned(p) /\ Goto(p, "joinwork") /\ UNCHANGED loc
           /\ graph' = [graph EXCEPT !.prepared = TRUE, !.rev = @ + 1]
  <2>1. OthersStay(p) /\ pc'[p] = "joinwork"
    BY <1>1, <1>3, Moving DEF OthersStay, Labels, Holding, Joining
  <2>2. graph'.status = graph.status /\ graph'.cancelled = graph.cancelled
    BY <1>1, <1>3 DEF Graph
  <2>3. Aborts(p)' /\ graph.status # "joined"
    BY <2>1 DEF Aborts, Later, Care
  <2> QED
    BY <1>1, <1>3, <2>1, <2>2, <2>3, CareWrites DEF Owned
<1>4. CASE CompleteJoin(p) /\ graph' = [graph EXCEPT !.completed = TRUE, !.status = "joined", !.rev = @ + 1]
  <2>1. graph'.completed
    BY <1>1, <1>4 DEF Graph
  <2> QED
    BY <2>1 DEF Care
<1>5. ~CanRelease(p, "joined")
  BY DEF CanRelease
<1> QED
  BY <1>2, <1>3, <1>4, <1>5 DEF PrepareJoin, CompleteJoin, ReleaseJoined

\* The tasks: their driver gathers them.
LEMMA CareTask ==
  ASSUME Inv, Care, ~graph.completed, NEW p \in Drivers, NEW n \in Nodes,
         TaskStep(p, n) \/ TaskStop(p, n)
  PROVE  Care'
<1>1. pc[p] \in {"wait", "gather"} /\ UNCHANGED <<parent, graph, pc, loc>>
  BY DEF TaskStep, TaskStop, TaskBegin, TaskPrepare, TaskWork, TaskClean, TaskFailClean, At
<1>2. p \in Procs /\ pc[p] \in Holding /\ Working(p)
  BY <1>1, Processes DEF Holding, Looping, Aborting, Working
<1>3. Fenced'
  <2>1. Fenced
    BY DEF Care
  <2>2. ~graph.cancelled /\ parent.status \in ParentEnded => \E q \in Procs \ Drivers : Fences(q)
    BY <1>2, <2>1 DEF Fenced
  <2> QED
    BY <1>1, <2>2 DEF Fenced, Fences
<1>4. Tended'
  BY <1>1, <1>2 DEF Tended, Tends, Working
<1>5. ASSUME NEW q \in Drivers PROVE Aborts(q)'
  <2>1. Aborts(q)
    BY DEF Care
  <2>2. pc[q] # "cleankids"
    BY <1>1, <1>2, Alone DEF Holding, Aborting
  <2>3. pc[q] # "failsave"
    BY <1>1, <1>2, <2>1, LastOne DEF Aborts
  <2> QED
    BY <1>1, <2>1, <2>2, <2>3 DEF Aborts
<1> QED
  BY <1>1, <1>3, <1>4, <1>5 DEF Care

\* A driver that dies abandons everything; one that had nothing leaves nothing.
LEMMA CareDie ==
  ASSUME Inv, Care, ~graph.completed, NEW p \in Drivers, Die(p)
  PROVE  Care'
<1>1. /\ p \in Procs /\ parent \in Parent /\ parent.status # "paused" /\ Finish(p)
      /\ UNCHANGED graph /\ Fits(p) /\ graph.gen \in Nat
  BY Processes, Parents DEF Die, Care, Inv, Types, Graph, Roles
<1>2. OthersStay(p) /\ pc'[p] = "idle"
  BY <1>1, Moving
<1>3. parent'.status = parent.status
  BY <1>1 DEF Die, Parent
<1>4. /\ \A n \in Nodes : Held(n)' => Held(n)
      /\ \/ \A n \in Nodes : ~Held(n)'
         \/ loc[p].claim = 0 /\ pc[p] \notin {"readfence", "fence", "cleanfenced", "cleanparent"}
  <2>1. CASE UNCHANGED child
    <3>1. \A n \in Nodes : Held(n)' <=> Held(n)
      BY <2>1 DEF Held
    <3>2. \/ loc[p].claim = 0 /\ pc[p] \notin {"readfence", "fence", "cleanfenced", "cleanparent"}
          \/ child' = [n \in Nodes |-> [child[n] EXCEPT !.res = Abandoned(@)]]
      BY DEF Die
    <3>3. ASSUME child' = [n \in Nodes |-> [child[n] EXCEPT !.res = Abandoned(@)]], NEW n \in Nodes
          PROVE  ~Held(n)'
      <4>1. child[n] \in Child
        BY DEF Inv, Types
      <4> QED
        BY <3>3, <4>1 DEF Held, Child, Abandoned
    <3> QED
      BY <3>1, <3>2, <3>3
  <2>2. CASE child' = [n \in Nodes |-> [child[n] EXCEPT !.res = Abandoned(@)]]
    <3>1. ASSUME NEW n \in Nodes PROVE ~Held(n)'
      <4>1. child[n] \in Child
        BY DEF Inv, Types
      <4> QED
        BY <2>2, <4>1 DEF Held, Child, Abandoned
    <3> QED
      BY <3>1
  <2> QED
    BY <2>1, <2>2 DEF Die
<1>5. Fenced'
  BY <1>1, <1>2, <1>3, <1>4, StaysFenced DEF Holding, Looping, Joining, Aborting
<1>6. Aborts(p)'
  BY <1>2 DEF Aborts, Later
<1>7. \A n \in Nodes : Held(n)' /\ Tends(p, n) => Tends(p, n)'
  <2>1. pc[p] \in Holding => loc[p].claim # 0
    BY <1>1 DEF Fits
  <2> QED
    BY <1>4, <2>1 DEF Tends, Working, Cleaning, Holding, Aborting
<1> QED
  BY <1>1, <1>2, <1>3, <1>4, <1>5, <1>6, <1>7, Calmly

\* What comes after a join does not come before it.
LEMMA CareLater ==
  ASSUME Care, ~graph.completed, NEW p \in Drivers,
         \/ Rehydrate(p) \/ Rest(p) \/ Leave(p) \/ SaveRejected(p) \/ Present(p) \/ SaveReady(p)
         \/ Interrupt(p) /\ pc[p] \notin {"wait", "joinwork"}
  PROVE  FALSE
<1>1. pc[p] \in Later
  BY DEF Rehydrate, Rest, Leave, SaveRejected, Present, SaveReady, Interrupt, Later
<1> QED
  BY <1>1 DEF Care, Aborts

LEMMA CareAnswer ==
  ASSUME Inv, Care, ~graph.completed,
         \/ UNCHANGED vars
         \/ \E a \in {"approved", "denied"} : AnswerParent(a) \/ \E n \in Nodes : AnswerChild(n, a)
  PROVE  Care'
<1>1. UNCHANGED <<graph, parent, pc, loc>>
  BY DEF vars, AnswerParent, AnswerChild, Care
<1>2. \A n \in Nodes : Held(n)' <=> Held(n)
  <2>1. CASE UNCHANGED child
    BY <2>1 DEF Held
  <2>2. CASE \E a \in {"approved", "denied"}, n \in Nodes : AnswerChild(n, a)
    <3>1. PICK a \in {"approved", "denied"}, n \in Nodes : child' = [child EXCEPT ![n].ask = a]
      BY <2>2 DEF AnswerChild
    <3>2. child \in [Nodes -> Child]
      BY DEF Inv, Types
    <3>3. \A k \in Nodes : child'[k].res = child[k].res
      BY <3>1, <3>2 DEF Child
    <3> QED
      BY <3>3 DEF Held
  <2> QED
    BY <2>1, <2>2 DEF vars, AnswerParent, Care
<1>3. Fenced' /\ Tended'
  BY <1>1, <1>2 DEF Care, Fenced, Fences, Tended, Tends, Working
<1>4. \A p \in Drivers : Aborts(p)'
  BY <1>1, <1>2 DEF Care, Aborts
<1> QED
  BY <1>1, <1>3, <1>4 DEF Care

\* A join that was completed stays so.
LEMMA StaysCompleted ==
  ASSUME Inv, [Next]_vars, graph.completed
  PROVE  graph'.completed
<1>1. graph \in Graph
  BY DEF Inv, Types
<1>2. CASE RequestCancel
  BY <1>1, <1>2 DEF RequestCancel, Graph
<1>3. CASE \E p \in Drivers : TakeClaim(p)
  BY <1>1, <1>3 DEF TakeClaim, Graph
<1>4. CASE \E status \in GraphStatus : Release(status)
  BY <1>1, <1>4 DEF Release, Graph
<1>5. ASSUME NEW p \in Drivers, PrepareJoin(p) \/ CompleteJoin(p)
      PROVE  graph'.completed
  BY <1>1, <1>5 DEF PrepareJoin, CompleteJoin, Graph
<1>6. CASE UNCHANGED graph
  BY <1>6
<1>7. {"paused", "joined", "failed"} \subseteq GraphStatus
  BY DEF GraphStatus
<1>8. ASSUME NEW p \in Drivers, Coordinate(p) PROVE graph'.completed
  <2>1. CASE ReadParent(p) \/ ReadGraph(p) \/ Wake(p) \/ Scan(p) \/ PassDone(p) \/ PassFails(p)
             \/ StartNode(p) \/ Watch(p) \/ Settle(p) \/ Park(p) \/ JoinWork(p) \/ Gathered(p)
             \/ EndNodes(p) \/ FailSave(p) \/ CancelParent(p) \/ Rehydrate(p) \/ Rest(p)
             \/ SaveRejected(p) \/ Present(p) \/ SaveReady(p) \/ \E n \in Nodes : TaskStop(p, n)
    BY <1>6, <2>1
    DEF ReadParent, ReadGraph, Wake, Scan, PassDone, PassFails, StartNode, Watch, Settle, Park,
        JoinWork, Gathered, EndNodes, FailSave, CancelParent, Rehydrate, Rest, SaveRejected,
        Present, SaveReady, TaskStop
  <2>2. CASE ClaimDriver(p) \/ ClaimContinuation(p)
    BY <1>3, <1>6, <2>2 DEF ClaimDriver, ClaimContinuation
  <2>3. CASE ReleasePaused(p) \/ ReleaseJoined(p) \/ AbortCleaned(p) \/ Leave(p)
    BY <1>4, <1>6, <1>7, <2>3
    DEF ReleasePaused, ReleaseJoined, AbortCleaned, Leave, ReleaseContinuation
  <2>4. CASE PrepareJoin(p) \/ CompleteJoin(p)
    BY <1>5, <2>4
  <2>5. CASE AbortFence(p)
    BY <1>2, <1>6, <2>5 DEF AbortFence
  <2> QED
    BY <1>8, <2>1, <2>2, <2>3, <2>4, <2>5 DEF Coordinate
<1>9. ASSUME NEW p \in Procs, Fencing(p) PROVE graph'.completed
  BY <1>2, <1>6, <1>9 DEF Fencing, CleanChild, CleanParent, ReadFence, Fence, FencedClean
<1>10. ASSUME NEW p \in Drivers, NEW n \in Nodes, TaskStep(p, n) PROVE graph'.completed
  BY <1>6, <1>10 DEF TaskStep, TaskBegin, TaskPrepare, TaskWork, TaskClean, TaskFailClean
<1>11. ASSUME NEW p \in Procs, Resume(p) \/ Interrupt(p) \/ Die(p) \/ Cancel(p) \/ Recover(p)
       PROVE  graph'.completed
  BY <1>6, <1>11 DEF Resume, Interrupt, Die, Cancel, Recover
<1>12. ASSUME NEW a, NEW n, AnswerParent(a) \/ AnswerChild(n, a) PROVE graph'.completed
  BY <1>6, <1>12 DEF AnswerParent, AnswerChild
<1>13. CASE Next
  BY <1>8, <1>9, <1>10, <1>11, <1>12, <1>13, Processes DEF Next
<1> QED
  BY <1>6, <1>13 DEF vars

LEMMA CareInit == Init => Care
<1> SUFFICES ASSUME Init PROVE Care
  OBVIOUS
<1>1. \A p \in Drivers : pc[p] \in {"acquire", "idle"}
  BY Processes DEF Init
<1>2. \A p \in Drivers : Aborts(p)
  BY <1>1 DEF Aborts, Later
<1> QED
  BY <1>2 DEF Init, Care, Fenced, Tended, ParentEnded

\* Every step of every process keeps the children cared for.
LEMMA CareStep == Inv /\ Care /\ [Next]_vars => Care'
<1> SUFFICES ASSUME Inv, Care, [Next]_vars PROVE Care'
  OBVIOUS
<1>1. CASE graph.completed
  BY <1>1, StaysCompleted DEF Care
<1>2. CASE ~graph.completed
  <2>1. ASSUME NEW p \in Drivers, Coordinate(p) PROVE Care'
    <3>1. CASE ReadParent(p) \/ ReadGraph(p) \/ ClaimContinuation(p)
      BY <1>2, <3>1, CareApart
    <3>2. CASE Wake(p) \/ Scan(p) \/ PassDone(p) \/ PassFails(p) \/ StartNode(p) \/ Watch(p)
               \/ Settle(p) \/ Park(p) \/ JoinWork(p)
      BY <1>2, <3>2, CareWork
    <3>3. CASE ClaimDriver(p) \/ ReleasePaused(p) \/ PrepareJoin(p) \/ CompleteJoin(p)
               \/ ReleaseJoined(p)
      BY <1>2, <3>3, CareClaimDriver, CareReleasePaused, CareJoin
    <3>4. CASE Gathered(p) \/ AbortFence(p) \/ EndNodes(p) \/ AbortCleaned(p) \/ FailSave(p)
               \/ CancelParent(p)
      BY <1>2, <3>4, CareGathered, CareAbortFence, CareEndNodes, CareAbortCleaned, CareFailSave,
         CareCancelParent
    <3>5. CASE Rehydrate(p) \/ Rest(p) \/ Leave(p) \/ SaveRejected(p) \/ Present(p) \/ SaveReady(p)
      BY <1>2, <3>5, CareLater
    <3>6. CASE \E n \in Nodes : TaskStop(p, n)
      BY <1>2, <3>6, CareTask
    <3> QED
      BY <2>1, <3>1, <3>2, <3>3, <3>4, <3>5, <3>6 DEF Coordinate
  <2>2. ASSUME NEW p \in Drivers, Interrupt(p) PROVE Care'
    BY <1>2, <2>2, CareWork, CareLater
  <2>3. ASSUME NEW p \in Drivers, Resume(p) \/ Die(p) \/ \E n \in Nodes : TaskStep(p, n)
        PROVE  Care'
    BY <1>2, <2>3, CareApart, CareDie, CareTask
  <2>4. ASSUME NEW p \in Procs, Fencing(p) PROVE Care'
    BY <1>2, <2>4, CareFence, CareCleanChild DEF Fencing
  <2>5. ASSUME NEW p, (p \in Cancellers /\ Cancel(p)) \/ (p \in Recoverers /\ Recover(p))
        PROVE  Care'
    <3>1. p \in Procs \ Drivers
      BY <2>5, GraphAssumption, Processes
    <3> QED
      BY <1>2, <2>5, <3>1, CareBegins
  <2>6. CASE \/ UNCHANGED vars
             \/ \E a \in {"approved", "denied"} :
                  AnswerParent(a) \/ \E n \in Nodes : AnswerChild(n, a)
    BY <1>2, <2>6, CareAnswer
  <2> QED
    BY <2>1, <2>2, <2>3, <2>4, <2>5, <2>6 DEF Next
<1> QED
  BY <1>1, <1>2

\* When everybody who worked on an ended parent has returned, no resource of a child is
\* forgotten: whoever ends the parent fences its graph or has cleaned up before, who fences
\* it cleans up every child, and what a task creates later its own coordinator
\* finds (graph.py _abort, workflow.py cancel, recover).
THEOREM EndedRunsAreClean == Spec => []EndedRunIsClean
<1>1. Inv /\ Care => EndedRunIsClean
  <2> SUFFICES ASSUME Inv, Care, Quiet, parent.status \in ParentEnded, NEW n \in Nodes
               PROVE  ~Held(n)
    BY DEF EndedRunIsClean, Held
  <2>1. CASE graph.completed
    BY <2>1 DEF Inv, Joins, Order, GoodOutput, Held
  <2>2. CASE ~graph.completed
    <3>1. \A q \in Procs : ~Fences(q) /\ ~Tends(q, n)
      BY Processes DEF Quiet, Fences, Tends, Working, Looping, Joining, Cleaning
    <3> QED
      BY <2>2, <3>1 DEF Care, Fenced, Tended
  <2> QED
    BY <2>1, <2>2
<1>2. Spec => []Care
  BY CareInit, CareStep, Invariant, InvInit, InvStep, PTL DEF Spec
<1> QED
  BY <1>1, <1>2, Invariant, PTL
=============================================================================
