----------------------------- MODULE TaskGraph -----------------------------
(***************************************************************************)
(* What the adaptive graph promises, whoever drives it: a node works only  *)
(* when everything it needs is done and fewer than `max` others work; what *)
(* is done or stopped stays so; nothing starts once the graph is closed;   *)
(* and the results are joined once, from all of them.                      *)
(***************************************************************************)
EXTENDS Naturals, FiniteSets

CONSTANTS Nodes, Plans

VARIABLES
  plan,     \* the dependencies and the concurrency limit that were accepted
  work,     \* what became of each node
  closed,   \* no more work is accepted
  joined
vars == <<plan, work, closed, joined>>

With(status) == {n \in Nodes : work[n] = status}

Init ==
  /\ plan \in Plans
  /\ work = [n \in Nodes |-> "todo"]
  /\ closed = FALSE /\ joined = FALSE

Start(n) ==
  /\ ~closed
  /\ work[n] \in {"todo", "waiting"}
  /\ plan.dependsOn[n] \subseteq With("done")
  /\ Cardinality(With("busy")) < plan.max
  /\ work' = [work EXCEPT ![n] = "busy"]
  /\ UNCHANGED <<plan, closed, joined>>

Leave(n) ==
  /\ work[n] = "busy"
  /\ \E status \in {"waiting", "done"} : work' = [work EXCEPT ![n] = status]
  /\ UNCHANGED <<plan, closed, joined>>

\* Nodes fail one by one, or all that are left stop with the graph.
Fail(n) ==
  /\ work[n] \notin {"done", "stopped"}
  /\ work' = [work EXCEPT ![n] = "stopped"]
  /\ UNCHANGED <<plan, closed, joined>>

Close ==
  /\ ~closed /\ closed' = TRUE
  /\ work' = [n \in Nodes |-> IF work[n] = "done" THEN "done" ELSE "stopped"]
  /\ UNCHANGED <<plan, joined>>

Join ==
  /\ ~closed /\ ~joined /\ joined' = TRUE
  /\ With("done") = Nodes
  /\ UNCHANGED <<plan, work, closed>>

Next == (\E n \in Nodes : Start(n) \/ Leave(n) \/ Fail(n)) \/ Close \/ Join

Spec == Init /\ [][Next]_vars
=============================================================================
