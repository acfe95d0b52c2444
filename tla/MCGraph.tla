------------------------------ MODULE MCGraph ------------------------------
(* Two nodes: side by side, one at a time, and one after the other.                       *)
EXTENDS GraphScheduler

Free == [n \in Nodes |-> {}]
Chain == [n \in Nodes |-> {m \in Nodes : m = n - 1}]

MCPlans == {[dependsOn |-> Free, max |-> 2], [dependsOn |-> Free, max |-> 1],
            [dependsOn |-> Chain, max |-> 2]}
=============================================================================
