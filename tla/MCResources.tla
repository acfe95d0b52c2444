---------------------------- MODULE MCResources ----------------------------
(* Small instances of Resources: a candidate worktree with its sandbox, and *)
(* a verification worktree with another.                                   *)
EXTENDS Resources

CONSTANTS w1, w2, s1, s2, e1, e2, e3

MCWorktreeOf == [s \in Sandboxes |-> IF s = s1 THEN w1 ELSE w2]
MCSandboxOf == [e \in Executions |-> IF e = e3 THEN s2 ELSE s1]
=============================================================================
