CONSTANTS
  w1 = w1 w2 = w2 s1 = s1 s2 = s2 e1 = e1 e2 = e2 e3 = e3
  Worktrees = {w1}
  Sandboxes = {s1}
  Executions = {e1}
  WorktreeOf <- MCWorktreeOf
  SandboxOf <- MCSandboxOf
  Owner = owner
  Cancellers = {c1}
  Recoverers = {r1}
  NoRes = NoRes
SPECIFICATION Spec
INVARIANT NoContainerOutlivesItsWorktree
