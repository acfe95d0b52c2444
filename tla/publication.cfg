CONSTANTS
  rules = rules
  readme = readme
  Proposals = {p1, p2}
  Ops = {o1, o2}
  Runs = {r1}
  Files <- MCFiles
  Note = note
  Declared <- MCBase
  Base <- MCBase
  Trees <- MCTrees
  Sources = {clean, dirty}
  Clean = {clean}
  Origin = origin
  None = None
  Empty = Empty
SPECIFICATION Spec
SYMMETRY OpSymmetry
INVARIANTS
  TypeOK FleetIsOneGeneration UserEditsStay ActiveRunsAreCurrent
  AppliedUnderOwnGeneration AlwaysRecoverable JournalAndVersionsAgree
PROPERTIES GenerationsSpec
