--------------------------- MODULE MCPublication ---------------------------
(* Small instances of Publication: a file that the configuration reads and  *)
(* one that it does not.                                                   *)
EXTENDS Publication, TLC

CONSTANTS rules, readme

MCFiles == {rules, readme}
MCBase == {rules}
MCTrees == {{rules}, {rules, readme}}
OpSymmetry == Permutations(Ops)
=============================================================================
