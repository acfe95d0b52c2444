----------------------------- MODULE MCBaseline -----------------------------
(***************************************************************************)
(* One session and two command lines: whoever claims, somebody else may    *)
(* recover, and a third may recover it from that one.                      *)
(***************************************************************************)
EXTENDS Baseline, TLC

CONSTANTS s, c1, c2

Symmetry == Permutations({c1, c2})
=============================================================================
