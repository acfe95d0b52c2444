------------------------------- MODULE Totals -------------------------------
(***************************************************************************)
(* Sums over a finite set, of what a function gives for its members.       *)
(***************************************************************************)
EXTENDS Integers, FiniteSetsExt

Total(w, S) == MapThenSumSet(LAMBDA x : w[x], S)
=============================================================================
