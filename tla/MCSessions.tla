----------------------------- MODULE MCSessions -----------------------------
(* Two turns of one conversation and two processes, or one turn, or an     *)
(* ordinary run, and three of them: there, one that dies is one that does  *)
(* not move any more.                                                      *)
EXTENDS Sessions, TLC

MCShapes ==
  {[chat |-> TRUE, procs |-> Procs \ {p}, turns |-> 2, crashes |-> 1] : p \in Procs}
  \cup {[chat |-> b, procs |-> Procs, turns |-> 1, crashes |-> 0] : b \in BOOLEAN}

Symmetric == {x @@ y : x \in Permutations(Procs), y \in Permutations(Keys)}
=============================================================================
