--------------------------- MODULE GenerationLog ---------------------------
(***************************************************************************)
(* What a publication of an organization tree promises.  `shown` is the    *)
(* directory the repository has as its organization, `history` the         *)
(* generations that were committed, `fence` the one being published.  A    *)
(* generation appears whole, is committed only when it is there, and a     *)
(* publication is given up only while the last generation is still there:  *)
(* nothing that was shown is ever taken back.                              *)
(***************************************************************************)
EXTENDS Naturals, Sequences

CONSTANTS Generations, First, NoGeneration

VARIABLES history, fence, shown
logVars == <<history, fence, shown>>

LogInit == history = <<First>> /\ fence = NoGeneration /\ shown = First

\* The generation that was committed last.
Latest == history[Len(history)]

\* A generation is published at most once.
Open(g) ==
  /\ fence = NoGeneration
  /\ \A i \in 1..Len(history) : history[i] # g
  /\ fence' = g
  /\ UNCHANGED <<history, shown>>

Switch ==
  /\ fence # NoGeneration /\ shown = Latest
  /\ shown' = fence
  /\ UNCHANGED <<history, fence>>

Commit ==
  /\ fence # NoGeneration /\ shown = fence
  /\ history' = Append(history, fence)
  /\ fence' = NoGeneration
  /\ UNCHANGED shown

GiveUp ==
  /\ fence # NoGeneration /\ shown = Latest
  /\ fence' = NoGeneration
  /\ UNCHANGED <<history, shown>>

LogNext == (\E g \in Generations : Open(g)) \/ Switch \/ Commit \/ GiveUp

LogSpec == LogInit /\ [][LogNext]_logVars
=============================================================================
