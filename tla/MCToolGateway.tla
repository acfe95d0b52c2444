--------------------------- MODULE MCToolGateway ---------------------------
(***************************************************************************)
(* Instances of ToolGateway for TLC.                                       *)
(***************************************************************************)
EXTENDS ToolGateway, TLC

CONSTANTS k1, k2, s1, d1, d2, u1, u2

OneKeyStage == (k1 :> "implementing")
OneKeyScope == (k1 :> s1)
ProbeAction == (k1 :> "probe")
FileAction == (k1 :> "file")
CommandAction == (k1 :> "command")

\* Two commands of one scope: the second may reuse what the first was granted.
TwoKeyStage == (k1 :> "implementing" @@ k2 :> "implementing")
TwoKeyScope == (k1 :> s1 @@ k2 :> s1)
TwoKeyAction == (k1 :> "command" @@ k2 :> "command")

\* Every call a driver begins ends (ToolGateway.execute).  Nothing tells the
\* drivers apart: what holds of one, whatever the other does, holds of each.
EveryCallEnds == CallsEnd(d1)

Symmetry == Permutations(Drivers)
=============================================================================
