--------------------------- MODULE DispatchLedger ---------------------------
(***************************************************************************)
(* What the gateway promises about the dispatch of tool calls: while the   *)
(* run is open a call may be claimed, once and for ever; what is claimed   *)
(* takes effect at most once; and an ended run opens no further claim.     *)
(* Nothing here says how the claim is decided or who holds it.             *)
(***************************************************************************)
EXTENDS Naturals

CONSTANT Calls

VARIABLES
  open,     \* the run has not ended
  claimed,  \* the calls that have an owner
  count     \* how often each call took effect

ledgerVars == <<open, claimed, count>>

Init == open = TRUE /\ claimed = {} /\ count = [c \in Calls |-> 0]

Claim(c) ==
  /\ open
  /\ c \notin claimed
  /\ claimed' = claimed \cup {c}
  /\ UNCHANGED <<open, count>>

TakeEffect(c) ==
  /\ c \in claimed
  /\ count[c] = 0
  /\ count' = [count EXCEPT ![c] = 1]
  /\ UNCHANGED <<open, claimed>>

Close == open = TRUE /\ open' = FALSE /\ UNCHANGED <<claimed, count>>

Next == (\E c \in Calls : Claim(c) \/ TakeEffect(c)) \/ Close

Spec == Init /\ [][Next]_ledgerVars
=============================================================================
