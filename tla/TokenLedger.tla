---------------------------- MODULE TokenLedger ----------------------------
(***************************************************************************)
(* What the runtime accounting promises about tokens: an account is drawn  *)
(* on only for what it still has; a draft is held until its response says  *)
(* what was used; and a draft whose response is not known is lost, which   *)
(* nothing undoes, and closes every account it shares a campaign with.     *)
(***************************************************************************)
EXTENDS Integers, Totals

CONSTANTS
  Drafts,     \* what tells one draft from another
  Accounts,
  Limit,      \* the tokens of an account
  Together,   \* Together[a]: the accounts that are closed by a loss on one of them
  Usage       \* what a response may report

VARIABLE drafts

Held(id, a, tokens) ==
  [id |-> id, account |-> a, tokens |-> tokens, fate |-> "held", used |-> 0]

Init == drafts = {}

\* What a draft costs: its whole amount, until a response says otherwise.
Cost(d) == IF d.fate = "reported" THEN d.used ELSE d.tokens

\* Negative after a response that reported more than its draft.
Drawn(a) == {d \in drafts : d.account = a}
Left(a) == Limit - Total([d \in Drawn(a) |-> Cost(d)], Drawn(a))

Draw(d) ==
  /\ d.id \in Drafts \ {e.id : e \in drafts}
  /\ d.account \in Accounts
  /\ \A e \in drafts : e.account \in Together[d.account] => e.fate # "lost"
  /\ d.tokens \in 1..Left(d.account)
  /\ d = Held(d.id, d.account, d.tokens)
  /\ drafts' = drafts \cup {d}

Report(d) ==
  /\ d.fate = "held"
  /\ \E used \in Usage :
       drafts' = (drafts \ {d}) \cup {[d EXCEPT !.fate = "reported", !.used = used]}

Lose(d) ==
  /\ d.fate = "held"
  /\ drafts' = (drafts \ {d}) \cup {[d EXCEPT !.fate = "lost"]}

Next ==
  \/ \E d \in drafts' \ drafts : Draw(d)
  \/ \E d \in drafts \ drafts' : Report(d) \/ Lose(d)

Spec == Init /\ [][Next]_drafts
=============================================================================
