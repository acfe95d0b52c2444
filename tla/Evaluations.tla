---------------------------- MODULE Evaluations ----------------------------
(***************************************************************************)
(* The evaluation ledger and the execution store of one campaign           *)
(* (persistence/evaluations.py, persistence/evaluation_execution.py): its  *)
(* frozen slots, their permanent reservations, the outcome recorded for an *)
(* attempt that never ran, and the one run that an attempt may have.       *)
(*                                                                         *)
(* A reservation creates the identity of an attempt, and an attempt the    *)
(* identity of its run: all three are named by the slot.  The idempotency  *)
(* keys, which only tell a repeated reservation from a conflict, are left  *)
(* out: neither changes the ledger.                                        *)
(***************************************************************************)
EXTENDS RuntimeBudgets

CONSTANTS
  Slots,        \* the slots of the manifest, which are runs once they execute
  Results,      \* what may be recorded of an attempt before it runs
  Envelope      \* EvaluationCampaignBudget of the manifest

None == "none"

ASSUME CampaignAssumption ==
  /\ Slots \subseteq Runs
  /\ None \notin Results
  /\ Envelope \in [attempts : Nat \ {0}, tokens : Nat \ {0},
                   seconds : Nat \ {0}]

VARIABLES
  reserved,     \* the slots that are reserved, for good
  outcome,      \* the preflight outcome of each attempt
  execution     \* the execution record of each attempt
ledgerVars == <<reserved, outcome, execution>>

ExecutionStatus == {None, "active", "settled", "fenced"}

LedgerInit ==
  /\ reserved = {}
  /\ outcome = [s \in Slots |-> None]
  /\ execution = [s \in Slots |-> None]

Executed == {s \in Slots : execution[s] # None}

\* committed_envelopes: the budget of every case, whatever became of it.
Committed(amount) == Cardinality(reserved) * amount

\* A bug: the slot that is reserved is not counted.
CanReserveSlot_before(s) ==
  /\ s \notin reserved
  /\ Committed(1) <= Envelope.attempts
  /\ Committed(Limits.tokens) <= Envelope.tokens
  /\ Committed(Limits.seconds) <= Envelope.seconds

\* reserve: every reservation commits the whole budget of a case.
CanReserveSlot(s) ==
  /\ s \notin reserved
  /\ Committed(1) + 1 <= Envelope.attempts
  /\ Committed(Limits.tokens) + Limits.tokens <= Envelope.tokens
  /\ Committed(Limits.seconds) + Limits.seconds <= Envelope.seconds

ReserveSlot(s) ==
  /\ CanReserveSlot(s)
  /\ reserved' = reserved \cup {s}
  /\ UNCHANGED <<outcome, execution>>

\* record_preflight_outcome: refused once the attempt has an execution.
RecordPreflight(s, result) ==
  /\ s \in reserved
  /\ execution[s] = None
  /\ outcome[s] = None
  /\ outcome' = [outcome EXCEPT ![s] = result]
  /\ UNCHANGED <<reserved, execution>>

Overrun(amount, limit) == IF amount > limit THEN amount - limit ELSE 0

\* _admit_campaign: the accounts of every run of the campaign are complete, and
\* what they overran fits beside what is committed.
AdmitCampaign ==
  /\ \A s \in Executed : Complete(s)
  /\ Committed(Limits.tokens)
       + Total([s \in Slots |-> Overrun(Reported(s), Limits.tokens)], Executed)
     <= Envelope.tokens
  /\ Committed(Limits.seconds)
       + Total([s \in Slots |-> Overrun(seconds[s], Limits.seconds)], Executed)
     <= Envelope.seconds

\* _campaign_admission, before an attempt, a request and a tool batch.
Admitted(r) == r \in Slots => execution[r] = "active" /\ AdmitCampaign

\* A bug: the outcome of the attempt is not read again.
CanRegister_hurried(s) == s \in reserved /\ execution[s] = None /\ AdmitCampaign

\* register: one transaction checks again what its caller read, and inserts the run,
\* its budget and its claim.
CanRegister(s) ==
  /\ s \in reserved
  /\ execution[s] = None /\ outcome[s] = None
  /\ AdmitCampaign

\* settle, by the claim's holder.
CanSettle(s) ==
  execution[s] = "active" /\ status[s] \notin {"created", "running"}

Mark(s, mark) ==
  /\ execution' = [execution EXCEPT ![s] = mark]
  /\ UNCHANGED <<reserved, outcome>>
=============================================================================
