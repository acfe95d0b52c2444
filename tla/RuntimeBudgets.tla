--------------------------- MODULE RuntimeBudgets ---------------------------
(***************************************************************************)
(* The durable runtime accounting of runs (persistence/runtime_budgets.py):*)
(* attempts of agents, model requests with their token allowances, tool    *)
(* batches and simulated steps, all charged to the run that owns the       *)
(* budget: the run itself, or the parent of a child run of a graph.  Every *)
(* operation is one IMMEDIATE transaction, which reads the rows of the run *)
(* and of the agent that their drivers write.                              *)
(*                                                                         *)
(* Time is counted in units that pass for every attempt that is RUNNING.   *)
(***************************************************************************)
EXTENDS Naturals, Sequences, Totals

CONSTANTS
  Agents, Runs,
  Plans,        \* each agent's run and max_steps, each run's owner, the fake agents
  Limits,       \* RunBudgetLimits of every run
  Usage,        \* the totals a response may report
  MaxSeconds    \* bound on the time counted for one run

RunStatus == {"absent", "created", "running", "paused", "ended"}
AgentStatus == {"new", "running", "paused", "completed", "failed"}

ASSUME BudgetAssumption ==
  /\ Plans \subseteq [home : [Agents -> Runs], owner : [Runs -> Runs],
                      fake : SUBSET Agents,
                      steps : [Agents -> Nat \ {0}]]
  /\ Limits \in [invocations : Nat \ {0}, requests : Nat \ {0},
                 tools : Nat, tokens : Nat \ {0}, seconds : Nat \ {0}]
  /\ Usage \subseteq Nat /\ MaxSeconds \in Nat
  /\ IsFiniteSet(Agents)

VARIABLES
  plan,       \* the runs and agents of this behaviour
  status,     \* the stored status of each run
  agent,      \* the stored status of each agent instance
  budgeted,   \* the runs whose budget is initialised
  attempts,   \* the attempts of each agent, oldest first
  requests,   \* the model requests that were reserved
  batches,    \* the tool batches, one call each
  simulated,  \* the attempts of fake agents that made their one step
  seconds     \* the active seconds of each run
budgetVars == <<budgeted, attempts, requests, batches, simulated, seconds>>

\* An attempt that was cancelled is stored as one that failed is, under another name.
AttemptStatus == {"running", "completed", "paused", "failed"}

Payer(a) == plan.owner[plan.home[a]]

Key(a, n, seq) == [agent |-> a, n |-> n, seq |-> seq]

Reservation(a, n, seq, allowance) ==
  [key |-> Key(a, n, seq), allowance |-> allowance, outcome |-> "reserved",
   used |-> 0]

BudgetInit ==
  /\ budgeted = {}
  /\ attempts = [a \in Agents |-> << >>]
  /\ requests = {} /\ batches = {} /\ simulated = {}
  /\ seconds = [r \in Runs |-> 0]

-----------------------------------------------------------------------------
(* The snapshot of a budget.                                               *)

RequestsOf(r) == {q \in requests : Payer(q.key.agent) = r}
Outcome(r, outcome) == {q \in RequestsOf(r) : q.outcome = outcome}
Allowed(S) == Total([q \in S |-> q.allowance], S)
Used(S) == Total([q \in S |-> q.used], S)

Reported(r) == Used(Outcome(r, "reported"))
Reserved(r) == Allowed(Outcome(r, "reserved"))

Unknown(r) == Allowed(Outcome(r, "unknown"))
ToolCalls(r) == Cardinality({b \in batches : Payer(b.agent) = r})
Invocations(r) ==
  Total([a \in Agents |-> Len(attempts[a])], {a \in Agents : Payer(a) = r})

\* _steps: of one agent, over all its attempts.
Steps(a) == Cardinality({q \in requests : q.key.agent = a})
            + Cardinality({s \in simulated : s.agent = a})

\* A bug: a request of unknown outcome does not make the accounts incomplete.
Complete_lenient(r) == r \in budgeted

Complete(r) == r \in budgeted /\ Outcome(r, "unknown") = {}

\* _operational
Operational(r) == Complete(r) /\ seconds[r] < Limits.seconds

\* _active: the attempt, its run and its agent are all running.
Active(a, n) ==
  /\ n \in DOMAIN attempts[a] /\ attempts[a][n] = "running"
  /\ status[plan.home[a]] = "running"
  /\ agent[a] = "running"

-----------------------------------------------------------------------------
(* The operations: when they are accepted, and what they write.            *)

\* _initialize_run_in_transaction, of a run that has no budget yet: a child shares
\* the one its parent has.
InitializeBudget(S) ==
  /\ \A r \in S : plan.owner[r] = r \/ plan.owner[r] \in budgeted
  /\ budgeted' = budgeted \cup S

\* A bug: an agent that already works is begun again.
CanBegin_again(a) ==
  LET r == Payer(a) IN
  /\ status[plan.home[a]] = "running" /\ agent[a] = "running"
  /\ Operational(r)
  /\ Invocations(r) < Limits.invocations
  /\ Steps(a) < plan.steps[a]

\* begin_attempt
CanBegin(a) ==
  LET r == Payer(a) IN
  /\ status[plan.home[a]] = "running" /\ agent[a] = "running"
  /\ \A n \in DOMAIN attempts[a] : attempts[a][n] # "running"
  /\ Operational(r)
  /\ Invocations(r) < Limits.invocations
  /\ Steps(a) < plan.steps[a]

\* A bug: a new attempt takes the place of the one before it.
Begin_replacing(a) ==
  /\ attempts' = [attempts EXCEPT ![a] = <<"running">>]
  /\ UNCHANGED <<budgeted, requests, batches, simulated, seconds>>

Begin(a) ==
  /\ attempts' = [attempts EXCEPT ![a] = Append(@, "running")]
  /\ UNCHANGED <<budgeted, requests, batches, simulated, seconds>>

\* A bug: what is reserved but not answered yet is not subtracted.
Allowance_optimistic(r, asked) ==
  IF Reported(r) + Unknown(r) >= Limits.tokens THEN 0
  ELSE Min({asked, Limits.tokens - Reported(r) - Unknown(r)})

\* What a request may spend: never more than is left of the budget.
Allowance(r, asked) ==
  IF Reported(r) + Reserved(r) + Unknown(r) >= Limits.tokens THEN 0
  ELSE Min({asked, Limits.tokens - Reported(r) - Reserved(r) - Unknown(r)})

\* reserve_request: a stored reservation is never an authority to send again.
CanReserve(a, n, seq, asked) ==
  LET r == Payer(a) IN
  /\ Active(a, n)
  /\ \A q \in requests : q.key # Key(a, n, seq)
  /\ Operational(r)
  /\ Allowance(r, asked) > 0
  /\ Cardinality(RequestsOf(r)) < Limits.requests
  /\ Steps(a) < plan.steps[a]

ReserveRequest(a, n, seq, asked) ==
  /\ requests' = requests \cup
       {Reservation(a, n, seq, Allowance(Payer(a), asked))}
  /\ UNCHANGED <<budgeted, attempts, batches, simulated, seconds>>

\* Replaces the accounting of the requests of one attempt that are reserved.
Settled(S, outcome, used) ==
  (requests \ S) \cup {[q EXCEPT !.outcome = outcome, !.used = used] : q \in S}

Pending(a, n) == {q \in requests : q.key.agent = a /\ q.key.n = n
                                   /\ q.outcome = "reserved"}

\* record_response, of usage that reports a total.  An overshoot is recorded, and
\* the caller is stopped.
CanRecord(a, n, seq) ==
  /\ \E q \in Pending(a, n) : q.key.seq = seq
  /\ attempts[a][n] = "running"

RecordResponse(a, n, seq, used) ==
  /\ requests' = Settled({q \in Pending(a, n) : q.key.seq = seq},
                         "reported", used)
  /\ UNCHANGED <<budgeted, attempts, batches, simulated, seconds>>

\* record_unknown, and record_response of usage without a total: without effect on
\* a request that is settled.
RecordUnknown(a, n, seq) ==
  /\ requests' = Settled({q \in Pending(a, n) : q.key.seq = seq}, "unknown", 0)
  /\ UNCHANGED <<budgeted, attempts, batches, simulated, seconds>>

\* reserve_tool_batch
CanBatch(a, n, seq) ==
  LET r == Payer(a) IN
  /\ Active(a, n)
  /\ Key(a, n, seq) \notin batches
  /\ Operational(r)
  /\ ToolCalls(r) < Limits.tools
  /\ Reported(r) < Limits.tokens

ReserveBatch(a, n, seq) ==
  /\ batches' = batches \cup {Key(a, n, seq)}
  /\ UNCHANGED <<budgeted, attempts, requests, simulated, seconds>>

\* record_simulated_step
CanSimulate(a, n) ==
  /\ a \in plan.fake
  /\ Active(a, n)
  /\ [agent |-> a, n |-> n] \notin simulated
  /\ Operational(Payer(a))
  /\ Steps(a) < plan.steps[a]

Simulate(a, n) ==
  /\ simulated' = simulated \cup {[agent |-> a, n |-> n]}
  /\ UNCHANGED <<budgeted, attempts, requests, batches, seconds>>

\* remaining_active_seconds answers, or refuses.
TimeRemains(a, n) == Active(a, n) /\ Operational(Payer(a))

\* finish: what the attempt still has in flight becomes unknown.  An attempt that
\* is over is left as it is.
FinishAttempt(a, n, final) ==
  IF attempts[a][n] = "running"
  THEN /\ attempts' = [attempts EXCEPT ![a][n] = final]
       /\ requests' = Settled(Pending(a, n), "unknown", 0)
       /\ UNCHANGED <<budgeted, batches, simulated, seconds>>
  ELSE UNCHANGED budgetVars

\* The clock.
Tick ==
  LET working(r) == {a \in Agents : Payer(a) = r
                       /\ \E n \in DOMAIN attempts[a] : attempts[a][n] = "running"}
  IN /\ \E r \in Runs : working(r) # {} /\ seconds[r] < MaxSeconds
     /\ seconds' = [r \in Runs |->
                      Min({MaxSeconds, seconds[r] + Cardinality(working(r))})]
     /\ UNCHANGED <<budgeted, attempts, requests, batches, simulated>>
=============================================================================
