------------------------------ MODULE Campaign ------------------------------
(***************************************************************************)
(* Runs at work under their budgets: the runs of one evaluation campaign,  *)
(* or an ordinary run, which two processes may resume and whose children   *)
(* share its budget (application/workflow.py, the runtime adapters).       *)
(*                                                                         *)
(* A client is a process that reserves slots, starts the reserved runs and *)
(* drives the agents of the run it started, one asyncio task per agent.    *)
(* Between two transactions it may die, another process may cancel the run *)
(* and a fence may end its claim.                                          *)
(***************************************************************************)
EXTENDS Integers, Evaluations

CONSTANTS
  Clients,
  Asked,        \* the tokens a request may ask for
  MaxCrashes    \* bound on the deaths of clients in one behaviour

ASSUME ClientAssumption == Asked \subseteq Nat /\ MaxCrashes \in Nat

VARIABLES
  client,     \* where each client is, and the run it works for
  task,       \* the task of each agent in each client
  crashes
vars == <<plan, status, agent, budgetVars, ledgerVars, client, task, crashes>>

Ordinary == Runs \ Slots
Idle == [at |-> "idle", run |-> None]
ClientAt == {"idle", "created", "registered", "resuming",
             "driving", "stopping", "settling"}

\* The run holds its claim, or drives it as an ordinary one.
Holding == {"registered", "driving", "stopping", "settling"}

Off == [at |-> "off", n |-> 0, seq |-> 0]
TaskAt == {"off", "invoked", "open", "reserved", "sent", "asked",
           "error", "closing_completed", "closing_paused", "closing_failed",
           "completed", "paused", "failed"}
TaskOver == {"off", "completed", "paused", "failed"}
Closing == [completed |-> "closing_completed", paused |-> "closing_paused",
            failed |-> "closing_failed"]

\* The runs of this behaviour: the campaign's, or an ordinary one.
Campaigning == \A a \in Agents : Payer(a) \in Slots
\* The runs that own a budget, in one plan or another.
Payers == {p.owner[p.home[a]] : p \in Plans, a \in Agents}

Root(r) == plan.owner[r] = r /\ \E a \in Agents : Payer(a) = r

Children(r) == {x \in Runs : plan.owner[x] = r} \ {r}
AgentsOf(r) == {a \in Agents : Payer(a) = r}

Init ==
  /\ plan \in Plans
  /\ status = [r \in Runs |-> "absent"]
  /\ agent = [a \in Agents |-> "new"]
  /\ BudgetInit
  /\ LedgerInit
  /\ client = [c \in Clients |-> Idle]
  /\ task = [c \in Clients |-> [a \in Agents |-> Off]]
  /\ crashes = 0

Goto(c, at, r) == client' = [client EXCEPT ![c] = [at |-> at, run |-> r]]
Save(r, s) == status' = [status EXCEPT ![r] = s]
Ends(c, end) == \E a \in AgentsOf(client[c].run) : task[c][a].at = end
TaskGoto(c, a, at) == task' = [task EXCEPT ![c][a].at = at]

-----------------------------------------------------------------------------
(* The ledger's callers.                                                   *)

Reserve(s) ==
  /\ Campaigning
  /\ ReserveSlot(s)
  /\ UNCHANGED <<plan, status, agent, budgetVars, client, task, crashes>>

Preflight(s, result) ==
  /\ RecordPreflight(s, result)
  /\ UNCHANGED <<plan, status, agent, budgetVars, client, task, crashes>>

\* execute_reserved, execute_evaluation and start, up to the registration.  Who
\* comes second is answered with the run and gets no claim.
Register(c, s) ==
  /\ client[c] = Idle
  /\ CanRegister(s)
  /\ Mark(s, "active")
  /\ Save(s, "created")
  /\ InitializeBudget({s})
  /\ Goto(c, "registered", s)
  /\ UNCHANGED <<plan, agent, attempts, requests, batches, simulated, seconds,
                 task, crashes>>

\* start of an ordinary run: the run and its budget are two transactions.
Create(c, r) ==
  /\ client[c] = Idle
  /\ r \in Ordinary /\ Root(r) /\ status[r] = "absent"
  /\ Save(r, "created")
  /\ Goto(c, "created", r)
  /\ UNCHANGED <<plan, agent, budgetVars, ledgerVars, task, crashes>>

GiveBudget(c) ==
  LET r == client[c].run IN
  /\ client[c].at = "created"
  /\ IF status[r] = "created"
     THEN InitializeBudget({r}) /\ Goto(c, "registered", r)
     ELSE UNCHANGED budgeted /\ client' = [client EXCEPT ![c] = Idle]
  /\ UNCHANGED <<plan, status, agent, attempts, requests, batches, simulated,
                 seconds, ledgerVars, task, crashes>>

\* A run that was cancelled meanwhile cannot be moved to RUNNING.
StartRun(c) ==
  LET r == client[c].run IN
  /\ client[c].at = "registered"
  /\ IF status[r] = "created"
     THEN Save(r, "running") /\ Goto(c, "driving", r)
     ELSE UNCHANGED status /\ client' = [client EXCEPT ![c] = Idle]
  /\ UNCHANGED <<plan, agent, budgetVars, ledgerVars, task, crashes>>

\* The children of a graph are inserted with their budgets, and started one by one.
Spawn(c) ==
  LET r == client[c].run IN
  /\ client[c].at = "driving" /\ status[r] = "running"
  /\ Children(r) # {} /\ \A x \in Children(r) : status[x] = "absent"
  /\ InitializeBudget(Children(r))
  /\ status' = [x \in Runs |-> IF x \in Children(r) THEN "created" ELSE status[x]]
  /\ UNCHANGED <<plan, agent, attempts, requests, batches, simulated, seconds,
                 ledgerVars, client, task, crashes>>

\* The driver starts a child, or goes on with one whose question is answered.
StartChild(c, x) ==
  /\ client[c].at = "driving" /\ x \in Children(client[c].run)
  /\ status[x] \in {"created", "paused"}
  /\ \A a \in Agents : plan.home[a] = x => task[c][a].at = "off"
  /\ Save(x, "running")
  /\ UNCHANGED <<plan, agent, budgetVars, ledgerVars, client, task, crashes>>

\* resume refuses the runs of a campaign, and a graph at work.  Any other run may
\* still have a driver.
ReadRun(c, r) ==
  /\ client[c] = Idle
  /\ r \in Ordinary /\ Root(r)
  /\ \/ status[r] = "paused"
     \/ status[r] = "running" /\ Children(r) = {}
  /\ Goto(c, "resuming", r)
  /\ UNCHANGED <<plan, status, agent, budgetVars, ledgerVars, task, crashes>>

\* The save of the resumed run compares nothing but the transition.
ResumeRun(c) ==
  LET r == client[c].run IN
  /\ client[c].at = "resuming"
  /\ IF status[r] \in {"paused", "running"}
     THEN Save(r, "running") /\ Goto(c, "driving", r)
     ELSE UNCHANGED status /\ client' = [client EXCEPT ![c] = Idle]
  /\ UNCHANGED <<plan, agent, budgetVars, ledgerVars, task, crashes>>

-----------------------------------------------------------------------------
(* One agent (_invoke_runtime_agent and the adapters).                     *)

Quiet == UNCHANGED <<plan, status, ledgerVars, client, crashes>>

\* The agents of one run work one after the other.  The agent is saved as RUNNING
\* before it is invoked, under the identity its run keeps: whatever is stored of
\* it, a driver that resumes the run invokes an agent again that failed, was
\* cancelled or completed under an earlier driver, or works under another one.
Invoke(c, a) ==
  /\ client[c] = [at |-> "driving", run |-> Payer(a)]
  /\ status[plan.home[a]] \notin {"absent", "created"}
  /\ task[c][a].at = "off"
  /\ \A b \in Agents : plan.home[b] = plan.home[a]
                      => task[c][b].at \in {"off", "completed"}
  /\ agent' = [agent EXCEPT ![a] = "running"]
  /\ TaskGoto(c, a, "invoked")
  /\ UNCHANGED budgetVars /\ Quiet

\* What is refused from here on fails the task (Fail).
BeginAttempt(c, a) ==
  /\ task[c][a].at = "invoked"
  /\ CanBegin(a) /\ Admitted(Payer(a))
  /\ Begin(a)
  /\ task' = [task EXCEPT ![c][a] =
                [at |-> "open", n |-> Len(attempts[a]) + 1, seq |-> 0]]
  /\ UNCHANGED agent /\ Quiet

AskModel(c, a, asked) ==
  LET n == task[c][a].n  seq == task[c][a].seq + 1 IN
  /\ task[c][a].at = "open" /\ a \notin plan.fake
  /\ CanReserve(a, n, seq, asked) /\ Admitted(Payer(a))
  /\ ReserveRequest(a, n, seq, asked)
  /\ task' = [task EXCEPT ![c][a] = [at |-> "reserved", n |-> n, seq |-> seq]]
  /\ UNCHANGED agent /\ Quiet

\* The remaining time is read after the reservation, in a transaction of its own.
SendRequest(c, a) ==
  /\ task[c][a].at = "reserved"
  /\ TimeRemains(a, task[c][a].n)
  /\ TaskGoto(c, a, "sent")
  /\ UNCHANGED <<agent, budgetVars>> /\ Quiet

\* An answer that ends the budget, or that nobody may record any more, is an error.
Answer(c, a, used) ==
  LET n == task[c][a].n  seq == task[c][a].seq IN
  /\ task[c][a].at = "sent"
  /\ IF CanRecord(a, n, seq)
     THEN /\ RecordResponse(a, n, seq, used)
          /\ TaskGoto(c, a, IF Reported(Payer(a)) + used > Limits.tokens
                            THEN "error" ELSE "open")
     ELSE TaskGoto(c, a, "error") /\ UNCHANGED budgetVars
  /\ UNCHANGED agent /\ Quiet

\* The request fails, or its time is over, or the task is cancelled, or its answer
\* reports no total.
LoseAnswer(c, a) ==
  /\ task[c][a].at \in {"reserved", "sent"}
  /\ RecordUnknown(a, task[c][a].n, task[c][a].seq)
  /\ TaskGoto(c, a, "error")
  /\ UNCHANGED agent /\ Quiet

CallTools(c, a) ==
  LET n == task[c][a].n  seq == task[c][a].seq IN
  /\ task[c][a].at = "open"
  /\ seq > 0 \/ [agent |-> a, n |-> n] \in simulated
  /\ CanBatch(a, n, seq) /\ Admitted(Payer(a))
  /\ ReserveBatch(a, n, seq)
  /\ UNCHANGED <<agent, task>> /\ Quiet

FakeStep(c, a) ==
  /\ task[c][a].at = "open"
  /\ CanSimulate(a, task[c][a].n)
  /\ Simulate(a, task[c][a].n)
  /\ UNCHANGED <<agent, task>> /\ Quiet

\* A tool asks for an approval: its request pauses the run, and the attempt is
\* finished in a later transaction.
AskApproval(c, a) ==
  /\ task[c][a].at = "open" /\ status[plan.home[a]] = "running"
  /\ Key(a, task[c][a].n, task[c][a].seq) \in batches
  /\ Save(plan.home[a], "paused")
  /\ TaskGoto(c, a, "asked")
  /\ UNCHANGED <<plan, agent, budgetVars, ledgerVars, client, crashes>>

\* Finishing the attempt and saving the agent are two transactions.
EndAttempt(c, a, end) ==
  /\ IF task[c][a].n = 0 THEN UNCHANGED budgetVars
                         ELSE FinishAttempt(a, task[c][a].n, end)
  /\ TaskGoto(c, a, Closing[end])
  /\ UNCHANGED agent /\ Quiet

Succeed(c, a) == task[c][a].at = "open" /\ EndAttempt(c, a, "completed")
Pause(c, a) == task[c][a].at = "asked" /\ EndAttempt(c, a, "paused")

\* The task is refused or fails, or is cancelled: another task of the run failed, or
\* the client is interrupted.
Fail(c, a) ==
  task[c][a].at \in {"invoked", "open", "error"} /\ EndAttempt(c, a, "failed")

CloseAgent(c, a) ==
  \E end \in {"completed", "paused", "failed"} :
    /\ task[c][a].at = Closing[end]
    /\ agent' = [agent EXCEPT ![a] = end]
    /\ TaskGoto(c, a, end)
    /\ UNCHANGED budgetVars /\ Quiet

-----------------------------------------------------------------------------
(* The end of a run.                                                       *)

\* Ctrl-C: the tasks are cancelled, and the run of a campaign with them.
Interrupt(c) ==
  /\ client[c].at = "driving"
  /\ Goto(c, "stopping", client[c].run)
  /\ UNCHANGED <<plan, status, agent, budgetVars, ledgerVars, task, crashes>>

Forget(c) == task' = [task EXCEPT ![c] = [a \in Agents |-> Off]]

\* The driver saves what its agents came to.  Questions leave the run paused, or
\* waiting for its children.  A failure that finds the run paused or ended saves
\* nothing, and then the claim is not settled.
EndRun(c) ==
  LET r == client[c].run
      pausing == Ends(c, "paused") /\ ~Ends(c, "failed")
      over == IF status[r] = "running" \/ (~Ends(c, "failed") /\ status[r] = "paused")
              THEN {x \in Children(r) \cup {r} : status[x] # "absent"} ELSE {}
  IN /\ client[c].at = "driving"
     /\ \A a \in AgentsOf(r) : task[c][a].at \in TaskOver
     /\ \E a \in AgentsOf(r) : task[c][a].at # "off"
     /\ IF pausing
        THEN /\ IF Children(r) # {} /\ status[r] = "running"
                THEN Save(r, "paused") ELSE UNCHANGED status
             /\ Goto(c, "settling", r)
        ELSE /\ status' = [x \in Runs |-> IF x \in over THEN "ended" ELSE status[x]]
             /\ IF over # {} THEN Goto(c, "settling", r)
                ELSE client' = [client EXCEPT ![c] = Idle]
     /\ Forget(c)
     /\ UNCHANGED <<plan, agent, budgetVars, ledgerVars, crashes>>

\* _cancel_evaluation_execution, if the claim is still the client's.
StopRun(c) ==
  LET r == client[c].run IN
  /\ client[c].at = "stopping"
  /\ \A a \in AgentsOf(r) : task[c][a].at \in TaskOver
  /\ IF r \in Slots /\ execution[r] = "active"
     THEN Save(r, "ended") /\ Goto(c, "settling", r)
     ELSE UNCHANGED status /\ client' = [client EXCEPT ![c] = Idle]
  /\ Forget(c)
  /\ UNCHANGED <<plan, agent, budgetVars, ledgerVars, crashes>>

Settle(c) ==
  LET s == client[c].run IN
  /\ client[c].at = "settling"
  /\ client' = [client EXCEPT ![c] = Idle]
  /\ IF s \in Slots /\ CanSettle(s) THEN Mark(s, "settled")
     ELSE UNCHANGED ledgerVars
  /\ UNCHANGED <<plan, status, agent, budgetVars, task, crashes>>

\* Another process cancels a run, and then the children it had.
CancelRuns(S) ==
  /\ \E r \in S : status[r] \in {"created", "running", "paused"}
  /\ status' = [r \in Runs |-> IF r \in S /\ status[r] # "absent" THEN "ended"
                               ELSE status[r]]
  /\ UNCHANGED <<plan, agent, budgetVars, ledgerVars, client, task, crashes>>

Cancel(r) ==
  /\ plan.owner[r] = r
  /\ \/ CancelRuns({r})
     \/ status[r] = "ended" /\ CancelRuns(Children(r))

\* fence: the claim is over, whatever its holder does.
Fence(s) ==
  /\ execution[s] = "active"
  /\ Mark(s, "fenced")
  /\ UNCHANGED <<plan, status, agent, budgetVars, client, task, crashes>>

\* The process dies with its tasks and its claim; nothing is finished for it.
Die(c) ==
  /\ crashes < MaxCrashes
  /\ client[c] # Idle
  /\ crashes' = crashes + 1
  /\ client' = [client EXCEPT ![c] = Idle]
  /\ Forget(c)
  /\ UNCHANGED <<plan, status, agent, budgetVars, ledgerVars>>

TimePasses ==
  /\ Tick
  /\ UNCHANGED <<plan, status, agent, ledgerVars, client, task, crashes>>

Next ==
  \/ \E s \in Slots : Reserve(s) \/ Fence(s)
  \/ \E s \in Slots, x \in Results : Preflight(s, x)
  \/ \E c \in Clients, s \in Slots : Register(c, s)
  \/ \E c \in Clients, r \in Runs : Create(c, r) \/ ReadRun(c, r)
  \/ \E c \in Clients : GiveBudget(c) \/ StartRun(c)
                        \/ ResumeRun(c) \/ Spawn(c) \/ Interrupt(c)
                        \/ EndRun(c) \/ StopRun(c) \/ Settle(c) \/ Die(c)
  \/ \E c \in Clients, x \in Runs : StartChild(c, x)
  \/ \E c \in Clients, a \in Agents :
       \/ Invoke(c, a) \/ BeginAttempt(c, a) \/ SendRequest(c, a)
       \/ LoseAnswer(c, a)
       \/ CallTools(c, a) \/ FakeStep(c, a) \/ AskApproval(c, a)
       \/ Succeed(c, a) \/ Pause(c, a) \/ Fail(c, a) \/ CloseAgent(c, a)
       \/ \E asked \in Asked : AskModel(c, a, asked)
       \/ \E used \in Usage : Answer(c, a, used)
  \/ \E r \in Runs : Cancel(r)
  \/ TimePasses

Spec == Init /\ [][Next]_vars

(***************************************************************************)
(* Properties.                                                             *)
(***************************************************************************)
\* Every variable has its type.
TypeOK ==
  /\ plan \in Plans
  /\ status \in [Runs -> RunStatus]
  /\ agent \in [Agents -> AgentStatus]
  /\ budgeted \subseteq Runs
  /\ attempts \in [Agents -> Seq(AttemptStatus)]
  /\ \A q \in requests :
       /\ q.key.n \in DOMAIN attempts[q.key.agent]
       /\ q.allowance \in 1..Limits.tokens /\ q.used \in Usage \cup {0}
       /\ q.outcome \in {"reserved", "reported", "unknown"}
  /\ \A p, q \in requests : p.key = q.key => p = q
  /\ \A b \in batches : b.n \in DOMAIN attempts[b.agent]
  /\ \A s \in simulated : s.agent \in plan.fake
  /\ seconds \in [Runs -> 0..MaxSeconds]
  /\ reserved \subseteq Slots
  /\ outcome \in [Slots -> Results \cup {None}]
  /\ execution \in [Slots -> ExecutionStatus]
  /\ client \in [Clients -> [at : ClientAt, run : Runs \cup {None}]]
  /\ \A c \in Clients, a \in Agents :
       task[c][a].at \in TaskAt /\ task[c][a].n \in 0..Len(attempts[a])
  /\ crashes \in 0..MaxCrashes

\* What every request of a run may have cost: what its response reported, or all
\* it was allowed when that is not known.
Exposure(r) == Reported(r) + Reserved(r) + Unknown(r)
Overshoot(r) ==
  LET S == Outcome(r, "reported")
  IN  Total([q \in S |-> Overrun(q.used, q.allowance)], S)

\* No interleaving of the agents, of the children of a graph and of the runs of a
\* campaign spends more than the frozen budgets: an owner stays within its limits,
\* and the campaign, with all that its reserved slots may still spend, within its
\* envelope, but for what single responses report beyond their own allowance.  A
\* response that is lost keeps its whole allowance.
SpendingIsCovered ==
  /\ \A r \in Payers :
       /\ Exposure(r) <= Limits.tokens + Overshoot(r)
       /\ Cardinality(RequestsOf(r)) <= Limits.requests
       /\ ToolCalls(r) <= Limits.tools
       /\ Invocations(r) <= Limits.invocations
  /\ Total([s \in reserved |-> Max({Limits.tokens, Exposure(s)})], reserved)
       <= Envelope.tokens + Total([s \in reserved |-> Overshoot(s)], reserved)

\* An attempt of a campaign is either run or reported as not run, by one client
\* that holds its claim; and two processes that drive one run never both have
\* one of its agents at work.
OneOwner ==
  /\ \A s \in Slots :
       /\ execution[s] # None => outcome[s] = None /\ s \in budgeted
       /\ Cardinality({c \in Clients : client[c].run = s /\ client[c].at \in Holding}) <= 1
  /\ \A a \in Agents :
       Cardinality({c \in Clients : task[c][a].at \in {"open", "reserved", "sent"}
                      /\ attempts[a][task[c][a].n] = "running"}) <= 1

\* The requests of all owners implement the abstract ledger: nothing is drawn that
\* is not left, a lost draft never comes back, not by a retry, a resume, a crash or
\* the end of the attempt, and it closes its run and its campaign.
Fate == [reserved |-> "held", reported |-> "reported", unknown |-> "lost"]

Ledger == INSTANCE TokenLedger WITH
  Drafts <- [agent : Agents, n : 1..Limits.invocations, seq : 1..Limits.requests],
  Accounts <- Payers,
  Limit <- Limits.tokens,
  Together <- [r \in Payers |-> IF r \in Slots THEN Slots ELSE {r}],
  drafts <- {[id |-> q.key, account |-> Payer(q.key.agent), tokens |-> q.allowance,
              fate |-> Fate[q.outcome], used |-> q.used] : q \in requests}
TokenLedgerSpec == Ledger!Spec
=============================================================================
