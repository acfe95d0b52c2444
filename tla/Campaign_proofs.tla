-------------------------- MODULE Campaign_proofs --------------------------
(***************************************************************************)
(* What the accounts of runs at work promise, for any agents, runs, plans, *)
(* limits, answers, interleavings and deaths: the types, that spending is  *)
(* covered by the budgets, that one owner works, and that the requests     *)
(* implement the abstract ledger of tokens.                                *)
(***************************************************************************)
EXTENDS Campaign, Totals_proofs

Id == [agent : Agents, n : Nat, seq : Nat]
Outcomes == {"reserved", "reported", "unknown"}
Request == [key : Id, allowance : 1..Limits.tokens, outcome : Outcomes,
            used : Usage \cup {0}]

\* Where a task has a request that is reserved.
Waits == {"reserved", "sent"}

(***************************************************************************)
(* The inductive invariant.                                                *)
(***************************************************************************)
RunTypes ==
  /\ plan \in Plans
  /\ status \in [Runs -> RunStatus]
  /\ agent \in [Agents -> AgentStatus]
  /\ seconds \in [Runs -> 0..MaxSeconds]
  /\ crashes \in 0..MaxCrashes

ClaimTypes ==
  /\ budgeted \subseteq Runs
  /\ reserved \subseteq Slots /\ IsFiniteSet(reserved)
  /\ outcome \in [Slots -> Results \cup {None}]
  /\ execution \in [Slots -> ExecutionStatus]
  /\ client \in [Clients -> [at : ClientAt, run : Runs \cup {None}]]

AccountTypes ==
  /\ attempts \in [Agents -> Seq(AttemptStatus)]
  /\ requests \subseteq Request /\ IsFiniteSet(requests)
  /\ batches \subseteq Id /\ IsFiniteSet(batches)
  /\ simulated \subseteq [agent : plan.fake, n : Nat]

TaskTypes ==
  task \in [Clients -> [Agents -> [at : TaskAt, n : Nat, seq : Nat]]]

Types == RunTypes /\ ClaimTypes /\ AccountTypes /\ TaskTypes

\* What is charged to an attempt is charged once, and the attempt exists.
Charged ==
  /\ \A q \in requests :
       /\ q.key.n \in DOMAIN attempts[q.key.agent]
       /\ q.outcome = "reserved" => q.used = 0
  /\ \A p, q \in requests : p.key = q.key => p = q
  /\ \A b \in batches : b.n \in DOMAIN attempts[b.agent]

Spends(r) ==
  /\ Exposure(r) <= Limits.tokens + Overshoot(r)
  /\ Cardinality(RequestsOf(r)) <= Limits.requests

\* Every owner is within its limits, and the campaign within its envelope.
Within ==
  \A r \in Runs :
    /\ Spends(r)
    /\ ToolCalls(r) <= Limits.tools
    /\ Invocations(r) <= Limits.invocations

Enveloped == Limits.tokens * Cardinality(reserved) <= Envelope.tokens

\* A claim is given once, to one client, and never for an attempt that was reported
\* as not run.
Claimed ==
  /\ \A s \in Slots : execution[s] # None => outcome[s] = None /\ s \in budgeted
  /\ \A c \in Clients :
       LET r == client[c].run IN
       /\ client[c].at # "idle" => r \in Runs
       /\ client[c].at \in {"created", "resuming"} => r \notin Slots
       /\ client[c].at \in Holding /\ r \in Slots => execution[r] # None
       /\ \A d \in Clients \ {c} :
            (client[c].at \in Holding /\ client[d].at \in Holding /\ r \in Slots)
              => client[d].run # r

\* What a campaign was charged for, it executes.
Registered ==
  \A q \in requests : Payer(q.key.agent) \in Slots => execution[Payer(q.key.agent)] # None

\* An agent has one attempt that runs, and an attempt one task.
OneAttempt ==
  /\ \A a \in Agents : \A m, n \in DOMAIN attempts[a] :
       attempts[a][m] = "running" /\ attempts[a][n] = "running" => m = n
  /\ \A c, d \in Clients, a \in Agents :
       c # d /\ task[c][a].n = task[d][a].n => task[c][a].n = 0

\* What a task knows of its attempt: that it runs while the task works, the requests it
\* made, and that none is reserved but the one it waits for.
OwnTask(c, a) ==
  LET t == task[c][a] IN
  /\ t.n <= Len(attempts[a])
  /\ t.at \in Waits \cup {"open"} => t.n # 0 /\ attempts[a][t.n] = "running"
  /\ \A k \in 1..t.seq : \E q \in requests : q.key = Key(a, t.n, k)
  /\ \A q \in requests :
       (q.key.agent = a /\ q.key.n = t.n /\ q.outcome = "reserved")
         => t.at \in Waits /\ q.key.seq = t.seq

OwnTasks == \A c \in Clients, a \in Agents : OwnTask(c, a)

Inv ==
  /\ Types /\ Charged /\ Within /\ Enveloped
  /\ Claimed /\ Registered /\ OneAttempt /\ OwnTasks

-----------------------------------------------------------------------------
(***************************************************************************)
(* The accounts.                                                           *)
(***************************************************************************)
LEMMA LimitTypes ==
  /\ Limits.invocations \in Nat /\ Limits.requests \in Nat /\ Limits.tools \in Nat
  /\ Limits.tokens \in Nat /\ Limits.tokens > 0 /\ Envelope.tokens \in Nat
BY BudgetAssumption, CampaignAssumption

LEMMA PayerTypes ==
  ASSUME plan \in Plans
  PROVE  /\ \A a \in Agents : Payer(a) \in Runs /\ Payer(a) \in Payers
         /\ plan.fake \subseteq Agents
BY BudgetAssumption DEF Payer, Payers

\* The sum when a member comes in, where the weights of the others stay.
LEMMA AddValue ==
  ASSUME NEW S, IsFiniteSet(S), NEW x, x \notin S, NEW T, T = S \cup {x}, NEW w, NEW v,
         \A y \in S : w[y] = v[y], \A y \in T : v[y] \in Int
  PROVE  Total(v, T) = Total(w, S) + v[x]
<1>1. Total(v, T) = Total(v, S) + v[x]
  BY TotalAdd
<1>2. Total(w, S) = Total(v, S)
  BY TotalSame
<1> QED
  BY <1>1, <1>2

\* What the responses of some requests took beyond what they were allowed.
Over(S) == Total([q \in S |-> Overrun(q.used, q.allowance)], S)

LEMMA RequestTypes ==
  ASSUME NEW q \in Request
  PROVE  /\ q.allowance \in Nat /\ q.used \in Nat /\ Overrun(q.used, q.allowance) \in Nat
         /\ q.used <= q.allowance + Overrun(q.used, q.allowance)
<1>1. q.allowance \in Nat /\ q.used \in Nat
  <2>1. q.allowance \in 1..Limits.tokens /\ q.used \in Usage \cup {0}
    BY DEF Request
  <2>2. q.allowance \in Nat
    BY <2>1, LimitTypes
  <2>3. Usage \cup {0} \subseteq Nat
    BY BudgetAssumption
  <2> QED
    BY <2>1, <2>2, <2>3
<1> QED
  BY <1>1 DEF Overrun

LEMMA SumTypes ==
  ASSUME NEW S, IsFiniteSet(S), S \subseteq Request
  PROVE  Allowed(S) \in Nat /\ Used(S) \in Nat /\ Over(S) \in Nat
<1>1. Allowed(S) \in Nat
  <2> DEFINE w == [q \in S |-> q.allowance]
  <2>1. \A q \in S : w[q] \in Nat
    BY RequestTypes
  <2> HIDE DEF w
  <2>2. Total(w, S) \in Nat
    BY <2>1, TotalNat
  <2> QED
    BY <2>2 DEF Allowed, w
<1>2. Used(S) \in Nat
  <2> DEFINE w == [q \in S |-> q.used]
  <2>1. \A q \in S : w[q] \in Nat
    BY RequestTypes
  <2> HIDE DEF w
  <2>2. Total(w, S) \in Nat
    BY <2>1, TotalNat
  <2> QED
    BY <2>2 DEF Used, w
<1>3. Over(S) \in Nat
  <2> DEFINE w == [q \in S |-> Overrun(q.used, q.allowance)]
  <2>1. \A q \in S : w[q] \in Nat
    BY RequestTypes
  <2> HIDE DEF w
  <2>2. Total(w, S) \in Nat
    BY <2>1, TotalNat
  <2> QED
    BY <2>2 DEF Over, w
<1> QED
  BY <1>1, <1>2, <1>3

LEMMA SumAdd ==
  ASSUME NEW S, IsFiniteSet(S), S \subseteq Request, NEW p \in Request, p \notin S
  PROVE  /\ Allowed(S \cup {p}) = Allowed(S) + p.allowance
         /\ Used(S \cup {p}) = Used(S) + p.used
         /\ Over(S \cup {p}) = Over(S) + Overrun(p.used, p.allowance)
<1>0. PICK T : T = S \cup {p}
  OBVIOUS
<1>1. Allowed(S \cup {p}) = Allowed(S) + p.allowance
  <2> DEFINE w == [q \in S |-> q.allowance]
             v == [q \in T |-> q.allowance]
  <2>1. /\ \A y \in S : w[y] = v[y]
        /\ \A y \in T : v[y] \in Int
        /\ v[p] = p.allowance
    BY <1>0, RequestTypes
  <2> HIDE DEF w, v
  <2>2. Total(v, T) = Total(w, S) + v[p]
    BY <1>0, <2>1, AddValue
  <2> QED
    BY <1>0, <2>1, <2>2 DEF Allowed, w, v
<1>2. Used(S \cup {p}) = Used(S) + p.used
  <2> DEFINE w == [q \in S |-> q.used]
             v == [q \in T |-> q.used]
  <2>1. /\ \A y \in S : w[y] = v[y]
        /\ \A y \in T : v[y] \in Int
        /\ v[p] = p.used
    BY <1>0, RequestTypes
  <2> HIDE DEF w, v
  <2>2. Total(v, T) = Total(w, S) + v[p]
    BY <1>0, <2>1, AddValue
  <2> QED
    BY <1>0, <2>1, <2>2 DEF Used, w, v
<1>3. Over(S \cup {p}) = Over(S) + Overrun(p.used, p.allowance)
  <2> DEFINE w == [q \in S |-> Overrun(q.used, q.allowance)]
             v == [q \in T |-> Overrun(q.used, q.allowance)]
  <2>1. /\ \A y \in S : w[y] = v[y]
        /\ \A y \in T : v[y] \in Int
        /\ v[p] = Overrun(p.used, p.allowance)
    BY <1>0, RequestTypes
  <2> HIDE DEF w, v
  <2>2. Total(v, T) = Total(w, S) + v[p]
    BY <1>0, <2>1, AddValue
  <2> QED
    BY <1>0, <2>1, <2>2 DEF Over, w, v
<1> QED
  BY <1>1, <1>2, <1>3

LEMMA SumRemove ==
  ASSUME NEW S, IsFiniteSet(S), S \subseteq Request, NEW p \in S
  PROVE  Allowed(S) = Allowed(S \ {p}) + p.allowance
<1>1. /\ IsFiniteSet(S \ {p}) /\ S \ {p} \subseteq Request /\ p \in Request
      /\ p \notin S \ {p} /\ (S \ {p}) \cup {p} = S
  BY FS_RemoveElement
<1>2. Allowed((S \ {p}) \cup {p}) = Allowed(S \ {p}) + p.allowance
  BY <1>1, SumAdd
<1> QED
  BY <1>1, <1>2

\* The requests of an owner.
LEMMA OwnerSets ==
  ASSUME requests \subseteq Request, IsFiniteSet(requests), NEW r
  PROVE  /\ RequestsOf(r) \subseteq Request /\ IsFiniteSet(RequestsOf(r))
         /\ Cardinality(RequestsOf(r)) \in Nat
         /\ \A o : Outcome(r, o) \subseteq Request /\ IsFiniteSet(Outcome(r, o))
<1>1. RequestsOf(r) \subseteq requests /\ \A o : Outcome(r, o) \subseteq requests
  BY DEF RequestsOf, Outcome
<1> QED
  BY <1>1, FS_Subset, FS_CardinalityType

LEMMA OwnerSums ==
  ASSUME requests \subseteq Request, IsFiniteSet(requests), NEW r
  PROVE  /\ Reported(r) \in Nat /\ Reserved(r) \in Nat /\ Unknown(r) \in Nat
         /\ Overshoot(r) \in Nat /\ Exposure(r) \in Nat
         /\ Overshoot(r) = Over(Outcome(r, "reported"))
         /\ Exposure(r) = Reported(r) + Reserved(r) + Unknown(r)
<1>1. /\ Reported(r) \in Nat /\ Reserved(r) \in Nat /\ Unknown(r) \in Nat
      /\ Over(Outcome(r, "reported")) \in Nat
  BY OwnerSets, SumTypes DEF Reported, Reserved, Unknown
<1>2. Overshoot(r) = Over(Outcome(r, "reported"))
  BY DEF Overshoot, Over
<1> QED
  BY <1>1, <1>2 DEF Exposure

\* A new request within what is left.
LEMMA SpendsMore ==
  ASSUME requests \subseteq Request, IsFiniteSet(requests), NEW p \in Request,
         p.outcome = "reserved", p \notin requests, requests' = requests \cup {p}, plan' = plan,
         p.allowance + Exposure(Payer(p.key.agent)) <= Limits.tokens,
         Cardinality(RequestsOf(Payer(p.key.agent))) < Limits.requests,
         NEW r, Spends(r)
  PROVE  Spends(r)'
<1>1. CASE r # Payer(p.key.agent)
  <2>1. RequestsOf(r)' = RequestsOf(r)
    BY <1>1 DEF RequestsOf, Payer
  <2> QED
    BY <2>1 DEF Spends, Exposure, Overshoot, Reported, Reserved, Unknown, Outcome
<1>2. CASE r = Payer(p.key.agent)
  <2>1. RequestsOf(r)' = RequestsOf(r) \cup {p} /\ p \notin RequestsOf(r)
    BY <1>2 DEF RequestsOf, Payer
  <2>2. /\ Outcome(r, "reserved")' = Outcome(r, "reserved") \cup {p}
        /\ p \notin Outcome(r, "reserved")
        /\ Outcome(r, "reported")' = Outcome(r, "reported")
        /\ Outcome(r, "unknown")' = Outcome(r, "unknown")
    BY <2>1 DEF Outcome
  <2>3. /\ Reserved(r)' = Reserved(r) + p.allowance
        /\ Reported(r)' = Reported(r) /\ Unknown(r)' = Unknown(r)
        /\ Overshoot(r)' = Overshoot(r)
    <3>1. Allowed(Outcome(r, "reserved") \cup {p}) = Allowed(Outcome(r, "reserved")) + p.allowance
      BY <2>2, OwnerSets, SumAdd
    <3>2. Reserved(r)' = Allowed(Outcome(r, "reserved")') /\ Reserved(r) = Allowed(Outcome(r, "reserved"))
      BY DEF Reserved, Allowed
    <3>3. Reported(r)' = Reported(r) /\ Unknown(r)' = Unknown(r) /\ Overshoot(r)' = Overshoot(r)
      BY <2>2 DEF Reported, Unknown, Used, Allowed, Overshoot
    <3> QED
      BY <2>2, <3>1, <3>2, <3>3
  <2>4. Exposure(r)' = Exposure(r) + p.allowance
    <3>1. Exposure(r)' = Reported(r)' + Reserved(r)' + Unknown(r)'
      BY DEF Exposure
    <3>2. /\ Reported(r) \in Nat /\ Reserved(r) \in Nat /\ Unknown(r) \in Nat
          /\ Exposure(r) = Reported(r) + Reserved(r) + Unknown(r) /\ p.allowance \in Nat
      BY OwnerSums, RequestTypes
    <3> QED
      BY <2>3, <3>1, <3>2
  <2>5. Exposure(r)' <= Limits.tokens + Overshoot(r)'
    <3>1. p.allowance + Exposure(r) <= Limits.tokens
      BY <1>2
    <3>2. p.allowance \in Nat /\ Exposure(r) \in Nat /\ Overshoot(r) \in Nat
      BY OwnerSums, RequestTypes
    <3> QED
      BY <2>3, <2>4, <3>1, <3>2, LimitTypes
  <2>6. Cardinality(RequestsOf(r))' <= Limits.requests
    <3>1. IsFiniteSet(RequestsOf(r)) /\ Cardinality(RequestsOf(r)) \in Nat
      BY OwnerSets
    <3>2. Cardinality(RequestsOf(r) \cup {p}) = Cardinality(RequestsOf(r)) + 1
      BY <2>1, <3>1, FS_AddElement
    <3> QED
      BY <1>2, <2>1, <3>1, <3>2, LimitTypes
  <2> QED
    BY <2>5, <2>6 DEF Spends
<1> QED
  BY <1>1, <1>2

\* The outcome of a request: what was reserved becomes what was used, or stays counted.
LEMMA SpendsOnce ==
  ASSUME requests \subseteq Request, IsFiniteSet(requests), NEW p \in requests,
         p.outcome = "reserved", NEW o \in {"reported", "unknown"}, NEW u \in Usage \cup {0},
         NEW new, new = [p EXCEPT !.outcome = o, !.used = u],
         \A q \in requests : q.key = p.key => q = p,
         requests' = (requests \ {p}) \cup {new}, plan' = plan,
         NEW r, Spends(r)
  PROVE  Spends(r)'
<1>1. /\ new \in Request /\ new.key = p.key /\ new.outcome = o /\ new.used = u
      /\ new.allowance = p.allowance /\ p \in Request
  BY DEF Request, Outcomes
<1>2. new \notin requests
  BY <1>1
<1>3. CASE r # Payer(p.key.agent)
  <2>1. RequestsOf(r)' = RequestsOf(r)
    BY <1>1, <1>3 DEF RequestsOf, Payer
  <2> QED
    BY <2>1 DEF Spends, Exposure, Overshoot, Reported, Reserved, Unknown, Outcome
<1>4. CASE r = Payer(p.key.agent)
  <2>1. /\ RequestsOf(r)' = (RequestsOf(r) \ {p}) \cup {new}
        /\ p \in RequestsOf(r) /\ new \notin RequestsOf(r)
    BY <1>1, <1>2, <1>4 DEF RequestsOf, Payer
  <2>2. /\ Outcome(r, "reserved")' = Outcome(r, "reserved") \ {p}
        /\ p \in Outcome(r, "reserved")
        /\ Outcome(r, o)' = Outcome(r, o) \cup {new} /\ new \notin Outcome(r, o)
        /\ \A x \in {"reported", "unknown"} : x # o => Outcome(r, x)' = Outcome(r, x)
    BY <1>1, <2>1 DEF Outcome
  <2>3. Reserved(r) = Reserved(r)' + p.allowance /\ Reserved(r)' \in Nat
    <3>1. Allowed(Outcome(r, "reserved")) = Allowed(Outcome(r, "reserved") \ {p}) + p.allowance
      BY <2>2, OwnerSets, SumRemove
    <3>2. Reserved(r)' = Allowed(Outcome(r, "reserved")') /\ Reserved(r) = Allowed(Outcome(r, "reserved"))
      BY DEF Reserved, Allowed
    <3>3. Allowed(Outcome(r, "reserved") \ {p}) \in Nat
      <4>1. IsFiniteSet(Outcome(r, "reserved") \ {p}) /\ Outcome(r, "reserved") \ {p} \subseteq Request
        BY OwnerSets, FS_RemoveElement
      <4> QED
        BY <4>1, SumTypes
    <3> QED
      BY <2>2, <3>1, <3>2, <3>3
  <2>4. Exposure(r)' <= Limits.tokens + Overshoot(r)'
    <3>1. CASE o = "reported"
      <4>1. /\ Used(Outcome(r, o) \cup {new}) = Used(Outcome(r, o)) + new.used
            /\ Over(Outcome(r, o) \cup {new}) = Over(Outcome(r, o)) + Overrun(new.used, new.allowance)
        BY <1>1, <2>2, OwnerSets, SumAdd
      <4>2. /\ Reported(r)' = Used(Outcome(r, o)') /\ Reported(r) = Used(Outcome(r, o))
            /\ Overshoot(r)' = Over(Outcome(r, o)') /\ Overshoot(r) = Over(Outcome(r, o))
        BY <3>1 DEF Reported, Used, Overshoot, Over
      <4>3. /\ Reported(r)' = Reported(r) + new.used
            /\ Overshoot(r)' = Overshoot(r) + Overrun(new.used, new.allowance)
        BY <2>2, <4>1, <4>2
      <4>4. Unknown(r)' = Unknown(r)
        BY <2>2, <3>1 DEF Unknown, Allowed
      <4>5. /\ new.used \in Nat /\ Overrun(new.used, new.allowance) \in Nat /\ p.allowance \in Nat
            /\ new.used <= p.allowance + Overrun(new.used, new.allowance)
        BY <1>1, RequestTypes
      <4>6. Exposure(r)' = Reported(r)' + Reserved(r)' + Unknown(r)'
        BY DEF Exposure
      <4> QED
        BY <2>3, <4>3, <4>4, <4>5, <4>6, OwnerSums, LimitTypes DEF Spends
    <3>2. CASE o = "unknown"
      <4>1. Allowed(Outcome(r, o) \cup {new}) = Allowed(Outcome(r, o)) + new.allowance
        BY <1>1, <2>2, OwnerSets, SumAdd
      <4>2. Unknown(r)' = Allowed(Outcome(r, o)') /\ Unknown(r) = Allowed(Outcome(r, o))
        BY <3>2 DEF Unknown, Allowed
      <4>3. Unknown(r)' = Unknown(r) + p.allowance
        BY <1>1, <2>2, <4>1, <4>2
      <4>4. Reported(r)' = Reported(r) /\ Overshoot(r)' = Overshoot(r)
        BY <2>2, <3>2 DEF Reported, Used, Overshoot
      <4>5. p.allowance \in Nat
        BY <1>1, RequestTypes
      <4>6. Exposure(r)' = Reported(r)' + Reserved(r)' + Unknown(r)'
        BY DEF Exposure
      <4> QED
        BY <2>3, <4>3, <4>4, <4>5, <4>6, OwnerSums, LimitTypes DEF Spends
    <3> QED
      BY <3>1, <3>2
  <2>5. Cardinality(RequestsOf(r))' <= Limits.requests
    <3>1. IsFiniteSet(RequestsOf(r)) /\ Cardinality(RequestsOf(r)) \in Nat
      BY OwnerSets
    <3>2. IsFiniteSet(RequestsOf(r) \ {p}) /\ Cardinality(RequestsOf(r) \ {p}) = Cardinality(RequestsOf(r)) - 1
      BY <2>1, <3>1, FS_RemoveElement
    <3>3. Cardinality((RequestsOf(r) \ {p}) \cup {new}) = Cardinality(RequestsOf(r) \ {p}) + 1
      BY <2>1, <3>2, FS_AddElement
    <3> QED
      BY <2>1, <3>1, <3>2, <3>3 DEF Spends
  <2> QED
    BY <2>4, <2>5 DEF Spends
<1> QED
  BY <1>3, <1>4

-----------------------------------------------------------------------------
(***************************************************************************)
(* The clients and the ledger.                                             *)
(***************************************************************************)
\* What no charge touches stays.
LEMMA AccountsStand ==
  ASSUME Charged, Within, UNCHANGED <<plan, attempts, requests, batches>>
  PROVE  Charged' /\ Within'
<1>1. Charged'
  BY DEF Charged
<1>2. ASSUME NEW r \in Runs
      PROVE  /\ RequestsOf(r)' = RequestsOf(r) /\ Spends(r)' = Spends(r)
             /\ ToolCalls(r)' = ToolCalls(r) /\ Invocations(r)' = Invocations(r)
  <2>1. RequestsOf(r)' = RequestsOf(r)
    BY DEF RequestsOf, Payer
  <2>2. Spends(r)' = Spends(r)
    BY <2>1 DEF Spends, Exposure, Overshoot, Reported, Reserved, Unknown, Outcome, Used, Allowed
  <2> QED
    BY <2>1, <2>2 DEF ToolCalls, Invocations, Payer
<1>3. Within'
  BY <1>2 DEF Within
<1> QED
  BY <1>1, <1>3

LEMMA TasksStand ==
  ASSUME OneAttempt, OwnTasks, UNCHANGED <<attempts, requests, task>>
  PROVE  OneAttempt' /\ OwnTasks'
BY DEF OneAttempt, OwnTasks, OwnTask

\* The tasks of a client are over with it.
LEMMA Forgets ==
  ASSUME TaskTypes, AccountTypes, Charged, OneAttempt, OwnTasks, NEW c \in Clients, Forget(c),
         UNCHANGED <<attempts, requests>>
  PROVE  TaskTypes' /\ OneAttempt' /\ OwnTasks'
<1>1. /\ \A a \in Agents : task'[c][a] = Off
      /\ \A d \in Clients \ {c} : task'[d] = task[d]
  BY DEF Forget, TaskTypes
<1>2. TaskTypes'
  <2>1. Off \in [at : TaskAt, n : Nat, seq : Nat]
    BY DEF Off, TaskAt
  <2>2. [a \in Agents |-> Off] \in [Agents -> [at : TaskAt, n : Nat, seq : Nat]]
    BY <2>1
  <2> QED
    BY <2>2 DEF TaskTypes, Forget
<1>3. OneAttempt'
  <2>1. ASSUME NEW d \in Clients, NEW e \in Clients, NEW a \in Agents,
               d # e, task'[d][a].n = task'[e][a].n
        PROVE  task'[d][a].n = 0
    BY <1>1, <2>1 DEF OneAttempt, Off
  <2> QED
    BY <2>1 DEF OneAttempt
<1>4. ASSUME NEW d \in Clients, NEW a \in Agents
      PROVE  OwnTask(d, a)'
  <2>1. CASE d # c
    BY <1>1, <2>1 DEF OwnTasks, OwnTask
  <2>2. CASE d = c
    <3>1. task'[d][a].at = "off" /\ task'[d][a].n = 0 /\ task'[d][a].seq = 0
      BY <1>1, <2>2 DEF Off
    <3>2. attempts[a] \in Seq(AttemptStatus)
      BY DEF AccountTypes
    <3>3. \A q \in requests : q.key.agent = a => q.key.n # 0
      BY <3>2 DEF Charged
    <3>4. Len(attempts[a]) \in Nat
      BY <3>2
    <3> QED
      BY <3>1, <3>3, <3>4 DEF OwnTask, Waits
  <2> QED
    BY <2>1, <2>2
<1> QED
  BY <1>2, <1>3, <1>4 DEF OwnTasks

\* A step that charges nothing and gives no claim.
LEMMA ClientsStand ==
  ASSUME Inv, RunTypes', budgeted \subseteq budgeted', budgeted' \subseteq Runs,
         UNCHANGED <<plan, attempts, requests, batches, simulated, ledgerVars, client, task>>
  PROVE  Inv'
<1>1. UNCHANGED <<reserved, outcome, execution>>
  BY DEF ledgerVars
<1>2. Types'
  BY <1>1 DEF Inv, Types, ClaimTypes, AccountTypes, TaskTypes
<1>3. Charged' /\ Within'
  BY AccountsStand DEF Inv
<1>4. Enveloped'
  BY <1>1 DEF Inv, Enveloped
<1>5. Claimed'
  BY <1>1 DEF Inv, Claimed
<1>6. Registered'
  BY <1>1 DEF Inv, Registered, Payer
<1>7. OneAttempt' /\ OwnTasks'
  BY TasksStand DEF Inv
<1> QED
  BY <1>2, <1>3, <1>4, <1>5, <1>6, <1>7 DEF Inv

\* What a client may become without a new claim.
Allows(c, at, r) ==
  /\ at \in ClientAt /\ r \in Runs \cup {None}
  /\ at # "idle" => r \in Runs
  /\ at \in {"created", "resuming"} => r \notin Slots
  /\ (at \in Holding /\ r \in Slots) => client[c].at \in Holding /\ client[c].run = r

LEMMA ClientMoves ==
  ASSUME Inv, NEW c \in Clients, NEW at, NEW r, Allows(c, at, r), Goto(c, at, r),
         RunTypes', budgeted \subseteq budgeted', budgeted' \subseteq Runs,
         UNCHANGED <<plan, attempts, requests, batches, simulated, ledgerVars>>,
         task' = task \/ Forget(c)
  PROVE  Inv'
<1>1. UNCHANGED <<reserved, outcome, execution>>
  BY DEF ledgerVars
<1>2. /\ client'[c].at = at /\ client'[c].run = r
      /\ \A d \in Clients \ {c} : client'[d] = client[d]
      /\ client' \in [Clients -> [at : ClientAt, run : Runs \cup {None}]]
  BY DEF Goto, Allows, Inv, Types, ClaimTypes
<1>3. Charged' /\ Within'
  BY AccountsStand DEF Inv
<1>4. TaskTypes' /\ OneAttempt' /\ OwnTasks'
  <2>1. CASE task' = task
    BY <2>1, TasksStand DEF Inv, Types, TaskTypes
  <2>2. CASE Forget(c)
    BY <2>2, Forgets DEF Inv, Types
  <2> QED
    BY <2>1, <2>2
<1>5. Types'
  BY <1>1, <1>2, <1>4 DEF Inv, Types, ClaimTypes, AccountTypes
<1>6. Enveloped' /\ Registered'
  BY <1>1 DEF Inv, Enveloped, Registered, Payer
<1>7. Claimed'
  <2>1. \A s \in Slots : execution'[s] # None => outcome'[s] = None /\ s \in budgeted'
    BY <1>1 DEF Inv, Claimed
  <2>2. ASSUME NEW d \in Clients
        PROVE  /\ client'[d].at # "idle" => client'[d].run \in Runs
               /\ client'[d].at \in {"created", "resuming"} => client'[d].run \notin Slots
               /\ client'[d].at \in Holding /\ client'[d].run \in Slots
                    => execution'[client'[d].run] # None
    BY <1>1, <1>2 DEF Inv, Claimed, Allows
  <2>3. ASSUME NEW d \in Clients, NEW e \in Clients \ {d},
               client'[d].at \in Holding, client'[e].at \in Holding, client'[d].run \in Slots
        PROVE  client'[e].run # client'[d].run
    <3>1. CASE d = c
      BY <1>2, <2>3, <3>1 DEF Inv, Claimed, Allows
    <3>2. CASE e = c
      <4>1. SUFFICES ASSUME client'[e].run = client'[d].run PROVE FALSE
        OBVIOUS
      <4>2. client[e].at \in Holding /\ client[e].run = client[d].run /\ client[d].at \in Holding
            /\ client[d].run \in Slots
        BY <1>2, <2>3, <3>2, <4>1 DEF Allows
      <4> QED
        BY <2>3, <4>2 DEF Inv, Claimed
    <3>3. CASE d # c /\ e # c
      BY <1>2, <2>3, <3>3 DEF Inv, Claimed
    <3> QED
      BY <3>1, <3>2, <3>3
  <2> QED
    BY <2>1, <2>2, <2>3 DEF Claimed
<1> QED
  BY <1>3, <1>4, <1>5, <1>6, <1>7 DEF Inv

-----------------------------------------------------------------------------
\* The values of the statuses.
LEMMA StatusValues ==
  /\ {"absent", "created", "running", "paused", "ended"} = RunStatus
  /\ {"new", "running", "paused", "completed", "failed"} = AgentStatus
  /\ {"idle", "created", "registered", "resuming", "driving", "stopping", "settling"} = ClientAt
  /\ {"registered", "driving", "stopping", "settling"} = Holding
BY DEF RunStatus, AgentStatus, ClientAt, Holding

LEMMA Saved ==
  ASSUME RunTypes, NEW r \in Runs, NEW s \in RunStatus, Save(r, s),
         UNCHANGED <<plan, agent, seconds, crashes>>
  PROVE  RunTypes'
BY DEF RunTypes, Save

LEMMA BudgetGiven ==
  ASSUME ClaimTypes, NEW S \in SUBSET Runs, InitializeBudget(S)
  PROVE  budgeted \subseteq budgeted' /\ budgeted' \subseteq Runs
BY DEF ClaimTypes, InitializeBudget

\* A client that stops working for a run.
LEMMA Leaves ==
  ASSUME Inv, NEW c \in Clients, client' = [client EXCEPT ![c] = Idle],
         RunTypes', budgeted \subseteq budgeted', budgeted' \subseteq Runs,
         UNCHANGED <<plan, attempts, requests, batches, simulated, ledgerVars>>,
         task' = task \/ Forget(c)
  PROVE  Inv'
<1>1. Goto(c, "idle", None)
  BY DEF Goto, Idle
<1>2. Allows(c, "idle", None)
  BY DEF Allows, ClientAt, Holding
<1> QED
  BY <1>1, <1>2, ClientMoves

\* A client that goes on with its run.
LEMMA GoesOn ==
  ASSUME Inv, NEW c \in Clients, NEW at \in Holding, Goto(c, at, client[c].run),
         client[c].at \in Holding \/ client[c].at \in {"created", "resuming"},
         RunTypes', budgeted \subseteq budgeted', budgeted' \subseteq Runs,
         UNCHANGED <<plan, attempts, requests, batches, simulated, ledgerVars>>,
         task' = task \/ Forget(c)
  PROVE  Inv'
<1>1. Allows(c, at, client[c].run)
  <2>1. client[c].run \in Runs /\ (client[c].at \in {"created", "resuming"} => client[c].run \notin Slots)
    BY StatusValues DEF Inv, Claimed
  <2>2. at \in ClientAt /\ at \notin {"idle", "created", "resuming"}
    BY DEF Holding, ClientAt
  <2> QED
    BY <2>1, <2>2 DEF Allows
<1> QED
  BY <1>1, ClientMoves

LEMMA BudgetStands ==
  ASSUME Inv, UNCHANGED budgeted
  PROVE  budgeted \subseteq budgeted' /\ budgeted' \subseteq Runs
BY DEF Inv, Types, ClaimTypes

-----------------------------------------------------------------------------
(***************************************************************************)
(* The steps of the clients.                                               *)
(***************************************************************************)
LEMMA CreateStep ==
  ASSUME Inv, NEW c \in Clients, NEW r \in Runs, Create(c, r)
  PROVE  Inv'
<1>1. RunTypes'
  <2>1. Save(r, "created") /\ UNCHANGED <<plan, agent, seconds, crashes>>
    BY DEF Create, budgetVars
  <2> QED
    BY <2>1, StatusValues, Saved DEF Inv, Types
<1>2. /\ Goto(c, "created", r) /\ r \notin Slots
      /\ UNCHANGED <<plan, budgeted, attempts, requests, batches, simulated, ledgerVars, task>>
  BY DEF Create, budgetVars, Ordinary
<1>3. Allows(c, "created", r)
  BY <1>2 DEF Allows, ClientAt, Holding
<1>4. budgeted \subseteq budgeted' /\ budgeted' \subseteq Runs
  BY <1>2, BudgetStands
<1> QED
  BY <1>1, <1>2, <1>3, <1>4, ClientMoves

LEMMA ReadRunStep ==
  ASSUME Inv, NEW c \in Clients, NEW r \in Runs, ReadRun(c, r)
  PROVE  Inv'
<1>1. /\ Goto(c, "resuming", r) /\ r \notin Slots
      /\ UNCHANGED <<plan, status, agent, seconds, crashes>>
      /\ UNCHANGED <<plan, budgeted, attempts, requests, batches, simulated, ledgerVars, task>>
  BY DEF ReadRun, budgetVars, Ordinary
<1>2. RunTypes'
  BY <1>1 DEF Inv, Types, RunTypes
<1>3. Allows(c, "resuming", r)
  BY <1>1 DEF Allows, ClientAt, Holding
<1>4. budgeted \subseteq budgeted' /\ budgeted' \subseteq Runs
  BY <1>1, BudgetStands
<1> QED
  BY <1>1, <1>2, <1>3, <1>4, ClientMoves

LEMMA GiveBudgetStep ==
  ASSUME Inv, NEW c \in Clients, GiveBudget(c)
  PROVE  Inv'
<1>1. /\ UNCHANGED <<plan, status, agent, seconds, crashes>>
      /\ UNCHANGED <<plan, attempts, requests, batches, simulated, ledgerVars, task>>
      /\ client[c].at = "created"
  BY DEF GiveBudget
<1>2. RunTypes'
  BY <1>1 DEF Inv, Types, RunTypes
<1>3. CASE status[client[c].run] = "created"
  <2>1. InitializeBudget({client[c].run}) /\ Goto(c, "registered", client[c].run)
    BY <1>3 DEF GiveBudget
  <2>2. {client[c].run} \in SUBSET Runs
    BY <1>1 DEF Inv, Claimed
  <2>3. budgeted \subseteq budgeted' /\ budgeted' \subseteq Runs
    BY <2>1, <2>2, BudgetGiven DEF Inv, Types
  <2>4. "registered" \in Holding
    BY DEF Holding
  <2> QED
    BY <1>1, <1>2, <2>1, <2>3, <2>4, GoesOn
<1>4. CASE status[client[c].run] # "created"
  <2>1. UNCHANGED budgeted /\ client' = [client EXCEPT ![c] = Idle]
    BY <1>4 DEF GiveBudget
  <2>2. budgeted \subseteq budgeted' /\ budgeted' \subseteq Runs
    BY <2>1, BudgetStands
  <2> QED
    BY <1>1, <1>2, <2>1, <2>2, Leaves
<1> QED
  BY <1>3, <1>4

LEMMA StartRunStep ==
  ASSUME Inv, NEW c \in Clients, StartRun(c)
  PROVE  Inv'
<1>1. /\ UNCHANGED <<plan, agent, seconds, crashes>>
      /\ UNCHANGED <<plan, budgeted, attempts, requests, batches, simulated, ledgerVars, task>>
      /\ client[c].at = "registered"
  BY DEF StartRun, budgetVars
<1>2. budgeted \subseteq budgeted' /\ budgeted' \subseteq Runs
  BY <1>1, BudgetStands
<1>3. CASE status[client[c].run] = "created"
  <2>1. Save(client[c].run, "running") /\ Goto(c, "driving", client[c].run)
    BY <1>3 DEF StartRun
  <2>2. client[c].run \in Runs
    BY <1>1 DEF Inv, Claimed
  <2>3. RunTypes'
    BY <1>1, <2>1, <2>2, StatusValues, Saved DEF Inv, Types
  <2>4. "driving" \in Holding /\ "registered" \in Holding
    BY DEF Holding
  <2> QED
    BY <1>1, <1>2, <2>1, <2>3, <2>4, GoesOn
<1>4. CASE status[client[c].run] # "created"
  <2>1. UNCHANGED status /\ client' = [client EXCEPT ![c] = Idle]
    BY <1>4 DEF StartRun
  <2>2. RunTypes'
    BY <1>1, <2>1 DEF Inv, Types, RunTypes
  <2> QED
    BY <1>1, <1>2, <2>1, <2>2, Leaves
<1> QED
  BY <1>3, <1>4

LEMMA ResumeRunStep ==
  ASSUME Inv, NEW c \in Clients, ResumeRun(c)
  PROVE  Inv'
<1>1. /\ UNCHANGED <<plan, agent, seconds, crashes>>
      /\ UNCHANGED <<plan, budgeted, attempts, requests, batches, simulated, ledgerVars, task>>
      /\ client[c].at = "resuming"
  BY DEF ResumeRun, budgetVars
<1>2. budgeted \subseteq budgeted' /\ budgeted' \subseteq Runs
  BY <1>1, BudgetStands
<1>3. CASE status[client[c].run] \in {"paused", "running"}
  <2>1. Save(client[c].run, "running") /\ Goto(c, "driving", client[c].run)
    BY <1>3 DEF ResumeRun
  <2>2. client[c].run \in Runs
    BY <1>1 DEF Inv, Claimed
  <2>3. RunTypes'
    BY <1>1, <2>1, <2>2, StatusValues, Saved DEF Inv, Types
  <2>4. "driving" \in Holding
    BY DEF Holding
  <2> QED
    BY <1>1, <1>2, <2>1, <2>3, <2>4, GoesOn
<1>4. CASE status[client[c].run] \notin {"paused", "running"}
  <2>1. UNCHANGED status /\ client' = [client EXCEPT ![c] = Idle]
    BY <1>4 DEF ResumeRun
  <2>2. RunTypes'
    BY <1>1, <2>1 DEF Inv, Types, RunTypes
  <2> QED
    BY <1>1, <1>2, <2>1, <2>2, Leaves
<1> QED
  BY <1>3, <1>4

LEMMA InterruptStep ==
  ASSUME Inv, NEW c \in Clients, Interrupt(c)
  PROVE  Inv'
<1>1. /\ UNCHANGED <<plan, status, agent, seconds, crashes>>
      /\ UNCHANGED <<plan, budgeted, attempts, requests, batches, simulated, ledgerVars, task>>
      /\ client[c].at = "driving" /\ Goto(c, "stopping", client[c].run)
  BY DEF Interrupt, budgetVars
<1>2. RunTypes'
  BY <1>1 DEF Inv, Types, RunTypes
<1>3. budgeted \subseteq budgeted' /\ budgeted' \subseteq Runs
  BY <1>1, BudgetStands
<1>4. "driving" \in Holding /\ "stopping" \in Holding
  BY DEF Holding
<1> QED
  BY <1>1, <1>2, <1>3, <1>4, GoesOn

LEMMA EndRunStep ==
  ASSUME Inv, NEW c \in Clients, EndRun(c)
  PROVE  Inv'
<1>1. /\ UNCHANGED <<plan, agent, seconds, crashes>>
      /\ UNCHANGED <<plan, budgeted, attempts, requests, batches, simulated, ledgerVars>>
      /\ client[c].at = "driving" /\ Forget(c)
  BY DEF EndRun, budgetVars
<1>2. budgeted \subseteq budgeted' /\ budgeted' \subseteq Runs
  BY <1>1, BudgetStands
<1>3. /\ status' = status \/ Save(client[c].run, "paused")
                         \/ \E over \in SUBSET Runs :
                              status' = [x \in Runs |-> IF x \in over THEN "ended" ELSE status[x]]
      /\ Goto(c, "settling", client[c].run) \/ client' = [client EXCEPT ![c] = Idle]
  <2> DEFINE over == IF status[client[c].run] = "running"
                        \/ (~Ends(c, "failed") /\ status[client[c].run] = "paused")
                     THEN {x \in Children(client[c].run) \cup {client[c].run} :
                             status[x] # "absent"} ELSE {}
  <2>1. over \in SUBSET Runs
    BY <1>1 DEF Inv, Claimed, Children
  <2>2. CASE Ends(c, "paused") /\ ~Ends(c, "failed")
    BY <2>2 DEF EndRun
  <2>3. CASE ~(Ends(c, "paused") /\ ~Ends(c, "failed"))
    <3>1. /\ status' = [x \in Runs |-> IF x \in over THEN "ended" ELSE status[x]]
          /\ IF over # {} THEN Goto(c, "settling", client[c].run)
             ELSE client' = [client EXCEPT ![c] = Idle]
      BY <2>3 DEF EndRun
    <3> HIDE DEF over
    <3> QED
      BY <2>1, <3>1
  <2> QED
    BY <2>2, <2>3
<1>4. client[c].run \in Runs
  BY <1>1 DEF Inv, Claimed
<1>5. RunTypes'
  <2>1. CASE status' = status
    BY <1>1, <2>1 DEF Inv, Types, RunTypes
  <2>2. CASE Save(client[c].run, "paused")
    BY <1>1, <1>4, <2>2, StatusValues, Saved DEF Inv, Types
  <2>3. CASE \E over \in SUBSET Runs :
               status' = [x \in Runs |-> IF x \in over THEN "ended" ELSE status[x]]
    BY <1>1, <2>3, StatusValues DEF Inv, Types, RunTypes
  <2> QED
    BY <1>3, <2>1, <2>2, <2>3
<1>6. "driving" \in Holding /\ "settling" \in Holding
  BY DEF Holding
<1>7. CASE Goto(c, "settling", client[c].run)
  BY <1>1, <1>2, <1>5, <1>6, <1>7, GoesOn
<1>8. CASE client' = [client EXCEPT ![c] = Idle]
  BY <1>1, <1>2, <1>5, <1>8, Leaves
<1> QED
  BY <1>3, <1>7, <1>8

LEMMA StopRunStep ==
  ASSUME Inv, NEW c \in Clients, StopRun(c)
  PROVE  Inv'
<1>1. /\ UNCHANGED <<plan, agent, seconds, crashes>>
      /\ UNCHANGED <<plan, budgeted, attempts, requests, batches, simulated, ledgerVars>>
      /\ client[c].at = "stopping" /\ Forget(c)
  BY DEF StopRun, budgetVars
<1>2. budgeted \subseteq budgeted' /\ budgeted' \subseteq Runs
  BY <1>1, BudgetStands
<1>3. \/ Save(client[c].run, "ended") /\ Goto(c, "settling", client[c].run)
      \/ UNCHANGED status /\ client' = [client EXCEPT ![c] = Idle]
  BY DEF StopRun
<1>4. CASE Save(client[c].run, "ended") /\ Goto(c, "settling", client[c].run)
  <2>1. client[c].run \in Runs
    BY <1>1 DEF Inv, Claimed
  <2>2. RunTypes'
    BY <1>1, <1>4, <2>1, StatusValues, Saved DEF Inv, Types
  <2>3. "settling" \in Holding /\ "stopping" \in Holding
    BY DEF Holding
  <2> QED
    BY <1>1, <1>2, <1>4, <2>2, <2>3, GoesOn
<1>5. CASE UNCHANGED status /\ client' = [client EXCEPT ![c] = Idle]
  <2>1. RunTypes'
    BY <1>1, <1>5 DEF Inv, Types, RunTypes
  <2> QED
    BY <1>1, <1>2, <1>5, <2>1, Leaves
<1> QED
  BY <1>3, <1>4, <1>5

LEMMA DieStep ==
  ASSUME Inv, NEW c \in Clients, Die(c)
  PROVE  Inv'
<1>1. /\ UNCHANGED <<plan, status, agent, seconds>>
      /\ UNCHANGED <<plan, budgeted, attempts, requests, batches, simulated, ledgerVars>>
      /\ client' = [client EXCEPT ![c] = Idle] /\ Forget(c)
      /\ crashes < MaxCrashes /\ crashes' = crashes + 1
  BY DEF Die, budgetVars
<1>2. crashes' \in 0..MaxCrashes
  BY <1>1, ClientAssumption DEF Inv, Types, RunTypes
<1>3. RunTypes'
  BY <1>1, <1>2 DEF Inv, Types, RunTypes
<1>4. budgeted \subseteq budgeted' /\ budgeted' \subseteq Runs
  BY <1>1, BudgetStands
<1> QED
  BY <1>1, <1>3, <1>4, Leaves

\* The runs that are started, cancelled or spawned by somebody else.
LEMMA RunStep ==
  ASSUME Inv,
         \/ \E c \in Clients : Spawn(c)
         \/ \E c \in Clients, x \in Runs : StartChild(c, x)
         \/ \E r \in Runs : Cancel(r)
  PROVE  Inv'
<1>1. CASE \E c \in Clients : Spawn(c)
  <2>1. PICK c \in Clients : Spawn(c)
    BY <1>1
  <2>2. PICK S : S = Children(client[c].run)
    OBVIOUS
  <2>3. /\ InitializeBudget(S)
        /\ status' = [x \in Runs |-> IF x \in S THEN "created" ELSE status[x]]
        /\ UNCHANGED <<plan, agent, attempts, requests, batches, simulated, seconds, ledgerVars,
                       client, task, crashes>>
    BY <2>1, <2>2 DEF Spawn
  <2>4. S \in SUBSET Runs
    BY <2>2 DEF Children
  <2>5. budgeted \subseteq budgeted' /\ budgeted' \subseteq Runs
    BY <2>3, <2>4, BudgetGiven DEF Inv, Types
  <2>6. RunTypes'
    BY <2>3, StatusValues DEF Inv, Types, RunTypes
  <2> QED
    BY <2>3, <2>5, <2>6, ClientsStand
<1>2. CASE \E c \in Clients, x \in Runs : StartChild(c, x)
  <2>1. PICK c \in Clients, x \in Runs : StartChild(c, x)
    BY <1>2
  <2>2. Save(x, "running") /\ UNCHANGED <<plan, agent, budgetVars, ledgerVars, client, task, crashes>>
    BY <2>1 DEF StartChild
  <2>3. UNCHANGED <<budgeted, attempts, requests, batches, simulated, seconds>>
    BY <2>2 DEF budgetVars
  <2>4. RunTypes'
    BY <2>2, <2>3, StatusValues, Saved DEF Inv, Types
  <2>5. budgeted \subseteq budgeted' /\ budgeted' \subseteq Runs
    BY <2>3, BudgetStands
  <2> QED
    BY <2>2, <2>3, <2>4, <2>5, ClientsStand
<1>3. CASE \E r \in Runs : Cancel(r)
  <2>1. PICK S : CancelRuns(S)
    BY <1>3 DEF Cancel
  <2>2. /\ status' = [r \in Runs |-> IF r \in S /\ status[r] # "absent" THEN "ended" ELSE status[r]]
        /\ UNCHANGED <<plan, agent, budgetVars, ledgerVars, client, task, crashes>>
    BY <2>1 DEF CancelRuns
  <2>3. UNCHANGED <<budgeted, attempts, requests, batches, simulated, seconds>>
    BY <2>2 DEF budgetVars
  <2>4. RunTypes'
    BY <2>2, <2>3, StatusValues DEF Inv, Types, RunTypes
  <2>5. budgeted \subseteq budgeted' /\ budgeted' \subseteq Runs
    BY <2>3, BudgetStands
  <2> QED
    BY <2>2, <2>3, <2>4, <2>5, ClientsStand
<1> QED
  BY <1>1, <1>2, <1>3

\* The clock.
LEMMA TimeStep ==
  ASSUME Inv, TimePasses
  PROVE  Inv'
<1>1. /\ UNCHANGED <<budgeted, attempts, requests, batches, simulated>>
      /\ UNCHANGED <<plan, status, agent, ledgerVars, client, task, crashes>>
      /\ seconds' = [r \in Runs |->
           Min({MaxSeconds, seconds[r] + Cardinality({a \in Agents : Payer(a) = r
                       /\ \E n \in DOMAIN attempts[a] : attempts[a][n] = "running"})})]
  BY DEF TimePasses, Tick
<1>2. MaxSeconds \in Nat
  BY BudgetAssumption
<1>3. ASSUME NEW r \in Runs
      PROVE  seconds'[r] \in 0..MaxSeconds
  <2>1. PICK k : k = Cardinality({a \in Agents : Payer(a) = r
                       /\ \E n \in DOMAIN attempts[a] : attempts[a][n] = "running"})
    OBVIOUS
  <2>2. k \in Nat
    <3>1. IsFiniteSet(Agents)
      BY BudgetAssumption
    <3> QED
      BY <2>1, <3>1, FS_Subset, FS_CardinalityType
  <2>3. seconds[r] \in Nat /\ seconds'[r] = Min({MaxSeconds, seconds[r] + k})
    BY <1>1, <1>2, <2>1 DEF Inv, Types, RunTypes
  <2>4. PICK m : m = seconds[r] + k
    OBVIOUS
  <2>5. m \in Nat /\ seconds'[r] = Min({MaxSeconds, m})
    BY <2>2, <2>3, <2>4
  <2>6. \E x \in {MaxSeconds, m} : \A y \in {MaxSeconds, m} : x <= y
    BY <1>2, <2>5
  <2>7. Min({MaxSeconds, m}) \in {MaxSeconds, m} /\ \A y \in {MaxSeconds, m} : Min({MaxSeconds, m}) <= y
    BY <2>6 DEF Min
  <2> QED
    BY <1>2, <2>5, <2>7
<1>4. RunTypes'
  BY <1>1, <1>3 DEF Inv, Types, RunTypes
<1>5. budgeted \subseteq budgeted' /\ budgeted' \subseteq Runs
  BY <1>1, BudgetStands
<1> QED
  BY <1>1, <1>4, <1>5, ClientsStand

-----------------------------------------------------------------------------
\* The steps that write the ledger.  No claim is ever taken back.
LEMMA LedgerStep ==
  ASSUME Inv, NEW s \in Slots,
         Reserve(s) \/ Fence(s) \/ \E x \in Results : Preflight(s, x)
  PROVE  Inv'
<1>1. UNCHANGED <<plan, status, agent, budgetVars, client, task, crashes>>
  BY DEF Reserve, Fence, Preflight
<1>2. UNCHANGED <<budgeted, attempts, requests, batches, simulated, seconds>>
  BY <1>1 DEF budgetVars
<1>3. Charged' /\ Within' /\ OneAttempt' /\ OwnTasks'
  BY <1>1, <1>2, AccountsStand, TasksStand DEF Inv
<1>4. RunTypes' /\ AccountTypes' /\ TaskTypes'
  BY <1>1, <1>2 DEF Inv, Types, RunTypes, AccountTypes, TaskTypes
<1>5. CASE Reserve(s)
  <2>1. reserved' = reserved \cup {s} /\ UNCHANGED <<outcome, execution>> /\ s \notin reserved
    BY <1>5 DEF Reserve, ReserveSlot, CanReserveSlot
  <2>2. IsFiniteSet(reserved) /\ Cardinality(reserved) \in Nat
    BY FS_CardinalityType DEF Inv, Types, ClaimTypes
  <2>3. IsFiniteSet(reserved') /\ Cardinality(reserved') = Cardinality(reserved) + 1
    BY <2>1, <2>2, FS_AddElement
  <2>4. ClaimTypes'
    BY <1>1, <1>2, <2>1, <2>3 DEF Inv, Types, ClaimTypes
  <2>5. Cardinality(reserved) * Limits.tokens + Limits.tokens <= Envelope.tokens
    BY <1>5 DEF Reserve, ReserveSlot, CanReserveSlot, Committed
  <2>6. Enveloped'
    <3>1. PICK k : k = Cardinality(reserved)
      OBVIOUS
    <3>2. PICK l : l = Limits.tokens
      OBVIOUS
    <3>3. k \in Nat /\ l \in Nat /\ k * l + l <= Envelope.tokens /\ Envelope.tokens \in Nat
      BY <2>2, <2>5, <3>1, <3>2, LimitTypes
    <3>4. l * (k + 1) = k * l + l
      BY <3>3
    <3> QED
      BY <2>3, <3>1, <3>2, <3>3, <3>4 DEF Enveloped
  <2>7. Claimed' /\ Registered'
    BY <1>1, <1>2, <2>1 DEF Inv, Claimed, Registered, Payer
  <2> QED
    BY <1>3, <1>4, <2>4, <2>6, <2>7 DEF Inv, Types
<1>6. CASE Fence(s)
  <2>1. /\ execution[s] = "active" /\ execution' = [execution EXCEPT ![s] = "fenced"]
        /\ UNCHANGED <<reserved, outcome>>
    BY <1>6 DEF Fence, Mark
  <2>2. ClaimTypes'
    BY <1>1, <1>2, <2>1 DEF Inv, Types, ClaimTypes, ExecutionStatus
  <2>3. \A x \in Slots : execution'[x] # None <=> execution[x] # None
    BY <2>1 DEF Inv, Types, ClaimTypes, None
  <2>4. Claimed' /\ Enveloped'
    BY <1>1, <1>2, <2>1, <2>3 DEF Inv, Claimed, Enveloped
  <2>5. Registered'
    BY <1>1, <1>2, <2>3 DEF Inv, Registered, Payer
  <2> QED
    BY <1>3, <1>4, <2>2, <2>4, <2>5 DEF Inv, Types
<1>7. CASE \E x \in Results : Preflight(s, x)
  <2>1. PICK x \in Results : Preflight(s, x)
    BY <1>7
  <2>2. /\ execution[s] = None /\ outcome' = [outcome EXCEPT ![s] = x]
        /\ UNCHANGED <<reserved, execution>>
    BY <2>1 DEF Preflight, RecordPreflight
  <2>3. ClaimTypes'
    BY <1>1, <1>2, <2>2 DEF Inv, Types, ClaimTypes
  <2>4. \A y \in Slots : execution'[y] # None => outcome'[y] = outcome[y]
    BY <2>2 DEF Inv, Types, ClaimTypes
  <2>5. Claimed' /\ Enveloped'
    BY <1>1, <1>2, <2>2, <2>4 DEF Inv, Claimed, Enveloped
  <2>6. Registered'
    BY <1>1, <1>2, <2>2 DEF Inv, Registered, Payer
  <2> QED
    BY <1>3, <1>4, <2>3, <2>5, <2>6 DEF Inv, Types
<1> QED
  BY <1>5, <1>6, <1>7

\* The one registration of an attempt gives the claim to one client.
LEMMA RegisterStep ==
  ASSUME Inv, NEW c \in Clients, NEW s \in Slots, Register(c, s)
  PROVE  Inv'
<1>1. /\ UNCHANGED <<plan, agent, attempts, requests, batches, simulated, seconds, task, crashes>>
      /\ client[c] = Idle /\ Goto(c, "registered", s) /\ Save(s, "created")
      /\ execution[s] = None /\ outcome[s] = None
      /\ execution' = [execution EXCEPT ![s] = "active"] /\ UNCHANGED <<reserved, outcome>>
      /\ budgeted' = budgeted \cup {s}
  BY DEF Register, Mark, CanRegister, InitializeBudget
<1>2. s \in Runs
  BY CampaignAssumption
<1>3. RunTypes'
  BY <1>1, <1>2, StatusValues, Saved DEF Inv, Types
<1>4. Charged' /\ Within' /\ OneAttempt' /\ OwnTasks'
  BY <1>1, AccountsStand, TasksStand DEF Inv
<1>5. /\ client'[c].at = "registered" /\ client'[c].run = s
      /\ \A d \in Clients \ {c} : client'[d] = client[d]
      /\ client' \in [Clients -> [at : ClientAt, run : Runs \cup {None}]]
  <2>1. [at |-> "registered", run |-> s] \in [at : ClientAt, run : Runs \cup {None}]
    BY <1>2 DEF ClientAt
  <2> QED
    BY <1>1, <2>1 DEF Goto, Inv, Types, ClaimTypes
<1>6. ClaimTypes'
  BY <1>1, <1>2, <1>5 DEF Inv, Types, ClaimTypes, ExecutionStatus
<1>7. AccountTypes' /\ TaskTypes'
  BY <1>1 DEF Inv, Types, AccountTypes, TaskTypes
<1>8. /\ execution'[s] # None
      /\ \A x \in Slots \ {s} : execution'[x] = execution[x]
  BY <1>1 DEF Inv, Types, ClaimTypes, None
<1>9. Registered' /\ Enveloped'
  BY <1>1, <1>8 DEF Inv, Registered, Enveloped, Payer
<1>10. Claimed'
  <2>1. \A x \in Slots : execution'[x] # None => outcome'[x] = None /\ x \in budgeted'
    BY <1>1, <1>8 DEF Inv, Claimed
  <2>2. ASSUME NEW d \in Clients
        PROVE  /\ client'[d].at # "idle" => client'[d].run \in Runs
               /\ client'[d].at \in {"created", "resuming"} => client'[d].run \notin Slots
               /\ client'[d].at \in Holding /\ client'[d].run \in Slots
                    => execution'[client'[d].run] # None
    BY <1>2, <1>5, <1>8 DEF Inv, Claimed
  <2>3. ASSUME NEW d \in Clients \ {c}
        PROVE  ~(client[d].at \in Holding /\ client[d].run = s)
    BY <1>1 DEF Inv, Claimed
  <2>4. ASSUME NEW d \in Clients, NEW e \in Clients \ {d},
               client'[d].at \in Holding, client'[e].at \in Holding, client'[d].run \in Slots
        PROVE  client'[e].run # client'[d].run
    BY <1>5, <2>3, <2>4 DEF Inv, Claimed
  <2> QED
    BY <2>1, <2>2, <2>4 DEF Claimed
<1> QED
  BY <1>3, <1>4, <1>6, <1>7, <1>9, <1>10 DEF Inv, Types

LEMMA SettleStep ==
  ASSUME Inv, NEW c \in Clients, Settle(c)
  PROVE  Inv'
<1>1. /\ UNCHANGED <<plan, status, agent, budgetVars, task, crashes>>
      /\ client' = [client EXCEPT ![c] = Idle]
  BY DEF Settle
<1>2. UNCHANGED <<budgeted, attempts, requests, batches, simulated, seconds>>
  BY <1>1 DEF budgetVars
<1>3. RunTypes' /\ AccountTypes' /\ TaskTypes'
  BY <1>1, <1>2 DEF Inv, Types, RunTypes, AccountTypes, TaskTypes
<1>4. CASE UNCHANGED ledgerVars
  <2>1. budgeted \subseteq budgeted' /\ budgeted' \subseteq Runs
    BY <1>2, BudgetStands
  <2> QED
    BY <1>1, <1>2, <1>3, <1>4, <2>1, Leaves
<1>5. CASE \E s \in Slots : CanSettle(s) /\ Mark(s, "settled")
  <2>1. PICK s \in Slots : CanSettle(s) /\ Mark(s, "settled")
    BY <1>5
  <2>2. /\ execution[s] = "active" /\ execution' = [execution EXCEPT ![s] = "settled"]
        /\ UNCHANGED <<reserved, outcome>>
    BY <2>1 DEF CanSettle, Mark
  <2>3. \A x \in Slots : execution'[x] # None <=> execution[x] # None
    BY <2>2 DEF Inv, Types, ClaimTypes, None
  <2>4. /\ client'[c] = Idle
        /\ \A d \in Clients \ {c} : client'[d] = client[d]
        /\ client' \in [Clients -> [at : ClientAt, run : Runs \cup {None}]]
    <3>1. Idle \in [at : ClientAt, run : Runs \cup {None}]
      BY DEF Idle, ClientAt
    <3> QED
      BY <1>1, <3>1 DEF Inv, Types, ClaimTypes
  <2>5. ClaimTypes'
    BY <1>2, <2>2, <2>4 DEF Inv, Types, ClaimTypes, ExecutionStatus
  <2>6. client'[c].at = "idle" /\ "idle" \notin Holding
    BY <2>4 DEF Idle, Holding
  <2>7. Claimed'
    BY <1>2, <2>2, <2>3, <2>4, <2>6 DEF Inv, Claimed
  <2>8. Registered' /\ Enveloped'
    BY <1>1, <1>2, <2>2, <2>3 DEF Inv, Registered, Enveloped, Payer
  <2>9. Charged' /\ Within' /\ OneAttempt' /\ OwnTasks'
    BY <1>1, <1>2, AccountsStand, TasksStand DEF Inv
  <2> QED
    BY <1>3, <2>5, <2>7, <2>8, <2>9 DEF Inv, Types
<1> QED
  BY <1>4, <1>5 DEF Settle

-----------------------------------------------------------------------------
(***************************************************************************)
(* The steps of the tasks.                                                 *)
(***************************************************************************)
Task == [at : TaskAt, n : Nat, seq : Nat]

\* What a task step leaves alone.
LEMMA ClaimsStand ==
  ASSUME Inv, UNCHANGED <<plan, ledgerVars, client, budgeted>>
  PROVE  ClaimTypes' /\ Claimed' /\ Enveloped'
<1>1. UNCHANGED <<reserved, outcome, execution>>
  BY DEF ledgerVars
<1>2. ClaimTypes' /\ Enveloped'
  BY <1>1 DEF Inv, Types, ClaimTypes, Enveloped
<1>3. Claimed'
  BY <1>1 DEF Inv, Claimed
<1> QED
  BY <1>2, <1>3

SetsTask(c, a, t) == t \in Task /\ task' = [task EXCEPT ![c][a] = t]
TaskIs(c, a, t) ==
  /\ TaskTypes' /\ task'[c][a] = t
  /\ \A d \in Clients, b \in Agents : d # c \/ b # a => task'[d][b] = task[d][b]

LEMMA TaskSet ==
  ASSUME TaskTypes, NEW c \in Clients, NEW a \in Agents, NEW t, SetsTask(c, a, t)
  PROVE  TaskIs(c, a, t)
<1>1. task \in [Clients -> [Agents -> Task]]
  BY DEF TaskTypes, Task
<1>2. task' \in [Clients -> [Agents -> Task]]
  BY <1>1 DEF SetsTask
<1>3. TaskTypes'
  BY <1>2 DEF TaskTypes, Task
<1>4. /\ task'[c][a] = t
      /\ \A d \in Clients, b \in Agents : d # c \/ b # a => task'[d][b] = task[d][b]
  BY <1>1 DEF SetsTask
<1> QED
  BY <1>3, <1>4 DEF TaskIs

LEMMA TaskGoes ==
  ASSUME TaskTypes, NEW c \in Clients, NEW a \in Agents, NEW at \in TaskAt, TaskGoto(c, a, at)
  PROVE  /\ TaskTypes'
         /\ task'[c][a].at = at /\ task'[c][a].n = task[c][a].n /\ task'[c][a].seq = task[c][a].seq
         /\ \A d \in Clients, b \in Agents : d # c \/ b # a => task'[d][b] = task[d][b]
<1>1. PICK t : t = [task[c][a] EXCEPT !.at = at]
  OBVIOUS
<1>2. task[c][a] \in Task
  BY DEF TaskTypes, Task
<1>3. t \in Task /\ t.at = at /\ t.n = task[c][a].n /\ t.seq = task[c][a].seq
  BY <1>1, <1>2 DEF Task
<1>4. task' = [task EXCEPT ![c][a] = t]
  BY <1>1 DEF TaskGoto
<1>5. SetsTask(c, a, t)
  BY <1>3, <1>4 DEF SetsTask
<1>6. TaskIs(c, a, t)
  BY <1>5, TaskSet
<1> QED
  BY <1>3, <1>6 DEF TaskIs

LEMMA TaskFacts ==
  ASSUME Inv, NEW c \in Clients, NEW a \in Agents
  PROVE  /\ task[c][a] \in Task /\ task[c][a].n \in Nat /\ task[c][a].seq \in Nat
         /\ attempts[a] \in Seq(AttemptStatus) /\ Len(attempts[a]) \in Nat
         /\ OwnTask(c, a)
<1>1. task[c][a] \in Task
  BY DEF Inv, Types, TaskTypes, Task
<1>2. attempts[a] \in Seq(AttemptStatus)
  BY DEF Inv, Types, AccountTypes
<1> QED
  BY <1>1, <1>2 DEF Task, Inv, OwnTasks

\* A task that only moves on.
LEMMA TaskMoves ==
  ASSUME Inv, NEW c \in Clients, NEW a \in Agents, NEW at \in TaskAt, TaskGoto(c, a, at),
         UNCHANGED <<attempts, requests>>,
         at \in Waits \cup {"open"} => task[c][a].at \in Waits \cup {"open"},
         \/ task[c][a].at \in Waits => at \in Waits
         \/ \A q \in requests : q.key.agent = a /\ q.key.n = task[c][a].n => q.outcome # "reserved"
  PROVE  TaskTypes' /\ OneAttempt' /\ OwnTasks'
<1>1. /\ TaskTypes'
      /\ task'[c][a].at = at /\ task'[c][a].n = task[c][a].n /\ task'[c][a].seq = task[c][a].seq
      /\ \A d \in Clients, b \in Agents : d # c \/ b # a => task'[d][b] = task[d][b]
  BY TaskGoes DEF Inv, Types
<1>2. OneAttempt'
  <2>1. \A d \in Clients, b \in Agents : task'[d][b].n = task[d][b].n
    BY <1>1
  <2> QED
    BY <2>1 DEF Inv, OneAttempt
<1>3. ASSUME NEW d \in Clients, NEW b \in Agents
      PROVE  OwnTask(d, b)'
  <2>1. OwnTask(d, b)
    BY DEF Inv, OwnTasks
  <2>2. CASE d # c \/ b # a
    <3>1. task'[d][b] = task[d][b]
      BY <1>1, <2>2
    <3> QED
      BY <2>1, <3>1 DEF OwnTask
  <2>3. CASE d = c /\ b = a
    BY <1>1, <2>1, <2>3 DEF OwnTask
  <2> QED
    BY <2>2, <2>3
<1> QED
  BY <1>1, <1>2, <1>3 DEF OwnTasks

\* A step of a task that charges nothing.
LEMMA TaskOnly ==
  ASSUME Inv, NEW c \in Clients, NEW a \in Agents, NEW at \in TaskAt, TaskGoto(c, a, at),
         RunTypes', UNCHANGED <<plan, ledgerVars, client, budgetVars>>,
         at \in Waits \cup {"open"} => task[c][a].at \in Waits \cup {"open"},
         \/ task[c][a].at \in Waits => at \in Waits
         \/ \A q \in requests : q.key.agent = a /\ q.key.n = task[c][a].n => q.outcome # "reserved"
  PROVE  Inv'
<1>1. UNCHANGED <<budgeted, attempts, requests, batches, simulated, seconds, reserved, outcome, execution>>
  BY DEF budgetVars, ledgerVars
<1>2. TaskTypes' /\ OneAttempt' /\ OwnTasks'
  BY <1>1, TaskMoves
<1>3. ClaimTypes' /\ Claimed' /\ Enveloped'
  BY <1>1, ClaimsStand
<1>4. Charged' /\ Within' /\ Registered' /\ AccountTypes'
  BY <1>1, AccountsStand DEF Inv, Registered, Payer, Types, AccountTypes
<1> QED
  BY <1>2, <1>3, <1>4 DEF Inv, Types

LEMMA InvokeStep ==
  ASSUME Inv, NEW c \in Clients, NEW a \in Agents, Invoke(c, a)
  PROVE  Inv'
<1>1. /\ task[c][a].at = "off" /\ TaskGoto(c, a, "invoked")
      /\ agent' = [agent EXCEPT ![a] = "running"]
      /\ UNCHANGED <<plan, status, ledgerVars, client, crashes, budgetVars>>
  BY DEF Invoke, Quiet
<1>2. RunTypes'
  BY <1>1, StatusValues DEF Inv, Types, RunTypes, budgetVars
<1>3. "invoked" \in TaskAt /\ "invoked" \notin Waits \cup {"open"} /\ "off" \notin Waits
  BY DEF TaskAt, Waits
<1> QED
  BY <1>1, <1>2, <1>3, TaskOnly

LEMMA SendStep ==
  ASSUME Inv, NEW c \in Clients, NEW a \in Agents, SendRequest(c, a)
  PROVE  Inv'
<1>1. /\ task[c][a].at = "reserved" /\ TaskGoto(c, a, "sent")
      /\ UNCHANGED <<plan, status, agent, ledgerVars, client, crashes, budgetVars>>
  BY DEF SendRequest, Quiet
<1>2. RunTypes'
  BY <1>1 DEF Inv, Types, RunTypes, budgetVars
<1>3. "sent" \in TaskAt /\ "sent" \in Waits /\ "reserved" \in Waits
  BY DEF TaskAt, Waits
<1> QED
  BY <1>1, <1>2, <1>3, TaskOnly

LEMMA AskApprovalStep ==
  ASSUME Inv, NEW c \in Clients, NEW a \in Agents, AskApproval(c, a)
  PROVE  Inv'
<1>1. /\ task[c][a].at = "open" /\ TaskGoto(c, a, "asked") /\ Save(plan.home[a], "paused")
      /\ UNCHANGED <<plan, agent, budgetVars, ledgerVars, client, crashes>>
  BY DEF AskApproval
<1>2. plan.home[a] \in Runs
  BY BudgetAssumption DEF Inv, Types, RunTypes
<1>3. RunTypes'
  BY <1>1, <1>2, StatusValues, Saved DEF Inv, Types, budgetVars
<1>4. "asked" \in TaskAt /\ "asked" \notin Waits \cup {"open"} /\ "open" \notin Waits
  BY DEF TaskAt, Waits
<1> QED
  BY <1>1, <1>3, <1>4, TaskOnly

LEMMA CloseAgentStep ==
  ASSUME Inv, NEW c \in Clients, NEW a \in Agents, CloseAgent(c, a)
  PROVE  Inv'
<1>1. PICK end \in {"completed", "paused", "failed"} :
        /\ task[c][a].at = Closing[end] /\ TaskGoto(c, a, end)
        /\ agent' = [agent EXCEPT ![a] = end]
        /\ UNCHANGED <<plan, status, ledgerVars, client, crashes, budgetVars>>
  BY DEF CloseAgent, Quiet
<1>2. RunTypes'
  BY <1>1, StatusValues DEF Inv, Types, RunTypes, budgetVars
<1>3. end \in TaskAt /\ end \notin Waits \cup {"open"} /\ Closing[end] \notin Waits
  BY DEF TaskAt, Waits, Closing
<1> QED
  BY <1>1, <1>2, <1>3, TaskOnly

-----------------------------------------------------------------------------
\* What is charged to an attempt without a task step.
LEMMA FakeStepStep ==
  ASSUME Inv, NEW c \in Clients, NEW a \in Agents, FakeStep(c, a)
  PROVE  Inv'
<1>1. /\ a \in plan.fake
      /\ simulated' = simulated \cup {[agent |-> a, n |-> task[c][a].n]}
      /\ UNCHANGED <<budgeted, attempts, requests, batches, seconds>>
      /\ UNCHANGED <<plan, status, agent, ledgerVars, client, task, crashes>>
  BY DEF FakeStep, Simulate, CanSimulate, Quiet
<1>2. [agent |-> a, n |-> task[c][a].n] \in [agent : plan.fake, n : Nat]
  BY <1>1, TaskFacts
<1>3. RunTypes' /\ AccountTypes' /\ TaskTypes'
  BY <1>1, <1>2 DEF Inv, Types, RunTypes, AccountTypes, TaskTypes
<1>4. ClaimTypes' /\ Claimed' /\ Enveloped'
  BY <1>1, ClaimsStand
<1>5. Charged' /\ Within' /\ OneAttempt' /\ OwnTasks'
  BY <1>1, AccountsStand, TasksStand DEF Inv
<1>6. Registered'
  BY <1>1 DEF Inv, Registered, Payer, ledgerVars
<1> QED
  BY <1>3, <1>4, <1>5, <1>6 DEF Inv, Types

LEMMA CallToolsStep ==
  ASSUME Inv, NEW c \in Clients, NEW a \in Agents, CallTools(c, a)
  PROVE  Inv'
<1>1. PICK b : b = Key(a, task[c][a].n, task[c][a].seq)
  OBVIOUS
<1>2. /\ batches' = batches \cup {b} /\ b \notin batches
      /\ UNCHANGED <<budgeted, attempts, requests, simulated, seconds>>
      /\ UNCHANGED <<plan, status, agent, ledgerVars, client, task, crashes>>
      /\ ToolCalls(Payer(a)) < Limits.tools
      /\ task[c][a].n \in DOMAIN attempts[a]
  BY <1>1 DEF CallTools, ReserveBatch, CanBatch, Active, Quiet
<1>3. b \in Id /\ b.agent = a /\ b.n = task[c][a].n
  BY <1>1, TaskFacts DEF Id, Key
<1>4. batches \subseteq Id /\ IsFiniteSet(batches) /\ IsFiniteSet(batches')
  BY <1>2, FS_AddElement DEF Inv, Types, AccountTypes
<1>5. RunTypes' /\ AccountTypes' /\ TaskTypes'
  BY <1>2, <1>3, <1>4 DEF Inv, Types, RunTypes, AccountTypes, TaskTypes
<1>6. ClaimTypes' /\ Claimed' /\ Enveloped'
  BY <1>2, ClaimsStand
<1>7. OneAttempt' /\ OwnTasks'
  BY <1>2, TasksStand DEF Inv
<1>8. Registered'
  BY <1>2 DEF Inv, Registered, Payer, ledgerVars
<1>9. Charged'
  BY <1>2, <1>3 DEF Inv, Charged
<1>10. ASSUME NEW r \in Runs
       PROVE  Spends(r)' /\ ToolCalls(r)' <= Limits.tools /\ Invocations(r)' <= Limits.invocations
  <2>1. RequestsOf(r)' = RequestsOf(r)
    BY <1>2 DEF RequestsOf, Payer
  <2>2. Spends(r)'
    BY <2>1 DEF Inv, Within, Spends, Exposure, Overshoot, Reported, Reserved, Unknown, Outcome,
                Used, Allowed
  <2>3. Invocations(r)' <= Limits.invocations
    BY <1>2 DEF Inv, Within, Invocations, Payer
  <2>4. PICK S : S = {x \in batches : Payer(x.agent) = r}
    OBVIOUS
  <2>5. IsFiniteSet(S) /\ Cardinality(S) \in Nat /\ Cardinality(S) <= Limits.tools
    <3>1. IsFiniteSet(S)
      BY <1>4, <2>4, FS_Subset
    <3>2. ToolCalls(r) = Cardinality(S)
      BY <2>4 DEF ToolCalls
    <3> QED
      BY <3>1, <3>2, FS_CardinalityType DEF Inv, Within
  <2>6. CASE r # Payer(a)
    <3>1. {x \in batches' : Payer(x.agent)' = r} = S
      BY <1>2, <1>3, <2>4, <2>6 DEF Payer
    <3>2. ToolCalls(r)' = Cardinality(S)
      BY <3>1 DEF ToolCalls
    <3> QED
      BY <2>2, <2>3, <2>5, <3>2
  <2>7. CASE r = Payer(a)
    <3>1. {x \in batches' : Payer(x.agent)' = r} = S \cup {b} /\ b \notin S
      BY <1>2, <1>3, <2>4, <2>7 DEF Payer
    <3>2. ToolCalls(r)' = Cardinality(S \cup {b})
      BY <3>1 DEF ToolCalls
    <3>3. Cardinality(S \cup {b}) = Cardinality(S) + 1
      BY <2>5, <3>1, FS_AddElement
    <3>4. Cardinality(S) < Limits.tools
      BY <1>2, <2>4, <2>7 DEF ToolCalls
    <3> QED
      BY <2>2, <2>3, <2>5, <3>2, <3>3, <3>4, LimitTypes
  <2> QED
    BY <2>6, <2>7
<1>11. Within'
  BY <1>10 DEF Within
<1> QED
  BY <1>5, <1>6, <1>7, <1>8, <1>9, <1>11 DEF Inv, Types

-----------------------------------------------------------------------------
(***************************************************************************)
(* Attempts.                                                               *)
(***************************************************************************)
\* What the attempts of an owner's agents may become without another invocation.
LEMMA SpendsSame ==
  ASSUME UNCHANGED <<plan, requests>>, NEW r
  PROVE  Spends(r)' = Spends(r)
<1>1. RequestsOf(r)' = RequestsOf(r)
  BY DEF RequestsOf, Payer
<1> QED
  BY <1>1 DEF Spends, Exposure, Overshoot, Reported, Reserved, Unknown, Outcome, Used, Allowed

LEMMA AgentsFinite ==
  ASSUME NEW r
  PROVE  IsFiniteSet({a \in Agents : Payer(a) = r})
<1>1. IsFiniteSet(Agents)
  BY BudgetAssumption
<1> QED
  BY <1>1, FS_Subset

\* One more attempt of one agent is one more invocation of its owner.
LEMMA InvokedOnce ==
  ASSUME attempts \in [Agents -> Seq(AttemptStatus)], NEW a \in Agents, plan' = plan,
         attempts' = [attempts EXCEPT ![a] = Append(@, "running")], NEW r
  PROVE  /\ Invocations(r) \in Nat
         /\ Invocations(r)' = IF r = Payer(a) THEN Invocations(r) + 1 ELSE Invocations(r)
<1>1. PICK S : S = {b \in Agents : Payer(b) = r}
  OBVIOUS
<1>2. PICK w : w = [b \in Agents |-> Len(attempts[b])]
  OBVIOUS
<1>3. PICK v : v = [b \in Agents |-> Len(attempts'[b])]
  OBVIOUS
<1>4. /\ IsFiniteSet(S) /\ S \subseteq Agents
      /\ \A b \in Agents : w[b] \in Nat /\ v[b] \in Nat
      /\ v[a] = w[a] + 1
      /\ \A b \in Agents \ {a} : v[b] = w[b]
  <2>1. IsFiniteSet(S) /\ S \subseteq Agents
    BY <1>1, AgentsFinite
  <2>2. /\ attempts'[a] = Append(attempts[a], "running") /\ attempts[a] \in Seq(AttemptStatus)
        /\ \A b \in Agents \ {a} : attempts'[b] = attempts[b]
    OBVIOUS
  <2>3. Len(attempts'[a]) = Len(attempts[a]) + 1 /\ Len(attempts[a]) \in Nat
    BY <2>2
  <2>4. \A b \in Agents : Len(attempts[b]) \in Nat
    OBVIOUS
  <2>5. \A b \in Agents : w[b] = Len(attempts[b]) /\ v[b] = Len(attempts'[b])
    BY <1>2, <1>3
  <2>6. \A b \in Agents \ {a} : v[b] = w[b]
    BY <2>2, <2>5
  <2>7. v[a] = w[a] + 1 /\ v[a] \in Nat
    BY <2>3, <2>5
  <2>8. \A b \in Agents : w[b] \in Nat /\ v[b] \in Nat
    BY <2>4, <2>5, <2>6, <2>7
  <2> QED
    BY <2>1, <2>6, <2>7, <2>8
<1>5. Invocations(r) = Total(w, S) /\ Invocations(r)' = Total(v, S)
  <2>1. {b \in Agents : Payer(b)' = r} = S
    BY <1>1 DEF Payer
  <2> QED
    BY <1>1, <1>2, <1>3, <2>1 DEF Invocations
<1>6. Total(w, S) \in Nat
  BY <1>4, TotalNat
<1>7. CASE r # Payer(a)
  <2>1. \A b \in S : v[b] = w[b]
    BY <1>1, <1>4, <1>7
  <2>2. Total(v, S) = Total(w, S)
    BY <1>4, <2>1, TotalSame
  <2> QED
    BY <1>5, <1>6, <1>7, <2>2
<1>8. CASE r = Payer(a)
  <2>1. a \in S
    BY <1>1, <1>8
  <2>2. PICK R : R = S \ {a}
    OBVIOUS
  <2>3. IsFiniteSet(R) /\ R \subseteq Agents \ {a}
    BY <1>4, <2>2, FS_RemoveElement
  <2>4. Total(w, S) = w[a] + Total(w, R) /\ Total(v, S) = v[a] + Total(v, R)
    <3>1. \A b \in S : w[b] \in Int /\ v[b] \in Int
      BY <1>4
    <3> QED
      BY <1>4, <2>1, <2>2, <3>1, TotalRemove
  <2>5. Total(v, R) = Total(w, R) /\ Total(w, R) \in Nat
    <3>1. \A b \in R : v[b] = w[b] /\ w[b] \in Nat
      BY <1>4, <2>3
    <3> QED
      BY <2>3, <3>1, TotalSame, TotalNat
  <2>6. w[a] \in Nat /\ v[a] = w[a] + 1
    BY <1>4
  <2> QED
    BY <1>5, <1>6, <1>8, <2>4, <2>5, <2>6
<1> QED
  BY <1>5, <1>6, <1>7, <1>8

LEMMA BeginStep ==
  ASSUME Inv, NEW c \in Clients, NEW a \in Agents, BeginAttempt(c, a)
  PROVE  Inv'
<1>1. PICK n : n = Len(attempts[a]) + 1
  OBVIOUS
<1>2. PICK t : t = [at |-> "open", n |-> n, seq |-> 0]
  OBVIOUS
<1>3. /\ attempts' = [attempts EXCEPT ![a] = Append(@, "running")]
      /\ UNCHANGED <<budgeted, requests, batches, simulated, seconds>>
      /\ task' = [task EXCEPT ![c][a] = t]
      /\ UNCHANGED <<plan, status, agent, ledgerVars, client, crashes>>
      /\ \A k \in DOMAIN attempts[a] : attempts[a][k] # "running"
      /\ Invocations(Payer(a)) < Limits.invocations
  BY <1>1, <1>2 DEF BeginAttempt, CanBegin, Begin, Quiet
<1>4. /\ attempts \in [Agents -> Seq(AttemptStatus)]
      /\ attempts[a] \in Seq(AttemptStatus) /\ Len(attempts[a]) \in Nat /\ n \in Nat
  BY <1>1 DEF Inv, Types, AccountTypes
<1>5. /\ attempts'[a] = Append(attempts[a], "running")
      /\ \A b \in Agents \ {a} : attempts'[b] = attempts[b]
      /\ attempts' \in [Agents -> Seq(AttemptStatus)]
  <2>1. Append(attempts[a], "running") \in Seq(AttemptStatus)
    BY <1>4 DEF AttemptStatus
  <2> QED
    BY <1>3, <1>4, <2>1
<1>6. /\ Len(attempts'[a]) = n /\ DOMAIN attempts'[a] = DOMAIN attempts[a] \cup {n}
      /\ n \notin DOMAIN attempts[a] /\ attempts'[a][n] = "running"
      /\ \A k \in DOMAIN attempts[a] : attempts'[a][k] = attempts[a][k]
  BY <1>1, <1>4, <1>5
<1>7. t \in Task /\ t.at = "open" /\ t.n = n /\ t.seq = 0
  BY <1>2, <1>4 DEF Task, TaskAt
<1>8. /\ TaskTypes' /\ task'[c][a] = t
      /\ \A d \in Clients, b \in Agents : d # c \/ b # a => task'[d][b] = task[d][b]
  <2>1. TaskTypes
    BY DEF Inv, Types
  <2>2. SetsTask(c, a, t)
    BY <1>3, <1>7 DEF SetsTask
  <2>3. TaskIs(c, a, t)
    BY <2>1, <2>2, TaskSet
  <2> QED
    BY <2>3 DEF TaskIs
<1>9. RunTypes' /\ AccountTypes'
  BY <1>3, <1>5 DEF Inv, Types, RunTypes, AccountTypes
<1>10. ClaimTypes' /\ Claimed' /\ Enveloped'
  BY <1>3, ClaimsStand
<1>11. Registered'
  BY <1>3 DEF Inv, Registered, Payer, ledgerVars
<1>12. Charged'
  <2>1. \A b \in Agents : DOMAIN attempts[b] \subseteq DOMAIN attempts'[b]
    BY <1>5, <1>6
  <2>2. /\ \A q \in requests : q.key.agent \in Agents
        /\ \A b \in batches : b.agent \in Agents
    BY DEF Inv, Types, AccountTypes, Request, Id
  <2> QED
    BY <1>3, <2>1, <2>2 DEF Inv, Charged
<1>13. Within'
  <2>1. ASSUME NEW r \in Runs
        PROVE  Spends(r)' /\ ToolCalls(r)' <= Limits.tools /\ Invocations(r)' <= Limits.invocations
    <3>1. Spends(r)'
      BY <1>3, SpendsSame DEF Inv, Within
    <3>2. ToolCalls(r)' <= Limits.tools
      BY <1>3 DEF Inv, Within, ToolCalls, Payer
    <3>3. Invocations(r)' <= Limits.invocations
      <4>1. /\ Invocations(r) \in Nat
            /\ Invocations(r)' = IF r = Payer(a) THEN Invocations(r) + 1 ELSE Invocations(r)
        BY <1>3, <1>4, InvokedOnce
      <4>2. Invocations(r) <= Limits.invocations
        BY DEF Inv, Within
      <4> QED
        BY <1>3, <4>1, <4>2, LimitTypes
    <3> QED
      BY <3>1, <3>2, <3>3
  <2> QED
    BY <2>1 DEF Within
<1>14. OneAttempt'
  <2>1. ASSUME NEW b \in Agents, NEW j \in DOMAIN attempts'[b], NEW k \in DOMAIN attempts'[b],
               attempts'[b][j] = "running", attempts'[b][k] = "running"
        PROVE  j = k
    BY <1>3, <1>5, <1>6, <2>1 DEF Inv, OneAttempt
  <2>2. ASSUME NEW d \in Clients, NEW b \in Agents
        PROVE  task[d][b].n <= Len(attempts[b]) /\ task[d][b].n \in Nat
    BY TaskFacts DEF OwnTask
  <2>3. ASSUME NEW d \in Clients, NEW e \in Clients, NEW b \in Agents,
               d # e, task'[d][b].n = task'[e][b].n
        PROVE  task'[d][b].n = 0
    <3>1. CASE b = a /\ (d = c \/ e = c)
      BY <1>1, <1>4, <1>7, <1>8, <2>2, <2>3, <3>1
    <3>2. CASE ~(b = a /\ (d = c \/ e = c))
      BY <1>8, <2>3, <3>2 DEF Inv, OneAttempt
    <3> QED
      BY <3>1, <3>2
  <2> QED
    BY <2>1, <2>3 DEF OneAttempt
<1>15. ASSUME NEW d \in Clients, NEW b \in Agents
       PROVE  OwnTask(d, b)'
  <2>1. OwnTask(d, b) /\ task[d][b].n \in Nat
    BY TaskFacts
  <2>2. CASE d = c /\ b = a
    <3>1. \A q \in requests : q.key.agent = a => q.key.n # n
      BY <1>6 DEF Inv, Charged
    <3> QED
      BY <1>3, <1>4, <1>6, <1>7, <1>8, <2>2, <3>1 DEF OwnTask
  <2>3. CASE ~(d = c /\ b = a)
    <3>1. task'[d][b] = task[d][b]
      BY <1>8, <2>3
    <3>2. Len(attempts[b]) \in Nat /\ attempts[b] \in Seq(AttemptStatus)
      BY <1>4
    <3>3. Len(attempts[b]) <= Len(attempts'[b])
      BY <1>1, <1>4, <1>5, <1>6, <3>2
    <3>4. \A k \in DOMAIN attempts[b] : attempts'[b][k] = attempts[b][k]
      BY <1>5, <1>6
    <3>5. /\ task[d][b].n <= Len(attempts[b]) /\ Len(attempts'[b]) \in Nat
          /\ task[d][b].n # 0 => task[d][b].n \in DOMAIN attempts[b]
      BY <1>5, <2>1, <3>2 DEF OwnTask
    <3>6. task[d][b].n <= Len(attempts'[b])
      BY <2>1, <3>2, <3>3, <3>5
    <3>7. task[d][b].at \in Waits \cup {"open"} =>
            task[d][b].n # 0 /\ attempts'[b][task[d][b].n] = "running"
      BY <2>1, <3>4, <3>5 DEF OwnTask
    <3> QED
      BY <1>3, <2>1, <3>1, <3>6, <3>7 DEF OwnTask
  <2> QED
    BY <2>2, <2>3
<1> QED
  BY <1>8, <1>9, <1>10, <1>11, <1>12, <1>13, <1>14, <1>15 DEF Inv, Types, OwnTasks

\* The end of an attempt.  Nothing of it is in flight then: who waits for an answer takes it,
\* or its loss, first.
LEMMA EndStep ==
  ASSUME Inv, NEW c \in Clients, NEW a \in Agents, NEW end \in {"completed", "paused", "failed"},
         EndAttempt(c, a, end), task[c][a].at \notin Waits
  PROVE  Inv'
<1>1. PICK n : n = task[c][a].n
  OBVIOUS
<1>2. /\ UNCHANGED <<plan, status, agent, ledgerVars, client, crashes>>
      /\ TaskGoto(c, a, Closing[end])
  BY DEF EndAttempt, Quiet
<1>3. Closing[end] \in TaskAt /\ Closing[end] \notin Waits \cup {"open"}
  BY DEF Closing, TaskAt, Waits
<1>4. CASE UNCHANGED budgetVars
  <2>1. RunTypes'
    BY <1>2, <1>4 DEF Inv, Types, RunTypes, budgetVars
  <2> QED
    BY <1>2, <1>3, <1>4, <2>1, TaskOnly
<1>5. CASE /\ n # 0 /\ attempts[a][n] = "running" /\ attempts' = [attempts EXCEPT ![a][n] = end]
           /\ requests' = Settled(Pending(a, n), "unknown", 0)
           /\ UNCHANGED <<budgeted, batches, simulated, seconds>>
  <2>1. Pending(a, n) = {}
    BY <1>1, TaskFacts DEF OwnTask, Pending
  <2>2. requests' = requests
    BY <1>5, <2>1 DEF Settled
  <2>3. /\ attempts[a] \in Seq(AttemptStatus) /\ n \in Nat /\ n <= Len(attempts[a])
        /\ attempts \in [Agents -> Seq(AttemptStatus)]
    BY <1>1, TaskFacts DEF OwnTask, Inv, Types, AccountTypes
  <2>4. n \in DOMAIN attempts[a]
    BY <1>5, <2>3
  <2>5. PICK s : s = [attempts[a] EXCEPT ![n] = end]
    OBVIOUS
  <2>6. /\ attempts'[a] = s
        /\ \A b \in Agents \ {a} : attempts'[b] = attempts[b]
    BY <1>5, <2>3, <2>5
  <2>7. /\ s \in Seq(AttemptStatus) /\ Len(s) = Len(attempts[a])
        /\ DOMAIN s = DOMAIN attempts[a] /\ s[n] = end
        /\ \A k \in DOMAIN attempts[a] \ {n} : s[k] = attempts[a][k]
    BY <2>3, <2>4, <2>5 DEF AttemptStatus
  <2>8. /\ attempts' \in [Agents -> Seq(AttemptStatus)]
        /\ \A b \in Agents : Len(attempts'[b]) = Len(attempts[b])
                             /\ DOMAIN attempts'[b] = DOMAIN attempts[b]
        /\ \A b \in Agents : \A k \in DOMAIN attempts[b] :
             b # a \/ k # n => attempts'[b][k] = attempts[b][k]
    BY <1>5, <2>3, <2>6, <2>7
  <2>9. /\ TaskTypes' /\ task'[c][a].at = Closing[end] /\ task'[c][a].n = n
        /\ task'[c][a].seq = task[c][a].seq
        /\ \A d \in Clients, b \in Agents : d # c \/ b # a => task'[d][b] = task[d][b]
    BY <1>1, <1>2, <1>3, TaskGoes DEF Inv, Types
  <2>10. RunTypes' /\ AccountTypes'
    BY <1>2, <1>5, <2>2, <2>8 DEF Inv, Types, RunTypes, AccountTypes
  <2>11. ClaimTypes' /\ Claimed' /\ Enveloped'
    BY <1>2, <1>5, ClaimsStand
  <2>12. Registered'
    BY <1>2, <2>2 DEF Inv, Registered, Payer, ledgerVars
  <2>13. Charged'
    <3>1. /\ \A q \in requests : q.key.agent \in Agents
          /\ \A b \in batches : b.agent \in Agents
      BY DEF Inv, Types, AccountTypes, Request, Id
    <3> QED
      BY <1>5, <2>2, <2>8, <3>1 DEF Inv, Charged
  <2>14. Within'
    <3>1. ASSUME NEW r \in Runs
          PROVE  Spends(r)' /\ ToolCalls(r)' <= Limits.tools /\ Invocations(r)' <= Limits.invocations
      <4>1. Spends(r)'
        BY <1>2, <2>2, SpendsSame DEF Inv, Within
      <4>2. ToolCalls(r)' <= Limits.tools
        BY <1>2, <1>5 DEF Inv, Within, ToolCalls, Payer
      <4>3. [b \in Agents |-> Len(attempts'[b])] = [b \in Agents |-> Len(attempts[b])]
        BY <2>8
      <4>4. Invocations(r)' = Invocations(r)
        BY <1>2, <4>3 DEF Invocations, Payer
      <4> QED
        BY <4>1, <4>2, <4>4 DEF Inv, Within
    <3> QED
      BY <3>1 DEF Within
  <2>15. OneAttempt'
    <3>1. ASSUME NEW b \in Agents, NEW k \in DOMAIN attempts[b], attempts'[b][k] = "running"
          PROVE  attempts[b][k] = "running"
      BY <2>6, <2>7, <2>8, <3>1
    <3>2. \A d \in Clients, b \in Agents : task'[d][b].n = task[d][b].n
      BY <1>1, <2>9
    <3>3. ASSUME NEW b \in Agents, NEW j \in DOMAIN attempts'[b], NEW k \in DOMAIN attempts'[b],
                 attempts'[b][j] = "running", attempts'[b][k] = "running"
          PROVE  j = k
      <4>1. j \in DOMAIN attempts[b] /\ k \in DOMAIN attempts[b]
        BY <2>8, <3>3
      <4>2. attempts[b][j] = "running" /\ attempts[b][k] = "running"
        BY <3>1, <3>3, <4>1
      <4> QED
        BY <4>1, <4>2 DEF Inv, OneAttempt
    <3>4. ASSUME NEW d \in Clients, NEW e \in Clients, NEW b \in Agents,
                 d # e, task'[d][b].n = task'[e][b].n
          PROVE  task'[d][b].n = 0
      BY <3>2, <3>4 DEF Inv, OneAttempt
    <3> QED
      BY <3>3, <3>4 DEF OneAttempt
  <2>16. ASSUME NEW d \in Clients, NEW b \in Agents
         PROVE  OwnTask(d, b)'
    <3>1. OwnTask(d, b) /\ task[d][b] \in Task /\ task[d][b].n \in Nat
      BY TaskFacts
    <3>2. CASE d = c /\ b = a
      BY <1>1, <1>3, <2>2, <2>1, <2>8, <2>9, <3>1, <3>2 DEF OwnTask, Pending
    <3>3. CASE ~(d = c /\ b = a)
      <4>1. task'[d][b] = task[d][b]
        BY <2>9, <3>3
      <4>2. b = a => task[d][b].n # n
        <5>1. ASSUME b = a, task[d][b].n = n PROVE FALSE
          BY <1>1, <1>5, <3>3, <5>1 DEF Inv, OneAttempt
        <5> QED
          BY <5>1
      <4>3. /\ attempts[b] \in Seq(AttemptStatus)
            /\ task[d][b].n <= Len(attempts[b])
            /\ task[d][b].n # 0 => task[d][b].n \in DOMAIN attempts[b]
        BY <2>3, <3>1 DEF OwnTask
      <4>4. task[d][b].at \in Waits \cup {"open"} =>
              task[d][b].n # 0 /\ attempts'[b][task[d][b].n] = "running"
        BY <2>8, <3>1, <4>2, <4>3 DEF OwnTask
      <4> QED
        BY <2>2, <2>8, <3>1, <4>1, <4>4 DEF OwnTask
    <3> QED
      BY <3>2, <3>3
  <2> QED
    BY <2>9, <2>10, <2>11, <2>12, <2>13, <2>14, <2>15, <2>16 DEF Inv, Types, OwnTasks
<1> QED
  BY <1>1, <1>4, <1>5 DEF EndAttempt, FinishAttempt

LEMMA EndSteps ==
  ASSUME Inv, NEW c \in Clients, NEW a \in Agents, Succeed(c, a) \/ Pause(c, a) \/ Fail(c, a)
  PROVE  Inv'
<1>1. /\ task[c][a].at \in {"open", "asked", "invoked", "error"}
      /\ \E end \in {"completed", "paused", "failed"} : EndAttempt(c, a, end)
  BY DEF Succeed, Pause, Fail
<1>2. task[c][a].at \notin Waits
  BY <1>1 DEF Waits
<1> QED
  BY <1>1, <1>2, EndStep

-----------------------------------------------------------------------------
(***************************************************************************)
(* Requests.                                                               *)
(***************************************************************************)
\* What an operator of the budget grants is at most what is left.
LEMMA AllowanceFits ==
  ASSUME requests \subseteq Request, IsFiniteSet(requests), NEW r, NEW asked \in Nat,
         Allowance(r, asked) > 0
  PROVE  /\ Allowance(r, asked) \in 1..Limits.tokens
         /\ Allowance(r, asked) + Exposure(r) <= Limits.tokens
<1>1. /\ Reported(r) \in Nat /\ Reserved(r) \in Nat /\ Unknown(r) \in Nat
      /\ Exposure(r) = Reported(r) + Reserved(r) + Unknown(r)
  BY OwnerSums
<1>2. Limits.tokens \in Nat
  BY LimitTypes
<1>3. ~(Reported(r) + Reserved(r) + Unknown(r) >= Limits.tokens)
  BY DEF Allowance
<1>4. PICK left : left = Limits.tokens - Reported(r) - Reserved(r) - Unknown(r)
  OBVIOUS
<1>5. Allowance(r, asked) = Min({asked, left})
  BY <1>3, <1>4 DEF Allowance
<1>6. left \in Int /\ left + Exposure(r) = Limits.tokens /\ Exposure(r) \in Nat
  BY <1>1, <1>2, <1>4
<1>7. \E x \in {asked, left} : \A y \in {asked, left} : x <= y
  BY <1>6
<1>8. Min({asked, left}) \in {asked, left} /\ \A y \in {asked, left} : Min({asked, left}) <= y
  BY <1>7 DEF Min
<1>9. PICK k : k = Allowance(r, asked)
  OBVIOUS
<1>10. k \in Int /\ k <= left /\ k > 0
  BY <1>5, <1>6, <1>8, <1>9
<1> QED
  BY <1>2, <1>6, <1>9, <1>10

LEMMA AskStep ==
  ASSUME Inv, NEW c \in Clients, NEW a \in Agents, NEW asked \in Asked, AskModel(c, a, asked)
  PROVE  Inv'
<1>1. PICK n : n = task[c][a].n
  OBVIOUS
<1>2. PICK seq : seq = task[c][a].seq + 1
  OBVIOUS
<1>3. PICK t : t = [at |-> "reserved", n |-> n, seq |-> seq]
  OBVIOUS
<1>4. PICK r : r = Payer(a)
  OBVIOUS
<1>5. PICK p : p = Reservation(a, n, seq, Allowance(r, asked))
  OBVIOUS
<1>6. /\ requests' = requests \cup {p}
      /\ UNCHANGED <<budgeted, attempts, batches, simulated, seconds>>
      /\ task' = [task EXCEPT ![c][a] = t]
      /\ UNCHANGED <<plan, status, agent, ledgerVars, client, crashes>>
  BY <1>1, <1>2, <1>3, <1>4, <1>5 DEF AskModel, ReserveRequest, Quiet
<1>7. /\ task[c][a].at = "open" /\ n \in DOMAIN attempts[a] /\ attempts[a][n] = "running"
      /\ \A q \in requests : q.key # Key(a, n, seq)
      /\ Allowance(r, asked) > 0 /\ Cardinality(RequestsOf(r)) < Limits.requests
      /\ r \in Slots => execution[r] = "active"
  BY <1>1, <1>2, <1>4 DEF AskModel, CanReserve, Active, Admitted
<1>8. /\ n \in Nat /\ task[c][a].seq \in Nat /\ seq \in Nat
      /\ attempts[a] \in Seq(AttemptStatus) /\ OwnTask(c, a)
  BY <1>1, <1>2, TaskFacts
<1>9. requests \subseteq Request /\ IsFiniteSet(requests) /\ asked \in Nat
  BY ClientAssumption DEF Inv, Types, AccountTypes
<1>10. /\ Allowance(r, asked) \in 1..Limits.tokens
       /\ Allowance(r, asked) + Exposure(r) <= Limits.tokens
  BY <1>7, <1>9, AllowanceFits
<1>11. /\ p.key = Key(a, n, seq) /\ p.outcome = "reserved" /\ p.used = 0
       /\ p.allowance = Allowance(r, asked)
       /\ p.key.agent = a /\ p.key.n = n /\ p.key.seq = seq
  BY <1>5 DEF Reservation, Key
<1>12. p \in Request
  <2>1. Key(a, n, seq) \in Id
    BY <1>8 DEF Key, Id
  <2> QED
    BY <1>5, <1>10, <2>1 DEF Reservation, Request, Outcomes
<1>13. p \notin requests
  BY <1>7, <1>11
<1>14. t \in Task /\ t.at = "reserved" /\ t.n = n /\ t.seq = seq
  BY <1>3, <1>8 DEF Task, TaskAt
<1>15. /\ TaskTypes' /\ task'[c][a] = t
       /\ \A d \in Clients, b \in Agents : d # c \/ b # a => task'[d][b] = task[d][b]
  <2>1. TaskTypes
    BY DEF Inv, Types
  <2>2. SetsTask(c, a, t)
    BY <1>6, <1>14 DEF SetsTask
  <2>3. TaskIs(c, a, t)
    BY <2>1, <2>2, TaskSet
  <2> QED
    BY <2>3 DEF TaskIs
<1>16. RunTypes' /\ AccountTypes'
  <2>1. IsFiniteSet(requests')
    BY <1>6, <1>9, FS_AddElement
  <2> QED
    BY <1>6, <1>9, <1>12, <2>1 DEF Inv, Types, RunTypes, AccountTypes
<1>17. ClaimTypes' /\ Claimed' /\ Enveloped'
  BY <1>6, ClaimsStand
<1>18. Charged'
  BY <1>6, <1>7, <1>11 DEF Inv, Charged
<1>19. Within'
  <2>1. ASSUME NEW x \in Runs
        PROVE  Spends(x)' /\ ToolCalls(x)' <= Limits.tools /\ Invocations(x)' <= Limits.invocations
    <3>1. Spends(x)'
      <4>1. Spends(x)
        BY DEF Inv, Within
      <4>2. /\ p.allowance + Exposure(Payer(p.key.agent)) <= Limits.tokens
            /\ Cardinality(RequestsOf(Payer(p.key.agent))) < Limits.requests
        BY <1>4, <1>7, <1>10, <1>11
      <4> QED
        BY <1>6, <1>9, <1>11, <1>12, <1>13, <4>1, <4>2, SpendsMore
    <3>2. ToolCalls(x)' <= Limits.tools /\ Invocations(x)' <= Limits.invocations
      BY <1>6 DEF Inv, Within, ToolCalls, Invocations, Payer
    <3> QED
      BY <3>1, <3>2
  <2> QED
    BY <2>1 DEF Within
<1>20. Registered'
  <2>1. r \in Slots => execution[r] # None
    BY <1>7 DEF None
  <2> QED
    BY <1>4, <1>6, <1>11, <2>1 DEF Inv, Registered, Payer, ledgerVars
<1>21. OneAttempt'
  <2>1. \A d \in Clients, b \in Agents : task'[d][b].n = task[d][b].n
    BY <1>1, <1>14, <1>15
  <2> QED
    BY <1>6, <2>1 DEF Inv, OneAttempt
<1>22. ASSUME NEW d \in Clients, NEW b \in Agents
       PROVE  OwnTask(d, b)'
  <2>1. OwnTask(d, b)
    BY DEF Inv, OwnTasks
  <2>2. CASE d = c /\ b = a
    <3>1. /\ t.n <= Len(attempts[a]) /\ t.n # 0
      BY <1>1, <1>7, <1>8, <1>14 DEF OwnTask
    <3>2. ASSUME NEW k \in 1..seq
          PROVE  \E q \in requests' : q.key = Key(a, n, k)
      <4>1. CASE k = seq
        BY <1>6, <1>11, <4>1
      <4>2. CASE k # seq
        <5>1. k \in 1..task[c][a].seq
          BY <1>2, <1>8, <4>2
        <5> QED
          BY <1>1, <1>6, <1>8, <5>1 DEF OwnTask
      <4> QED
        BY <4>1, <4>2
    <3>3. ASSUME NEW q \in requests', q.key.agent = a, q.key.n = n, q.outcome = "reserved"
          PROVE  q.key.seq = seq
      <4>1. q \notin requests
        BY <1>1, <1>7, <1>8, <3>3 DEF OwnTask, Waits
      <4> QED
        BY <1>6, <1>11, <4>1
    <3> QED
      BY <1>6, <1>7, <1>14, <1>15, <2>2, <3>1, <3>2, <3>3 DEF OwnTask, Waits
  <2>3. CASE ~(d = c /\ b = a)
    <3>1. task'[d][b] = task[d][b]
      BY <1>15, <2>3
    <3>2. ~(b = a /\ task[d][b].n = n)
      <4>1. ASSUME b = a, task[d][b].n = n PROVE FALSE
        <5>1. n # 0
          BY <1>7, <1>8
        <5> QED
          BY <1>1, <2>3, <4>1, <5>1 DEF Inv, OneAttempt
      <4> QED
        BY <4>1
    <3>3. \A k \in 1..task[d][b].seq : \E q \in requests' : q.key = Key(b, task[d][b].n, k)
      BY <1>6, <2>1 DEF OwnTask
    <3>4. \A q \in requests' :
            (q.key.agent = b /\ q.key.n = task[d][b].n /\ q.outcome = "reserved") => q \in requests
      BY <1>6, <1>11, <3>2
    <3> QED
      BY <1>6, <2>1, <3>1, <3>3, <3>4 DEF OwnTask
  <2> QED
    BY <2>2, <2>3
<1> QED
  BY <1>15, <1>16, <1>17, <1>18, <1>19, <1>20, <1>21, <1>22 DEF Inv, Types, OwnTasks

-----------------------------------------------------------------------------
\* The accounting of one request is replaced, or nothing is.
Replaces(p, o, u) ==
  requests' = (requests \ {p}) \cup {[p EXCEPT !.outcome = o, !.used = u]}

SettlesAs(a, n, seq, o, u) ==
  requests' = Settled({q \in Pending(a, n) : q.key.seq = seq}, o, u)

Fated(a, n, seq, o, u) ==
  \/ /\ requests' = requests
     /\ \A q \in requests : ~(q.key.agent = a /\ q.key.n = n /\ q.key.seq = seq
                              /\ q.outcome = "reserved")
  \/ \E p \in requests :
       /\ p.outcome = "reserved" /\ p.key.agent = a /\ p.key.n = n /\ p.key.seq = seq
       /\ Replaces(p, o, u)

LEMMA SettledOne ==
  ASSUME Charged, requests \subseteq Request,
         NEW a, NEW n, NEW seq, NEW o, NEW u, SettlesAs(a, n, seq, o, u)
  PROVE  Fated(a, n, seq, o, u)
<1>1. PICK S : S = {q \in Pending(a, n) : q.key.seq = seq}
  OBVIOUS
<1>0. requests' = Settled(S, o, u)
  BY <1>1 DEF SettlesAs
<1>2. CASE S = {}
  <2>1. requests' = requests
    BY <1>0, <1>2 DEF Settled
  <2> QED
    BY <1>1, <1>2, <2>1 DEF Pending, Fated
<1>3. CASE S # {}
  <2>1. PICK p \in S : TRUE
    BY <1>3
  <2>2. \A q \in S : q \in requests /\ q.outcome = "reserved"
                     /\ q.key.agent = a /\ q.key.n = n /\ q.key.seq = seq /\ q.key \in Id
    BY <1>1 DEF Pending, Request
  <2>3. \A q \in S : q.key = p.key
    BY <2>1, <2>2 DEF Id
  <2>4. S = {p}
    BY <2>1, <2>2, <2>3 DEF Charged
  <2>5. requests' = (requests \ {p}) \cup {[q EXCEPT !.outcome = o, !.used = u] : q \in {p}}
    BY <1>0, <2>4 DEF Settled
  <2>6. Replaces(p, o, u)
    BY <2>5 DEF Replaces
  <2> QED
    BY <2>1, <2>2, <2>6 DEF Fated
<1> QED
  BY <1>2, <1>3

\* The fate of the request a task waits for.
LEMMA FateStep ==
  ASSUME Inv, NEW c \in Clients, NEW a \in Agents, task[c][a].at \in Waits,
         NEW o \in {"reported", "unknown"}, NEW u \in Usage \cup {0},
         requests' = Settled({q \in Pending(a, task[c][a].n) : q.key.seq = task[c][a].seq}, o, u),
         NEW at \in {"open", "error"}, TaskGoto(c, a, at),
         UNCHANGED <<budgeted, attempts, batches, simulated, seconds>>,
         UNCHANGED <<plan, status, agent, ledgerVars, client, crashes>>
  PROVE  Inv'
<1>1. PICK n : n = task[c][a].n
  OBVIOUS
<1>2. PICK seq : seq = task[c][a].seq
  OBVIOUS
<1>3. requests \subseteq Request /\ IsFiniteSet(requests) /\ Charged
  BY DEF Inv, Types, AccountTypes
<1>4. at \in TaskAt /\ at \notin Waits
  BY DEF TaskAt, Waits
<1>5. RunTypes'
  BY DEF Inv, Types, RunTypes
<1>6. OwnTask(c, a) /\ task[c][a] \in Task
  BY TaskFacts
<1>7. Fated(a, n, seq, o, u)
  <2>1. SettlesAs(a, n, seq, o, u)
    BY <1>1, <1>2 DEF SettlesAs
  <2> QED
    BY <1>3, <2>1, SettledOne
<1>8. CASE /\ requests' = requests
           /\ \A q \in requests : ~(q.key.agent = a /\ q.key.n = n /\ q.key.seq = seq
                                    /\ q.outcome = "reserved")
  <2>1. \A q \in requests : q.key.agent = a /\ q.key.n = task[c][a].n => q.outcome # "reserved"
    BY <1>1, <1>2, <1>6, <1>8 DEF OwnTask
  <2>2. at \in Waits \cup {"open"} => task[c][a].at \in Waits \cup {"open"}
    OBVIOUS
  <2>3. UNCHANGED budgetVars
    BY <1>8 DEF budgetVars
  <2> QED
    BY <1>4, <1>5, <2>1, <2>2, <2>3, TaskOnly
<1>9. CASE \E p \in requests :
             /\ p.outcome = "reserved" /\ p.key.agent = a /\ p.key.n = n /\ p.key.seq = seq
             /\ Replaces(p, o, u)
  <2>1. PICK p \in requests :
          /\ p.outcome = "reserved" /\ p.key.agent = a /\ p.key.n = n /\ p.key.seq = seq
          /\ Replaces(p, o, u)
    BY <1>9
  <2>2. PICK new : new = [p EXCEPT !.outcome = o, !.used = u]
    OBVIOUS
  <2>3. requests' = (requests \ {p}) \cup {new}
    BY <2>1, <2>2 DEF Replaces
  <2>4. /\ new \in Request /\ new.key = p.key /\ new.outcome = o /\ new.used = u
    BY <1>3, <2>2 DEF Request, Outcomes
  <2>5. o # "reserved"
    OBVIOUS
  <2>6. \A q \in requests : q.key = p.key => q = p
    BY <1>3 DEF Charged
  <2>7. RunTypes' /\ AccountTypes'
    <3>1. IsFiniteSet(requests \ {p})
      BY <1>3, FS_RemoveElement
    <3>2. IsFiniteSet((requests \ {p}) \cup {new})
      BY <3>1, FS_AddElement
    <3> QED
      BY <1>3, <1>5, <2>3, <2>4, <3>2 DEF Inv, Types, AccountTypes
  <2>8. ClaimTypes' /\ Claimed' /\ Enveloped'
    BY ClaimsStand
  <2>9. Charged'
    BY <1>3, <2>3, <2>4, <2>5 DEF Charged
  <2>10. Within'
    <3>1. ASSUME NEW x \in Runs
          PROVE  Spends(x)' /\ ToolCalls(x)' <= Limits.tools /\ Invocations(x)' <= Limits.invocations
      <4>1. Spends(x)
        BY DEF Inv, Within
      <4>2. Spends(x)'
        BY <1>3, <2>1, <2>2, <2>3, <2>6, <4>1, SpendsOnce
      <4>3. ToolCalls(x)' <= Limits.tools /\ Invocations(x)' <= Limits.invocations
        BY DEF Inv, Within, ToolCalls, Invocations, Payer
      <4> QED
        BY <4>2, <4>3
    <3> QED
      BY <3>1 DEF Within
  <2>11. Registered'
    BY <2>3, <2>4 DEF Inv, Registered, Payer, ledgerVars
  <2>12. /\ TaskTypes' /\ task'[c][a].at = at /\ task'[c][a].n = n /\ task'[c][a].seq = seq
         /\ \A d \in Clients, b \in Agents : d # c \/ b # a => task'[d][b] = task[d][b]
    BY <1>1, <1>2, <1>4, TaskGoes DEF Inv, Types
  <2>13. OneAttempt'
    <3>1. \A d \in Clients, b \in Agents : task'[d][b].n = task[d][b].n
      BY <1>1, <2>12
    <3> QED
      BY <3>1 DEF Inv, OneAttempt
  <2>14. ASSUME NEW d \in Clients, NEW b \in Agents
         PROVE  OwnTask(d, b)'
    <3>1. OwnTask(d, b)
      BY DEF Inv, OwnTasks
    <3>2. task'[d][b].n = task[d][b].n /\ task'[d][b].seq = task[d][b].seq
      BY <1>1, <1>2, <2>12
    <3>3. \A k \in 1..task[d][b].seq : \E q \in requests' : q.key = Key(b, task[d][b].n, k)
      <4>1. ASSUME NEW k \in 1..task[d][b].seq
            PROVE  \E q \in requests' : q.key = Key(b, task[d][b].n, k)
        <5>1. PICK q \in requests : q.key = Key(b, task[d][b].n, k)
          BY <3>1 DEF OwnTask
        <5> QED
          BY <2>3, <2>4, <5>1
      <4> QED
        BY <4>1
    <3>4. task'[d][b].at \in Waits \cup {"open"} => task[d][b].at \in Waits \cup {"open"}
      BY <2>12
    <3>5. ASSUME NEW q \in requests', q.key.agent = b, q.key.n = task[d][b].n,
                 q.outcome = "reserved"
          PROVE  task'[d][b].at \in Waits /\ q.key.seq = task[d][b].seq
      <4>1. q \in requests /\ q # p
        BY <2>3, <2>4, <2>5, <3>5
      <4>2. task[d][b].at \in Waits /\ q.key.seq = task[d][b].seq
        BY <3>1, <3>5, <4>1 DEF OwnTask
      <4>3. ~(d = c /\ b = a)
        <5>1. ASSUME d = c, b = a PROVE FALSE
          <6>1. q.key.agent = p.key.agent /\ q.key.n = p.key.n /\ q.key.seq = p.key.seq
            BY <1>1, <1>2, <2>1, <3>5, <4>2, <5>1
          <6>2. q.key \in Id /\ p.key \in Id
            BY <1>3, <2>1, <4>1 DEF Request
          <6>3. q.key = p.key
            BY <6>1, <6>2 DEF Id
          <6> QED
            BY <2>6, <4>1, <6>3
        <5> QED
          BY <5>1
      <4> QED
        BY <2>12, <4>2, <4>3
    <3> QED
      BY <3>1, <3>2, <3>3, <3>4, <3>5 DEF OwnTask
  <2> QED
    BY <2>7, <2>8, <2>9, <2>10, <2>11, <2>12, <2>13, <2>14 DEF Inv, Types, OwnTasks
<1> QED
  BY <1>7, <1>8, <1>9 DEF Fated

LEMMA AnswerStep ==
  ASSUME Inv, NEW c \in Clients, NEW a \in Agents, NEW used \in Usage, Answer(c, a, used)
  PROVE  Inv'
<1>1. /\ task[c][a].at = "sent" /\ UNCHANGED <<plan, status, agent, ledgerVars, client, crashes>>
  BY DEF Answer, Quiet
<1>2. CASE CanRecord(a, task[c][a].n, task[c][a].seq)
  <2>1. PICK at \in {"open", "error"} : TaskGoto(c, a, at)
    BY <1>2 DEF Answer
  <2>3. /\ requests' = Settled({q \in Pending(a, task[c][a].n) : q.key.seq = task[c][a].seq},
                               "reported", used)
        /\ UNCHANGED <<budgeted, attempts, batches, simulated, seconds>>
    BY <1>2 DEF Answer, RecordResponse
  <2>4. task[c][a].at \in Waits
    BY <1>1 DEF Waits
  <2> QED
    BY <1>1, <2>1, <2>3, <2>4, FateStep
<1>3. CASE ~CanRecord(a, task[c][a].n, task[c][a].seq)
  <2>1. TaskGoto(c, a, "error") /\ UNCHANGED budgetVars
    BY <1>3 DEF Answer
  <2>2. /\ OwnTask(c, a) /\ attempts[a][task[c][a].n] = "running"
    BY <1>1, TaskFacts DEF OwnTask, Waits
  <2>3. \A q \in requests : q.key.agent = a /\ q.key.n = task[c][a].n => q.outcome # "reserved"
    BY <1>3, <2>2 DEF CanRecord, Pending, OwnTask
  <2>4. "error" \in TaskAt /\ "error" \notin Waits \cup {"open"}
    BY DEF TaskAt, Waits
  <2>5. RunTypes'
    BY <1>1, <2>1 DEF Inv, Types, RunTypes, budgetVars
  <2> QED
    BY <1>1, <2>1, <2>3, <2>4, <2>5, TaskOnly
<1> QED
  BY <1>2, <1>3

LEMMA LoseStep ==
  ASSUME Inv, NEW c \in Clients, NEW a \in Agents, LoseAnswer(c, a)
  PROVE  Inv'
<1>1. /\ task[c][a].at \in Waits /\ TaskGoto(c, a, "error")
      /\ requests' = Settled({q \in Pending(a, task[c][a].n) : q.key.seq = task[c][a].seq}, "unknown", 0)
      /\ UNCHANGED <<budgeted, attempts, batches, simulated, seconds>>
      /\ UNCHANGED <<plan, status, agent, ledgerVars, client, crashes>>
  BY DEF LoseAnswer, RecordUnknown, Quiet, Waits
<1> QED
  BY <1>1, FateStep

-----------------------------------------------------------------------------
(***************************************************************************)
(* The invariant, and what it means.                                       *)
(***************************************************************************)
LEMMA NothingSpent ==
  ASSUME requests = {}, batches = {}, attempts = [a \in Agents |-> << >>], NEW r
  PROVE  /\ Spends(r) /\ ToolCalls(r) <= Limits.tools
         /\ Invocations(r) <= Limits.invocations
<1>1. RequestsOf(r) = {} /\ \A o : Outcome(r, o) = {}
  BY DEF RequestsOf, Outcome
<1>2. Exposure(r) = 0 /\ Overshoot(r) = 0
  <2>1. Used({}) = 0 /\ Allowed({}) = 0
    BY TotalEmpty DEF Used, Allowed
  <2>2. Total([q \in {} |-> Overrun(q.used, q.allowance)], {}) = 0
    BY TotalEmpty
  <2>3. Overshoot(r) = 0
    BY <1>1, <2>2 DEF Overshoot
  <2>4. Reported(r) = 0 /\ Reserved(r) = 0 /\ Unknown(r) = 0
    BY <1>1, <2>1 DEF Reported, Reserved, Unknown
  <2> QED
    BY <2>3, <2>4 DEF Exposure
<1>3. Cardinality({}) = 0
  BY FS_EmptySet
<1>4. {b \in batches : Payer(b.agent) = r} = {}
  OBVIOUS
<1>5. Invocations(r) = 0
  <2>1. PICK S : S = {a \in Agents : Payer(a) = r}
    OBVIOUS
  <2>2. IsFiniteSet(S)
    BY <2>1, AgentsFinite
  <2>3. PICK w : w = [b \in Agents |-> Len(attempts[b])]
    OBVIOUS
  <2>4. \A a \in S : w[a] = 0
    BY <2>1, <2>3
  <2>5. Total(w, S) = 0
    BY <2>2, <2>4, TotalZero
  <2> QED
    BY <2>1, <2>3, <2>5 DEF Invocations
<1> QED
  BY <1>1, <1>2, <1>3, <1>4, <1>5, LimitTypes DEF Spends, ToolCalls

LEMMA InitInv == Init => Inv
<1> SUFFICES ASSUME Init PROVE Inv
  OBVIOUS
<1> USE DEF Init, BudgetInit, LedgerInit
<1>1. RunTypes
  <2>1. 0 \in 0..MaxSeconds /\ 0 \in 0..MaxCrashes
    BY BudgetAssumption, ClientAssumption
  <2> QED
    BY <2>1 DEF RunTypes, RunStatus, AgentStatus
<1>2. ClaimTypes
  BY FS_EmptySet DEF ClaimTypes, ExecutionStatus, ClientAt, Idle
<1>3. AccountTypes /\ TaskTypes
  BY FS_EmptySet DEF AccountTypes, TaskTypes, TaskAt, Off
<1>4. Charged
  BY DEF Charged
<1>5. Within
  BY NothingSpent DEF Within
<1>6. Enveloped
  BY FS_EmptySet, LimitTypes DEF Enveloped
<1>7. Claimed
  BY DEF Claimed, Idle, Holding
<1>8. Registered /\ OneAttempt
  BY DEF Registered, OneAttempt, Off
<1>9. OwnTasks
  BY DEF OwnTasks, OwnTask, Off, Waits
<1> QED
  BY <1>1, <1>2, <1>3, <1>4, <1>5, <1>6, <1>7, <1>8, <1>9 DEF Inv, Types

LEMMA StutterInv ==
  ASSUME Inv, UNCHANGED vars
  PROVE  Inv'
<1> USE DEF vars, budgetVars, ledgerVars
<1>1. Types'
  BY DEF Inv, Types, RunTypes, ClaimTypes, AccountTypes, TaskTypes
<1>2. Charged' /\ Within'
  BY AccountsStand DEF Inv
<1>3. OneAttempt' /\ OwnTasks'
  BY TasksStand DEF Inv
<1>4. Enveloped' /\ Claimed' /\ Registered'
  BY DEF Inv, Enveloped, Claimed, Registered, Payer
<1> QED
  BY <1>1, <1>2, <1>3, <1>4 DEF Inv

LEMMA StepInv == Inv /\ [Next]_vars => Inv'
<1> SUFFICES ASSUME Inv, [Next]_vars PROVE Inv'
  OBVIOUS
<1>1. ASSUME NEW s \in Slots, Reserve(s) \/ Fence(s) PROVE Inv'
  BY <1>1, LedgerStep
<1>2. ASSUME NEW s \in Slots, NEW x \in Results, Preflight(s, x) PROVE Inv'
  BY <1>2, LedgerStep
<1>3. ASSUME NEW c \in Clients, NEW s \in Slots, Register(c, s) PROVE Inv'
  BY <1>3, RegisterStep
<1>4. ASSUME NEW c \in Clients, NEW r \in Runs, Create(c, r) \/ ReadRun(c, r) PROVE Inv'
  BY <1>4, CreateStep, ReadRunStep
<1>5. ASSUME NEW c \in Clients,
             \/ GiveBudget(c) \/ StartRun(c) \/ ResumeRun(c) \/ Spawn(c) \/ Interrupt(c)
             \/ EndRun(c) \/ StopRun(c) \/ Settle(c) \/ Die(c)
      PROVE  Inv'
  BY <1>5, GiveBudgetStep, StartRunStep, ResumeRunStep, RunStep, InterruptStep, EndRunStep,
     StopRunStep, SettleStep, DieStep
<1>6. ASSUME NEW c \in Clients, NEW x \in Runs, StartChild(c, x) PROVE Inv'
  BY <1>6, RunStep
<1>7. ASSUME NEW c \in Clients, NEW a \in Agents,
             \/ Invoke(c, a) \/ BeginAttempt(c, a) \/ SendRequest(c, a) \/ LoseAnswer(c, a)
             \/ CallTools(c, a) \/ FakeStep(c, a) \/ AskApproval(c, a)
             \/ Succeed(c, a) \/ Pause(c, a) \/ Fail(c, a) \/ CloseAgent(c, a)
      PROVE  Inv'
  BY <1>7, InvokeStep, BeginStep, SendStep, LoseStep, CallToolsStep, FakeStepStep,
     AskApprovalStep, EndSteps, CloseAgentStep
<1>8. ASSUME NEW c \in Clients, NEW a \in Agents, NEW asked \in Asked, AskModel(c, a, asked)
      PROVE  Inv'
  BY <1>8, AskStep
<1>9. ASSUME NEW c \in Clients, NEW a \in Agents, NEW used \in Usage, Answer(c, a, used)
      PROVE  Inv'
  BY <1>9, AnswerStep
<1>10. ASSUME NEW r \in Runs, Cancel(r) PROVE Inv'
  BY <1>10, RunStep
<1>11. CASE TimePasses
  BY <1>11, TimeStep
<1>12. CASE UNCHANGED vars
  BY <1>12, StutterInv
<1> QED
  BY <1>1, <1>2, <1>3, <1>4, <1>5, <1>6, <1>7, <1>8, <1>9, <1>10, <1>11, <1>12 DEF Next

\* The inductive invariant holds in every state.
THEOREM Invariant == Spec => []Inv
BY InitInv, StepInv, PTL DEF Spec

LEMMA TypesMean == Inv => TypeOK
<1> SUFFICES ASSUME Inv PROVE TypeOK
  OBVIOUS
<1>1. ASSUME NEW q \in requests
      PROVE  /\ q.key.n \in DOMAIN attempts[q.key.agent]
             /\ q.allowance \in 1..Limits.tokens /\ q.used \in Usage \cup {0}
             /\ q.outcome \in {"reserved", "reported", "unknown"}
  <2>1. q \in Request
    BY DEF Inv, Types, AccountTypes
  <2> QED
    BY <2>1 DEF Inv, Charged, Request, Outcomes
<1>2. /\ \A p, q \in requests : p.key = q.key => p = q
      /\ \A b \in batches : b.n \in DOMAIN attempts[b.agent]
  BY DEF Inv, Charged
<1>3. \A s \in simulated : s.agent \in plan.fake
  BY DEF Inv, Types, AccountTypes
<1>4. ASSUME NEW c \in Clients, NEW a \in Agents
      PROVE  task[c][a].at \in TaskAt /\ task[c][a].n \in 0..Len(attempts[a])
  <2>1. OwnTask(c, a) /\ task[c][a] \in Task /\ task[c][a].n \in Nat
    BY <1>4, TaskFacts
  <2>2. Len(attempts[a]) \in Nat
    BY DEF Inv, Types, AccountTypes
  <2> QED
    BY <2>1, <2>2 DEF OwnTask, Task
<1>5. RunTypes /\ ClaimTypes /\ AccountTypes
  BY DEF Inv, Types
<1> QED
  BY <1>1, <1>2, <1>3, <1>4, <1>5 DEF TypeOK, RunTypes, ClaimTypes, AccountTypes

\* Every variable has its type: what is charged names an attempt that exists and is
\* charged once, and a task knows no attempt that was not begun.
THEOREM TypeCorrect == Spec => []TypeOK
BY Invariant, TypesMean, PTL

\* A set whose members are all the same has at most one.
LEMMA AtMostOne ==
  ASSUME NEW S, \A x, y \in S : x = y
  PROVE  Cardinality(S) <= 1
<1>1. CASE S = {}
  BY <1>1, FS_EmptySet
<1>2. CASE S # {}
  <2>1. PICK x \in S : TRUE
    BY <1>2
  <2>2. S = {x}
    BY <2>1
  <2> QED
    BY <2>2, FS_Singleton
<1> QED
  BY <1>1, <1>2

LEMMA OwnersMean == Inv => OneOwner
<1> SUFFICES ASSUME Inv PROVE OneOwner
  OBVIOUS
<1>1. ASSUME NEW s \in Slots
      PROVE  /\ execution[s] # None => outcome[s] = None /\ s \in budgeted
             /\ Cardinality({c \in Clients : client[c].run = s /\ client[c].at \in Holding}) <= 1
  <2>1. PICK S : S = {c \in Clients : client[c].run = s /\ client[c].at \in Holding}
    OBVIOUS
  <2>2. \A c, d \in S : c = d
    BY <2>1 DEF Inv, Claimed
  <2>3. Cardinality(S) <= 1
    BY <2>2, AtMostOne
  <2> QED
    BY <2>1, <2>3 DEF Inv, Claimed
<1>2. ASSUME NEW a \in Agents
      PROVE  Cardinality({c \in Clients : task[c][a].at \in {"open", "reserved", "sent"}
                            /\ attempts[a][task[c][a].n] = "running"}) <= 1
  <2>1. PICK S : S = {c \in Clients : task[c][a].at \in {"open", "reserved", "sent"}
                        /\ attempts[a][task[c][a].n] = "running"}
    OBVIOUS
  <2>2. ASSUME NEW c \in S, NEW d \in S, c # d PROVE FALSE
    <3>1. c \in Clients /\ d \in Clients
      BY <2>1
    <3>2. /\ OwnTask(c, a) /\ task[c][a].n \in Nat
          /\ OwnTask(d, a) /\ task[d][a].n \in Nat
      BY <3>1, TaskFacts
    <3>3. /\ task[c][a].n # 0 /\ task[c][a].n <= Len(attempts[a])
          /\ attempts[a][task[c][a].n] = "running"
          /\ task[d][a].n # 0 /\ task[d][a].n <= Len(attempts[a])
          /\ attempts[a][task[d][a].n] = "running"
      BY <2>1, <3>2 DEF OwnTask, Waits
    <3>4. attempts[a] \in Seq(AttemptStatus)
      BY DEF Inv, Types, AccountTypes
    <3>5. task[c][a].n \in DOMAIN attempts[a] /\ task[d][a].n \in DOMAIN attempts[a]
      BY <3>2, <3>3, <3>4
    <3>6. task[c][a].n = task[d][a].n
      BY <3>3, <3>5 DEF Inv, OneAttempt
    <3> QED
      BY <2>2, <3>1, <3>3, <3>6 DEF Inv, OneAttempt
  <2>3. Cardinality(S) <= 1
    BY <2>2, AtMostOne
  <2> QED
    BY <2>1, <2>3
<1> QED
  BY <1>1, <1>2 DEF OneOwner

\* An attempt of a campaign is run or reported as not run, and run by one client; two
\* processes that drive one run never both have one of its agents at work.
THEOREM OneOwns == Spec => []OneOwner
BY Invariant, OwnersMean, PTL

\* The campaign: what its reserved slots may still spend, and have spent, is what was
\* committed for them but for the overshoot of single responses.
LEMMA CampaignCovered ==
  ASSUME Inv
  PROVE  Total([s \in reserved |-> Max({Limits.tokens, Exposure(s)})], reserved)
           <= Envelope.tokens + Total([s \in reserved |-> Overshoot(s)], reserved)
<1>1. /\ IsFiniteSet(reserved) /\ reserved \subseteq Runs
      /\ requests \subseteq Request /\ IsFiniteSet(requests)
  BY CampaignAssumption DEF Inv, Types, ClaimTypes, AccountTypes
<1>2. PICK w : w = [s \in reserved |-> Max({Limits.tokens, Exposure(s)})]
  OBVIOUS
<1>3. PICK v : v = [s \in reserved |-> Overshoot(s)]
  OBVIOUS
<1>4. ASSUME NEW s \in reserved
      PROVE  w[s] \in Int /\ v[s] \in Int /\ w[s] <= Limits.tokens + v[s]
  <2>1. Exposure(s) \in Nat /\ Overshoot(s) \in Nat /\ Limits.tokens \in Nat
    BY <1>1, OwnerSums, LimitTypes
  <2>2. Exposure(s) <= Limits.tokens + Overshoot(s)
    BY <1>1, <1>4 DEF Inv, Within, Spends
  <2>3. Max({Limits.tokens, Exposure(s)}) \in {Limits.tokens, Exposure(s)}
    <3>1. \E m \in {Limits.tokens, Exposure(s)} : \A y \in {Limits.tokens, Exposure(s)} : m >= y
      BY <2>1
    <3> QED
      BY <3>1 DEF Max
  <2> QED
    BY <1>2, <1>3, <1>4, <2>1, <2>2, <2>3
<1>5. Limits.tokens \in Nat
  BY LimitTypes
<1>6. Total(w, reserved) <= Limits.tokens * Cardinality(reserved) + Total(v, reserved)
  BY <1>1, <1>4, <1>5, TotalBound
<1>7. /\ Total(w, reserved) \in Int /\ Total(v, reserved) \in Int
  BY <1>1, <1>4, TotalInt
<1>8. /\ Limits.tokens * Cardinality(reserved) <= Envelope.tokens
      /\ Limits.tokens * Cardinality(reserved) \in Nat /\ Envelope.tokens \in Nat
  BY <1>1, LimitTypes, FS_CardinalityType DEF Inv, Enveloped
<1>9. Total(w, reserved) <= Envelope.tokens + Total(v, reserved)
  BY <1>6, <1>7, <1>8
<1> QED
  BY <1>2, <1>3, <1>9

LEMMA SpendingMeans == Inv => SpendingIsCovered
<1> SUFFICES ASSUME Inv PROVE SpendingIsCovered
  OBVIOUS
<1>1. Payers \subseteq Runs
  BY BudgetAssumption DEF Payers
<1>2. ASSUME NEW r \in Payers
      PROVE  /\ Exposure(r) <= Limits.tokens + Overshoot(r)
             /\ Cardinality(RequestsOf(r)) <= Limits.requests
             /\ ToolCalls(r) <= Limits.tools
             /\ Invocations(r) <= Limits.invocations
  BY <1>1 DEF Inv, Within, Spends
<1> QED
  BY <1>2, CampaignCovered DEF SpendingIsCovered

\* No interleaving of agents, children, processes and deaths spends more than the
\* frozen budgets, but for what single responses report beyond their own allowance.
THEOREM SpendingCovered == Spec => []SpendingIsCovered
BY Invariant, SpendingMeans, PTL

-----------------------------------------------------------------------------
(***************************************************************************)
(* The requests of all owners implement the ledger of tokens.              *)
(***************************************************************************)
\* The draft a request is, and the drafts of some requests.
Draft(q) ==
  [id |-> q.key, account |-> Payer(q.key.agent), tokens |-> q.allowance,
   fate |-> Fate[q.outcome], used |-> q.used]
AllDrafts == {Draft(q) : q \in requests}

\* What a request costs until its outcome is known, and then.
Price(q) == IF q.outcome = "reported" THEN q.used ELSE q.allowance

LEMMA LedgerTotal ==
  ASSUME NEW w, NEW S
  PROVE  Ledger!Total(w, S) = Total(w, S)
<1>1. Ledger!Total(w, S) = (CHOOSE f : Sums(f, w, S))[S]
  BY DEF Ledger!Total, Ledger!MapThenSumSet, Ledger!MapThenFoldSet, Sums, First
<1> QED
  BY <1>1, TotalIsChosen

\* The requests of an owner cost what it is exposed to.
LEMMA PriceOfAll ==
  ASSUME requests \subseteq Request, IsFiniteSet(requests), NEW r,
         NEW w, w = [q \in RequestsOf(r) |-> Price(q)]
  PROVE  /\ Total(w, RequestsOf(r)) = Exposure(r)
         /\ \A q \in RequestsOf(r) : w[q] \in Int
<1>1. PICK A : A = Outcome(r, "reported")
  OBVIOUS
<1>2. PICK B : B = Outcome(r, "reserved")
  OBVIOUS
<1>3. PICK C : C = Outcome(r, "unknown")
  OBVIOUS
<1>4. /\ IsFiniteSet(A) /\ IsFiniteSet(B) /\ IsFiniteSet(C)
      /\ RequestsOf(r) \subseteq Request
  BY <1>1, <1>2, <1>3, OwnerSets
<1>5. \A q \in RequestsOf(r) : w[q] \in Int
  <2>1. ASSUME NEW q \in RequestsOf(r) PROVE w[q] \in Int
    <3>1. q.allowance \in Nat /\ q.used \in Nat
      BY <1>4, RequestTypes
    <3> QED
      BY <3>1 DEF Price
  <2> QED
    BY <2>1
<1>6. /\ RequestsOf(r) = (A \cup B) \cup C
      /\ A \cap B = {} /\ (A \cup B) \cap C = {}
  BY <1>1, <1>2, <1>3, <1>4 DEF Outcome, Request, Outcomes
<1>7. IsFiniteSet(A \cup B)
  BY <1>4, FS_Union
<1>8. Total(w, A \cup B) = Total(w, A) + Total(w, B)
  BY <1>4, <1>5, <1>6, TotalUnion
<1>9. Total(w, (A \cup B) \cup C) = Total(w, A \cup B) + Total(w, C)
  BY <1>4, <1>5, <1>6, <1>7, TotalUnion
<1>10. Total(w, A) = Reported(r)
  <2>1. PICK v : v = [q \in A |-> q.used]
    OBVIOUS
  <2>2. \A q \in A : w[q] = v[q]
    BY <1>1, <1>6, <2>1 DEF Outcome, Price
  <2>3. Total(w, A) = Total(v, A)
    BY <1>4, <2>2, TotalSame
  <2> QED
    BY <1>1, <2>1, <2>3 DEF Reported, Used
<1>11. Total(w, B) = Reserved(r)
  <2>1. PICK v : v = [q \in B |-> q.allowance]
    OBVIOUS
  <2>2. \A q \in B : w[q] = v[q]
    BY <1>2, <1>6, <2>1 DEF Outcome, Price
  <2>3. Total(w, B) = Total(v, B)
    BY <1>4, <2>2, TotalSame
  <2> QED
    BY <1>2, <2>1, <2>3 DEF Reserved, Allowed
<1>12. Total(w, C) = Unknown(r)
  <2>1. PICK v : v = [q \in C |-> q.allowance]
    OBVIOUS
  <2>2. \A q \in C : w[q] = v[q]
    BY <1>3, <1>6, <2>1 DEF Outcome, Price
  <2>3. Total(w, C) = Total(v, C)
    BY <1>4, <2>2, TotalSame
  <2> QED
    BY <1>3, <2>1, <2>3 DEF Unknown, Allowed
<1>13. /\ Reported(r) \in Nat /\ Reserved(r) \in Nat /\ Unknown(r) \in Nat
       /\ Exposure(r) = Reported(r) + Reserved(r) + Unknown(r)
  BY OwnerSums
<1> QED
  BY <1>5, <1>6, <1>8, <1>9, <1>10, <1>11, <1>12, <1>13

\* What is left of an account is what the owner is not exposed to.
LEMMA LeftOver ==
  ASSUME requests \subseteq Request, IsFiniteSet(requests), NEW r
  PROVE  Ledger!Left(r) = Limits.tokens - Exposure(r)
<1>1. PICK S : S = RequestsOf(r)
  OBVIOUS
<1>2. PICK f : f = [q \in S |-> Draft(q)]
  OBVIOUS
<1>3. PICK w : w = [q \in S |-> Price(q)]
  OBVIOUS
<1>4. PICK D : D = {f[q] : q \in S}
  OBVIOUS
<1>5. Ledger!Drawn(r) = D
  BY <1>1, <1>2, <1>4 DEF Ledger!Drawn, RequestsOf, Draft
<1>6. PICK v : v = [d \in D |-> Ledger!Cost(d)]
  OBVIOUS
<1>7. IsFiniteSet(S) /\ S \subseteq Request
  BY <1>1, OwnerSets
<1>8. Renames(f, S)
  <2>1. ASSUME NEW p \in S, NEW q \in S, f[p] = f[q] PROVE p = q
    <3>1. p \in Request /\ q \in Request
      BY <1>7
    <3>2. Draft(p) = Draft(q)
      BY <1>2, <2>1
    <3>3. p.key = q.key /\ p.allowance = q.allowance /\ p.used = q.used
          /\ Fate[p.outcome] = Fate[q.outcome]
      BY <3>2 DEF Draft
    <3>4. p.outcome = q.outcome
      BY <3>1, <3>3 DEF Request, Outcomes, Fate
    <3> QED
      BY <3>1, <3>3, <3>4 DEF Request
  <2> QED
    BY <2>1 DEF Renames
<1>9. Carries(f, S, w, v)
  <2>1. ASSUME NEW q \in S PROVE w[q] \in Int /\ v[f[q]] = w[q]
    <3>1. w[q] \in Int /\ w[q] = Price(q)
      BY <1>1, <1>3, PriceOfAll
    <3>2. f[q] = Draft(q) /\ f[q] \in D /\ v[f[q]] = Ledger!Cost(Draft(q))
      BY <1>2, <1>4, <1>6
    <3>3. q.outcome \in Outcomes
      BY <1>7 DEF Request
    <3>4. Ledger!Cost(Draft(q)) = Price(q)
      BY <3>3 DEF Ledger!Cost, Draft, Price, Fate, Outcomes
    <3> QED
      BY <3>1, <3>2, <3>4
  <2> QED
    BY <2>1 DEF Carries
<1>10. Total(v, D) = Total(w, S)
  BY <1>4, <1>7, <1>8, <1>9, TotalImage
<1>11. Total(w, S) = Exposure(r)
  BY <1>1, <1>3, PriceOfAll
<1>12. Ledger!Left(r) = Limits.tokens - Ledger!Total(v, D)
  BY <1>5, <1>6 DEF Ledger!Left
<1> QED
  BY <1>10, <1>11, <1>12, LedgerTotal

\* The requests a task made tell apart as many requests of its owner.
LEMMA MadeBefore ==
  ASSUME Inv, NEW c \in Clients, NEW a \in Agents,
         Cardinality(RequestsOf(Payer(a))) < Limits.requests
  PROVE  task[c][a].seq + 1 \in 1..Limits.requests
<1>1. PICK T : T = RequestsOf(Payer(a))
  OBVIOUS
<1>2. PICK k : k = task[c][a].seq
  OBVIOUS
<1>3. PICK n : n = task[c][a].n
  OBVIOUS
<1>4. /\ k \in Nat /\ IsFiniteSet(T) /\ Cardinality(T) \in Nat /\ Cardinality(T) < Limits.requests
      /\ Limits.requests \in Nat
  BY <1>1, <1>2, TaskFacts, OwnerSets, LimitTypes DEF Inv, Types, AccountTypes
<1>5. SUFFICES ASSUME Cardinality(T) < k PROVE FALSE
  BY <1>2, <1>4
<1>6. PICK f : f = [i \in 1..k |-> CHOOSE q \in requests : q.key = Key(a, n, i)]
  OBVIOUS
<1>7. ASSUME NEW i \in 1..k
      PROVE  f[i] \in T /\ f[i].key = Key(a, n, i)
  <2>1. \E q \in requests : q.key = Key(a, n, i)
    BY <1>2, <1>3, TaskFacts DEF OwnTask
  <2>2. f[i] \in requests /\ f[i].key = Key(a, n, i)
    BY <1>6, <2>1
  <2> QED
    BY <1>1, <2>2 DEF RequestsOf, Key
<1>8. f \in [1..k -> T]
  BY <1>6, <1>7
<1>9. IsFiniteSet(1..k) /\ Cardinality(1..k) = k
  <2>1. 1 \in Int /\ k \in Int
    BY <1>4
  <2>2. IsFiniteSet(1..k) /\ Cardinality(1..k) = IF 1 > k THEN 0 ELSE k - 1 + 1
    BY <2>1, FS_Interval
  <2> QED
    BY <1>4, <2>2
<1>10. PICK i \in 1..k, j \in 1..k : i # j /\ f[i] = f[j]
  BY <1>4, <1>5, <1>8, <1>9, FS_PigeonHole
<1>11. Key(a, n, i) = Key(a, n, j)
  BY <1>7, <1>10
<1> QED
  BY <1>10, <1>11 DEF Key

\* The attempts an agent had are among the invocations of its owner.
LEMMA BegunBefore ==
  ASSUME Inv, NEW a \in Agents, NEW n \in DOMAIN attempts[a]
  PROVE  n \in 1..Limits.invocations
<1>1. PICK r : r = Payer(a)
  OBVIOUS
<1>2. PICK S : S = {b \in Agents : Payer(b) = r}
  OBVIOUS
<1>3. PICK w : w = [b \in Agents |-> Len(attempts[b])]
  OBVIOUS
<1>4. \A b \in S : w[b] \in Nat
  BY <1>2, <1>3 DEF Inv, Types, AccountTypes
<1>5. IsFiniteSet(S) /\ a \in S
  BY <1>1, <1>2, AgentsFinite
<1>6. Total(w, S) \in Nat /\ w[a] <= Total(w, S)
  BY <1>4, <1>5, TotalNat
<1>7. Invocations(r) = Total(w, S)
  BY <1>2, <1>3 DEF Invocations
<1>8. Invocations(r) <= Limits.invocations
  BY <1>1, PayerTypes DEF Inv, Types, RunTypes, Within
<1>9. n \in Nat /\ n >= 1 /\ n <= w[a] /\ w[a] \in Nat
  BY <1>3, <1>4, <1>5 DEF Inv, Types, AccountTypes
<1> QED
  BY <1>6, <1>7, <1>8, <1>9, LimitTypes

\* A loss closes what it shares: no request of the campaign, or of the run, is unknown
\* when another is admitted.
LEMMA NothingLost ==
  ASSUME Inv, NEW r, Operational(r), Admitted(r), NEW q \in requests,
         Payer(q.key.agent) \in (IF r \in Slots THEN Slots ELSE {r})
  PROVE  q.outcome # "unknown"
<1>1. PICK x : x = Payer(q.key.agent)
  OBVIOUS
<1>2. Complete(x)
  <2>1. CASE r \in Slots
    <3>1. x \in Slots /\ execution[x] # None
      BY <1>1, <2>1 DEF Inv, Registered
    <3> QED
      BY <2>1, <3>1 DEF Admitted, AdmitCampaign, Executed
  <2>2. CASE r \notin Slots
    BY <1>1, <2>2 DEF Operational
  <2> QED
    BY <2>1, <2>2
<1>3. q \in RequestsOf(x)
  BY <1>1 DEF RequestsOf
<1> QED
  BY <1>2, <1>3 DEF Complete, Outcome

\* A reserved request is a draft of what is left.
LEMMA AskDraws ==
  ASSUME Inv, NEW c \in Clients, NEW a \in Agents, NEW asked \in Asked, AskModel(c, a, asked)
  PROVE  \E d \in AllDrafts' \ AllDrafts : Ledger!Draw(d)
<1>1. PICK n : n = task[c][a].n
  OBVIOUS
<1>2. PICK seq : seq = task[c][a].seq + 1
  OBVIOUS
<1>3. PICK r : r = Payer(a)
  OBVIOUS
<1>4. PICK p : p = Reservation(a, n, seq, Allowance(r, asked))
  OBVIOUS
<1>5. PICK d : d = Draft(p)
  OBVIOUS
<1>6. /\ CanReserve(a, n, seq, asked) /\ Admitted(r) /\ plan' = plan
      /\ requests' = requests \cup {p}
  BY <1>1, <1>2, <1>3, <1>4 DEF AskModel, ReserveRequest, Quiet
<1>7. /\ requests \subseteq Request /\ IsFiniteSet(requests) /\ plan \in Plans
  BY DEF Inv, Types, AccountTypes, RunTypes
<1>8. /\ p.key = Key(a, n, seq) /\ p.outcome = "reserved" /\ p.used = 0
      /\ p.allowance = Allowance(r, asked)
  BY <1>4 DEF Reservation
<1>9. d = [id |-> Key(a, n, seq), account |-> r, tokens |-> Allowance(r, asked),
           fate |-> "held", used |-> 0]
  BY <1>3, <1>5, <1>8 DEF Draft, Fate, Key
<1>10. d.id \in [agent : Agents, n : 1..Limits.invocations, seq : 1..Limits.requests]
  <2>1. n \in 1..Limits.invocations
    BY <1>6, BegunBefore DEF CanReserve, Active
  <2>2. seq \in 1..Limits.requests
    BY <1>2, <1>3, <1>6, MadeBefore DEF CanReserve
  <2> QED
    BY <1>9, <2>1, <2>2 DEF Key
<1>11. \A e \in AllDrafts : e.id # d.id
  BY <1>6, <1>9 DEF CanReserve, AllDrafts, Draft
<1>12. r \in Payers
  BY <1>3, <1>7, PayerTypes
<1>13. ASSUME NEW e \in AllDrafts,
              e.account \in [x \in Payers |-> IF x \in Slots THEN Slots ELSE {x}][d.account]
       PROVE  e.fate # "lost"
  <2>1. PICK q \in requests : e = Draft(q)
    BY DEF AllDrafts
  <2>2. e.account = Payer(q.key.agent) /\ e.fate = Fate[q.outcome]
    BY <2>1 DEF Draft
  <2>3. Payer(q.key.agent) \in (IF r \in Slots THEN Slots ELSE {r})
    BY <1>9, <1>12, <1>13, <2>2
  <2>4. Operational(r)
    BY <1>3, <1>6 DEF CanReserve
  <2>5. q.outcome # "unknown" /\ q.outcome \in Outcomes
    BY <1>6, <1>7, <2>3, <2>4, NothingLost DEF Request
  <2> QED
    BY <2>2, <2>5 DEF Fate, Outcomes
<1>14. d.tokens \in 1..Ledger!Left(d.account)
  <2>1. asked \in Nat
    BY ClientAssumption
  <2>2. PICK t : t = Allowance(r, asked)
    OBVIOUS
  <2>3. t \in 1..Limits.tokens /\ t + Exposure(r) <= Limits.tokens
    BY <1>3, <1>6, <1>7, <2>1, <2>2, AllowanceFits DEF CanReserve
  <2>4. Ledger!Left(r) = Limits.tokens - Exposure(r) /\ Exposure(r) \in Nat
    BY <1>7, LeftOver, OwnerSums
  <2>5. t \in 1..(Limits.tokens - Exposure(r))
    BY <2>3, <2>4, LimitTypes
  <2>6. d.tokens = t /\ d.account = r
    BY <1>9, <2>2
  <2> QED
    BY <2>4, <2>5, <2>6
<1>15. AllDrafts' = AllDrafts \cup {d}
  <2>2. AllDrafts' = {Draft(q) : q \in requests'}
    BY <1>6 DEF AllDrafts, Draft, Payer
  <2> QED
    BY <1>5, <1>6, <2>2 DEF AllDrafts
<1>16. d = Ledger!Held(d.id, d.account, d.tokens)
  BY <1>9 DEF Ledger!Held
<1>17. Ledger!Draw(d)
  BY <1>9, <1>10, <1>11, <1>12, <1>13, <1>14, <1>15, <1>16 DEF Ledger!Draw, AllDrafts, Draft
<1> QED
  BY <1>11, <1>15, <1>17

\* The outcome of a request is a report or a loss of its draft.
LEMMA FateFalls ==
  ASSUME Inv, NEW a, NEW n, NEW seq, NEW o, NEW u,
         (o = "reported" /\ u \in Usage) \/ (o = "unknown" /\ u = 0),
         SettlesAs(a, n, seq, o, u), plan' = plan
  PROVE  \/ AllDrafts' = AllDrafts
         \/ \E d \in AllDrafts \ AllDrafts' : Ledger!Report(d) \/ Ledger!Lose(d)
<1>1. requests \subseteq Request /\ Charged
  BY DEF Inv, Types, AccountTypes
<1>2. Fated(a, n, seq, o, u)
  BY <1>1, SettledOne
<1>3. CASE requests' = requests
  BY <1>3 DEF AllDrafts, Draft, Payer
<1>4. CASE \E p \in requests : p.outcome = "reserved" /\ Replaces(p, o, u)
  <2>1. PICK p \in requests : p.outcome = "reserved" /\ Replaces(p, o, u)
    BY <1>4
  <2>2. PICK new : new = [p EXCEPT !.outcome = o, !.used = u]
    OBVIOUS
  <2>3. requests' = (requests \ {p}) \cup {new}
    BY <2>1, <2>2 DEF Replaces
  <2>4. /\ new.key = p.key /\ new.outcome = o /\ new.used = u /\ new.allowance = p.allowance
        /\ p.used = 0
    BY <1>1, <2>1, <2>2 DEF Request, Charged
  <2>5. PICK d : d = Draft(p)
    OBVIOUS
  <2>6. PICK e : e = Draft(new)
    OBVIOUS
  <2>7. /\ d = [id |-> p.key, account |-> Payer(p.key.agent), tokens |-> p.allowance,
                fate |-> "held", used |-> 0]
        /\ e = [id |-> p.key, account |-> Payer(p.key.agent), tokens |-> p.allowance,
                fate |-> Fate[o], used |-> u]
    BY <2>1, <2>4, <2>5, <2>6 DEF Draft, Fate
  <2>8. \A q \in requests : Draft(q) = d => q = p
    <3>1. \A q \in requests : Draft(q) = d => q.key = p.key
      BY <2>7 DEF Draft
    <3> QED
      BY <1>1, <3>1 DEF Charged
  <2>9. AllDrafts' = {Draft(q) : q \in requests'}
    BY DEF AllDrafts, Draft, Payer
  <2>10. AllDrafts' = (AllDrafts \ {d}) \cup {e}
    <3>1. \A x \in AllDrafts' : x \in (AllDrafts \ {d}) \cup {e}
      <4>1. ASSUME NEW x \in AllDrafts' PROVE x \in (AllDrafts \ {d}) \cup {e}
        <5>1. PICK q \in requests' : x = Draft(q)
          BY <2>9
        <5>2. CASE q = new
          BY <2>6, <5>1, <5>2
        <5>3. CASE q # new
          BY <2>3, <2>8, <5>1, <5>3 DEF AllDrafts
        <5> QED
          BY <5>2, <5>3
      <4> QED
        BY <4>1
    <3>2. \A x \in (AllDrafts \ {d}) \cup {e} : x \in AllDrafts'
      <4>1. ASSUME NEW x \in AllDrafts, x # d PROVE x \in AllDrafts'
        <5>1. PICK q \in requests : x = Draft(q)
          BY <4>1 DEF AllDrafts
        <5>2. q \in requests'
          BY <2>3, <2>5, <4>1, <5>1
        <5> QED
          BY <2>9, <5>1, <5>2
      <4>2. e \in AllDrafts'
        BY <2>3, <2>6, <2>9
      <4> QED
        BY <4>1, <4>2
    <3> QED
      BY <3>1, <3>2
  <2>11. d \in AllDrafts /\ d # e
    <3>1. d.fate = "held" /\ e.fate # "held"
      BY <2>7 DEF Fate
    <3> QED
      BY <2>5, <3>1 DEF AllDrafts
  <2>12. d \in AllDrafts \ AllDrafts'
    BY <2>10, <2>11
  <2>13. CASE o = "reported"
    <3>1. e = [d EXCEPT !.fate = "reported", !.used = u]
      <4>1. e = [id |-> p.key, account |-> Payer(p.key.agent), tokens |-> p.allowance,
                 fate |-> "reported", used |-> u]
        BY <2>7, <2>13 DEF Fate
      <4>2. PICK x : x = [d EXCEPT !.fate = "reported", !.used = u]
        OBVIOUS
      <4>3. DOMAIN x = {"id", "account", "tokens", "fate", "used"}
        BY <2>7, <4>2
      <4>4. /\ x.id = e.id /\ x.account = e.account /\ x.tokens = e.tokens
            /\ x.fate = e.fate /\ x.used = e.used
        BY <2>7, <4>1, <4>2
      <4>5. x = [k \in {"id", "account", "tokens", "fate", "used"} |-> x[k]]
        BY <4>2, <4>3
      <4>6. x = e
        BY <4>1, <4>4, <4>5
      <4> QED
        BY <4>2, <4>6
    <3>2. d.fate = "held" /\ u \in Usage
      <4>1. d.fate = "held"
        BY <2>7
      <4>2. u \in Usage
        BY <2>13
      <4> QED
        BY <4>1, <4>2
    <3>3. Ledger!Report(d)
      BY <2>10, <3>1, <3>2 DEF Ledger!Report, AllDrafts, Draft
    <3> QED
      BY <2>12, <3>3
  <2>14. CASE o = "unknown"
    <3>1. e = [d EXCEPT !.fate = "lost"] /\ d.fate = "held"
      BY <2>7, <2>14 DEF Fate
    <3>2. Ledger!Lose(d)
      BY <2>10, <3>1 DEF Ledger!Lose, AllDrafts, Draft
    <3> QED
      BY <2>12, <3>2
  <2> QED
    BY <2>13, <2>14
<1> QED
  BY <1>2, <1>3, <1>4 DEF Fated

\* At its end, an attempt has no request left that could be lost.
LEMMA EndKeeps ==
  ASSUME Inv, NEW c \in Clients, NEW a \in Agents, Succeed(c, a) \/ Pause(c, a) \/ Fail(c, a)
  PROVE  requests' = requests /\ plan' = plan
<1>1. PICK n : n = task[c][a].n
  OBVIOUS
<1>2. task[c][a].at \notin Waits
  BY DEF Succeed, Pause, Fail, Waits
<1>3. Pending(a, n) = {}
  BY <1>1, <1>2, TaskFacts DEF OwnTask, Pending
<1>4. \/ requests' = requests
      \/ requests' = Settled(Pending(a, n), "unknown", 0)
  BY <1>1 DEF Succeed, Pause, Fail, EndAttempt, FinishAttempt, budgetVars
<1>5. requests' = requests
  BY <1>3, <1>4 DEF Settled
<1> QED
  BY <1>5 DEF Succeed, Pause, Fail, EndAttempt, Quiet

\* Every other step leaves the requests alone.
LEMMA OthersKeep ==
  ASSUME Inv, [Next]_vars,
         ~ \E c \in Clients, a \in Agents :
             \/ \E asked \in Asked : AskModel(c, a, asked)
             \/ \E used \in Usage : Answer(c, a, used)
             \/ LoseAnswer(c, a)
  PROVE  requests' = requests /\ plan' = plan
<1> USE DEF budgetVars, Quiet
<1>1. ASSUME NEW s \in Slots, Reserve(s) \/ Fence(s) PROVE requests' = requests /\ plan' = plan
  BY <1>1 DEF Reserve, Fence
<1>2. ASSUME NEW s \in Slots, NEW x \in Results, Preflight(s, x)
      PROVE  requests' = requests /\ plan' = plan
  BY <1>2 DEF Preflight
<1>3. ASSUME NEW c \in Clients, NEW s \in Slots, Register(c, s)
      PROVE  requests' = requests /\ plan' = plan
  BY <1>3 DEF Register
<1>4. ASSUME NEW c \in Clients, NEW r \in Runs, Create(c, r) \/ ReadRun(c, r)
      PROVE  requests' = requests /\ plan' = plan
  BY <1>4 DEF Create, ReadRun
<1>5. ASSUME NEW c \in Clients,
             GiveBudget(c) \/ StartRun(c) \/ ResumeRun(c) \/ Spawn(c) \/ Interrupt(c)
      PROVE  requests' = requests /\ plan' = plan
  BY <1>5 DEF GiveBudget, StartRun, ResumeRun, Spawn, Interrupt
<1>6. ASSUME NEW c \in Clients, EndRun(c) \/ StopRun(c) \/ Settle(c) \/ Die(c)
      PROVE  requests' = requests /\ plan' = plan
  BY <1>6 DEF EndRun, StopRun, Settle, Die
<1>7. ASSUME NEW c \in Clients, NEW x \in Runs, StartChild(c, x)
      PROVE  requests' = requests /\ plan' = plan
  BY <1>7 DEF StartChild
<1>8. ASSUME NEW c \in Clients, NEW a \in Agents,
             \/ Invoke(c, a) \/ BeginAttempt(c, a) \/ SendRequest(c, a)
             \/ CallTools(c, a) \/ FakeStep(c, a) \/ AskApproval(c, a) \/ CloseAgent(c, a)
      PROVE  requests' = requests /\ plan' = plan
  BY <1>8 DEF Invoke, BeginAttempt, Begin, SendRequest, CallTools, ReserveBatch, FakeStep,
     Simulate, AskApproval, CloseAgent
<1>9. ASSUME NEW r \in Runs, Cancel(r) PROVE requests' = requests /\ plan' = plan
  BY <1>9 DEF Cancel, CancelRuns
<1>10. CASE TimePasses
  BY <1>10 DEF TimePasses, Tick
<1>11. CASE UNCHANGED vars
  BY <1>11 DEF vars
<1> QED
  BY <1>1, <1>2, <1>3, <1>4, <1>5, <1>6, <1>7, <1>8, <1>9, <1>10, <1>11, EndKeeps DEF Next

\* Every step is a draw, a report or a loss of one draft, or none.
LEMMA StepDraws ==
  ASSUME Inv, [Next]_vars
  PROVE  [Ledger!Next]_AllDrafts
<1>1. ASSUME NEW c \in Clients, NEW a \in Agents, NEW asked \in Asked, AskModel(c, a, asked)
      PROVE  Ledger!Next
  <2>1. PICK d \in AllDrafts' \ AllDrafts : Ledger!Draw(d)
    BY <1>1, AskDraws
  <2> QED
    BY <2>1 DEF Ledger!Next, AllDrafts, Draft
<1>2. ASSUME NEW a, NEW n, NEW seq, NEW o, NEW u,
             (o = "reported" /\ u \in Usage) \/ (o = "unknown" /\ u = 0),
             SettlesAs(a, n, seq, o, u), plan' = plan
      PROVE  [Ledger!Next]_AllDrafts
  <2>1. CASE AllDrafts' = AllDrafts
    BY <2>1
  <2>2. CASE \E d \in AllDrafts \ AllDrafts' : Ledger!Report(d) \/ Ledger!Lose(d)
    BY <2>2 DEF Ledger!Next, AllDrafts, Draft
  <2> QED
    BY <1>2, <2>1, <2>2, FateFalls
<1>3. ASSUME requests' = requests, plan' = plan
      PROVE  [Ledger!Next]_AllDrafts
  BY <1>3 DEF AllDrafts, Draft, Payer
<1>4. ASSUME NEW c \in Clients, NEW a \in Agents, NEW used \in Usage, Answer(c, a, used)
      PROVE  [Ledger!Next]_AllDrafts
  <2>1. plan' = plan
    BY <1>4 DEF Answer, Quiet
  <2>2. CASE CanRecord(a, task[c][a].n, task[c][a].seq)
    <3>1. SettlesAs(a, task[c][a].n, task[c][a].seq, "reported", used)
      BY <1>4, <2>2 DEF Answer, RecordResponse, SettlesAs
    <3> QED
      BY <1>2, <1>4, <2>1, <3>1
  <2>3. CASE ~CanRecord(a, task[c][a].n, task[c][a].seq)
    BY <1>3, <1>4, <2>1, <2>3 DEF Answer, budgetVars
  <2> QED
    BY <2>2, <2>3
<1>5. ASSUME NEW c \in Clients, NEW a \in Agents, LoseAnswer(c, a)
      PROVE  [Ledger!Next]_AllDrafts
  <2>1. plan' = plan /\ SettlesAs(a, task[c][a].n, task[c][a].seq, "unknown", 0)
    BY <1>5 DEF LoseAnswer, RecordUnknown, Quiet, SettlesAs
  <2> QED
    BY <1>2, <2>1
<1> QED
  BY <1>1, <1>3, <1>4, <1>5, OthersKeep

\* The reservations, responses and losses of all owners implement the abstract ledger.
THEOREM ImplementsTokens == Spec => TokenLedgerSpec
<1>1. Init => Ledger!Init
  BY DEF Init, BudgetInit, Ledger!Init
<1>2. Inv /\ [Next]_vars => [Ledger!Next]_AllDrafts
  BY StepDraws
<1> QED
  BY <1>1, <1>2, Invariant, PTL DEF Spec, TokenLedgerSpec, Ledger!Spec, AllDrafts, Draft
=============================================================================
