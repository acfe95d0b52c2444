--------------------------- MODULE Sessions_proofs ---------------------------
(***************************************************************************)
(* Proofs about Sessions, for any number of processes, turns, keys, claims *)
(* and deaths, with or without a conversation: one process executes a run, *)
(* a settled turn is over, and a reviewed recovery ends what was shown.    *)
(***************************************************************************)
EXTENDS Sessions, FiniteSetTheorems, TLAPS

Snapshots == [revision : Nat, generation : Nat, status : RunStatus, lease : LeaseStatus]
Turn == [status : TurnStatus, revision : Nat, generation : Nat, fenced : BOOLEAN,
         key : Keys \cup {"none"}]
Job == [turn : Turns \cup {0}, generation : Nat, revision : Nat, key : Keys \cup {"none"},
        saw : RunStatus, target : LeaseStatus, next : Labels, snapshot : Snapshots]
Ticket == [kind : {"none", "plan", "recovery"}, turn : Turns \cup {0}, snapshot : Snapshots]

StoreTypes ==
  /\ conversation \in [revision : Nat, active : Turns \cup {0}]
  /\ turn \in [Turns -> Turn]
  /\ status \in [Turns -> RunStatus]
  /\ plan \in [Turns -> PlanStatus]
  /\ lease \in [Turns -> LeaseStatus]
  /\ up \in [Turns -> BOOLEAN]

ProcTypes ==
  /\ shape \in Shapes
  /\ crashes \in 0 .. shape.crashes
  /\ late \subseteq Turns
  /\ pc \in [Procs -> Labels]
  /\ job \in [Procs -> Job]
  /\ ticket \in [Procs -> Ticket]

\* The turns are numbered without a gap; the last one, and no other, may be active.
InOrder == \E k \in 0 .. MaxTurns : Registered = 1 .. k
LastActive == \A t \in Turns : turn[t].status \in Active => t = Last
Named == conversation.active = (IF \E t \in Turns : turn[t].status \in Active THEN Last ELSE 0)

\* A turn has a run and a claim from its registration on; there is none outside a
\* conversation.
Counted ==
  \A t \in Turns :
    /\ turn[t].generation = 0 <=> turn[t].status = "none"
    /\ chat => (status[t] = "none" <=> turn[t].status = "none")
    /\ ~chat => turn[t].status = "none" /\ status[t] # "paused_approval"

\* What exists has a lease that says so.
Leased == \A t \in Turns : up[t] => Outstanding(t)

\* An execution, and a process on its way to one.
Executing(p) == pc[p] \in Working \/ (pc[p] \in {"mark", "clean"} /\ job[p].next = "present")
Heading(p) == Executing(p) \/ pc[p] \in {"inspect", "consume", "unpause"}
Steady == {"created", "running"}

\* What a process keeps in memory where it is.  Whoever executes a run that has not
\* ended has its claim; outside a conversation, such a run is created or running.
Nexts == {"idle", "settle", "present", "reconcile"}
Controlling == {"cancel_save", "recover_turn", "recover_fence", "recover_save"}
Fits(p) ==
  /\ pc[p] = "register" => chat /\ job[p].key \in Keys
  /\ pc[p] \notin {"idle", "register"} => T(p) \in Turns /\ status[T(p)] # "none"
  /\ ticket[p].kind # "none" => ticket[p].turn \in Turns /\ status[ticket[p].turn] # "none"
  /\ pc[p] \in {"mark", "clean"} => job[p].target \in {"released", "recovered"}
                                    /\ job[p].next \in Nexts
  /\ pc[p] \in Controlling => job[p].next \in {"idle", "reconcile"}
  /\ pc[p] \in {"cleaning", "finish"} => lease[T(p)] # "none"
  /\ pc[p] = "finish" => /\ job[p].target \in {"recovered", "failed"}
                         /\ job[p].target = "recovered" => ~up[T(p)]
  /\ pc[p] = "unpause" => chat
  /\ job[p].generation # 0 =>
       T(p) \in Turns /\ job[p].generation <= turn[T(p)].generation
  /\ Heading(p) => status[T(p)] \in Ended \/ HasClaim(p)
  /\ Executing(p) /\ ~chat => status[T(p)] \in Steady \cup Ended

Roles == \A p \in Procs : Fits(p)

\* No two processes have had the same claim, and without claims no two execute a run.
Apart ==
  \A p, q \in Procs : T(p) = T(q) =>
    /\ job[p].generation = job[q].generation /\ job[p].generation # 0 => p = q
    /\ Executing(p) /\ Executing(q) /\ ~chat /\ status[T(p)] \notin Ended => p = q

Store == InOrder /\ LastActive /\ Named /\ Counted /\ Leased

Inv == StoreTypes /\ ProcTypes /\ Store /\ SettledIsOver /\ Roles /\ Apart

-----------------------------------------------------------------------------
\* One process takes a step with its command: its claim is the one it had, none, or
\* a new one; it executes only what it executed, or what nobody else can.
Steps(p) ==
  /\ pc' \in [Procs -> Labels] /\ job' \in [Procs -> Job] /\ ticket' \in [Procs -> Ticket]
  /\ shape' = shape
  /\ \A q \in Procs \ {p} : pc'[q] = pc[q] /\ job'[q] = job[q] /\ ticket'[q] = ticket[q]
  /\ \/ job'[p].generation = 0
     \/ job'[p].generation = job[p].generation /\ T(p)' = T(p)
     \/ T(p)' \in Turns /\ job'[p].generation > turn[T(p)'].generation
  /\ Executing(p)' /\ ~chat =>
       \/ Executing(p) /\ T(p)' = T(p)
       \/ T(p)' \in Turns /\ status[T(p)'] \notin Steady \cup Ended

\* What a step of a process leaves to the others: a run that has ended has ended, a
\* claim is taken from its owner only by itself or with the end of the run, and a
\* lease is never undone.
Leaves(p) ==
  \A t \in Turns :
    /\ status[t] # "none" => status'[t] # "none"
    /\ status[t] \in Ended => status'[t] \in Ended
    /\ turn[t].generation <= turn'[t].generation
    /\ lease[t] # "none" => lease'[t] # "none" /\ (up'[t] => up[t])
    /\ turn[t].status = "running" =>
         \/ status'[t] \in Ended
         \/ turn'[t].status = "running" /\ turn'[t].generation = turn[t].generation
         \/ T(p) = t /\ job[p].generation = turn[t].generation
    /\ ~chat /\ status[t] \in Steady =>
         status'[t] \in Steady \cup Ended \/ (Executing(p) /\ T(p) = t)

\* The other processes keep their roles, whatever a step does to the store.
LEMMA Others ==
  ASSUME Inv, NEW p \in Procs, Steps(p), Leaves(p),
         turn' \in [Turns -> Turn]
  PROVE  \A q \in Procs \ {p} : Fits(q)'
<1> SUFFICES ASSUME NEW q \in Procs \ {p} PROVE Fits(q)'
  OBVIOUS
<1>1. Fits(q) /\ Fits(p)
  BY DEF Inv, Roles
<1>2. pc'[q] = pc[q] /\ job'[q] = job[q] /\ ticket'[q] = ticket[q] /\ shape' = shape
  BY DEF Steps
<1>3. job[q] \in Job /\ job[q].generation \in Nat /\ job[p].generation \in Nat
  BY DEF Inv, ProcTypes, Job
<1>4. \A t \in Turns : turn[t].generation \in Nat /\ turn'[t].generation \in Nat
  BY DEF Inv, StoreTypes, Turn
<1>5. T(q)' = T(q) /\ (Executing(q)' <=> Executing(q)) /\ (Heading(q)' <=> Heading(q))
      /\ (chat' <=> chat)
  BY <1>2 DEF T, Executing, Heading, chat
<1>6. pc[q] \notin {"idle", "register"} => T(q) \in Turns
  BY <1>1 DEF Fits
<1>7. pc'[q] \in {"cleaning", "finish"} => lease'[T(q)] # "none"
  BY <1>1, <1>2, <1>6 DEF Fits, Leaves
<1>8. pc'[q] = "finish" => /\ job'[q].target \in {"recovered", "failed"}
                           /\ job'[q].target = "recovered" => ~up'[T(q)]
  BY <1>1, <1>2, <1>6 DEF Fits, Leaves
<1>9. job'[q].generation # 0 =>
        T(q)' \in Turns /\ job'[q].generation <= turn'[T(q)'].generation
  BY <1>1, <1>2, <1>3, <1>4, <1>5 DEF Fits, Leaves
<1>10. ASSUME Heading(q) PROVE status'[T(q)] \in Ended \/ HasClaim(q)'
  <2>1. T(q) \in Turns
    BY <1>6, <1>10 DEF Heading, Executing, Working
  <2>2. CASE status[T(q)] \in Ended
    BY <2>2, <2>1 DEF Leaves
  <2>3. CASE status[T(q)] \notin Ended /\ chat
    <3>1. turn[T(q)].status = "running" /\ turn[T(q)].generation = job[q].generation
      BY <2>3, <1>1, <1>10 DEF Fits, HasClaim, Owns
    <3>2. turn[T(q)].generation # 0
      BY <3>1, <2>1 DEF Inv, Store, Counted
    <3>3. ~(T(p) = T(q) /\ job[p].generation = turn[T(q)].generation)
      BY <3>1, <3>2 DEF Inv, Apart
    <3>4. status'[T(q)] \in Ended
          \/ (turn'[T(q)].status = "running" /\ turn'[T(q)].generation = turn[T(q)].generation)
      BY <2>1, <3>1, <3>3 DEF Leaves
    <3> QED
      BY <3>1, <3>4, <1>2, <1>5 DEF HasClaim, Owns
  <2>4. CASE ~chat
    BY <2>4, <1>5 DEF HasClaim
  <2> QED
    BY <2>2, <2>3, <2>4
<1>11. ASSUME Executing(q), ~chat PROVE status'[T(q)] \in Steady \cup Ended
  <2>1. T(q) \in Turns /\ status[T(q)] \in Steady \cup Ended
    BY <1>1, <1>6, <1>11 DEF Fits, Executing, Working
  <2>2. CASE status[T(q)] \in Ended
    BY <2>1, <2>2 DEF Leaves
  <2>3. CASE status[T(q)] \notin Ended
    <3>1. ~(Executing(p) /\ T(p) = T(q))
      BY <1>11, <2>3 DEF Inv, Apart
    <3> QED
      BY <2>1, <2>3, <3>1, <1>11 DEF Leaves
  <2> QED
    BY <2>2, <2>3
<1>12. /\ pc'[q] = "register" => chat' /\ job'[q].key \in Keys
       /\ pc'[q] \notin {"idle", "register"} => T(q)' \in Turns /\ status'[T(q)'] # "none"
       /\ ticket'[q].kind # "none" => ticket'[q].turn \in Turns
                                      /\ status'[ticket'[q].turn] # "none"
       /\ pc'[q] \in {"mark", "clean"} => job'[q].target \in {"released", "recovered"}
                                          /\ job'[q].next \in Nexts
       /\ pc'[q] \in Controlling => job'[q].next \in {"idle", "reconcile"}
       /\ pc'[q] = "unpause" => chat'
  BY <1>1, <1>2, <1>5 DEF Fits, Leaves
<1> QED
  BY <1>5, <1>7, <1>8, <1>9, <1>10, <1>11, <1>12 DEF Fits

\* ... and remain apart.
LEMMA Separate ==
  ASSUME Inv, NEW p \in Procs, Steps(p), Leaves(p)
  PROVE  Apart'
<1>1. \A q \in Procs \ {p} :
        /\ T(q)' = T(q) /\ job'[q].generation = job[q].generation
        /\ Executing(q)' <=> Executing(q)
  BY DEF Steps, T, Executing
<1>2. \A q \in Procs : job[q].generation \in Nat /\ job'[q].generation \in Nat
  BY DEF Inv, ProcTypes, Steps, Job
<1>3. \A t \in Turns : turn[t].generation \in Nat
  BY DEF Inv, StoreTypes, Turn
<1>4. chat' = chat
  BY DEF Steps, chat
<1>5. \A q \in Procs : Executing(q) => T(q) \in Turns
  BY DEF Inv, Roles, Fits, Executing, Working
<1>6. ASSUME NEW q \in Procs \ {p}, T(p)' = T(q)'
      PROVE  job'[p].generation = job'[q].generation => job'[p].generation = 0
  <2>1. Fits(q)
    BY DEF Inv, Roles
  <2>2. CASE job'[p].generation = job[p].generation /\ T(p)' = T(p)
    BY <2>2, <1>1, <1>6 DEF Inv, Apart
  <2>3. CASE T(p)' \in Turns /\ job'[p].generation > turn[T(p)'].generation
    BY <2>3, <1>1, <1>2, <1>3, <1>6, <2>1 DEF Fits
  <2> QED
    BY <2>2, <2>3 DEF Steps
<1>7. ASSUME NEW q \in Procs \ {p}, T(p)' = T(q)', Executing(p)', Executing(q)', ~chat,
             status'[T(p)'] \notin Ended
      PROVE  FALSE
  <2>1. Executing(q) /\ T(q) \in Turns /\ T(q)' = T(q) /\ status[T(q)] \notin Ended
    BY <1>1, <1>5, <1>7 DEF Leaves
  <2>2. status[T(q)] \in Steady
    BY <2>1, <1>7 DEF Inv, Roles, Fits
  <2>3. CASE Executing(p) /\ T(p)' = T(p)
    BY <2>1, <2>3, <1>7 DEF Inv, Apart
  <2>4. CASE T(p)' \in Turns /\ status[T(p)'] \notin Steady \cup Ended
    BY <2>1, <2>2, <2>4, <1>7
  <2> QED
    BY <2>3, <2>4, <1>7 DEF Steps
<1>8. ASSUME NEW q \in Procs \ {p}, NEW r \in Procs \ {p}, T(q)' = T(r)'
      PROVE  /\ job'[q].generation = job'[r].generation /\ job'[q].generation # 0 => q = r
             /\ Executing(q)' /\ Executing(r)' /\ ~chat /\ status'[T(q)'] \notin Ended => q = r
  <2>1. T(q) = T(r)
    BY <1>1, <1>8
  <2>2. job'[q].generation = job'[r].generation /\ job'[q].generation # 0 => q = r
    BY <2>1, <1>1 DEF Inv, Apart
  <2>3. ASSUME Executing(q), Executing(r), ~chat, status'[T(q)'] \notin Ended PROVE q = r
    <3>1. status[T(q)] \notin Ended
      BY <2>3, <1>1, <1>5 DEF Leaves
    <3> QED
      BY <2>1, <2>3, <3>1 DEF Inv, Apart
  <2> QED
    BY <2>2, <2>3, <1>1
<1>9. ASSUME NEW q \in Procs, NEW r \in Procs, T(q)' = T(r)'
      PROVE  /\ job'[q].generation = job'[r].generation /\ job'[q].generation # 0 => q = r
             /\ Executing(q)' /\ Executing(r)' /\ ~chat /\ status'[T(q)'] \notin Ended => q = r
  <2>1. CASE q = p /\ r # p
    BY <2>1, <1>6, <1>7, <1>9
  <2>2. CASE r = p /\ q # p
    BY <2>2, <1>6, <1>7, <1>9
  <2>3. CASE q # p /\ r # p
    BY <2>3, <1>8, <1>9
  <2> QED
    BY <2>1, <2>2, <2>3
<1> QED
  BY <1>4, <1>9 DEF Apart

-----------------------------------------------------------------------------
\* What every operation of the store keeps.
Kept(p) == StoreTypes' /\ Store' /\ SettledIsOver' /\ Leaves(p)

LEMMA Nothing ==
  ASSUME Inv, NEW p \in Procs, UNCHANGED <<storeVars, late, shape>>
  PROVE  Kept(p)
<1> USE DEF storeVars
<1>1. StoreTypes'
  BY DEF Inv, StoreTypes
<1>2. Registered' = Registered /\ Last' = Last
  BY DEF Registered, Last
<1>3. Store'
  BY <1>2 DEF Inv, Store, InOrder, LastActive, Named, Counted, Leased, Outstanding, chat
<1>4. SettledIsOver'
  BY DEF Inv, SettledIsOver, Outstanding
<1>5. \A t \in Turns : turn[t].generation <= turn[t].generation
  BY DEF Inv, StoreTypes, Turn
<1>6. Leaves(p)
  BY <1>5 DEF Leaves
<1> QED
  BY <1>1, <1>3, <1>4, <1>6 DEF Kept

\* A save of a run and of its plan: what has ended has ended, what is over is over.
LEMMA Saves ==
  ASSUME Inv, NEW p \in Procs, NEW t \in Turns, NEW new \in RunStatus,
         status' = [status EXCEPT ![t] = new], plan' \in [Turns -> PlanStatus],
         UNCHANGED <<conversation, turn, lease, up, late, shape>>,
         new # "none", chat => status[t] # "none",
         status[t] \in Ended => new \in Ended,
         status[t] \in {"ready", "applying"} => new \in Ended \cup {"ready", "applying"},
         ~chat => new # "paused_approval"
                  /\ (status[t] \in Steady =>
                        new \in Steady \cup Ended \/ (Executing(p) /\ T(p) = t))
  PROVE  Kept(p)
<1>0. status \in [Turns -> RunStatus]
  BY DEF Inv, StoreTypes
<1>1. StoreTypes'
  BY <1>0 DEF Inv, StoreTypes
<1>2. Registered' = Registered /\ Last' = Last
  BY DEF Registered, Last
<1>3. Store'
  BY <1>0, <1>2 DEF Inv, Store, InOrder, LastActive, Named, Counted, Leased, Outstanding, chat
<1>4. SettledIsOver'
  BY <1>0 DEF Inv, SettledIsOver, Outstanding
<1>5. \A s \in Turns : turn[s].generation <= turn[s].generation
  BY DEF Inv, StoreTypes, Turn
<1>6. Leaves(p)
  BY <1>0, <1>5 DEF Leaves
<1> QED
  BY <1>1, <1>3, <1>4, <1>6 DEF Kept

\* An update of a lease: it is not undone, and nothing comes to exist.
LEMMA Leases ==
  ASSUME Inv, NEW p \in Procs, UNCHANGED <<conversation, turn, status, plan, late, shape>>,
         lease' \in [Turns -> LeaseStatus], up' \in [Turns -> BOOLEAN],
         \A t \in Turns : /\ lease[t] # "none" => lease'[t] # "none"
                          /\ up'[t] => up[t] /\ lease'[t] \notin Clean
  PROVE  Kept(p)
<1>1. StoreTypes'
  BY DEF Inv, StoreTypes
<1>2. Registered' = Registered /\ Last' = Last
  BY DEF Registered, Last
<1>3. Store'
  BY <1>2 DEF Inv, Store, InOrder, LastActive, Named, Counted, Leased, Outstanding, chat
<1>4. SettledIsOver'
  BY DEF Inv, SettledIsOver, Outstanding
<1>5. \A t \in Turns : turn[t].generation <= turn[t].generation
  BY DEF Inv, StoreTypes, Turn
<1>6. Leaves(p)
  BY <1>5 DEF Leaves
<1> QED
  BY <1>1, <1>3, <1>4, <1>6 DEF Kept

\* There is a lease for what an owner takes; without its claim it is late.
LEMMA Takes ==
  ASSUME Inv, NEW p \in Procs, Take(p)
  PROVE  Kept(p)
<1>0. /\ pc[p] = "take" /\ lease[T(p)] = "none" /\ T(p) \in Turns
      /\ lease' = [lease EXCEPT ![T(p)] = "active"] /\ up' = [up EXCEPT ![T(p)] = TRUE]
      /\ late' = (IF HasClaim(p) THEN late ELSE late \cup {T(p)})
      /\ UNCHANGED <<conversation, turn, status, plan, shape>>
  BY DEF Take, SetLease, Inv, Roles, Fits
<1>1. lease \in [Turns -> LeaseStatus] /\ up \in [Turns -> BOOLEAN]
  BY DEF Inv, StoreTypes
<1>2. StoreTypes'
  BY <1>0, <1>1 DEF Inv, StoreTypes, LeaseStatus
<1>3. Registered' = Registered /\ Last' = Last
  BY <1>0 DEF Registered, Last
<1>4. Leased'
  BY <1>0, <1>1 DEF Inv, Store, Leased, Outstanding, Clean
<1>5. Store'
  BY <1>0, <1>3, <1>4 DEF Inv, Store, InOrder, LastActive, Named, Counted, chat
<1>6. ASSUME turn[T(p)].status \in Settled PROVE T(p) \in late' /\ status[T(p)] \in Ended
  <2>1. chat
    BY <1>0, <1>6 DEF Inv, Store, Counted, Settled
  <2>2. ~HasClaim(p)
    BY <1>6, <2>1 DEF HasClaim, Owns, Settled
  <2>3. Heading(p)
    BY <1>0 DEF Heading, Executing, Working
  <2> QED
    BY <1>0, <2>2, <2>3 DEF Inv, Roles, Fits
<1>7. SettledIsOver'
  <2> SUFFICES ASSUME NEW t \in Turns, turn'[t].status \in Settled
               PROVE  /\ status'[t] \in Ended \cup {"ready", "applying"}
                      /\ up'[t] => t \in late' /\ status'[t] \in Ended /\ Outstanding(t)'
    BY DEF SettledIsOver
  <2>1. up'[t] => Outstanding(t)'
    BY <1>4 DEF Leased
  <2>2. CASE t = T(p)
    BY <2>1, <2>2, <1>0, <1>6
  <2>3. CASE t # T(p)
    BY <2>1, <2>3, <1>0, <1>1 DEF Inv, SettledIsOver
  <2> QED
    BY <2>2, <2>3
<1>8. \A t \in Turns : turn[t].generation <= turn[t].generation
  BY DEF Inv, StoreTypes, Turn
<1>9. Leaves(p)
  BY <1>0, <1>1, <1>8 DEF Leaves
<1> QED
  BY <1>2, <1>5, <1>7, <1>9 DEF Kept

\* Who has a turn at all works on a conversation, and an active turn is the last.
LEMMA OnlyLast ==
  ASSUME Inv, NEW t \in Turns, turn[t].status \in Active
  PROVE  t = Last /\ turn[t].status # "none" /\ chat
BY DEF Inv, Store, LastActive, Counted, Active

\* A write of the last turn, which may end its run: it is settled when the run is over
\* and nothing is left, and it is taken only from who writes it, or with the end.
LEMMA Writes ==
  ASSUME Inv, NEW p \in Procs, NEW t \in Turns, NEW new \in Turn, NEW end \in RunStatus,
         t = Last, turn[t].status # "none", new.status # "none",
         turn' = [turn EXCEPT ![t] = new], status' = [status EXCEPT ![t] = end],
         conversation' = [revision |-> conversation.revision + 1,
                          active |-> IF new.status \in Active THEN t ELSE 0],
         UNCHANGED <<plan, lease, up, late, shape>>,
         turn[t].generation <= new.generation,
         end = status[t] \/ (end \in Ended /\ status[t] \notin Ended),
         new.status \in Settled => end \in Ended \cup {"ready", "applying"} /\ ~Outstanding(t),
         turn[t].status = "running" =>
           end \in Ended \/ (T(p) = t /\ job[p].generation = turn[t].generation)
  PROVE  Kept(p)
<1>0. /\ turn \in [Turns -> Turn] /\ status \in [Turns -> RunStatus]
      /\ conversation.revision \in Nat /\ conversation \in [revision : Nat, active : Turns \cup {0}]
  BY DEF Inv, StoreTypes
<1>1. StoreTypes'
  BY <1>0 DEF Inv, StoreTypes
<1>2. Registered' = Registered
  BY <1>0 DEF Registered
<1>3. Last' = Last
  BY <1>2 DEF Last
<1>4. turn[t].generation \in Nat /\ new.generation \in Nat /\ turn[t].generation # 0 /\ chat
      /\ status[t] # "none" /\ end # "none"
  BY <1>0 DEF Turn, Inv, Store, Counted, Ended
<1>5. LastActive'
  BY <1>0, <1>3 DEF Inv, Store, LastActive
<1>6. Named'
  <2>1. CASE new.status \in Active
    <3>1. \E s \in Turns : turn'[s].status \in Active
      BY <1>0, <2>1
    <3> QED
      BY <3>1, <2>1, <1>3 DEF Named
  <2>2. CASE new.status \notin Active
    <3>1. \A s \in Turns : turn'[s].status \notin Active
      BY <1>0, <2>2 DEF Inv, Store, LastActive
    <3> QED
      BY <3>1, <2>2 DEF Named
  <2> QED
    BY <2>1, <2>2
<1>7. Counted'
  <2> SUFFICES ASSUME NEW s \in Turns
               PROVE  /\ turn'[s].generation = 0 <=> turn'[s].status = "none"
                      /\ status'[s] = "none" <=> turn'[s].status = "none"
    BY <1>4 DEF Counted, chat
  <2>1. CASE s = t
    BY <2>1, <1>0, <1>4
  <2>2. CASE s # t
    BY <2>2, <1>0, <1>4 DEF Inv, Store, Counted
  <2> QED
    BY <2>1, <2>2
<1>8. Leased'
  BY DEF Inv, Store, Leased, Outstanding
<1>9. Store'
  BY <1>2, <1>5, <1>6, <1>7, <1>8 DEF Inv, Store, InOrder
<1>10. SettledIsOver'
  <2> SUFFICES ASSUME NEW s \in Turns, turn'[s].status \in Settled
               PROVE  /\ status'[s] \in Ended \cup {"ready", "applying"}
                      /\ up'[s] => s \in late' /\ status'[s] \in Ended /\ Outstanding(s)'
    BY DEF SettledIsOver
  <2>1. CASE s = t
    <3>1. ~up'[t]
      BY <2>1, <1>0 DEF Inv, Store, Leased
    <3> QED
      BY <2>1, <3>1, <1>0
  <2>2. CASE s # t
    BY <2>2, <1>0 DEF Inv, SettledIsOver, Outstanding
  <2> QED
    BY <2>1, <2>2
<1>11. Leaves(p)
  <2>1. \A s \in Turns : turn[s].generation <= turn'[s].generation
    BY <1>0 DEF Turn
  <2>2. \A s \in Turns : status[s] # "none" => status'[s] # "none"
    BY <1>0, <1>4
  <2>3. \A s \in Turns : status[s] \in Ended => status'[s] \in Ended
    BY <1>0
  <2>4. \A s \in Turns : turn[s].status = "running" =>
          \/ status'[s] \in Ended
          \/ turn'[s].status = "running" /\ turn'[s].generation = turn[s].generation
          \/ T(p) = s /\ job[p].generation = turn[s].generation
    BY <1>0
  <2> QED
    BY <2>1, <2>2, <2>3, <2>4, <1>4 DEF Leaves
<1> QED
  BY <1>1, <1>9, <1>10, <1>11 DEF Kept

\* The number of the last turn is the number of the turns.
LEMMA Numbered ==
  ASSUME Inv
  PROVE  Last \in 0 .. MaxTurns /\ Registered = 1 .. Last
<1>1. PICK k \in 0 .. MaxTurns : Registered = 1 .. k
  BY DEF Inv, Store, InOrder
<1>2. Cardinality(1 .. k) = k
  BY <1>1, FS_Interval, ConversationsAssumption
<1> QED
  BY <1>1, <1>2 DEF Last

\* A new turn comes after the others, when none of them is active.
LEMMA Registers ==
  ASSUME Inv, NEW p \in Procs, NEW k \in Keys, NEW review \in PlanStatus, chat,
         Registrable(k, conversation.revision), RegisterTurnRun(k, review),
         UNCHANGED <<late, shape>>
  PROVE  /\ Kept(p) /\ Last + 1 \in Turns
         /\ turn[Last + 1].generation = 0
         /\ turn'[Last + 1].status = "running" /\ turn'[Last + 1].generation = 1
         /\ status'[Last + 1] = "created"
<1> DEFINE t == Last + 1
           new == [NoTurn EXCEPT !.status = "running", !.generation = 1, !.key = k]
<1>0. /\ conversation.active = 0 /\ t \in Turns
      /\ turn' = [turn EXCEPT ![t] = new] /\ status' = [status EXCEPT ![t] = "created"]
      /\ conversation' = [revision |-> conversation.revision + 1, active |-> t]
      /\ plan' = [plan EXCEPT ![t] = review] /\ UNCHANGED <<lease, up, late, shape>>
  BY DEF Registrable, RegisterTurnRun
<1>1. /\ turn \in [Turns -> Turn] /\ status \in [Turns -> RunStatus]
      /\ plan \in [Turns -> PlanStatus] /\ conversation.revision \in Nat
  BY DEF Inv, StoreTypes
<1>2. /\ new \in Turn /\ new.status = "running" /\ new.generation = 1
      /\ \A s \in Turns : turn[s].generation \in Nat
  BY <1>1 DEF NoTurn, Turn, TurnStatus, Active
<1>3. Last \in 0 .. MaxTurns /\ Registered = 1 .. Last
  BY Numbered
<1> HIDE DEF new
<1>4. turn[t].status = "none" /\ turn[t].generation = 0 /\ status[t] = "none"
  <2>1. t \notin Registered
    BY <1>3
  <2>2. turn[t].status = "none"
    BY <1>0, <2>1 DEF Registered
  <2> QED
    BY <1>0, <2>2 DEF Inv, Store, Counted
<1>5. \A s \in Turns : turn[s].status \notin Active
  <2> SUFFICES ASSUME NEW s \in Turns, turn[s].status \in Active PROVE FALSE
    OBVIOUS
  <2>1. s = Last /\ conversation.active = Last
    BY OnlyLast DEF Inv, Store, Named
  <2> QED
    BY <2>1, <1>0 DEF Turns
<1>6. Registered' = 1 .. t /\ t \in 0 .. MaxTurns
  <2>1. Registered' = Registered \cup {t}
    BY <1>0, <1>1, <1>2 DEF Registered
  <2>2. t \in 1 .. MaxTurns
    BY <1>0 DEF Turns
  <2>3. MaxTurns \in Nat
    BY ConversationsAssumption
  <2> QED
    BY <2>1, <2>2, <2>3, <1>3
<1>7. Last' = t
  <2>1. Cardinality(1 .. t) = t
    BY <1>6, FS_Interval, ConversationsAssumption
  <2> QED
    BY <2>1, <1>6 DEF Last
<1> HIDE DEF t
<1>8. StoreTypes'
  BY <1>0, <1>1, <1>2 DEF Inv, StoreTypes, RunStatus
<1>9. LastActive' /\ Named'
  BY <1>0, <1>1, <1>2, <1>5, <1>7 DEF LastActive, Named, Active
<1>10. Counted'
  <2> SUFFICES ASSUME NEW s \in Turns
               PROVE  /\ turn'[s].generation = 0 <=> turn'[s].status = "none"
                      /\ chat => (status'[s] = "none" <=> turn'[s].status = "none")
    BY <1>0 DEF Counted, chat
  <2>1. CASE s = t
    BY <2>1, <1>0, <1>1, <1>2
  <2>2. CASE s # t
    BY <2>2, <1>0, <1>1 DEF Inv, Store, Counted
  <2> QED
    BY <2>1, <2>2
<1>11. Store'
  BY <1>0, <1>6, <1>9, <1>10 DEF Inv, Store, InOrder, Leased, Outstanding
<1>12. SettledIsOver'
  BY <1>0, <1>1, <1>2 DEF Inv, SettledIsOver, Outstanding, Settled
<1>13. \A s \in Turns : turn[s].generation <= turn'[s].generation
  BY <1>0, <1>1, <1>2, <1>4
<1>14. Leaves(p)
  BY <1>0, <1>1, <1>2, <1>4, <1>13 DEF Leaves, Ended, Steady
<1> QED
  BY <1>0, <1>1, <1>2, <1>4, <1>8, <1>11, <1>12, <1>14 DEF Kept, t

\* A turn is settled, or left to a recovery, by its owner, or when its run has ended.
LEMMA Settles ==
  ASSUME Inv, NEW p \in Procs, NEW t \in Turns, SettledUpdate(t), UNCHANGED <<late, shape>>,
         Settleable(t), turn[t].status \in Active,
         turn[t].status = "running" => T(p) = t /\ job[p].generation = turn[t].generation
  PROVE  Kept(p)
<1> DEFINE out == Outcome(t)
           now == [turn[t] EXCEPT !.status = out, !.fenced = @ \/ out = "recovery_required"]
           new == [now EXCEPT !.revision = @ + 1]
<1>1. /\ turn \in [Turns -> Turn] /\ status \in [Turns -> RunStatus]
      /\ turn[t] \in Turn
  BY DEF Inv, StoreTypes
<1>2. out \in {"waiting", "recovery_required", "delivered", "cancelled", "failed"}
  BY DEF Outcome, Settleable, Ended, Paused
<1>3. out \in Settled => status[t] \in Ended \cup {"ready"} /\ ~Outstanding(t)
  BY DEF Outcome, Settleable, Ended, Paused, Settled
<1>9. out \in TurnStatus /\ (turn[t].fenced \/ out = "recovery_required") \in BOOLEAN
  BY <1>1, <1>2 DEF TurnStatus, Active, Settled, Turn
<1>10. now \in Turn /\ now.status = out /\ now.generation = turn[t].generation
  <2> HIDE DEF out
  <2> QED
    BY <1>1, <1>9 DEF Turn
<1>4. new \in Turn /\ new.status = out /\ new.generation = turn[t].generation
  <2> HIDE DEF now, out
  <2> QED
    BY <1>10 DEF Turn
<1>5. /\ turn' = [turn EXCEPT ![t] = new]
      /\ conversation' = [revision |-> conversation.revision + 1,
                          active |-> IF out \in Active THEN t ELSE 0]
      /\ UNCHANGED <<status, plan, lease, up>>
  BY <1>10 DEF SettledUpdate, WriteTurn
<1>6. /\ status' = [status EXCEPT ![t] = status[t]] /\ status[t] \in RunStatus
      /\ new.status \in Settled => status[t] \in Ended \cup {"ready", "applying"} /\ ~Outstanding(t)
      /\ turn[t].generation <= new.generation /\ new.status # "none"
      /\ turn[t].status = "running" =>
           status[t] \in Ended \/ (T(p) = t /\ job[p].generation = turn[t].generation)
  <2>1. turn[t].generation \in Nat
    BY <1>1 DEF Turn
  <2> HIDE DEF new, out
  <2> QED
    BY <2>1, <1>1, <1>2, <1>3, <1>4, <1>5
<1>7. t = Last /\ turn[t].status # "none"
  BY OnlyLast
<1>8. conversation' = [revision |-> conversation.revision + 1,
                       active |-> IF new.status \in Active THEN t ELSE 0]
  BY <1>4, <1>5
<1> HIDE DEF new, out, now
<1> QED
  BY <1>4, <1>5, <1>6, <1>7, <1>8, Writes

\* The last turn is fenced, and its run has ended with that.
LEMMA Fences ==
  ASSUME Inv, NEW p \in Procs, NEW t \in Turns, NEW end \in {"failed", "cancelled"},
         Fence(t, end), UNCHANGED <<late, shape>>,
         t = Last, turn[t].status # "none"
  PROVE  Kept(p) /\ status'[t] \in Ended
<1> DEFINE now == [turn[t] EXCEPT !.status = "recovery_required", !.fenced = TRUE]
           new == [now EXCEPT !.revision = @ + 1]
           e == IF status[t] \in Ended THEN status[t] ELSE end
<1>1. /\ turn \in [Turns -> Turn] /\ status \in [Turns -> RunStatus]
      /\ turn[t] \in Turn /\ status[t] \in RunStatus
  BY DEF Inv, StoreTypes
<1>3. /\ now \in Turn /\ now.status = "recovery_required"
      /\ now.generation = turn[t].generation
  <2>1. "recovery_required" \in TurnStatus
    BY DEF TurnStatus, Active
  <2> QED
    BY <1>1, <2>1 DEF Turn
<1>2. new \in Turn /\ new.status = "recovery_required" /\ new.generation = turn[t].generation
  <2> HIDE DEF now
  <2> QED
    BY <1>3 DEF Turn
<1>4. /\ turn' = [turn EXCEPT ![t] = new]
      /\ conversation' = [revision |-> conversation.revision + 1,
                          active |-> IF new.status \in Active THEN t ELSE 0]
      /\ UNCHANGED <<plan, lease, up>>
  BY <1>2, <1>3 DEF Fence, WriteTurn
<1>5. status' = [status EXCEPT ![t] = e]
  BY DEF Fence
<1>6. e \in Ended /\ e \in RunStatus /\ (e = status[t] \/ status[t] \notin Ended)
  BY <1>1 DEF Ended, RunStatus
<1>7. turn[t].generation \in Nat /\ new.status \notin Settled /\ new.status # "none"
  BY <1>1, <1>2 DEF Turn, Settled
<1> HIDE DEF new, e, now
<1>9. /\ turn[t].generation <= new.generation
      /\ e = status[t] \/ (e \in Ended /\ status[t] \notin Ended)
      /\ new.status \in Settled => e \in Ended \cup {"ready", "applying"} /\ ~Outstanding(t)
      /\ turn[t].status = "running" =>
           e \in Ended \/ (T(p) = t /\ job[p].generation = turn[t].generation)
  BY <1>2, <1>6, <1>7
<1>8. Kept(p)
  BY <1>2, <1>4, <1>5, <1>6, <1>7, <1>9, Writes
<1> QED
  BY <1>1, <1>5, <1>6, <1>8

\* A turn that waits gets a new claim.
LEMMA Resumes ==
  ASSUME Inv, NEW p \in Procs, NEW t \in Turns, ClaimResume(t), UNCHANGED <<late, shape>>,
         turn[t].status = "waiting"
  PROVE  /\ Kept(p) /\ status' = status /\ turn[t].generation \in Nat
         /\ turn'[t].status = "running" /\ turn'[t].generation = turn[t].generation + 1
<1> DEFINE g == turn[t].generation + 1
           now == [turn[t] EXCEPT !.status = "running", !.generation = g]
           new == [now EXCEPT !.revision = @ + 1]
<1>1. /\ turn \in [Turns -> Turn] /\ status \in [Turns -> RunStatus]
      /\ turn[t] \in Turn /\ status[t] \in RunStatus /\ turn[t].generation \in Nat
  BY DEF Inv, StoreTypes, Turn
<1>2. "running" \in TurnStatus /\ "running" \in Active /\ "waiting" \in Active
      /\ "running" \notin Settled
  BY DEF TurnStatus, Active, Settled
<1>3. now \in Turn /\ now.status = "running" /\ now.generation = turn[t].generation + 1
  <2>1. g \in Nat
    BY <1>1
  <2> HIDE DEF g
  <2>2. now \in Turn /\ now.status = "running" /\ now.generation = g
    BY <1>1, <1>2, <2>1 DEF Turn
  <2> QED
    BY <2>2 DEF g
<1>4. new \in Turn /\ new.status = "running" /\ new.generation = turn[t].generation + 1
  <2> HIDE DEF now
  <2> QED
    BY <1>3 DEF Turn
<1>5. /\ turn' = [turn EXCEPT ![t] = new]
      /\ conversation' = [revision |-> conversation.revision + 1,
                          active |-> IF new.status \in Active THEN t ELSE 0]
      /\ UNCHANGED <<status, plan, lease, up>>
  BY <1>3, <1>4 DEF ClaimResume, WriteTurn
<1>6. t = Last /\ turn[t].status # "none"
  BY <1>2, OnlyLast
<1> HIDE DEF new, now
<1>7. status' = [status EXCEPT ![t] = status[t]]
  BY <1>1, <1>5
<1>8. /\ turn[t].generation <= new.generation /\ new.status # "none"
      /\ new.status \in Settled => status[t] \in Ended \cup {"ready", "applying"} /\ ~Outstanding(t)
      /\ turn[t].status = "running" =>
           status[t] \in Ended \/ (T(p) = t /\ job[p].generation = turn[t].generation)
  BY <1>1, <1>2, <1>4
<1>9. Kept(p)
  BY <1>1, <1>4, <1>5, <1>6, <1>7, <1>8, Writes, ZenonT(60)
<1> QED
  BY <1>1, <1>4, <1>5, <1>9

-----------------------------------------------------------------------------
\* A process moves to a label, with something in memory.
Moved(p, l, m) ==
  /\ pc' \in [Procs -> Labels] /\ job' \in [Procs -> Job]
  /\ pc'[p] = l /\ job'[p] = m
  /\ \A q \in Procs \ {p} : pc'[q] = pc[q] /\ job'[q] = job[q]

Still == UNCHANGED <<late, crashes, shape>>

\* A label at which a process executes, or is about to.
Ahead(l, m) == l \in Working \/ (l \in {"mark", "clean"} /\ m.next = "present")
Bound(l, m) == Ahead(l, m) \/ l \in {"inspect", "consume", "unpause"}

\* What must be so where a process arrives.
LEMMA Arrives ==
  ASSUME Inv, NEW p \in Procs, NEW l \in Labels, NEW m \in Job, Moved(p, l, m), Kept(p),
         ticket' \in [Procs -> Ticket], \A q \in Procs \ {p} : ticket'[q] = ticket[q],
         ticket'[p].kind # "none" =>
           ticket'[p].turn \in Turns /\ status'[ticket'[p].turn] # "none",
         shape' = shape, late' \subseteq Turns, crashes' \in 0 .. shape.crashes,
         l = "register" => chat /\ m.key \in Keys,
         l \notin {"idle", "register"} => m.turn \in Turns /\ status'[m.turn] # "none",
         l \in {"mark", "clean"} => m.target \in {"released", "recovered"} /\ m.next \in Nexts,
         l \in Controlling => m.next \in {"idle", "reconcile"},
         l \in {"cleaning", "finish"} => lease'[m.turn] # "none",
         l = "finish" => m.target \in {"recovered", "failed"}
                         /\ (m.target = "recovered" => ~up'[m.turn]),
         l = "unpause" => chat,
         m.generation # 0 =>
           \/ m.generation = job[p].generation /\ m.turn = T(p)
           \/ /\ m.turn \in Turns /\ m.generation = turn'[m.turn].generation
              /\ m.generation > turn[m.turn].generation,
         Bound(l, m) /\ chat =>
           \/ status'[m.turn] \in Ended
           \/ turn'[m.turn].status = "running" /\ turn'[m.turn].generation = m.generation,
         Ahead(l, m) /\ ~chat =>
           /\ status'[m.turn] \in Steady \cup Ended
           /\ \/ Executing(p) /\ m.turn = T(p)
              \/ m.turn \in Turns /\ status[m.turn] \notin Steady \cup Ended
  PROVE  Inv'
<1>1. /\ pc' \in [Procs -> Labels] /\ job' \in [Procs -> Job] /\ pc'[p] = l /\ job'[p] = m
      /\ \A q \in Procs \ {p} : pc'[q] = pc[q] /\ job'[q] = job[q]
      /\ T(p)' = m.turn /\ chat' = chat
      /\ Executing(p)' <=> Ahead(l, m)
      /\ Heading(p)' <=> Bound(l, m)
  BY DEF Moved, T, chat, Executing, Ahead, Heading, Bound
<1>2. StoreTypes' /\ Store' /\ SettledIsOver' /\ Leaves(p)
  BY DEF Kept
<1>3. ProcTypes'
  BY <1>1 DEF Inv, ProcTypes
<1>4. /\ turn \in [Turns -> Turn] /\ turn' \in [Turns -> Turn] /\ job[p] \in Job
      /\ \A t \in Turns : turn[t].generation \in Nat /\ turn'[t].generation \in Nat
      /\ m.generation \in Nat /\ job[p].generation \in Nat
  BY <1>2 DEF Inv, StoreTypes, ProcTypes, Turn, Job
<1>5. Steps(p)
  BY <1>1 DEF Steps
<1>6. m.generation # 0 => m.turn \in Turns /\ m.generation <= turn'[m.turn].generation
  <2>1. CASE m.generation # 0 /\ m.generation = job[p].generation /\ m.turn = T(p)
    <3>1. T(p) \in Turns /\ job[p].generation <= turn[T(p)].generation
      BY <2>1 DEF Inv, Roles, Fits
    <3>2. turn[T(p)].generation <= turn'[T(p)].generation
      BY <3>1, <1>2 DEF Leaves
    <3> QED
      BY <2>1, <3>1, <3>2, <1>4
  <2>2. CASE m.turn \in Turns /\ m.generation = turn'[m.turn].generation
    BY <2>2, <1>4
  <2> QED
    BY <2>1, <2>2
<1>7. Fits(p)'
  <2>1. Heading(p)' => status'[T(p)'] \in Ended \/ HasClaim(p)'
    BY <1>1 DEF HasClaim, Owns
  <2> QED
    BY <1>1, <1>6, <2>1 DEF Fits
<1>8. Roles'
  BY <1>2, <1>4, <1>5, <1>7, Others DEF Roles
<1>9. Apart'
  BY <1>2, <1>5, Separate
<1> QED
  BY <1>2, <1>3, <1>8, <1>9 DEF Inv

\* What a process forgets and keeps.
LEMMA Idles == Idle \in Job /\ Idle.generation = 0 /\ NoTicket \in Ticket
  /\ NoTicket.kind = "none" /\ NoSnapshot \in Snapshots
<1>1. NoSnapshot \in Snapshots
  BY DEF NoSnapshot, Snapshots, RunStatus, LeaseStatus, Clean
<1>2. "none" \in RunStatus /\ "none" \in LeaseStatus /\ "idle" \in Labels
  BY DEF RunStatus, LeaseStatus, Clean, Labels
<1> QED
  BY <1>1, <1>2 DEF Idle, Job, NoTicket, Ticket

LEMMA Enters ==
  ASSUME Inv, NEW p \in Procs, NEW l \in Labels, NEW m \in Job, Enter(p, l, m)
  PROVE  Moved(p, l, m)
BY DEF Enter, Moved, Inv, ProcTypes

LEMMA Gotos ==
  ASSUME Inv, NEW p \in Procs, NEW l \in Labels, Goto(p, l)
  PROVE  Moved(p, l, job[p]) /\ job[p] \in Job
BY DEF Goto, Moved, Inv, ProcTypes

\* A process has forgotten its command.
LEMMA Ends ==
  ASSUME Inv, NEW p \in Procs, Over(p), Kept(p), ticket' = ticket, Still
  PROVE  Inv'
<1>1. "idle" \in Labels /\ Idle \in Job /\ Idle.generation = 0
  BY Idles DEF Labels
<1>2. Moved(p, "idle", Idle)
  BY <1>1, Enters DEF Over
<1>3. /\ ticket \in [Procs -> Ticket] /\ late \subseteq Turns /\ crashes \in 0 .. shape.crashes
      /\ ticket[p].kind # "none" => ticket[p].turn \in Turns /\ status[ticket[p].turn] # "none"
  BY DEF Inv, ProcTypes, Roles, Fits
<1>4. ticket'[p].kind # "none" => ticket'[p].turn \in Turns /\ status'[ticket'[p].turn] # "none"
  BY <1>3 DEF Kept, Leaves
<1>5. ~Bound("idle", Idle) /\ ~Ahead("idle", Idle)
  BY DEF Bound, Ahead, Working
<1>6. "idle" \notin Controlling
  BY DEF Controlling
<1> QED
  BY <1>1, <1>2, <1>3, <1>4, <1>5, <1>6, Arrives DEF Still

\* A process that has a turn has one that is there.
LEMMA HasTurn ==
  ASSUME Inv, NEW p \in Procs, pc[p] \notin {"idle", "register"}
  PROVE  T(p) \in Turns /\ status[T(p)] # "none"
BY DEF Inv, Roles, Fits

LEMMA Ticketed ==
  ASSUME Inv, NEW p \in Procs, ticket' = ticket, Kept(p)
  PROVE  /\ ticket' \in [Procs -> Ticket] /\ \A q \in Procs \ {p} : ticket'[q] = ticket[q]
         /\ ticket'[p].kind # "none" =>
              ticket'[p].turn \in Turns /\ status'[ticket'[p].turn] # "none"
BY DEF Inv, ProcTypes, Roles, Fits, Kept, Leaves

\* The labels at which nothing is executed, and that ask nothing of the lease.
Plain == {"idle", "claim", "refused", "failing", "settle", "cancel_fence", "reconcile", "approve",
          "confirmed", "recovering", "recovered", "apply"} \cup Controlling

\* A process goes where it executes nothing, with no claim or with the one it had.
LEMMA Retires ==
  ASSUME Inv, NEW p \in Procs, NEW l \in Plain, NEW m \in Job, Moved(p, l, m), Kept(p),
         ticket' = ticket, Still, m.turn \in Turns, status'[m.turn] # "none",
         l \in Controlling => m.next \in {"idle", "reconcile"},
         m.generation = 0 \/ (m.generation = job[p].generation /\ m.turn = T(p))
  PROVE  Inv'
<1>1. l \in Labels
  BY DEF Plain, Controlling, Labels
<1>2. ~Bound(l, m) /\ ~Ahead(l, m) /\ l \notin {"register", "mark", "clean", "cleaning", "finish", "unpause"}
  BY DEF Bound, Ahead, Working, Plain, Controlling
<1>3. late \subseteq Turns /\ crashes \in 0 .. shape.crashes
  BY DEF Inv, ProcTypes
<1> QED
  BY <1>1, <1>2, <1>3, Ticketed, Arrives DEF Still

\* A process that executes, or is about to, goes on: nobody has written its turn.
LEMMA GoesOn ==
  ASSUME Inv, NEW p \in Procs, NEW l \in Working \cup {"inspect", "consume", "unpause"},
         Goto(p, l), Kept(p), ticket' = ticket, crashes' = crashes, shape' = shape,
         late' \subseteq Turns, Heading(p), turn' = turn,
         l = "unpause" => chat,
         l \in Working /\ ~chat =>
           /\ status'[T(p)] \in Steady \cup Ended
           /\ Executing(p) \/ status[T(p)] \notin Steady \cup Ended
  PROVE  Inv'
<1>1. l \in Labels /\ l \notin Controlling
      /\ l \notin {"idle", "register", "mark", "clean", "cleaning", "finish"}
  BY DEF Labels, Working, Controlling
<1>2. Moved(p, l, job[p]) /\ job[p] \in Job
  BY <1>1, Gotos
<1>3. T(p) \in Turns /\ status[T(p)] # "none" /\ T(p) = job[p].turn
  BY HasTurn DEF Heading, Executing, Working, T
<1>4. status'[T(p)] # "none" /\ (status[T(p)] \in Ended => status'[T(p)] \in Ended)
  BY <1>3 DEF Kept, Leaves
<1>5. chat => \/ status'[T(p)] \in Ended
              \/ turn'[T(p)].status = "running" /\ turn'[T(p)].generation = job[p].generation
  BY <1>4 DEF Inv, Roles, Fits, HasClaim, Owns
<1>6. crashes \in 0 .. shape.crashes
  BY DEF Inv, ProcTypes
<1>7. Ahead(l, job[p]) => l \in Working
  BY <1>1 DEF Ahead
<1> QED
  BY <1>1, <1>2, <1>3, <1>4, <1>5, <1>6, <1>7, Ticketed, Arrives

\* A process cleans what its run owns, and then does what follows.
LEMMA Cleans ==
  ASSUME Inv, NEW p \in Procs, NEW target \in {"released", "recovered"}, NEW next \in Nexts,
         CleanThen(p, T(p), target, next), Kept(p), ticket' = ticket, Still,
         pc[p] \notin {"idle", "register"},
         next = "present" => Executing(p) /\ turn' = turn /\ status' = status
  PROVE  Inv'
<1> DEFINE m == [Idle EXCEPT !.turn = T(p), !.generation = job[p].generation,
                             !.target = target, !.next = next]
<1>1. T(p) \in Turns /\ status[T(p)] # "none" /\ T(p) = job[p].turn
  BY HasTurn DEF T
<1>2. next \in Labels /\ target \in LeaseStatus /\ job[p].generation \in Nat
  BY DEF Nexts, Labels, Working, LeaseStatus, Clean, Inv, ProcTypes, Job
<1>3. /\ m \in Job /\ m.turn = T(p) /\ m.generation = job[p].generation
      /\ m.target = target /\ m.next = next
  BY <1>1, <1>2, Idles DEF Job
<1>4. "mark" \in Labels
  BY DEF Labels
<1>5. Moved(p, "mark", m)
  BY <1>3, <1>4, Enters DEF CleanThen
<1> HIDE DEF m
<1>6. status'[T(p)] # "none"
  BY <1>1 DEF Kept, Leaves
<1>7. late \subseteq Turns /\ crashes \in 0 .. shape.crashes
  BY DEF Inv, ProcTypes
<1>8. Bound("mark", m) \/ Ahead("mark", m) => next = "present"
  BY <1>3 DEF Bound, Ahead, Working
<1>9. ASSUME next = "present"
      PROVE  /\ chat => \/ status'[T(p)] \in Ended
                        \/ turn'[T(p)].status = "running" /\ turn'[T(p)].generation = job[p].generation
             /\ ~chat => status'[T(p)] \in Steady \cup Ended /\ Executing(p)
  BY <1>9 DEF Inv, Roles, Fits, Heading, HasClaim, Owns
<1>10. "mark" \notin Controlling \cup {"idle", "register", "cleaning", "finish", "unpause"}
  BY DEF Controlling
<1> QED
  BY <1>1, <1>3, <1>4, <1>5, <1>6, <1>7, <1>8, <1>9, <1>10, Ticketed, Arrives DEF Still

\* A command is refused; a process goes where it executes nothing.
LEMMA Refuses ==
  ASSUME Inv, NEW p \in Procs, Refuse(p), UNCHANGED Own
  PROVE  Inv'
BY Nothing, Ends DEF Refuse, Own, Still

LEMMA Plainly ==
  ASSUME Inv, NEW p \in Procs, NEW l \in Plain \ Controlling, Goto(p, l), Kept(p), UNCHANGED Own,
         pc[p] \notin {"idle", "register"}
  PROVE  Inv'
<1>1. l \in Labels
  BY DEF Plain, Labels
<1>2. Moved(p, l, job[p]) /\ job[p] \in Job
  BY <1>1, Gotos
<1>3. T(p) \in Turns /\ status'[T(p)] # "none" /\ T(p) = job[p].turn
  BY HasTurn DEF T, Kept, Leaves
<1> QED
  BY <1>2, <1>3, Retires DEF Own, Still

LEMMA Quietly ==
  ASSUME Inv, NEW p \in Procs, UNCHANGED <<storeVars, Own>>
  PROVE  Kept(p)
BY Nothing DEF Own

\* A save, where it is a transition of the run.
LEMMA SavesRun ==
  ASSUME Inv, NEW p \in Procs, NEW new \in RunStatus, SaveRun(T(p), new), UNCHANGED <<late, shape>>,
         pc[p] \notin {"idle", "register"}, new # "none",
         status[T(p)] \in Ended => new \in Ended,
         status[T(p)] \in {"ready", "applying"} => new \in Ended \cup {"ready", "applying"},
         ~chat => new # "paused_approval" /\ (new \in Steady \cup Ended \/ Executing(p))
  PROVE  Kept(p) /\ status'[T(p)] = new /\ turn' = turn
<1>1. T(p) \in Turns /\ status[T(p)] # "none"
  BY HasTurn
<1>2. /\ status' = [status EXCEPT ![T(p)] = new] /\ plan' \in [Turns -> PlanStatus]
      /\ UNCHANGED <<conversation, turn, lease, up>>
  BY DEF SaveRun, Inv, StoreTypes
<1>3. Kept(p)
  BY <1>1, <1>2, Saves
<1> QED
  BY <1>1, <1>2, <1>3 DEF Inv, StoreTypes

-----------------------------------------------------------------------------
LEMMA SubmitStep == ASSUME Inv, NEW p \in Procs, Submit(p) PROVE Inv'
<1>1. PICK k \in Keys : Command(p, 0, "register",
                                [Idle EXCEPT !.revision = conversation.revision, !.key = k]) /\ chat
  BY DEF Submit
<1> DEFINE m == [[Idle EXCEPT !.revision = conversation.revision, !.key = k] EXCEPT !.turn = 0]
<1>2. Enter(p, "register", m)
  BY <1>1 DEF Command
<1>3. conversation.revision \in Nat
  BY DEF Inv, StoreTypes
<1>4. m \in Job /\ m.generation = 0 /\ m.key = k
  BY <1>3, Idles DEF Job
<1> HIDE DEF m
<1>5. "register" \in Labels
  BY DEF Labels
<1>6. Moved(p, "register", m)
  BY <1>2, <1>4, <1>5, Enters
<1>7. Kept(p) /\ Still /\ ticket' = ticket
  BY Quietly DEF Submit, Own, Still
<1>8. ~Bound("register", m) /\ ~Ahead("register", m) /\ "register" \notin Controlling
  BY DEF Bound, Ahead, Working, Controlling
<1>9. late \subseteq Turns /\ crashes \in 0 .. shape.crashes
  BY DEF Inv, ProcTypes
<1> QED
  BY <1>1, <1>4, <1>5, <1>6, <1>7, <1>8, <1>9, Ticketed, Arrives DEF Still

LEMMA StartOrdinaryStep == ASSUME Inv, NEW p \in Procs, StartOrdinary(p) PROVE Inv'
<1> DEFINE m == [Idle EXCEPT !.turn = 1]
<1>1. /\ ~chat /\ status[1] = "none" /\ Enter(p, "begin", m)
      /\ status' = [status EXCEPT ![1] = "created"] /\ plan' = [plan EXCEPT ![1] = "wanted"]
      /\ UNCHANGED <<conversation, turn, lease, up, ticket, late, crashes, shape>>
  BY DEF StartOrdinary, Command, Own
<1>2. 1 \in Turns
  BY ConversationsAssumption DEF Turns
<1>3. m \in Job /\ m.generation = 0 /\ m.turn = 1
  BY <1>2, Idles DEF Job
<1> HIDE DEF m
<1>4. "begin" \in Labels /\ "begin" \in Working /\ "begin" \notin Controlling
      /\ "created" \in RunStatus /\ "created" \notin Ended /\ "created" \in Steady
  BY DEF Labels, Working, Controlling, RunStatus, Ended, Steady
<1>5. Moved(p, "begin", m)
  BY <1>1, <1>3, <1>4, Enters
<1>6. plan' \in [Turns -> PlanStatus] /\ status \in [Turns -> RunStatus]
  BY <1>1 DEF Inv, StoreTypes, PlanStatus
<1>7. Kept(p)
  BY <1>1, <1>2, <1>4, <1>6, Saves DEF Ended, Steady
<1>8. late \subseteq Turns /\ crashes \in 0 .. shape.crashes
  BY DEF Inv, ProcTypes
<1>9. status'[1] = "created" /\ status[1] \notin Steady \cup Ended
  BY <1>1, <1>2, <1>6 DEF Steady, Ended
<1> QED
  BY <1>1, <1>2, <1>3, <1>4, <1>5, <1>7, <1>8, <1>9, Ticketed, Arrives DEF Still

LEMMA RegisterStep == ASSUME Inv, NEW p \in Procs, Register(p) PROVE Inv'
<1>1. CASE ~Registrable(job[p].key, job[p].revision)
  BY <1>1, Refuses DEF Register
<1>2. CASE Registrable(job[p].key, job[p].revision)
  <2> DEFINE t == Last + 1
             m == [Idle EXCEPT !.turn = t, !.generation = 1]
  <2>1. PICK review \in {"none"} \cup (IF Last + 1 \in Commanded THEN {"wanted"} ELSE {}) :
          RegisterTurnRun(job[p].key, review)
    BY <1>2 DEF Register
  <2>2. Enter(p, "begin", m) /\ UNCHANGED <<ticket, late, crashes, shape>>
    BY <1>2 DEF Register, Own
  <2>3. chat /\ job[p].key \in Keys /\ job[p].revision = conversation.revision
    BY <1>2 DEF Register, Inv, Roles, Fits, Registrable
  <2>4. review \in PlanStatus
    BY <2>1 DEF PlanStatus
  <2>5. /\ Kept(p) /\ t \in Turns /\ turn[t].generation = 0
        /\ turn'[t].status = "running" /\ turn'[t].generation = 1 /\ status'[t] = "created"
    BY <1>2, <2>1, <2>2, <2>3, <2>4, Registers
  <2>6. m \in Job /\ m.generation = 1 /\ m.turn = t
    <3> HIDE DEF t
    <3> QED
      BY <2>5, Idles DEF Job
  <2> HIDE DEF m, t
  <2>7. "begin" \in Labels /\ "begin" \in Working /\ "begin" \notin Controlling
    BY DEF Labels, Working, Controlling
  <2>8. Moved(p, "begin", m)
    BY <2>2, <2>6, <2>7, Enters
  <2>9. late \subseteq Turns /\ crashes \in 0 .. shape.crashes
    BY DEF Inv, ProcTypes
  <2> QED
    BY <2>2, <2>3, <2>5, <2>6, <2>7, <2>8, <2>9, Ticketed, Arrives
<1> QED
  BY <1>1, <1>2
LEMMA BeginStep == ASSUME Inv, NEW p \in Procs, Begin(p) PROVE Inv'
<1>0. pc[p] = "begin" /\ Save(p, "created", "running", "call") /\ UNCHANGED Own
      /\ Executing(p) /\ Heading(p) /\ "failing" \in Plain \ Controlling
  BY DEF Begin, Executing, Heading, Working, Plain, Controlling
<1>1. CASE status[T(p)] = "created"
  <2>1. SaveRun(T(p), "running") /\ Goto(p, "call")
    BY <1>0, <1>1 DEF Save
  <2>2. Kept(p) /\ status'[T(p)] = "running" /\ turn' = turn
    BY <1>0, <1>1, <2>1, SavesRun DEF RunStatus, Ended, Steady, Own
  <2>3. late' \subseteq Turns
    BY <1>0 DEF Own, Inv, ProcTypes
  <2> QED
    BY <1>0, <2>1, <2>2, <2>3, GoesOn DEF Own, Working, Steady
<1>2. CASE status[T(p)] # "created"
  BY <1>0, <1>2, Quietly, Plainly DEF Save
<1> QED
  BY <1>1, <1>2

LEMMA CallStep == ASSUME Inv, NEW p \in Procs, Call(p) PROVE Inv'
<1>0. pc[p] = "call" /\ Executing(p) /\ Heading(p) /\ Kept(p) /\ Still /\ turn' = turn
      /\ status' = status /\ late' \subseteq Turns /\ ticket' = ticket
  BY Quietly DEF Call, Executing, Heading, Working, Own, Still, storeVars, Inv, ProcTypes
<1>1. CASE Over(p)
  BY <1>0, <1>1, Ends
<1>2. CASE Goto(p, "agent")
  BY <1>0, <1>2, GoesOn DEF Working, Still, Inv, Roles, Fits
<1> QED
  BY <1>1, <1>2 DEF Call

LEMMA ScopedStep == ASSUME Inv, NEW p \in Procs, Scoped(p) PROVE Inv'
<1>0. pc[p] = "agent" /\ Executing(p) /\ Heading(p) /\ UNCHANGED Own /\ late' \subseteq Turns
      /\ {"failing", "settle"} \subseteq Plain \ Controlling
  BY DEF Scoped, Scoping, Executing, Heading, Working, Plain, Controlling, Own, Inv, ProcTypes
<1>1. CASE Goto(p, "dispatch") /\ UNCHANGED storeVars
  <2>1. Kept(p) /\ turn' = turn /\ status' = status
    BY <1>0, <1>1, Quietly DEF storeVars
  <2> QED
    BY <1>0, <1>1, <2>1, GoesOn DEF Working, Own, Inv, Roles, Fits
<1>2. CASE CanCreateReview(T(p)) /\ CreateReview(T(p)) /\ Goto(p, "settle")
  <2>1. T(p) \in Turns /\ status[T(p)] = "running" /\ "paused_plan" \in RunStatus
    BY <1>0, <1>2, HasTurn DEF CanCreateReview, RunStatus, Paused
  <2>2. /\ status' = [status EXCEPT ![T(p)] = "paused_plan"] /\ plan' \in [Turns -> PlanStatus]
        /\ UNCHANGED <<conversation, turn, lease, up, late, shape>>
    BY <1>0, <1>2 DEF CreateReview, PublishPlan, Inv, StoreTypes, PlanStatus, Own
  <2>3. Kept(p)
    BY <1>0, <2>1, <2>2, Saves DEF Ended
  <2> QED
    BY <1>0, <1>2, <2>3, Plainly
<1>3. CASE Goto(p, "failing") /\ UNCHANGED storeVars
  BY <1>0, <1>3, Quietly, Plainly
<1> QED
  BY <1>1, <1>2, <1>3 DEF Scoped

LEMMA DispatchStep == ASSUME Inv, NEW p \in Procs, Dispatch(p) PROVE Inv'
<1>0. pc[p] = "dispatch" /\ Executing(p) /\ Heading(p) /\ Kept(p) /\ Still /\ turn' = turn
      /\ status' = status /\ late' \subseteq Turns /\ ticket' = ticket /\ UNCHANGED Own
      /\ "failing" \in Plain \ Controlling
  BY Quietly DEF Dispatch, Executing, Heading, Working, Own, Still, storeVars, Inv, ProcTypes,
                 Plain, Controlling
<1>1. CASE Over(p)
  BY <1>0, <1>1, Ends
<1>2. CASE Goto(p, "take")
  BY <1>0, <1>2, GoesOn DEF Working, Still, Inv, Roles, Fits
<1>3. CASE Goto(p, "failing")
  BY <1>0, <1>3, Plainly
<1> QED
  BY <1>1, <1>2, <1>3 DEF Dispatch

LEMMA TakeStep == ASSUME Inv, NEW p \in Procs, Take(p) PROVE Inv'
<1>1. Kept(p)
  BY Takes
<1>2. pc[p] = "take" /\ Executing(p) /\ Heading(p) /\ T(p) \in Turns
  BY HasTurn DEF Take, Executing, Heading, Working
<1>3. /\ Goto(p, "call") /\ turn' = turn /\ status' = status /\ ticket' = ticket
      /\ crashes' = crashes /\ shape' = shape /\ late' \subseteq Turns
  BY <1>2 DEF Take, SetLease, Inv, ProcTypes
<1> QED
  BY <1>1, <1>2, <1>3, GoesOn DEF Working, Inv, Roles, Fits

LEMMA PauseForApprovalStep == ASSUME Inv, NEW p \in Procs, PauseForApproval(p) PROVE Inv'
<1>0. chat /\ pc[p] = "agent" /\ Save(p, "running", "paused_approval", "settle") /\ UNCHANGED Own
      /\ {"failing", "settle"} \subseteq Plain \ Controlling
  BY DEF PauseForApproval, Engineering, Plain, Controlling
<1>1. CASE status[T(p)] = "running"
  <2>1. SaveRun(T(p), "paused_approval") /\ Goto(p, "settle")
    BY <1>0, <1>1 DEF Save
  <2>2. Kept(p)
    BY <1>0, <1>1, <2>1, SavesRun DEF RunStatus, Paused, Ended, Own
  <2> QED
    BY <1>0, <2>1, <2>2, Plainly
<1>2. CASE status[T(p)] # "running"
  BY <1>0, <1>2, Quietly, Plainly DEF Save
<1> QED
  BY <1>1, <1>2

LEMMA ReleaseStep == ASSUME Inv, NEW p \in Procs, Release(p) PROVE Inv'
<1>1. pc[p] = "agent" /\ Executing(p) /\ UNCHANGED <<storeVars, Own>>
      /\ CleanThen(p, T(p), "released", "present") /\ "present" \in Nexts
  BY DEF Release, Engineering, Executing, Working, Nexts
<1> QED
  BY <1>1, Quietly, Cleans DEF storeVars, Own, Still

LEMMA PresentStep == ASSUME Inv, NEW p \in Procs, Present(p) PROVE Inv'
<1>0. pc[p] = "present" /\ Save(p, "running", "ready", "settle") /\ UNCHANGED Own
      /\ Executing(p) /\ {"failing", "settle"} \subseteq Plain \ Controlling
  BY DEF Present, Plain, Controlling, Executing, Working
<1>1. CASE status[T(p)] = "running"
  <2>1. SaveRun(T(p), "ready") /\ Goto(p, "settle")
    BY <1>0, <1>1 DEF Save
  <2>2. Kept(p)
    BY <1>0, <1>1, <2>1, SavesRun DEF RunStatus, Ended, Own
  <2> QED
    BY <1>0, <2>1, <2>2, Plainly
<1>2. CASE status[T(p)] # "running"
  BY <1>0, <1>2, Quietly, Plainly DEF Save
<1> QED
  BY <1>1, <1>2

LEMMA AgentFailsStep == ASSUME Inv, NEW p \in Procs, AgentFails(p) PROVE Inv'
<1>1. pc[p] \in {"agent", "take"} /\ Goto(p, "failing") /\ UNCHANGED <<storeVars, Own>>
      /\ "failing" \in Plain \ Controlling
  BY DEF AgentFails, Plain, Controlling
<1> QED
  BY <1>1, Quietly, Plainly

LEMMA HandleFailureStep == ASSUME Inv, NEW p \in Procs, HandleFailure(p) PROVE Inv'
<1>0. pc[p] = "failing" /\ UNCHANGED Own
  BY DEF HandleFailure
<1>1. CASE CanEnd(T(p), "failed") /\ SaveRun(T(p), "failed")
           /\ CleanThen(p, T(p), "released", "settle")
  <2>1. Kept(p)
    BY <1>0, <1>1, SavesRun DEF RunStatus, Ended, Own
  <2> QED
    BY <1>0, <1>1, <2>1, Cleans DEF Nexts, Own, Still
<1>2. CASE Refuse(p)
  BY <1>0, <1>2, Refuses
<1> QED
  BY <1>1, <1>2 DEF HandleFailure

LEMMA SettleExecutionStep == ASSUME Inv, NEW p \in Procs, SettleExecution(p) PROVE Inv'
<1>0. pc[p] = "settle" /\ UNCHANGED Own /\ Over(p) /\ T(p) \in Turns
  BY HasTurn DEF SettleExecution
<1>1. CASE CanSettle(T(p), job[p].generation) /\ SettledUpdate(T(p))
  <2>1. Settleable(T(p)) /\ turn[T(p)].status \in Active
        /\ job[p].generation = turn[T(p)].generation
    BY <1>1 DEF CanSettle, Owns, Active
  <2>2. Kept(p)
    BY <1>0, <1>1, <2>1, Settles DEF Own
  <2> QED
    BY <1>0, <2>2, Ends DEF Own, Still
<1>2. CASE UNCHANGED storeVars
  BY <1>0, <1>2, Quietly, Ends DEF Own, Still
<1> QED
  BY <1>1, <1>2 DEF SettleExecution

\* After a fence, its process goes on to a cleanup of what it has read.
LEMMA FencesAndCleans ==
  ASSUME Inv, NEW p \in Procs, NEW t \in Turns, T(p) = t, NEW end \in {"failed", "cancelled"},
         NEW l \in {"cancel_save", "recover_save"}, Fence(t, end), UNCHANGED Own,
         turn[t].status \in Active,
         Enter(p, l, [Idle EXCEPT !.turn = t, !.next = "reconcile", !.saw = status'[t]])
  PROVE  Inv'
<1> DEFINE m == [Idle EXCEPT !.turn = t, !.next = "reconcile", !.saw = status'[t]]
<1>1. Kept(p) /\ status'[t] \in Ended
  BY OnlyLast, Fences DEF Own
<1>2. status'[t] \in RunStatus /\ status'[t] # "none" /\ "reconcile" \in Labels
  BY <1>1 DEF Ended, RunStatus, Labels
<1>3. m \in Job /\ m.turn = t /\ m.next = "reconcile" /\ m.generation = 0
  BY <1>2, Idles DEF Job
<1> HIDE DEF m
<1>4. l \in Labels /\ l \in Plain
  BY DEF Labels, Plain, Controlling
<1>5. Moved(p, l, m)
  BY <1>3, <1>4, Enters DEF m
<1> QED
  BY <1>1, <1>2, <1>3, <1>4, <1>5, Retires DEF Own, Still

LEMMA InterruptStep == ASSUME Inv, NEW p \in Procs, Interrupt(p) PROVE Inv'
<1>0. pc[p] \in {"agent", "unpause"} /\ UNCHANGED Own /\ T(p) \in Turns
  BY HasTurn DEF Interrupt
<1>1. CASE CanFence(T(p), turn[T(p)].revision, "cancelled", TRUE) /\ Fence(T(p), "cancelled")
           /\ Enter(p, "cancel_save", [Idle EXCEPT !.turn = T(p), !.next = "reconcile",
                                                   !.saw = status'[T(p)]])
  <2>1. turn[T(p)].status \in Active
    BY <1>1 DEF CanFence
  <2> QED
    BY <1>0, <1>1, <2>1, FencesAndCleans
<1>2. CASE Refuse(p)
  BY <1>0, <1>2, Refuses
<1> QED
  BY <1>1, <1>2 DEF Interrupt

\* A cleanup is over, and what follows it begins.
LEMMA Proceeds ==
  ASSUME Inv, NEW p \in Procs, pc[p] \in {"mark", "clean"}, Goto(p, job[p].next), Kept(p),
         UNCHANGED Own, turn' = turn, status' = status
  PROVE  Inv'
<1>1. job[p].next \in Nexts
  BY DEF Inv, Roles, Fits
<1>2. CASE job[p].next = "present"
  <2>1. Executing(p) /\ Heading(p) /\ late' \subseteq Turns
    BY <1>2 DEF Executing, Heading, Own, Inv, ProcTypes
  <2> QED
    BY <1>2, <2>1, GoesOn DEF Own, Working, Inv, Roles, Fits
<1>3. CASE job[p].next # "present"
  <2>1. job[p].next \in Plain \ Controlling
    BY <1>1, <1>3 DEF Nexts, Plain, Controlling
  <2> QED
    BY <2>1, Plainly
<1> QED
  BY <1>2, <1>3

\* The lease of one turn is updated, and nothing comes to exist.
LEMMA LeasesOne ==
  ASSUME Inv, NEW p \in Procs, NEW t \in Turns, NEW new \in LeaseStatus \ {"none"}, SetLease(t, new),
         up' \in [Turns -> BOOLEAN], \A s \in Turns : up'[s] => up[s],
         up'[t] => new \notin Clean, UNCHANGED <<late, shape>>
  PROVE  Kept(p) /\ turn' = turn /\ status' = status /\ lease'[t] = new
<1>1. lease \in [Turns -> LeaseStatus] /\ lease' = [lease EXCEPT ![t] = new]
      /\ UNCHANGED <<conversation, turn, status, plan>>
  BY DEF Inv, StoreTypes, SetLease
<1>2. \A s \in Turns : /\ lease[s] # "none" => lease'[s] # "none"
                       /\ up'[s] => up[s] /\ lease'[s] \notin Clean
  BY <1>1 DEF Inv, Store, Leased, Outstanding
<1>3. lease' \in [Turns -> LeaseStatus]
  BY <1>1
<1>4. Kept(p)
  BY <1>1, <1>2, <1>3, Leases
<1> QED
  BY <1>1, <1>4

LEMMA MarkStep == ASSUME Inv, NEW p \in Procs, Mark(p) PROVE Inv'
<1>0. pc[p] = "mark" /\ UNCHANGED Own /\ T(p) \in Turns /\ status[T(p)] # "none"
      /\ T(p) = job[p].turn
  BY HasTurn DEF Mark, T
<1>1. CASE SetLease(T(p), "releasing") /\ UNCHANGED up /\ Goto(p, "clean")
  <2>1. Kept(p) /\ turn' = turn /\ status' = status
    BY <1>0, <1>1, LeasesOne DEF LeaseStatus, Clean, Own, Inv, StoreTypes
  <2>2. "clean" \in Labels /\ "clean" \notin Controlling
    BY DEF Labels, Controlling
  <2>3. Moved(p, "clean", job[p]) /\ job[p] \in Job
    BY <1>1, <2>2, Gotos
  <2>4. /\ job[p].target \in {"released", "recovered"} /\ job[p].next \in Nexts
        /\ Bound("clean", job[p]) => Heading(p)
        /\ Ahead("clean", job[p]) => Executing(p)
    BY <1>0 DEF Inv, Roles, Fits, Bound, Ahead, Heading, Executing, Working
  <2>5. Heading(p) /\ chat => \/ status'[T(p)] \in Ended
                              \/ turn'[T(p)].status = "running"
                                 /\ turn'[T(p)].generation = job[p].generation
    BY <2>1 DEF Inv, Roles, Fits, HasClaim, Owns
  <2>6. Executing(p) /\ ~chat => status'[T(p)] \in Steady \cup Ended
    BY <2>1 DEF Inv, Roles, Fits
  <2>7. late \subseteq Turns /\ crashes \in 0 .. shape.crashes
    BY DEF Inv, ProcTypes
  <2> QED
    BY <1>0, <2>1, <2>2, <2>3, <2>4, <2>5, <2>6, <2>7, Ticketed, Arrives DEF Own
<1>2. CASE UNCHANGED storeVars /\ Goto(p, job[p].next)
  BY <1>0, <1>2, Quietly, Proceeds DEF storeVars
<1> QED
  BY <1>1, <1>2 DEF Mark

LEMMA CleanupFailsStep ==
  ASSUME Inv, NEW p \in Procs, pc[p] = "clean", CleanupFails(p), Kept(p), UNCHANGED Own
  PROVE  Inv'
<1>1. "failing" \in Plain \ Controlling
  BY DEF Plain, Controlling
<1> QED
  BY <1>1, Plainly, Ends DEF CleanupFails, Own, Still

LEMMA SweepStep == ASSUME Inv, NEW p \in Procs, Sweep(p) PROVE Inv'
<1>0. pc[p] = "clean" /\ UNCHANGED Own /\ T(p) \in Turns
      /\ job[p].target \in {"released", "recovered"}
  BY HasTurn DEF Sweep, Inv, Roles, Fits
<1>1. up \in [Turns -> BOOLEAN] /\ lease \in [Turns -> LeaseStatus]
  BY DEF Inv, StoreTypes
<1>2. ASSUME up' = [up EXCEPT ![T(p)] = FALSE] \/ UNCHANGED up,
             UNCHANGED <<conversation, turn, status, plan, lease>>, CleanupFails(p)
      PROVE  Inv'
  <2>1. /\ lease' \in [Turns -> LeaseStatus] /\ up' \in [Turns -> BOOLEAN]
        /\ \A t \in Turns : /\ lease[t] # "none" => lease'[t] # "none"
                            /\ up'[t] => up[t] /\ lease'[t] \notin Clean
    BY <1>0, <1>1, <1>2 DEF Inv, Store, Leased, Outstanding
  <2>2. Kept(p)
    BY <1>0, <1>2, <2>1, Leases DEF Own
  <2> QED
    BY <1>0, <1>2, <2>2, CleanupFailsStep
<1>3. ASSUME up' = [up EXCEPT ![T(p)] = FALSE], SetLease(T(p), job[p].target), Goto(p, job[p].next)
      PROVE  Inv'
  <2>1. Kept(p) /\ turn' = turn /\ status' = status
    BY <1>0, <1>1, <1>3, LeasesOne DEF LeaseStatus, Clean, Own
  <2> QED
    BY <1>0, <1>3, <2>1, Proceeds
<1>4. ASSUME UNCHANGED up, SetLease(T(p), "failed"), CleanupFails(p)
      PROVE  Inv'
  <2>1. Kept(p)
    BY <1>0, <1>1, <1>4, LeasesOne DEF LeaseStatus, Clean, Own
  <2> QED
    BY <1>0, <1>4, <2>1, CleanupFailsStep
<1> QED
  BY <1>2, <1>3, <1>4 DEF Sweep

LEMMA ReconcileStep == ASSUME Inv, NEW p \in Procs, Reconcile(p) PROVE Inv'
<1>0. pc[p] = "reconcile" /\ UNCHANGED Own /\ Over(p) /\ T(p) \in Turns
  BY HasTurn DEF Reconcile
<1>1. CASE CanReconcile(T(p)) /\ SettledUpdate(T(p))
  <2>1. Settleable(T(p)) /\ turn[T(p)].status \in Active /\ turn[T(p)].status # "running"
    BY <1>1 DEF CanReconcile, Settleable, Active
  <2>2. Kept(p)
    BY <1>0, <1>1, <2>1, Settles DEF Own
  <2> QED
    BY <1>0, <2>2, Ends DEF Own, Still
<1>2. CASE UNCHANGED storeVars
  BY <1>0, <1>2, Quietly, Ends DEF Own, Still
<1> QED
  BY <1>1, <1>2 DEF Reconcile

-----------------------------------------------------------------------------
\* A command begins where nothing is executed yet.
LEMMA Commands ==
  ASSUME Inv, NEW p \in Procs, NEW t \in Turns, NEW l \in Plain, NEW new \in Job,
         Command(p, t, l, new), Kept(p), UNCHANGED Own, status'[t] # "none",
         new.generation = 0, l \in Controlling => new.next \in {"idle", "reconcile"}
  PROVE  Inv'
<1> DEFINE m == [new EXCEPT !.turn = t]
<1>1. m \in Job /\ m.turn = t /\ m.generation = 0 /\ m.next = new.next
  BY DEF Job
<1>2. Enter(p, l, m)
  BY DEF Command
<1> HIDE DEF m
<1>3. l \in Labels
  BY DEF Plain, Controlling, Labels
<1>4. Moved(p, l, m)
  BY <1>1, <1>2, <1>3, Enters
<1> QED
  BY <1>1, <1>4, Retires DEF Own, Still

\* A turn that is commanded is a turn, and there is a run of a turn that is there.
LEMMA Commandable ==
  ASSUME Inv, NEW t \in Commanded
  PROVE  t \in Turns /\ (chat /\ turn[t].status # "none" => status[t] # "none")
BY SessionsAssumption DEF Inv, Store, Counted

LEMMA ResumeStep == ASSUME Inv, NEW p \in Procs, Resume(p) PROVE Inv'
<1>0. UNCHANGED <<storeVars, Own>> /\ status' = status /\ Kept(p)
  BY Quietly DEF Resume, storeVars
<1>1. ASSUME chat, NEW t \in Commanded, turn[t].status = "waiting",
             Command(p, t, "claim", [Idle EXCEPT !.revision = turn[t].revision])
      PROVE  Inv'
  <2>1. t \in Turns /\ status'[t] # "none" /\ "claim" \in Plain /\ "claim" \notin Controlling
    BY <1>0, <1>1, Commandable DEF Plain, Controlling
  <2>2. turn[t].revision \in Nat
    BY <2>1 DEF Inv, StoreTypes, Turn
  <2>3. [Idle EXCEPT !.revision = turn[t].revision] \in Job
        /\ [Idle EXCEPT !.revision = turn[t].revision].generation = 0
    BY <2>2, Idles DEF Job
  <2> QED
    BY <1>0, <1>1, <2>1, <2>3, Commands
<1>2. ASSUME ~chat, NEW t \in Commanded, status[t] = "paused_plan", Command(p, t, "inspect", Idle)
      PROVE  Inv'
  <2> DEFINE m == [Idle EXCEPT !.turn = t]
  <2>1. t \in Turns /\ status'[t] # "none"
    BY <1>0, <1>2, Commandable
  <2>2. m \in Job /\ m.turn = t /\ m.generation = 0 /\ Enter(p, "inspect", m)
    BY <1>2, <2>1, Idles DEF Command, Job
  <2> HIDE DEF m
  <2>3. "inspect" \in Labels /\ ~Ahead("inspect", m) /\ "inspect" \notin Controlling
    BY DEF Labels, Ahead, Working, Controlling
  <2>4. Moved(p, "inspect", m)
    BY <2>2, <2>3, Enters
  <2>5. late \subseteq Turns /\ crashes \in 0 .. shape.crashes
    BY DEF Inv, ProcTypes
  <2> QED
    BY <1>0, <1>2, <2>1, <2>2, <2>3, <2>4, <2>5, Ticketed, Arrives DEF Own
<1> QED
  BY <1>1, <1>2 DEF Resume

LEMMA ClaimStep == ASSUME Inv, NEW p \in Procs, Claim(p) PROVE Inv'
<1>0. pc[p] = "claim" /\ UNCHANGED Own /\ T(p) \in Turns /\ status[T(p)] # "none"
  BY HasTurn DEF Claim
<1>1. CASE Refuse(p)
  BY <1>0, <1>1, Refuses
<1>2. CASE CanClaim(T(p), job[p].revision) /\ ClaimResume(T(p))
           /\ Enter(p, "inspect", [Idle EXCEPT !.turn = T(p),
                                               !.generation = turn[T(p)].generation + 1])
  <2> DEFINE g == turn[T(p)].generation + 1
             m == [Idle EXCEPT !.turn = T(p), !.generation = g]
  <2>1. /\ Kept(p) /\ status' = status /\ turn[T(p)].generation \in Nat
        /\ turn'[T(p)].status = "running" /\ turn'[T(p)].generation = g
    BY <1>0, <1>2, Resumes DEF CanClaim, Own
  <2>2. g \in Nat /\ g > turn[T(p)].generation
    BY <2>1
  <2>3. m \in Job /\ m.turn = T(p) /\ m.generation = g
    <3> HIDE DEF g
    <3> QED
      BY <1>0, <2>2, Idles DEF Job
  <2>4. "inspect" \in Labels /\ ~Ahead("inspect", m) /\ "inspect" \notin Controlling
    BY DEF Labels, Ahead, Working, Controlling
  <2>5. Moved(p, "inspect", m)
    BY <1>2, <2>3, <2>4, Enters
  <2> HIDE DEF m, g
  <2>6. late \subseteq Turns /\ crashes \in 0 .. shape.crashes
    BY DEF Inv, ProcTypes
  <2> QED
    BY <1>0, <2>1, <2>2, <2>3, <2>4, <2>5, <2>6, Ticketed, Arrives DEF Own
<1> QED
  BY <1>1, <1>2 DEF Claim

LEMMA InspectStep == ASSUME Inv, NEW p \in Procs, Inspect(p) PROVE Inv'
<1>0. /\ pc[p] = "inspect" /\ UNCHANGED <<storeVars, Own>> /\ Kept(p) /\ Heading(p)
      /\ turn' = turn /\ status' = status /\ late' \subseteq Turns
      /\ {"settle", "refused"} \subseteq Plain \ Controlling
  BY Quietly DEF Inspect, storeVars, Heading, Own, Inv, ProcTypes, Plain, Controlling
<1>1. PICK l \in {"settle", "consume", "unpause", "refused"} :
        Goto(p, l) /\ (l = "unpause" => status[T(p)] = "paused_approval")
  BY DEF Inspect
<1>2. CASE l \in {"settle", "refused"}
  BY <1>0, <1>1, <1>2, Plainly
<1>3. CASE l \in {"consume", "unpause"}
  <2>1. l = "unpause" => chat
    BY <1>0, <1>1, HasTurn DEF Inv, Store, Counted
  <2> QED
    BY <1>0, <1>1, <1>3, <2>1, GoesOn DEF Own, Working
<1> QED
  BY <1>1, <1>2, <1>3

LEMMA MisconfiguredStep == ASSUME Inv, NEW p \in Procs, Misconfigured(p) PROVE Inv'
<1>1. pc[p] = "inspect" /\ Goto(p, "refused") /\ UNCHANGED <<storeVars, Own>>
      /\ "refused" \in Plain \ Controlling
  BY DEF Misconfigured, Plain, Controlling
<1> QED
  BY <1>1, Quietly, Plainly

LEMMA RejectStep == ASSUME Inv, NEW p \in Procs, Reject(p) PROVE Inv'
<1>1. pc[p] = "inspect" /\ status[T(p)] = "paused_approval" /\ SaveRun(T(p), "rejected")
      /\ CleanThen(p, T(p), "released", "settle") /\ UNCHANGED Own
  BY DEF Reject
<1>2. Kept(p)
  BY <1>1, SavesRun DEF RunStatus, Ended, Own
<1> QED
  BY <1>1, <1>2, Cleans DEF Nexts, Own, Still

LEMMA ConsumeStep == ASSUME Inv, NEW p \in Procs, Consume(p) PROVE Inv'
<1>0. pc[p] = "consume" /\ UNCHANGED Own /\ Heading(p) /\ late' \subseteq Turns
      /\ T(p) \in Turns /\ "refused" \in Plain \ Controlling
  BY HasTurn DEF Consume, Heading, Own, Inv, ProcTypes, Plain, Controlling
<1>1. CASE CanConsume(T(p)) /\ ConsumePlan(T(p)) /\ Goto(p, "dispatch")
  <2>1. status[T(p)] = "paused_plan" /\ "running" \in RunStatus
    BY <1>1 DEF CanConsume, RunStatus
  <2>2. /\ status' = [status EXCEPT ![T(p)] = "running"] /\ plan' \in [Turns -> PlanStatus]
        /\ UNCHANGED <<conversation, turn, lease, up, late, shape>>
    BY <1>0, <1>1 DEF ConsumePlan, PublishPlan, Inv, StoreTypes, PlanStatus, Own
  <2>3. Kept(p)
    BY <1>0, <2>1, <2>2, Saves DEF Ended, Steady
  <2>4. status'[T(p)] = "running"
    BY <1>0, <2>2 DEF Inv, StoreTypes
  <2>5. status[T(p)] \notin Steady \cup Ended /\ "running" \in Steady
    BY <2>1 DEF Steady, Ended
  <2> QED
    BY <1>0, <1>1, <2>2, <2>3, <2>4, <2>5, GoesOn DEF Own, Working
<1>2. CASE UNCHANGED storeVars /\ Goto(p, "refused")
  BY <1>0, <1>2, Quietly, Plainly
<1> QED
  BY <1>1, <1>2 DEF Consume

LEMMA UnpauseStep == ASSUME Inv, NEW p \in Procs, Unpause(p) PROVE Inv'
<1>0. pc[p] = "unpause" /\ UNCHANGED Own /\ Heading(p) /\ late' \subseteq Turns
      /\ chat /\ "refused" \in Plain \ Controlling
  BY DEF Unpause, Heading, Own, Inv, ProcTypes, Roles, Fits, Plain, Controlling
<1>1. CASE status[T(p)] \in {"paused_approval", "running"} /\ SaveRun(T(p), "running")
           /\ Goto(p, "call")
  <2>1. Kept(p) /\ turn' = turn
    BY <1>0, <1>1, SavesRun DEF RunStatus, Ended, Own
  <2> QED
    BY <1>0, <1>1, <2>1, GoesOn DEF Own, Working
<1>2. CASE UNCHANGED storeVars /\ Goto(p, "refused")
  BY <1>0, <1>2, Quietly, Plainly
<1> QED
  BY <1>1, <1>2 DEF Unpause

LEMMA RehydrationFailsStep == ASSUME Inv, NEW p \in Procs, RehydrationFails(p) PROVE Inv'
<1>1. pc[p] = "unpause" /\ Goto(p, "refused") /\ UNCHANGED <<storeVars, Own>>
      /\ "refused" \in Plain \ Controlling
  BY DEF RehydrationFails, Plain, Controlling
<1> QED
  BY <1>1, Quietly, Plainly

LEMMA HandleRefusalStep == ASSUME Inv, NEW p \in Procs, HandleRefusal(p) PROVE Inv'
<1>0. pc[p] = "refused" /\ UNCHANGED <<storeVars, Own>> /\ Kept(p)
      /\ "settle" \in Plain \ Controlling
  BY Quietly DEF HandleRefusal, Plain, Controlling
<1>1. CASE Goto(p, "settle")
  BY <1>0, <1>1, Plainly
<1>2. CASE Over(p)
  BY <1>0, <1>2, Ends DEF Own, Still
<1> QED
  BY <1>1, <1>2 DEF HandleRefusal

-----------------------------------------------------------------------------
LEMMA CancelStep == ASSUME Inv, NEW p \in Procs, Cancel(p) PROVE Inv'
<1>0. UNCHANGED <<storeVars, Own>> /\ status' = status /\ Kept(p)
      /\ {"cancel_fence", "cancel_save"} \subseteq Plain
  BY Quietly DEF Cancel, storeVars, Plain, Controlling
<1>1. PICK t \in Commanded :
        /\ status[t] # "none"
        /\ \E l \in {"cancel_fence", "cancel_save"} :
             Command(p, t, l, [Idle EXCEPT !.saw = status[t], !.revision = turn[t].revision])
  BY DEF Cancel
<1>2. PICK l \in {"cancel_fence", "cancel_save"} :
        Command(p, t, l, [Idle EXCEPT !.saw = status[t], !.revision = turn[t].revision])
  BY <1>1
<1> DEFINE m == [Idle EXCEPT !.saw = status[t], !.revision = turn[t].revision]
<1>3. t \in Turns /\ turn[t].revision \in Nat /\ status[t] \in RunStatus
  BY Commandable DEF Inv, StoreTypes, Turn
<1>4. m \in Job /\ m.generation = 0 /\ m.next = "idle"
  BY <1>3, Idles DEF Job, Idle
<1> HIDE DEF m
<1> QED
  BY <1>0, <1>1, <1>2, <1>3, <1>4, Commands DEF m

LEMMA CancelFenceStep == ASSUME Inv, NEW p \in Procs, CancelFence(p) PROVE Inv'
<1>0. pc[p] = "cancel_fence" /\ UNCHANGED Own /\ T(p) \in Turns
  BY HasTurn DEF CancelFence
<1>1. CASE CanFence(T(p), job[p].revision, "cancelled", FALSE) /\ Fence(T(p), "cancelled")
           /\ Enter(p, "cancel_save", [Idle EXCEPT !.turn = T(p), !.next = "reconcile",
                                                   !.saw = status'[T(p)]])
  <2>1. turn[T(p)].status \in Active
    BY <1>1 DEF CanFence
  <2> QED
    BY <1>0, <1>1, <2>1, FencesAndCleans
<1>2. CASE Refuse(p)
  BY <1>0, <1>2, Refuses
<1> QED
  BY <1>1, <1>2 DEF CancelFence

LEMMA CancelSaveStep == ASSUME Inv, NEW p \in Procs, CancelSave(p) PROVE Inv'
<1>0. pc[p] = "cancel_save" /\ UNCHANGED Own /\ job[p].next \in {"idle", "reconcile"}
      /\ {"idle", "reconcile"} \subseteq (Plain \ Controlling) \cap (Nexts \ {"present"})
  BY DEF CancelSave, Plain, Controlling, Nexts, Inv, Roles, Fits
<1>1. CASE UNCHANGED storeVars /\ Over(p)
  BY <1>0, <1>1, Quietly, Ends DEF Own, Still
<1>2. CASE UNCHANGED storeVars /\ Goto(p, job[p].next)
  BY <1>0, <1>2, Quietly, Plainly
<1>3. CASE SaveRun(T(p), "cancelled") /\ CleanThen(p, T(p), "released", job[p].next)
  <2>1. Kept(p)
    BY <1>0, <1>3, SavesRun DEF RunStatus, Ended, Own
  <2> QED
    BY <1>0, <1>3, <2>1, Cleans DEF Own, Still
<1>4. CASE Refuse(p)
  BY <1>0, <1>4, Refuses
<1> QED
  BY <1>1, <1>2, <1>3, <1>4 DEF CancelSave

LEMMA RecoverStep == ASSUME Inv, NEW p \in Procs, Recover(p) PROVE Inv'
<1>0. UNCHANGED <<storeVars, Own>> /\ status' = status /\ Kept(p) /\ "recover_turn" \in Plain
  BY Quietly DEF Recover, storeVars, Plain, Controlling
<1>1. PICK t \in Commanded :
        status[t] # "none" /\ Command(p, t, "recover_turn", [Idle EXCEPT !.saw = status[t]])
  BY DEF Recover
<1> DEFINE m == [Idle EXCEPT !.saw = status[t]]
<1>2. t \in Turns /\ status[t] \in RunStatus
  BY Commandable DEF Inv, StoreTypes
<1>3. m \in Job /\ m.generation = 0 /\ m.next = "idle"
  BY <1>2, Idles DEF Job, Idle
<1> HIDE DEF m
<1> QED
  BY <1>0, <1>1, <1>2, <1>3, Commands DEF m

LEMMA RecoverTurnStep == ASSUME Inv, NEW p \in Procs, RecoverTurn(p) PROVE Inv'
<1>0. /\ pc[p] = "recover_turn" /\ UNCHANGED <<storeVars, Own>> /\ Kept(p)
      /\ job[p].next \in {"idle", "reconcile"} /\ job[p] \in Job
      /\ T(p) \in Turns /\ status'[T(p)] # "none" /\ T(p) = job[p].turn
      /\ {"recover_save", "recover_fence"} \subseteq Plain
      /\ {"recover_save", "recover_fence", "recover_turn"} \subseteq Controlling
  BY HasTurn, Quietly DEF RecoverTurn, storeVars, Plain, Controlling, Inv, Roles, Fits,
                          ProcTypes, T
<1>1. status[T(p)] \in RunStatus /\ turn[T(p)].revision \in Nat /\ "reconcile" \in Labels
      /\ {"recover_save", "recover_fence"} \subseteq Labels
  BY <1>0 DEF Inv, StoreTypes, Turn, Labels
<1>2. ASSUME NEW l \in {"recover_save", "recover_fence"}, NEW m \in Job, Enter(p, l, m),
             m.next \in {"idle", "reconcile"}, m.turn = T(p), m.generation = job[p].generation
      PROVE  Inv'
  <2>1. Moved(p, l, m)
    BY <1>1, <1>2, Enters
  <2> QED
    BY <1>0, <1>2, <2>1, Retires DEF Own, Still
<1>3. CASE Goto(p, "recover_save")
  <2>1. Moved(p, "recover_save", job[p])
    BY <1>1, <1>3, Gotos
  <2> QED
    BY <1>0, <2>1, Retires DEF Own, Still
<1>4. CASE Enter(p, "recover_save", [job[p] EXCEPT !.saw = status[T(p)], !.next = "reconcile"])
  <2> DEFINE m == [job[p] EXCEPT !.saw = status[T(p)], !.next = "reconcile"]
  <2>1. m \in Job /\ m.next = "reconcile" /\ m.turn = T(p) /\ m.generation = job[p].generation
    BY <1>0, <1>1 DEF Job
  <2> HIDE DEF m
  <2> QED
    BY <1>2, <1>4, <2>1 DEF m
<1>5. CASE Enter(p, "recover_fence", [job[p] EXCEPT !.revision = turn[T(p)].revision])
  <2> DEFINE m == [job[p] EXCEPT !.revision = turn[T(p)].revision]
  <2>1. m \in Job /\ m.next = job[p].next /\ m.turn = T(p) /\ m.generation = job[p].generation
    BY <1>0, <1>1 DEF Job
  <2> HIDE DEF m
  <2> QED
    BY <1>0, <1>2, <1>5, <2>1 DEF m
<1> QED
  BY <1>3, <1>4, <1>5 DEF RecoverTurn

LEMMA RecoverFenceStep == ASSUME Inv, NEW p \in Procs, RecoverFence(p) PROVE Inv'
<1>0. pc[p] = "recover_fence" /\ UNCHANGED Own /\ T(p) \in Turns
  BY HasTurn DEF RecoverFence
<1>1. CASE CanFence(T(p), job[p].revision, "failed", FALSE) /\ Fence(T(p), "failed")
           /\ Enter(p, "recover_save", [Idle EXCEPT !.turn = T(p), !.next = "reconcile",
                                                    !.saw = status'[T(p)]])
  <2>1. turn[T(p)].status \in Active
    BY <1>1 DEF CanFence
  <2> QED
    BY <1>0, <1>1, <2>1, FencesAndCleans
<1>2. CASE Refuse(p)
  BY <1>0, <1>2, Refuses
<1> QED
  BY <1>1, <1>2 DEF RecoverFence

LEMMA RecoverSaveStep == ASSUME Inv, NEW p \in Procs, RecoverSave(p) PROVE Inv'
<1>0. pc[p] = "recover_save" /\ UNCHANGED Own /\ job[p].next \in Nexts \ {"present"}
  BY DEF RecoverSave, Controlling, Nexts, Inv, Roles, Fits
<1>1. CASE UNCHANGED storeVars /\ CleanThen(p, T(p), "recovered", job[p].next)
  BY <1>0, <1>1, Quietly, Cleans DEF Own, Still
<1>2. CASE SaveRun(T(p), "failed") /\ CleanThen(p, T(p), "recovered", job[p].next)
  <2>1. Kept(p)
    BY <1>0, <1>2, SavesRun DEF RunStatus, Ended, Own
  <2> QED
    BY <1>0, <1>2, <2>1, Cleans DEF Own, Still
<1>3. CASE Refuse(p)
  BY <1>0, <1>3, Refuses
<1> QED
  BY <1>1, <1>2, <1>3 DEF RecoverSave

-----------------------------------------------------------------------------
LEMMA SnapshotType ==
  ASSUME Inv, NEW t \in Turns
  PROVE  Snapshot(t) \in Snapshots
BY DEF Inv, StoreTypes, Turn, Snapshot, Snapshots

\* A code is issued, by a process that has no command.
LEMMA Issues ==
  ASSUME Inv, NEW p \in Procs, NEW kind \in {"recovery", "plan"}, NEW t \in Turns,
         status[t] # "none", Issue(p, kind, t)
  PROVE  Inv'
<1> DEFINE new == [kind |-> kind, turn |-> t, snapshot |-> Snapshot(t)]
<1>1. new \in Ticket /\ new.turn = t
  BY SnapshotType DEF Ticket
<1>2. pc[p] = "idle" /\ ticket' = [ticket EXCEPT ![p] = new]
      /\ UNCHANGED <<storeVars, pc, job, late, crashes, shape>>
  BY DEF Issue
<1> HIDE DEF new
<1>3. Kept(p) /\ status' = status
  BY <1>2, Nothing DEF storeVars
<1>4. /\ pc \in [Procs -> Labels] /\ job \in [Procs -> Job] /\ ticket \in [Procs -> Ticket]
      /\ late \subseteq Turns /\ crashes \in 0 .. shape.crashes
  BY DEF Inv, ProcTypes
<1>5. Moved(p, "idle", job[p]) /\ job[p] \in Job /\ job[p].turn = T(p)
  BY <1>2, <1>4 DEF Moved, T
<1>6. ~Bound("idle", job[p]) /\ ~Ahead("idle", job[p]) /\ "idle" \notin Controlling
      /\ "idle" \in Labels
  BY DEF Bound, Ahead, Working, Controlling, Labels
<1>7. /\ ticket' \in [Procs -> Ticket] /\ \A q \in Procs \ {p} : ticket'[q] = ticket[q]
      /\ ticket'[p] = new
  BY <1>1, <1>2, <1>4
<1> QED
  BY <1>1, <1>2, <1>3, <1>4, <1>5, <1>6, <1>7, Arrives

LEMMA ReviewRecoveryStep == ASSUME Inv, NEW p \in Procs, ReviewRecovery(p) PROVE Inv'
<1>1. PICK t \in Commanded : CanCapture(t) /\ Issue(p, "recovery", t)
  BY DEF ReviewRecovery
<1>2. status[t] # "none"
  BY <1>1, Commandable DEF CanCapture, Recoverable, Retained, Issue, Ended
<1> QED
  BY <1>1, <1>2, Commandable, Issues

LEMMA ReviewPlanStep == ASSUME Inv, NEW p \in Procs, ReviewPlan(p) PROVE Inv'
<1>1. PICK t \in Commanded : CanApprove(t) /\ Issue(p, "plan", t)
  BY DEF ReviewPlan
<1>2. status[t] # "none"
  BY <1>1 DEF CanApprove
<1> QED
  BY <1>1, <1>2, Commandable, Issues

\* A code is gone, and its holder may have a command of its turn now.
LEMMA Redeems ==
  ASSUME Inv, NEW p \in Procs, NEW kind \in {"recovery", "plan"}, Redeem(p, kind),
         \/ UNCHANGED <<pc, job>>
         \/ \E l \in Plain \ Controlling, m \in Job :
              /\ Enter(p, l, m)
              /\ m.turn \in Turns /\ status[m.turn] # "none" /\ m.generation = 0
  PROVE  Inv'
<1>1. /\ pc[p] = "idle" /\ ticket' = [ticket EXCEPT ![p] = NoTicket]
      /\ UNCHANGED <<storeVars, late, crashes, shape>>
  BY DEF Redeem
<1>2. Kept(p) /\ status' = status
  BY <1>1, Nothing DEF storeVars
<1>3. /\ pc \in [Procs -> Labels] /\ job \in [Procs -> Job] /\ ticket \in [Procs -> Ticket]
      /\ late \subseteq Turns /\ crashes \in 0 .. shape.crashes
  BY DEF Inv, ProcTypes
<1>4. /\ ticket' \in [Procs -> Ticket] /\ \A q \in Procs \ {p} : ticket'[q] = ticket[q]
      /\ ticket'[p].kind = "none"
  BY <1>1, <1>3, Idles
<1>5. CASE UNCHANGED <<pc, job>>
  <2>1. Moved(p, "idle", job[p]) /\ job[p] \in Job /\ job[p].turn = T(p)
    BY <1>1, <1>3, <1>5 DEF Moved, T
  <2>2. ~Bound("idle", job[p]) /\ ~Ahead("idle", job[p]) /\ "idle" \notin Controlling
        /\ "idle" \in Labels
    BY DEF Bound, Ahead, Working, Controlling, Labels
  <2> QED
    BY <1>1, <1>2, <1>3, <1>4, <2>1, <2>2, Arrives
<1>6. ASSUME NEW l \in Plain \ Controlling, NEW m \in Job, Enter(p, l, m),
             m.turn \in Turns, status[m.turn] # "none", m.generation = 0
      PROVE  Inv'
  <2>1. l \in Labels /\ ~Bound(l, m) /\ ~Ahead(l, m)
        /\ l \notin {"register", "mark", "clean", "cleaning", "finish", "unpause"}
    BY DEF Plain, Labels, Bound, Ahead, Working
  <2>2. Moved(p, l, m)
    BY <1>6, <2>1, Enters
  <2> QED
    BY <1>1, <1>2, <1>3, <1>4, <1>6, <2>1, <2>2, Arrives
<1> QED
  BY <1>5, <1>6

\* The turn of a code.
LEMMA Coded ==
  ASSUME Inv, NEW p \in Procs, ticket[p].kind # "none"
  PROVE  ticket[p].turn \in Turns /\ status[ticket[p].turn] # "none"
         /\ ticket[p].snapshot \in Snapshots
BY DEF Inv, ProcTypes, Ticket, Roles, Fits

LEMMA ExpireStep == ASSUME Inv, NEW p \in Procs, Expire(p) PROVE Inv'
BY Redeems DEF Expire

LEMMA ConfirmRecoveryStep == ASSUME Inv, NEW p \in Procs, ConfirmRecovery(p) PROVE Inv'
<1> DEFINE m == [Idle EXCEPT !.turn = ticket[p].turn, !.snapshot = ticket[p].snapshot]
<1>1. Redeem(p, "recovery") /\ (UNCHANGED <<pc, job>> \/ Enter(p, "confirmed", m))
  BY DEF ConfirmRecovery
<1>2. ticket[p].turn \in Turns /\ status[ticket[p].turn] # "none" /\ ticket[p].snapshot \in Snapshots
  BY <1>1, Coded DEF Redeem
<1>3. m \in Job /\ m.turn = ticket[p].turn /\ m.generation = 0
  BY <1>2, Idles DEF Job
<1>4. "confirmed" \in Plain \ Controlling
  BY DEF Plain, Controlling
<1> HIDE DEF m
<1> QED
  BY <1>1, <1>2, <1>3, <1>4, Redeems

LEMMA ConfirmPlanStep == ASSUME Inv, NEW p \in Procs, ConfirmPlan(p) PROVE Inv'
<1> DEFINE m == [Idle EXCEPT !.turn = ticket[p].turn]
<1>1. Redeem(p, "plan") /\ (UNCHANGED <<pc, job>> \/ Enter(p, "approve", m))
  BY DEF ConfirmPlan
<1>2. ticket[p].turn \in Turns /\ status[ticket[p].turn] # "none"
  BY <1>1, Coded DEF Redeem
<1>3. m \in Job /\ m.turn = ticket[p].turn /\ m.generation = 0
  BY <1>2, Idles DEF Job
<1>4. "approve" \in Plain \ Controlling
  BY DEF Plain, Controlling
<1> HIDE DEF m
<1> QED
  BY <1>1, <1>2, <1>3, <1>4, Redeems

LEMMA PrepareStep == ASSUME Inv, NEW p \in Procs, Prepare(p) PROVE Inv'
<1>0. pc[p] = "confirmed" /\ UNCHANGED Own /\ T(p) \in Turns
  BY HasTurn DEF Prepare
<1>1. CASE Refuse(p)
  BY <1>0, <1>1, Refuses
<1>2. ASSUME CanPrepare(T(p), job[p].snapshot), NEW t \in {T(p)}, PrepareReviewedRecovery(t),
             Enter(p, "recovering", [Idle EXCEPT !.turn = t, !.snapshot = Snapshot(t)'])
      PROVE  Inv'
  <2> DEFINE s == Snapshot(t)'
             m == [Idle EXCEPT !.turn = t, !.snapshot = s]
  <2>1. t \in Turns /\ t = Last /\ turn[t].status # "none"
    <3>1. t = T(p) /\ t \in 1 .. MaxTurns /\ t = Last
      BY <1>0, <1>2 DEF CanPrepare, CanCapture, Turns
    <3>2. Last \in 0 .. MaxTurns /\ Registered = 1 .. Last /\ MaxTurns \in Nat
      BY Numbered, ConversationsAssumption
    <3>3. t \in Registered
      BY <3>1, <3>2
    <3> QED
      BY <3>1, <3>3 DEF Registered
  <2>2. Kept(p)
    BY <1>0, <1>2, <2>1, Fences DEF PrepareReviewedRecovery, Own
  <2>3. status'[t] # "none"
    BY <1>0, <1>2, <2>2, HasTurn DEF Kept, Leaves
  <2>4. s = [revision |-> conversation'.revision, generation |-> turn'[t].generation,
             status |-> status'[t], lease |-> lease'[t]]
    BY DEF Snapshot
  <2> HIDE DEF s
  <2>5. s \in Snapshots
    BY <2>1, <2>2, <2>4 DEF Kept, StoreTypes, Turn, Snapshots
  <2>6. m \in Job /\ m.turn = t /\ m.generation = 0
    BY <2>1, <2>5, Idles DEF Job
  <2>7. Enter(p, "recovering", m)
    BY <1>2 DEF s
  <2> HIDE DEF m
  <2>8. "recovering" \in Labels /\ "recovering" \in Plain \ Controlling
    BY DEF Labels, Plain, Controlling
  <2>9. Moved(p, "recovering", m)
    BY <2>6, <2>7, <2>8, Enters
  <2> QED
    BY <1>0, <2>1, <2>2, <2>3, <2>6, <2>8, <2>9, Retires DEF Own, Still
<1> QED
  BY <1>1, <1>2 DEF Prepare

\* A process of a reviewed recovery keeps its command, but for one field of it.
LEMMA JobFields ==
  ASSUME NEW x \in Job
  PROVE  /\ \A s \in LeaseStatus :
              LET y == [x EXCEPT !.snapshot.lease = s] IN
              y \in Job /\ y.turn = x.turn /\ y.generation = x.generation /\ y.target = x.target
         /\ \A s \in LeaseStatus :
              LET y == [x EXCEPT !.target = s] IN
              y \in Job /\ y.turn = x.turn /\ y.generation = x.generation /\ y.target = s
<1>1. x.snapshot \in Snapshots
  BY DEF Job
<1>2. \A s \in LeaseStatus : [x.snapshot EXCEPT !.lease = s] \in Snapshots
  BY <1>1 DEF Snapshots
<1>3. ASSUME NEW s \in LeaseStatus
      PROVE  LET y == [x EXCEPT !.snapshot.lease = s] IN
             y \in Job /\ y.turn = x.turn /\ y.generation = x.generation /\ y.target = x.target
  <2> DEFINE n == [x.snapshot EXCEPT !.lease = s]
  <2>1. n \in Snapshots
    BY <1>2
  <2>2. [x EXCEPT !.snapshot.lease = s] = [x EXCEPT !.snapshot = n]
    OBVIOUS
  <2> HIDE DEF n
  <2> QED
    BY <2>1, <2>2 DEF Job
<1>4. ASSUME NEW s \in LeaseStatus
      PROVE  LET y == [x EXCEPT !.target = s] IN
             y \in Job /\ y.turn = x.turn /\ y.generation = x.generation /\ y.target = s
  BY DEF Job
<1> QED
  BY <1>3, <1>4

LEMMA ClaimLeaseStep == ASSUME Inv, NEW p \in Procs, ClaimLease(p) PROVE Inv'
<1>0. pc[p] = "recovering" /\ UNCHANGED Own /\ T(p) \in Turns /\ status[T(p)] # "none"
      /\ T(p) = job[p].turn /\ job[p] \in Job /\ "recovered" \in Plain \ Controlling
  BY HasTurn DEF ClaimLease, T, Inv, ProcTypes, Plain, Controlling
<1>1. CASE Goto(p, "recovered") /\ UNCHANGED storeVars
  BY <1>0, <1>1, Quietly, Plainly
<1>2. CASE /\ SetLease(T(p), "releasing") /\ UNCHANGED up
           /\ Enter(p, "cleaning", [job[p] EXCEPT !.snapshot.lease = "releasing"])
  <2> DEFINE m == [job[p] EXCEPT !.snapshot.lease = "releasing"]
  <2>1. Kept(p) /\ turn' = turn /\ status' = status /\ lease'[T(p)] = "releasing"
    BY <1>0, <1>2, LeasesOne DEF LeaseStatus, Clean, Own, Inv, StoreTypes
  <2>2. "releasing" \in LeaseStatus
    BY DEF LeaseStatus
  <2>3. m \in Job /\ m.turn = T(p) /\ m.generation = job[p].generation
    BY <1>0, <2>2, JobFields
  <2> HIDE DEF m
  <2>4. "cleaning" \in Labels /\ ~Bound("cleaning", m) /\ ~Ahead("cleaning", m)
        /\ "cleaning" \notin Controlling
    BY DEF Labels, Bound, Ahead, Working, Controlling
  <2>5. Moved(p, "cleaning", m)
    BY <1>2, <2>3, <2>4, Enters DEF m
  <2>6. late \subseteq Turns /\ crashes \in 0 .. shape.crashes
    BY DEF Inv, ProcTypes
  <2> QED
    BY <1>0, <2>1, <2>3, <2>4, <2>5, <2>6, Ticketed, Arrives DEF Own
<1>3. CASE Refuse(p)
  BY <1>0, <1>3, Refuses
<1> QED
  BY <1>1, <1>2, <1>3 DEF ClaimLease

LEMMA DestroyStep == ASSUME Inv, NEW p \in Procs, Destroy(p) PROVE Inv'
<1>0. pc[p] = "cleaning" /\ UNCHANGED Own /\ T(p) \in Turns /\ status[T(p)] # "none"
      /\ T(p) = job[p].turn /\ job[p] \in Job /\ lease[T(p)] # "none"
      /\ UNCHANGED <<conversation, turn, status, plan, lease>>
  BY HasTurn DEF Destroy, T, Inv, ProcTypes, Roles, Fits
<1>1. PICK gone \in BOOLEAN :
        /\ up' = [up EXCEPT ![T(p)] = @ /\ ~gone]
        /\ Enter(p, "finish", [job[p] EXCEPT !.target = IF gone THEN "recovered" ELSE "failed"])
  BY DEF Destroy
<1> DEFINE s == IF gone THEN "recovered" ELSE "failed"
           m == [job[p] EXCEPT !.target = s]
<1>2. s \in LeaseStatus /\ s \in {"recovered", "failed"} /\ (s = "recovered" <=> gone)
  BY DEF LeaseStatus, Clean
<1>3. Enter(p, "finish", m)
  BY <1>1
<1> HIDE DEF s
<1>4. m \in Job /\ m.turn = T(p) /\ m.generation = job[p].generation /\ m.target = s
  BY <1>0, <1>2, JobFields
<1> HIDE DEF m
<1>5. /\ lease' \in [Turns -> LeaseStatus] /\ up' \in [Turns -> BOOLEAN]
      /\ \A t \in Turns : /\ lease[t] # "none" => lease'[t] # "none"
                          /\ up'[t] => up[t] /\ lease'[t] \notin Clean
      /\ gone => ~up'[T(p)]
  BY <1>0, <1>1 DEF Inv, StoreTypes, Store, Leased, Outstanding
<1>6. Kept(p)
  BY <1>0, <1>5, Leases DEF Own
<1>7. "finish" \in Labels /\ ~Bound("finish", m) /\ ~Ahead("finish", m)
      /\ "finish" \notin Controlling
  BY DEF Labels, Bound, Ahead, Working, Controlling
<1>8. Moved(p, "finish", m)
  BY <1>3, <1>4, <1>7, Enters
<1>9. late \subseteq Turns /\ crashes \in 0 .. shape.crashes
  BY DEF Inv, ProcTypes
<1> QED
  BY <1>0, <1>2, <1>4, <1>5, <1>6, <1>7, <1>8, <1>9, Ticketed, Arrives DEF Own

LEMMA FinishLeaseStep == ASSUME Inv, NEW p \in Procs, FinishLease(p) PROVE Inv'
<1>0. pc[p] = "finish" /\ UNCHANGED Own /\ T(p) \in Turns /\ status[T(p)] # "none"
      /\ T(p) = job[p].turn /\ job[p] \in Job /\ "recovered" \in Plain \ Controlling
      /\ job[p].target \in {"recovered", "failed"} /\ (job[p].target = "recovered" => ~up[T(p)])
  BY HasTurn DEF FinishLease, T, Inv, ProcTypes, Roles, Fits, Plain, Controlling
<1>1. CASE Refuse(p)
  BY <1>0, <1>1, Refuses
<1>2. CASE SetLease(T(p), job[p].target) /\ UNCHANGED up
  <2>1. Kept(p) /\ status' = status
    BY <1>0, <1>2, LeasesOne DEF LeaseStatus, Clean, Own, Inv, StoreTypes
  <2>2. CASE Over(p)
    BY <1>0, <2>1, <2>2, Ends DEF Own, Still
  <2>3. CASE Enter(p, "recovered", [job[p] EXCEPT !.snapshot.lease = "recovered"])
    <3> DEFINE m == [job[p] EXCEPT !.snapshot.lease = "recovered"]
    <3>1. "recovered" \in LeaseStatus /\ "recovered" \in Labels
      BY DEF LeaseStatus, Clean, Labels
    <3>2. m \in Job /\ m.turn = T(p) /\ m.generation = job[p].generation
      BY <1>0, <3>1, JobFields
    <3> HIDE DEF m
    <3>3. Moved(p, "recovered", m)
      BY <2>3, <3>1, <3>2, Enters DEF m
    <3> QED
      BY <1>0, <2>1, <3>2, <3>3, Retires DEF Own, Still
  <2> QED
    BY <1>2, <2>2, <2>3 DEF FinishLease, Refuse
<1> QED
  BY <1>1, <1>2 DEF FinishLease

LEMMA ReconcileReviewedStep == ASSUME Inv, NEW p \in Procs, ReconcileReviewed(p) PROVE Inv'
<1>0. pc[p] = "recovered" /\ UNCHANGED Own /\ Over(p) /\ T(p) \in Turns
  BY HasTurn DEF ReconcileReviewed
<1>1. CASE CanReconcileReviewed(T(p), job[p].snapshot) /\ SettledUpdate(T(p))
  <2>1. Settleable(T(p)) /\ turn[T(p)].status \in Active /\ turn[T(p)].status # "running"
    BY <1>1 DEF CanReconcileReviewed, PlanStands, Settleable, Active
  <2>2. Kept(p)
    BY <1>0, <1>1, <2>1, Settles DEF Own
  <2> QED
    BY <1>0, <2>2, Ends DEF Own, Still
<1>2. CASE UNCHANGED storeVars
  BY <1>0, <1>2, Quietly, Ends DEF Own, Still
<1> QED
  BY <1>1, <1>2 DEF ReconcileReviewed

LEMMA ApproveOrdinaryStep == ASSUME Inv, NEW p \in Procs, ApproveOrdinary(p) PROVE Inv'
<1>1. CanApprove(1) /\ Command(p, 1, "approve", Idle) /\ UNCHANGED <<storeVars, Own>>
  BY DEF ApproveOrdinary
<1>2. 1 \in Turns
  BY ConversationsAssumption DEF Turns
<1>3. Kept(p) /\ status'[1] # "none"
  BY <1>1, Quietly DEF CanApprove, storeVars
<1>4. "approve" \in Plain \ Controlling
  BY DEF Plain, Controlling
<1> QED
  BY <1>1, <1>2, <1>3, <1>4, Idles, Commands

LEMMA ApproveStep == ASSUME Inv, NEW p \in Procs, Approve(p) PROVE Inv'
<1>0. pc[p] = "approve" /\ UNCHANGED Own /\ Over(p) /\ T(p) \in Turns
  BY HasTurn DEF Approve
<1>1. CASE CanApprove(T(p)) /\ ApprovePlan(T(p))
  <2>1. /\ status' = [status EXCEPT ![T(p)] = "paused_plan"] /\ plan' \in [Turns -> PlanStatus]
        /\ UNCHANGED <<conversation, turn, lease, up, late, shape>>
        /\ status[T(p)] = "paused_plan" /\ "paused_plan" \in RunStatus
    BY <1>0, <1>1 DEF CanApprove, ApprovePlan, PublishPlan, Inv, StoreTypes, PlanStatus, Own,
                      RunStatus, Paused
  <2>2. Kept(p)
    BY <1>0, <2>1, Saves DEF Ended, Steady
  <2> QED
    BY <1>0, <2>2, Ends DEF Own, Still
<1>2. CASE UNCHANGED storeVars
  BY <1>0, <1>2, Quietly, Ends DEF Own, Still
<1> QED
  BY <1>1, <1>2 DEF Approve

LEMMA ApplyStep == ASSUME Inv, NEW p \in Procs, Apply(p) PROVE Inv'
<1>1. PICK t \in Commanded : /\ chat /\ status[t] = "ready"
                             /\ Command(p, t, "apply", Idle) /\ SaveRun(t, "applying")
  BY DEF Apply
<1>2. t \in Turns /\ UNCHANGED Own /\ "applying" \in RunStatus
  BY Commandable DEF Apply, RunStatus
<1>3. /\ status' = [status EXCEPT ![t] = "applying"] /\ plan' \in [Turns -> PlanStatus]
      /\ UNCHANGED <<conversation, turn, lease, up, late, shape>>
  BY <1>1, <1>2 DEF SaveRun, Inv, StoreTypes, Own
<1>4. Kept(p)
  BY <1>1, <1>2, <1>3, Saves DEF Ended
<1>5. status'[t] # "none" /\ "apply" \in Plain \ Controlling
  BY <1>2, <1>3 DEF Inv, StoreTypes, Plain, Controlling
<1> QED
  BY <1>1, <1>2, <1>4, <1>5, Idles, Commands

LEMMA FinishApplyStep == ASSUME Inv, NEW p \in Procs, FinishApply(p) PROVE Inv'
<1>0. pc[p] = "apply" /\ UNCHANGED Own /\ Over(p)
  BY DEF FinishApply
<1>1. ASSUME NEW end \in {"completed", "failed"}, SaveRun(T(p), end) PROVE Inv'
  <2>1. Kept(p)
    BY <1>0, <1>1, SavesRun DEF RunStatus, Ended, Own
  <2> QED
    BY <1>0, <2>1, Ends DEF Own, Still
<1>2. CASE UNCHANGED storeVars
  BY <1>0, <1>2, Quietly, Ends DEF Own, Still
<1> QED
  BY <1>1, <1>2 DEF FinishApply

LEMMA DieStep == ASSUME Inv, NEW p \in Procs, Die(p) PROVE Inv'
<1>1. /\ Over(p) /\ crashes < shape.crashes /\ ticket' = [ticket EXCEPT ![p] = NoTicket]
      /\ crashes' = crashes + 1 /\ UNCHANGED <<storeVars, late, shape>>
  BY DEF Die
<1>2. /\ ticket \in [Procs -> Ticket] /\ late \subseteq Turns /\ crashes \in 0 .. shape.crashes
      /\ shape.crashes \in Nat
  BY SessionsAssumption DEF Inv, ProcTypes
<1>3. crashes' \in 0 .. shape.crashes
  BY <1>1, <1>2
<1>4. Kept(p)
  BY <1>1, Nothing
<1>5. "idle" \in Labels /\ Idle \in Job /\ Idle.generation = 0
  BY Idles DEF Labels
<1>6. Moved(p, "idle", Idle)
  BY <1>1, <1>5, Enters DEF Over
<1>7. /\ ticket' \in [Procs -> Ticket] /\ \A q \in Procs \ {p} : ticket'[q] = ticket[q]
      /\ ticket'[p].kind = "none"
  BY <1>1, <1>2, Idles
<1>8. ~Bound("idle", Idle) /\ ~Ahead("idle", Idle) /\ "idle" \notin Controlling
  BY DEF Bound, Ahead, Working, Controlling
<1> QED
  BY <1>1, <1>2, <1>3, <1>4, <1>5, <1>6, <1>7, <1>8, Arrives

-----------------------------------------------------------------------------
LEMMA InvInit == Init => Inv
<1> SUFFICES ASSUME Init PROVE Inv
  OBVIOUS
<1>1. /\ conversation = [revision |-> 0, active |-> 0] /\ turn = [t \in Turns |-> NoTurn]
      /\ status = [t \in Turns |-> "none"] /\ plan = [t \in Turns |-> "none"]
      /\ lease = [t \in Turns |-> "none"] /\ up = [t \in Turns |-> FALSE]
      /\ shape \in Shapes /\ pc = [p \in Procs |-> "idle"] /\ job = [p \in Procs |-> Idle]
      /\ ticket = [p \in Procs |-> NoTicket] /\ late = {} /\ crashes = 0
  BY DEF Init, StoreInit
<1>2. NoTurn \in Turn /\ NoTurn.status = "none" /\ NoTurn.generation = 0
  BY DEF NoTurn, Turn, TurnStatus
<1>3. StoreTypes
  BY <1>1, <1>2 DEF StoreTypes, RunStatus, PlanStatus, LeaseStatus, Clean
<1>4. shape.crashes \in Nat /\ "idle" \in Labels
  BY <1>1, SessionsAssumption DEF Labels
<1>5. ProcTypes
  BY <1>1, <1>4, Idles DEF ProcTypes
<1>6. Registered = {} /\ \A t \in Turns : turn[t].status \notin Active \cup Settled
  BY <1>1, <1>2 DEF Registered, Active, Settled
<1>7. Store
  <2>1. InOrder
    BY <1>6, ConversationsAssumption DEF InOrder
  <2> QED
    BY <2>1, <1>1, <1>2, <1>6 DEF Store, LastActive, Named, Counted, Leased
<1>8. SettledIsOver
  BY <1>6 DEF SettledIsOver
<1>9. \A p \in Procs : pc[p] = "idle" /\ job[p].generation = 0 /\ ticket[p].kind = "none"
                       /\ ~Heading(p) /\ ~Executing(p)
  BY <1>1, Idles DEF Heading, Executing, Working
<1>10. Roles
  BY <1>9 DEF Roles, Fits, Controlling
<1>11. Apart
  BY <1>9 DEF Apart
<1> QED
  BY <1>3, <1>5, <1>7, <1>8, <1>10, <1>11 DEF Inv

LEMMA InvStep == Inv /\ [Next]_vars => Inv'
<1> SUFFICES ASSUME Inv, [Next]_vars PROVE Inv'
  OBVIOUS
<1>1. CASE UNCHANGED vars
  <2>1. UNCHANGED <<storeVars, shape, pc, job, ticket, late, crashes>>
    BY <1>1 DEF vars
  <2>2. StoreTypes'
    BY <2>1 DEF storeVars, Inv, StoreTypes
  <2>3. Registered' = Registered /\ Last' = Last
    BY <2>1 DEF storeVars, Registered, Last
  <2>4. Store' /\ SettledIsOver'
    BY <2>1, <2>3 DEF storeVars, Inv, Store, InOrder, LastActive, Named, Counted, Leased,
                      Outstanding, chat, SettledIsOver
  <2>5. ProcTypes'
    BY <2>1 DEF Inv, ProcTypes
  <2>6. \A p \in Procs : /\ T(p)' = T(p) /\ (Executing(p)' <=> Executing(p))
                         /\ (Heading(p)' <=> Heading(p)) /\ (HasClaim(p)' <=> HasClaim(p))
    BY <2>1 DEF storeVars, T, Executing, Heading, HasClaim, Owns, chat
  <2>7. Roles'
    BY <2>1, <2>6 DEF storeVars, Inv, Roles, Fits, chat
  <2>8. Apart'
    BY <2>1, <2>6 DEF storeVars, Inv, Apart, chat
  <2> QED
    BY <2>2, <2>4, <2>5, <2>7, <2>8 DEF Inv
<1>2. ASSUME NEW p \in shape.procs, Execution(p) \/ Control(p) \/ Die(p) PROVE Inv'
  <2>1. p \in Procs
    BY SessionsAssumption DEF Inv, ProcTypes
  <2>2. CASE Execution(p)
    BY <2>1, <2>2, SubmitStep, RegisterStep, StartOrdinaryStep, BeginStep, CallStep, ScopedStep,
       DispatchStep, TakeStep, PauseForApprovalStep, ReleaseStep, PresentStep, AgentFailsStep,
       HandleFailureStep, SettleExecutionStep, InterruptStep, MarkStep, SweepStep, ReconcileStep,
       ResumeStep, ClaimStep, InspectStep, MisconfiguredStep, RejectStep, ConsumeStep,
       UnpauseStep, RehydrationFailsStep, HandleRefusalStep DEF Execution
  <2>3. CASE Control(p)
    BY <2>1, <2>3, CancelStep, CancelFenceStep, CancelSaveStep, RecoverStep, RecoverTurnStep,
       RecoverFenceStep, RecoverSaveStep, ReviewRecoveryStep, ExpireStep, ConfirmRecoveryStep,
       PrepareStep, ClaimLeaseStep, DestroyStep, FinishLeaseStep, ReconcileReviewedStep,
       ReviewPlanStep, ConfirmPlanStep, ApproveOrdinaryStep, ApproveStep, ApplyStep,
       FinishApplyStep DEF Control
  <2>4. CASE Die(p)
    BY <2>1, <2>4, DieStep
  <2> QED
    BY <1>2, <2>2, <2>3, <2>4
<1> QED
  BY <1>1, <1>2 DEF Next

\* The conjunction of the parts above is an inductive invariant of the processes and
\* the store.
THEOREM Invariant == Spec => []Inv
BY InvInit, InvStep, PTL DEF Spec

\* Every variable has its type, and the conversation names its one active turn: _advance
\* writes both in the transaction that writes the turn.
THEOREM TypeCorrect == Spec => []TypeOK
<1>1. Inv => TypeOK
  BY DEF Inv, StoreTypes, ProcTypes, Turn, Job, Ticket, Store, Named, TypeOK
<1> QED
  BY <1>1, Invariant, PTL

\* One process executes a run, with its claim, until the run has ended: claim_resume,
\* consume and _fence_in_transaction hand it on in one transaction each.
THEOREM OneOwnerExecutes == Spec => []OneOwner
<1>1. ASSUME Inv PROVE OneOwner
  <2> SUFFICES ASSUME NEW t \in Turns, status[t] \notin Ended
               PROVE  LET workers == {p \in Procs : pc[p] \in Working /\ T(p) = t} IN
                      Cardinality(workers) <= 1 /\ \A p \in workers : HasClaim(p)
    BY DEF OneOwner
  <2> DEFINE workers == {p \in Procs : pc[p] \in Working /\ T(p) = t}
  <2>1. \A p \in workers : HasClaim(p) /\ Executing(p)
    BY <1>1 DEF Inv, Roles, Fits, Heading, Executing
  <2>2. ASSUME NEW p \in workers, NEW q \in workers PROVE p = q
    <3>0. p \in Procs /\ q \in Procs /\ T(p) = T(q) /\ T(p) = t
      BY <2>2
    <3>1. CASE chat
      <4>1. turn[t].status = "running" /\ turn[t].generation = job[p].generation
            /\ turn[t].generation = job[q].generation
        BY <2>1, <2>2, <3>0, <3>1 DEF HasClaim, Owns
      <4>2. turn[t].generation # 0
        BY <1>1, <4>1 DEF Inv, Store, Counted
      <4> QED
        BY <1>1, <3>0, <4>1, <4>2 DEF Inv, Apart
    <3>2. CASE ~chat
      BY <1>1, <2>1, <2>2, <3>0, <3>2 DEF Inv, Apart
    <3> QED
      BY <3>1, <3>2
  <2>3. Cardinality(workers) <= 1
    <3>1. CASE workers = {}
      BY <3>1, FS_EmptySet
    <3>2. CASE workers # {}
      <4>1. PICK p \in workers : TRUE
        BY <3>2
      <4>2. workers = {p}
        BY <2>2, <4>1
      <4>3. Cardinality({p}) = 1
        BY FS_Singleton
      <4> QED
        BY <4>2, <4>3
    <3> QED
      BY <3>1, <3>2
  <2> QED
    BY <2>1, <2>3
<1> QED
  BY <1>1, Invariant, PTL

-----------------------------------------------------------------------------
\* A step of a process is a step of no other.
Elsewhere(q) == \A p \in Procs \ {q} : pc'[p] = pc[p]

LEMMA Alone ==
  ASSUME Inv, NEW q \in Procs, Execution(q) \/ Control(q) \/ Die(q)
  PROVE  Elsewhere(q) /\ (pc[q] = "confirmed" /\ pc'[q] = "recovering" => Prepare(q))
<1> USE DEF Elsewhere
<1>0. pc \in [Procs -> Labels]
  BY DEF Inv, ProcTypes
<1>1. \A l : Goto(q, l) => Elsewhere(q)
  BY <1>0 DEF Goto
<1>2. \A l, m : Enter(q, l, m) => Elsewhere(q)
  BY <1>0 DEF Enter
<1>3. (Over(q) => Elsewhere(q)) /\ (Refuse(q) => Elsewhere(q))
  BY <1>2 DEF Over, Refuse
<1>4. /\ \A t, l, m : Command(q, t, l, m) => Elsewhere(q) /\ pc[q] = "idle"
      /\ \A t, target, next : CleanThen(q, t, target, next) => Elsewhere(q)
  BY <1>2 DEF Command, CleanThen
<1>5. UNCHANGED pc => Elsewhere(q)
  OBVIOUS
<1> DEFINE Harmless == Elsewhere(q) /\ pc[q] # "confirmed"
<1>6. ASSUME Execution(q) PROVE Harmless
  <2> HIDE DEF Elsewhere
  <2>1. CASE Submit(q) \/ StartOrdinary(q) \/ Resume(q)
    BY <2>1, <1>4 DEF Submit, StartOrdinary, Resume
  <2>2. CASE Begin(q) \/ PauseForApproval(q) \/ Present(q)
    BY <2>2, <1>1 DEF Begin, PauseForApproval, Present, Save, Engineering
  <2>3. CASE Register(q) \/ Claim(q) \/ Interrupt(q)
    BY <2>3, <1>2, <1>3 DEF Register, Claim, Interrupt
  <2>4. CASE Call(q) \/ Dispatch(q) \/ Take(q) \/ AgentFails(q) \/ Unpause(q) \/ RehydrationFails(q)
             \/ HandleRefusal(q)
    BY <2>4, <1>1, <1>3 DEF Call, Dispatch, Take, AgentFails, Unpause, RehydrationFails,
                             HandleRefusal
  <2>5. CASE Scoped(q) \/ Consume(q) \/ Misconfigured(q) \/ Inspect(q)
    BY <2>5, <1>1 DEF Scoped, Scoping, Consume, Misconfigured, Inspect
  <2>6. CASE Release(q) \/ HandleFailure(q) \/ Reject(q)
    BY <2>6, <1>3, <1>4 DEF Release, Engineering, HandleFailure, Reject
  <2>7. CASE SettleExecution(q) \/ Reconcile(q)
    BY <2>7, <1>3 DEF SettleExecution, Reconcile
  <2>8. CASE Mark(q) \/ Sweep(q)
    BY <2>8, <1>1, <1>3 DEF Mark, Sweep, CleanupFails
  <2> QED
    BY <1>6, <2>1, <2>2, <2>3, <2>4, <2>5, <2>6, <2>7, <2>8 DEF Execution
<1>7. ASSUME Control(q), ~Prepare(q) PROVE Harmless
  <2> HIDE DEF Elsewhere
  <2>1. CASE Cancel(q) \/ Recover(q) \/ ApproveOrdinary(q) \/ Apply(q)
    BY <2>1, <1>4 DEF Cancel, Recover, ApproveOrdinary, Apply
  <2>2. CASE CancelFence(q) \/ RecoverFence(q) \/ Destroy(q)
    BY <2>2, <1>2, <1>3 DEF CancelFence, RecoverFence, Destroy
  <2>3. CASE CancelSave(q) \/ RecoverSave(q)
    BY <2>3, <1>1, <1>3, <1>4 DEF CancelSave, RecoverSave
  <2>4. CASE RecoverTurn(q) \/ ClaimLease(q) \/ FinishLease(q)
    BY <2>4, <1>1, <1>2, <1>3 DEF RecoverTurn, ClaimLease, FinishLease
  <2>5. CASE ReviewRecovery(q) \/ ReviewPlan(q) \/ Expire(q)
    BY <2>5, <1>5 DEF ReviewRecovery, ReviewPlan, Issue, Expire, Redeem
  <2>6. CASE ConfirmRecovery(q) \/ ConfirmPlan(q)
    BY <2>6, <1>2, <1>5 DEF ConfirmRecovery, ConfirmPlan, Redeem
  <2>7. CASE ReconcileReviewed(q) \/ Approve(q) \/ FinishApply(q)
    BY <2>7, <1>3 DEF ReconcileReviewed, Approve, FinishApply
  <2> QED
    BY <1>7, <2>1, <2>2, <2>3, <2>4, <2>5, <2>6, <2>7 DEF Control
<1>8. ASSUME Prepare(q) PROVE Elsewhere(q)
  BY <1>8, <1>2, <1>3 DEF Prepare
<1>9. ASSUME Die(q) PROVE Elsewhere(q) /\ pc'[q] # "recovering"
  BY <1>9, <1>0 DEF Die, Over, Enter
<1> QED
  BY <1>6, <1>7, <1>8, <1>9

\* A reviewed recovery ends what the operator was shown: prepare_reviewed_recovery
\* compares the owner, the run and the lease in the transaction that fences the turn.
THEOREM RecoveryIsReviewed == Spec => ReviewedOwnerOnly
<1> DEFINE P == \A p \in Procs : Fenced(p) =>
                  LET shown == job[p].snapshot IN
                  /\ turn[T(p)].generation = shown.generation
                  /\ status[T(p)] = shown.status
                  /\ lease[T(p)] = shown.lease
<1>1. Inv /\ [Next]_vars => [P]_vars
  <2> SUFFICES ASSUME Inv, Next, NEW p \in Procs, Fenced(p)
               PROVE  LET shown == job[p].snapshot IN
                      /\ turn[T(p)].generation = shown.generation
                      /\ status[T(p)] = shown.status
                      /\ lease[T(p)] = shown.lease
    OBVIOUS
  <2>1. PICK q \in shape.procs : Execution(q) \/ Control(q) \/ Die(q)
    BY DEF Next
  <2>2. q \in Procs
    BY SessionsAssumption DEF Inv, ProcTypes
  <2>3. q = p
    BY <2>1, <2>2, Alone DEF Elsewhere, Fenced
  <2>4. Prepare(p) /\ pc[p] = "confirmed"
    BY <2>1, <2>2, <2>3, Alone DEF Fenced
  <2>5. pc'[p] # "idle"
    BY DEF Fenced
  <2>6. ~Refuse(p)
    BY <2>5 DEF Refuse, Over, Enter, Inv, ProcTypes
  <2>7. Snapshot(T(p)) = job[p].snapshot
    BY <2>4, <2>6 DEF Prepare, CanPrepare
  <2> QED
    BY <2>7 DEF Snapshot
<1> QED
  BY <1>1, Invariant, PTL DEF Spec, ReviewedOwnerOnly

\* A turn that is settled is over: _settled_update and reconcile_fenced settle one only
\* when its run is over and nothing is left; what a fenced owner takes later has a lease,
\* and its run has ended.
THEOREM SettledTurnsAreOver == Spec => []SettledIsOver
<1>1. Inv => SettledIsOver
  BY DEF Inv
<1> QED
  BY <1>1, Invariant, PTL

=============================================================================
