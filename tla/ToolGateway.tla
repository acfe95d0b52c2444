---------------------------- MODULE ToolGateway ----------------------------
(***************************************************************************)
(* ToolGateway.execute (application/gateway.py), driven by the processes   *)
(* that resume and continue a run (application/workflow.py), over the      *)
(* state store and the permission policy.                                  *)
(*                                                                         *)
(* A run has no owner while it is driven: fleet start and any number of    *)
(* fleet resume processes may work on it at once, and each may be killed   *)
(* at any point.  A process is a program counter and the values it read.   *)
(* execute awaits the executor only after its claim, but every store call  *)
(* in it is its own transaction, so between any two of them the other      *)
(* processes, the user and the clock may move.                             *)
(*                                                                         *)
(* effects counts what the executor did in the world: it is not the        *)
(* program's state, and nothing in the program reads it.                   *)
(***************************************************************************)
EXTENDS PermissionPolicy

CONSTANTS
  Drivers,   \* processes running fleet start or fleet resume on the run
  MaxTime    \* BOUND on the clock

VARIABLES
  pc,        \* where each driver is
  call,      \* the tool call it is executing: what it has read so far
  row,       \* the copy of the Run row it will save
  agent,     \* the agent instance it runs and the stage that one is for
  minted,    \* how many agent identities were generated
  effects    \* how often the executor ran the call of each key

driverVars == <<pc, call, row, agent, minted, effects>>
runnerVars == <<row, agent, minted>>
vars == <<storeVars, policyVars, driverVars>>

\* found: the status find_intent returned.  own: the intent presented is the
\* one stored under the key, not a fresh one that lost the race to it.
IdleCall == [key |-> NoKey, found |-> "none", own |-> FALSE,
             policy |-> InitialPolicy, decision |-> Decision("none", NoKey)]
NoRow == [status |-> "created", stage |-> "intake", pending |-> NoKey,
          checkpoint |-> [s \in AgentStages |-> NoAgent]]

NoWorker == [id |-> NoAgent, stage |-> "implementing"]

GatewayPC == {"find", "load", "decide", "deny_reserve", "deny_mark", "check",
              "consume", "pause", "consume_matching", "reserve_rule",
              "reserve", "claim", "lost", "execute", "complete"}
DriverPC == {"idle", "adopting", "resuming", "rejecting", "driving", "checkpoint",
             "saving_checkpoint", "starting", "tools", "reporting",
             "saving_report", "leaving", "advancing", "paused", "denied",
             "failed", "interrupted", "reject_run", "fail_run", "failing"}

DriverTypeOK ==
  /\ pc \in [Drivers -> DriverPC \cup GatewayPC]
  /\ call \in [Drivers ->
       [key : Keys \cup {NoKey}, found : IntentStatus, own : BOOLEAN,
        policy : Policy,
        decision : [kind : DecisionKinds, by : Keys \cup {NoKey}]]]
  /\ row \in [Drivers -> RunRow]
  /\ agent \in [Drivers -> [id : AgentIds \cup {NoAgent}, stage : AgentStages]]
  /\ minted \in 0..MaxAgents
  /\ effects \in [Keys -> Nat]
  /\ \A d \in Drivers : pc[d] \in GatewayPC => call[d].key \in Keys

TypeOK == StoreTypeOK /\ PolicyTypeOK /\ DriverTypeOK

Init ==
  /\ StoreInit /\ PolicyInit
  /\ pc = [d \in Drivers |-> "idle"]
  /\ call = [d \in Drivers |-> IdleCall]
  /\ row = [d \in Drivers |-> NoRow]
  /\ agent = [d \in Drivers |-> NoWorker]
  /\ minted = 0
  /\ effects = [k \in Keys |-> 0]

At(d, label) == pc[d] = label
To(d, label) == pc' = [pc EXCEPT ![d] = label]

\* The call ends: its result, or the exception a label of the driver handles.
EndCall(d, label) == To(d, label) /\ call' = [call EXCEPT ![d] = IdleCall]

\* The call goes on with nothing new read.
Onward(d, label) == To(d, label) /\ UNCHANGED call

-----------------------------------------------------------------------------
(* ToolGateway.execute.                                                    *)

\* The agent asks for a tool call of its own stage.
RequestTool(d, k) ==
  /\ At(d, "tools")
  /\ KeyStage[k] = agent[d].stage
  /\ To(d, "find")
  /\ call' = [call EXCEPT ![d] = [IdleCall EXCEPT !.key = k]]
  /\ UNCHANGED <<storeVars, policyVars, runnerVars, effects>>

\* find_intent, and the two results that end the call at once.
FindIntent(d) ==
  LET k == call[d].key
      found == intents[k].status
  IN  /\ At(d, "find")
      /\ CASE found = "executed" -> EndCall(d, "tools")
           [] found = "denied" -> EndCall(d, "denied")
           [] OTHER -> /\ To(d, "load")
                       /\ call' = [call EXCEPT ![d].found = found,
                                               ![d].own = found # "none"]
      /\ UNCHANGED <<storeVars, policyVars, runnerVars, effects>>

\* The broker builds the call's context and loads the policy file ...
LoadPolicy(d) ==
  /\ At(d, "load")
  /\ IF InContext(call[d].key)
     THEN To(d, "decide") /\ call' = [call EXCEPT ![d].policy = trust]
     ELSE EndCall(d, "failed")
  /\ UNCHANGED <<storeVars, policyVars, runnerVars, effects>>

\* Where the call goes with decision e, given the intent it found.
Route(d, e) ==
  LET found == call[d].found
      action == KeyAction[call[d].key]
  IN  CASE e.kind = "deny" /\ found = "none"  -> "deny_reserve"
        [] e.kind = "deny" /\ found # "none"  -> "deny_mark"
        [] e.kind # "deny" /\ found = "pending_approval" -> "check"
        [] e.kind # "deny" /\ found = "reserved" ->
             IF Allows(e) /\ action # "command" THEN "claim" ELSE "failed"
        [] e.kind = "ask"   /\ found = "none" -> "pause"
        [] e.kind = "grant" /\ found = "none" -> "consume_matching"
        [] e.kind = "rule"  /\ found = "none" -> "reserve_rule"
        [] e.kind = "plain" /\ found = "none" -> "reserve"
        [] OTHER -> "failed"

\* ... and decides against the grants and requests SQLite holds now.  A
\* reserved command has no authoritative outcome and is never replayed.
Decide(d) ==
  /\ At(d, "decide")
  /\ \E e \in Evaluations(call[d].policy, call[d].key, call[d].own) :
       IF Route(d, e) = "failed" THEN EndCall(d, "failed")
       ELSE /\ To(d, Route(d, e))
            /\ call' = [call EXCEPT ![d].decision = e,
                                    ![d].policy = InitialPolicy]
  /\ UNCHANGED <<storeVars, policyVars, runnerVars, effects>>

\* A denied new intent is recorded, then marked: two transactions.
DenyReserve(d) ==
  /\ At(d, "deny_reserve")
  /\ ReserveIntent(call[d].key, agent[d].id)
  /\ To(d, "deny_mark")
  /\ call' = [call EXCEPT ![d].own = Absent(call[d].key)]
  /\ UNCHANGED <<policyVars, runnerVars, effects>>

DenyMark(d) ==
  /\ At(d, "deny_mark")
  /\ IF call[d].own THEN DenyIntent(call[d].key) ELSE UNCHANGED storeVars
  /\ EndCall(d, "failed")
  /\ UNCHANGED <<policyVars, runnerVars, effects>>

\* A pending intent: its request must be approved and still authorized.
CheckRequest(d) ==
  LET request == requests[call[d].key]
  IN  /\ At(d, "check")
      /\ CASE request.status = "pending" -> EndCall(d, "paused")
           [] request.status = "denied" -> EndCall(d, "denied")
           [] OTHER -> IF Allows(call[d].decision) THEN Onward(d, "consume")
                       ELSE EndCall(d, "failed")
      /\ UNCHANGED <<storeVars, policyVars, runnerVars, effects>>

ConsumeGrant(d) ==
  LET k == call[d].key
  IN  /\ At(d, "consume")
      /\ \/ /\ ConsumeGrantAndReserve(k)
            /\ IF intents[k].status = "executed" THEN EndCall(d, "failed")
               ELSE Onward(d, "claim")
         \/ ~CanConsume(k) /\ EndCall(d, "failed") /\ UNCHANGED storeVars
      /\ UNCHANGED <<policyVars, runnerVars, effects>>

\* The four ways a new intent is recorded.  own becomes TRUE when it is
\* this call's intent that the key now holds.
Pause(d) ==
  LET k == call[d].key
  IN  /\ At(d, "pause")
      /\ \/ CreateApprovalAndPause(k, agent[d].id) /\ EndCall(d, "paused")
         \/ Absent(k) /\ ~CanPause /\ EndCall(d, "failed") /\ UNCHANGED storeVars
      /\ UNCHANGED <<policyVars, runnerVars, effects>>

ConsumeMatching(d) ==
  LET k == call[d].key
      g == call[d].decision.by
  IN  /\ At(d, "consume_matching")
      /\ \/ /\ ConsumeMatchingGrantAndReserve(g, k, agent[d].id)
            /\ To(d, "claim")
            /\ call' = [call EXCEPT ![d].own = TRUE]
         \/ /\ ~CanConsumeMatching(g, k)
            /\ EndCall(d, "failed")
            /\ UNCHANGED storeVars
      /\ UNCHANGED <<policyVars, runnerVars, effects>>

ReserveByRule(d) ==
  LET k == call[d].key
  IN  /\ At(d, "reserve_rule")
      /\ \/ /\ ReserveTrustRuleIntent(call[d].decision.by, k, agent[d].id)
            /\ To(d, "claim")
            /\ call' = [call EXCEPT ![d].own = TRUE]
         \/ ~CanReserveByRule(k) /\ EndCall(d, "failed") /\ UNCHANGED storeVars
      /\ UNCHANGED <<policyVars, runnerVars, effects>>

Reserve(d) ==
  LET k == call[d].key
  IN  /\ At(d, "reserve")
      /\ ReserveIntent(k, agent[d].id)
      /\ To(d, "claim")
      /\ call' = [call EXCEPT ![d].own = Absent(k)]
      /\ UNCHANGED <<policyVars, runnerVars, effects>>

\* A variant whose loser waits for the owner's result.
Claim_waits(d) ==
  LET k == call[d].key
  IN  /\ At(d, "claim")
      /\ \/ call[d].own /\ ClaimForDispatch(k) /\ Onward(d, "execute")
         \/ /\ call[d].own /\ AlreadyClaimed(k) /\ intents[k].status = "executed"
            /\ Onward(d, "lost") /\ UNCHANGED storeVars
         \/ /\ call[d].own => ~AlreadyClaimed(k) /\ ~CanClaim(k)
            /\ EndCall(d, "failed") /\ UNCHANGED storeVars
      /\ UNCHANGED <<policyVars, runnerVars, effects>>

\* The claim: won, lost to an earlier claim, or refused.
Claim(d) ==
  LET k == call[d].key
  IN  /\ At(d, "claim")
      /\ \/ call[d].own /\ ClaimForDispatch(k) /\ Onward(d, "execute")
         \/ /\ call[d].own /\ AlreadyClaimed(k)
            /\ Onward(d, "lost") /\ UNCHANGED storeVars
         \/ /\ call[d].own => ~AlreadyClaimed(k) /\ ~CanClaim(k)
            /\ EndCall(d, "failed") /\ UNCHANGED storeVars
      /\ UNCHANGED <<policyVars, runnerVars, effects>>

\* The loser returns the authoritative result, or fails as ambiguous.
LostClaim(d) ==
  /\ At(d, "lost")
  /\ EndCall(d, IF intents[call[d].key].status = "executed" THEN "tools"
                ELSE "failed")
  /\ UNCHANGED <<storeVars, policyVars, runnerVars, effects>>

\* _execute_reserved: the effect happens, and it returns or raises; or it
\* raises before the effect.  It is awaited, so it may also be interrupted.
Execute(d) ==
  /\ At(d, "execute")
  /\ \/ /\ effects' = [effects EXCEPT ![call[d].key] = @ + 1]
        /\ Onward(d, "complete")
     \/ /\ \/ effects' = [effects EXCEPT ![call[d].key] = @ + 1]
           \/ UNCHANGED effects
        /\ \E label \in {"failed", "interrupted"} : EndCall(d, label)
  /\ UNCHANGED <<storeVars, policyVars, runnerVars>>

Complete(d) ==
  /\ At(d, "complete")
  /\ CompleteIntent(call[d].key)
  /\ EndCall(d, "tools")
  /\ UNCHANGED <<policyVars, runnerVars, effects>>

-----------------------------------------------------------------------------
(* The driver around the calls: resume, continue, finish, fail.            *)

\* The command ends, or the process dies: what it had in memory is gone.
Leave(d) ==
  /\ EndCall(d, "idle")
  /\ row' = [row EXCEPT ![d] = NoRow]
  /\ agent' = [agent EXCEPT ![d] = NoWorker]

\* The driver goes on to a step that saves copy, a copy of the run.
Prepare(d, label, copy) == Onward(d, label) /\ row' = [row EXCEPT ![d] = copy]

\* save_run of that copy; a refused transition raises.
SaveCopy(d, saved) ==
  /\ \/ SaveRun(row[d]) /\ Prepare(d, saved, NoRow)
     \/ /\ ~CanSaveRun(row[d])
        /\ Prepare(d, "fail_run", NoRow)
        /\ UNCHANGED storeVars
  /\ UNCHANGED agent

\* The last save of a command, which ends it, refused or not.
SaveLast(d) ==
  /\ \/ SaveRun(row[d])
     \/ ~CanSaveRun(row[d]) /\ UNCHANGED storeVars
  /\ Leave(d)

\* What resume saves of a paused run it may go on with.
Resumed(copy) == [copy EXCEPT !.status = "running", !.pending = NoKey]

PausedAnd(answer) == /\ run.status = "paused_for_approval" /\ run.pending # NoKey
                     /\ requests[run.pending].status = answer
Unchecked == /\ run.stage = "implementing"
             /\ run.checkpoint["implementing"] = NoAgent

\* resume reads the run: a running run is driven on, a resolved pause is
\* acted on with the copy read here, anything else is left alone.  An Engineer
\* paused without a checkpoint is adopted under the approved intent's identity.
Resume(d) ==
  /\ At(d, "idle")
  /\ \/ run.status = "running" /\ Onward(d, "driving") /\ UNCHANGED row
     \/ PausedAnd("approved") /\ ~Unchecked /\ Prepare(d, "resuming", Resumed(run))
     \/ /\ PausedAnd("approved") /\ Unchecked
        /\ KeyStage[run.pending] = "implementing"
        /\ Prepare(d, "adopting",
             [run EXCEPT !.checkpoint["implementing"] = intents[run.pending].agent])
     \/ /\ PausedAnd("denied")
        /\ Prepare(d, "failing", [run EXCEPT !.status = "rejected"])
  /\ UNCHANGED <<storeVars, policyVars, agent, minted, effects>>

SaveAdopted(d) ==
  /\ At(d, "adopting")
  /\ \/ /\ SaveRun(row[d]) /\ Prepare(d, "resuming", Resumed(row[d]))
        /\ UNCHANGED agent
     \/ ~CanSaveRun(row[d]) /\ Leave(d) /\ UNCHANGED storeVars
  /\ UNCHANGED <<policyVars, minted, effects>>

SaveResumed(d) ==
  /\ At(d, "resuming")
  /\ \/ SaveRun(row[d]) /\ Prepare(d, "driving", NoRow) /\ UNCHANGED agent
     \/ ~CanSaveRun(row[d]) /\ Leave(d) /\ UNCHANGED storeVars
  /\ UNCHANGED <<policyVars, minted, effects>>

\* _continue_steps up to its agent.  Only a pause and the stage are looked
\* at.  A stage without a checkpoint gets a new agent identity.
BeginAgent(d) ==
  /\ At(d, "driving")
  /\ IF run.status = "paused_for_approval" \/ run.stage \notin AgentStages
     THEN Leave(d) /\ UNCHANGED minted
     ELSE /\ IF run.checkpoint[run.stage] # NoAgent
             THEN /\ agent' = [agent EXCEPT ![d] =
                       [id |-> run.checkpoint[run.stage], stage |-> run.stage]]
                  /\ UNCHANGED minted
                  /\ Onward(d, "starting")
             ELSE /\ minted < MaxAgents
                  /\ minted' = minted + 1
                  /\ agent' = [agent EXCEPT ![d] =
                       [id |-> minted', stage |-> run.stage]]
                  /\ Onward(d, "checkpoint")
          /\ UNCHANGED row
  /\ UNCHANGED <<storeVars, policyVars, effects>>

\* The new identity is put on the run that is read now, and saved.
Checkpoint(d) ==
  /\ At(d, "checkpoint")
  /\ Prepare(d, "saving_checkpoint",
             [run EXCEPT !.checkpoint[agent[d].stage] = agent[d].id])
  /\ UNCHANGED <<storeVars, policyVars, agent, minted, effects>>

SaveCheckpoint(d) ==
  /\ At(d, "saving_checkpoint")
  /\ SaveCopy(d, "starting")
  /\ UNCHANGED <<policyVars, minted, effects>>

SetAgent(d, status, label) ==
  /\ SaveAgent(agent[d].id, status)
  /\ Onward(d, label)
  /\ UNCHANGED <<policyVars, row, agent, minted, effects>>

StartAgent(d) == At(d, "starting") /\ SetAgent(d, "running", "tools")

AgentCompletes(d) == At(d, "tools") /\ SetAgent(d, "completed", "reporting")

\* The runtime fails of its own, or the user interrupts the process.
AgentFails(d) ==
  /\ At(d, "tools")
  /\ \E label \in {"failed", "interrupted"} : Onward(d, label)
  /\ UNCHANGED <<storeVars, policyVars, row, agent, minted, effects>>

\* The agent's report ends its checkpoint, on the run that is read now; or
\* its work is refused (an empty patch, a failed cleanup of the verifier).
ReadForReport(d) ==
  /\ At(d, "reporting")
  /\ \/ Prepare(d, "saving_report",
                [run EXCEPT !.checkpoint[agent[d].stage] = NoAgent])
     \/ Onward(d, "fail_run") /\ UNCHANGED row
  /\ UNCHANGED <<storeVars, policyVars, agent, minted, effects>>

SaveReport(d) ==
  /\ At(d, "saving_report")
  /\ SaveCopy(d, "leaving")
  /\ UNCHANGED <<policyVars, minted, effects>>

\* The run is read once more and moves on: the Engineer's to the Verifier
\* unless it is paused, the Verifier's to its presentation, or, with a FAIL
\* verdict and no repair left, to its rejection.
LeaveStage(d) ==
  /\ At(d, "leaving")
  /\ \/ /\ agent[d].stage = "implementing"
        /\ run.status = "paused_for_approval"
        /\ Leave(d)
     \/ /\ agent[d].stage = "implementing"
        /\ run.status # "paused_for_approval"
        /\ Prepare(d, "advancing", [run EXCEPT !.status = "running",
                                               !.stage = "verifying"])
        /\ UNCHANGED agent
     \/ /\ agent[d].stage = "verifying"
        /\ \/ Prepare(d, "advancing", [run EXCEPT !.status = "running",
                                                  !.stage = "presenting"])
           \/ Prepare(d, "rejecting", [run EXCEPT !.status = "rejected"])
        /\ UNCHANGED agent
  /\ UNCHANGED <<storeVars, policyVars, minted, effects>>

AdvanceStage(d) ==
  /\ At(d, "advancing")
  /\ SaveCopy(d, "driving")
  /\ UNCHANGED <<policyVars, minted, effects>>

RejectVerdict(d) ==
  /\ At(d, "rejecting")
  /\ \/ SaveRun(row[d]) /\ Leave(d)
     \/ /\ ~CanSaveRun(row[d])
        /\ Prepare(d, "fail_run", NoRow)
        /\ UNCHANGED <<storeVars, agent>>
  /\ UNCHANGED <<policyVars, minted, effects>>

\* _invoke_runtime_agent records how the agent stopped before the exception
\* reaches the run.
AgentStops(d) ==
  \/ At(d, "denied") /\ SetAgent(d, "failed", "reject_run")
  \/ At(d, "failed") /\ SetAgent(d, "failed", "fail_run")
  \/ /\ \/ At(d, "paused") /\ SaveAgent(agent[d].id, "paused")
        \/ At(d, "interrupted") /\ SaveAgent(agent[d].id, "cancelled")
     /\ Leave(d)
     /\ UNCHANGED <<policyVars, minted, effects>>

\* An ApprovalDeniedError rejects the run; any other error fails it, unless
\* the run is paused.  The run is read, then saved.
RejectRun(d) ==
  /\ At(d, "reject_run")
  /\ Prepare(d, "failing", [run EXCEPT !.status = "rejected"])
  /\ UNCHANGED <<storeVars, policyVars, agent, minted, effects>>

FailRun(d) ==
  /\ At(d, "fail_run")
  /\ IF run.status = "paused_for_approval" THEN Leave(d)
     ELSE /\ Prepare(d, "failing", [run EXCEPT !.status = "failed"])
          /\ UNCHANGED agent
  /\ UNCHANGED <<storeVars, policyVars, minted, effects>>

SaveFailed(d) ==
  /\ At(d, "failing")
  /\ SaveLast(d)
  /\ UNCHANGED <<policyVars, minted, effects>>

\* The process is killed.
Crash(d) ==
  /\ ~At(d, "idle")
  /\ Leave(d)
  /\ UNCHANGED <<storeVars, policyVars, minted, effects>>

-----------------------------------------------------------------------------
(* Other processes.                                                        *)

\* fleet cancel.
Cancel ==
  /\ "cancel" \in Commands
  /\ run.status \notin Terminal
  /\ SaveRun([run EXCEPT !.status = "cancelled"])
  /\ UNCHANGED <<policyVars, driverVars>>

\* fleet recover: the operator says that the owner has stopped.
Recover ==
  /\ "recover" \in Commands
  /\ run.status = "running"
  /\ SaveRun([run EXCEPT !.status = "failed"])
  /\ UNCHANGED <<policyVars, driverVars>>

Tick ==
  /\ clock < MaxTime
  /\ clock' = clock + 1
  /\ UNCHANGED <<run, agents, intents, requests, grants, claims, policyVars,
                 driverVars>>

ExecuteStep(d) ==
  \/ FindIntent(d) \/ LoadPolicy(d) \/ Decide(d)
  \/ DenyReserve(d) \/ DenyMark(d) \/ CheckRequest(d) \/ ConsumeGrant(d)
  \/ Pause(d) \/ ConsumeMatching(d) \/ ReserveByRule(d) \/ Reserve(d)
  \/ Claim(d) \/ LostClaim(d) \/ Execute(d) \/ Complete(d)

DriverStep(d) ==
  \/ Resume(d) \/ SaveAdopted(d) \/ SaveResumed(d)
  \/ BeginAgent(d) \/ Checkpoint(d) \/ SaveCheckpoint(d) \/ StartAgent(d)
  \/ AgentCompletes(d) \/ AgentFails(d)
  \/ ReadForReport(d) \/ SaveReport(d) \/ LeaveStage(d) \/ AdvanceStage(d)
  \/ RejectVerdict(d)
  \/ AgentStops(d) \/ RejectRun(d) \/ FailRun(d) \/ SaveFailed(d) \/ Crash(d)

Next ==
  \/ \E d \in Drivers :
       \/ \E k \in Keys : RequestTool(d, k)
       \/ ExecuteStep(d)
       \/ DriverStep(d)
  \/ PolicyNext /\ UNCHANGED driverVars
  \/ Cancel
  \/ Recover
  \/ Tick

Spec == Init /\ [][Next]_vars

\* A process that is not killed takes the steps of a call it has begun.
FairSpec == Spec /\ \A d \in Drivers : WF_vars(ExecuteStep(d))

(* Properties.                                                             *)

\* However many processes drive the run, and wherever they are killed, the
\* executor runs a logical call at most once: the permanent claim of
\* claim_reserved_intent_for_dispatch is taken before it and never again.
AtMostOnceDispatch == \A k \in Keys : effects[k] <= 1

\* Why: a driver that may run the executor holds the key's claim, no other
\* driver does, and the effect has not happened yet; an effect that has
\* happened was claimed.
DispatchExclusive ==
  /\ \A d \in Drivers : At(d, "execute") =>
       /\ call[d].key \in claims
       /\ effects[call[d].key] = 0
       /\ \A e \in Drivers \ {d} :
            At(e, "execute") => call[e].key # call[d].key
  /\ \A k \in Keys : effects[k] # 0 => effects[k] = 1 /\ k \in claims

\* A one-use grant is one reservation: the use it has left and the
\* reservations made under its request are together at most one, over
\* concurrent consumers, replays and grants of the same scope.
OneUseIsOneReservation ==
  \A g \in Keys : grants[g].choice = "once" =>
    LET Reserved == {k \in Keys : /\ intents[k].request = g
                                  /\ intents[k].status \in {"reserved", "executed"}}
    IN  grants[g].uses \in {0, 1} /\ grants[g].uses + Cardinality(Reserved) <= 1

\* What has been claimed for dispatch was authorized for exactly that scope:
\* under a request the user approved, with more than one use if it is not
\* the call's own; or under a rule whose staging request was approved as
\* "always", never one that is only staged; and the approval fixture, which
\* always asks, is never dispatched unless the user approved its scope, in its
\* own request or in one with more than one use.
AuthorizedDispatch ==
  \A k \in claims :
    LET g == intents[k].request
        r == intents[k].rule
    IN  /\ g # NoKey => /\ requests[g].status = "approved"
                        /\ KeyScope[g] = KeyScope[k]
                        /\ g # k => requests[g].choice # "once"
        /\ r # NoKey => /\ requests[r].status = "approved"
                        /\ requests[r].choice = "always"
                        /\ KeyScope[r] = KeyScope[k]
        /\ KeyAction[k] = "probe" => \E a \in Keys :
             /\ requests[a].status = "approved"
             /\ KeyScope[a] = KeyScope[k]
             /\ a # k => requests[a].choice # "once"

ReservedIsActive ==
  \A k \in Keys :
    LET g == intents'[k].request
    IN  /\ intents[k].status \notin {"reserved", "executed"}
        /\ intents'[k].status = "reserved"
        /\ g # NoKey
        => ~grants[g].revoked /\ ~Expired(g)

\* A revoked or expired grant reserves nothing more, although the decision
\* to use it was taken in an earlier step, before the user revoked it.
RevokedGrantReservesNothing == [][ReservedIsActive]_vars

EndIsFinal ==
  run.status \in Terminal => claims' = claims /\ run'.status = run.status

\* The end of a run fences it: a driver that is not told of the cancellation
\* claims nothing afterwards and no copy it saves revives the run.
EndedRunDispatchesNothing == [][EndIsFinal]_vars

\* With one driver, a question the user has not answered always stops a run
\* that has not ended: it is paused on exactly that request, so the request
\* can be resolved, and a paused run names a request that exists.
EveryQuestionIsAsked ==
  /\ \A k \in Keys : requests[k].status = "pending" =>
       \/ run.status \in Terminal
       \/ run.status = "paused_for_approval" /\ run.pending = k
  /\ run.status = "paused_for_approval" =>
       run.pending # NoKey /\ requests[run.pending].status # "none"
  /\ run.status = "running" => run.pending = NoKey

\* docs/ARCHITECTURE.md:757: grants issued at or before the cutoff "cannot
\* authorize execution even if cleanup fails".
CutoffStopsReservation ==
  [][\A k \in Keys :
       LET g == intents'[k].request
       IN  /\ intents[k].status = "pending_approval"
           /\ intents'[k].status = "reserved"
           => grants[g].issued > trust.cutoff]_vars

\* docs/ARCHITECTURE.md:759: a caller that comes after the claim "returns a
\* completed authoritative result": the result of an executed call stays.
ExecutedResultStays ==
  [][\A k \in Keys : intents[k].status = "executed" =>
       intents'[k].status = "executed"]_vars

\* The dispatch ledger this system is an implementation of.
Ledger == INSTANCE DispatchLedger WITH
            Calls <- Keys, open <- run.status \notin Terminal,
            claimed <- claims, count <- effects

LedgerSpec == Ledger!Spec

\* Every call that driver d begins ends, although the owner of the claim it
\* meets may have died: execute never waits for another process.
CallsEnd(d) == pc[d] \in GatewayPC ~> pc[d] \notin GatewayPC
=============================================================================
