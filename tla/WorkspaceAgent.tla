--------------------------- MODULE WorkspaceAgent ----------------------------
(* A run of a workspace agent (internal/server/workspace_agent_*.go): jobs    *)
(* that ask a model, read documents for it and plan changes of one document;  *)
(* a change is made by a job of its own after the user has confirmed it. The  *)
(* settings, the rights and the documents may change between any two steps,   *)
(* and a worker may lose its lease, or its process, and still go on.          *)
EXTENDS Naturals, Sequences, FiniteSets

CONSTANTS
  Agents,        \* goroutines of the queue
  NoAgent,
  MaxAgentSteps, \* max_steps of the agent
  MaxAgentJobs, AgentTroubles  \* bounds: jobs of the run; edits, changes, losses

\* An agent may take a step (saveWorkspaceAgent), and a server runs finitely
\* many goroutines.
ASSUME AgentAssumption ==
  /\ IsFiniteSet(Agents) /\ MaxAgentSteps \in Nat \ {0}
  /\ MaxAgentJobs \in Nat /\ AgentTroubles \in Nat

VARIABLES
  ground,      \* the agent's revision, the actor's rights and the document
  agentRun,    \* the row of agent_runs, with the version its source was read at
  agentJobs,   \* automation_jobs of the run and their receipts
  actions,     \* agent_actions
  mind,        \* what each goroutine is doing
  deeds,       \* history: changes of the document by the run
  agreed       \* history: actions the user confirmed

agentVars == <<ground, agentRun, agentJobs, actions, mind, deeds, agreed>>

JobNumbers == 1 .. MaxAgentJobs
Active     == {"pending", "running", "awaiting_confirmation"}
NoMind     == [at |-> "idle", job |-> 0, choice |-> "answer", seen |-> 0]
JobRow     == [kind : {"run", "action"}, status : {"pending", "running", "done", "cancelled"},
               holder : Agents \cup {NoAgent}, action : Nat, attempts : Nat, receipt : BOOLEAN]
NewAgentJob(kind, action) ==
  [kind |-> kind, status |-> "pending", holder |-> NoAgent, action |-> action,
   attempts |-> 0, receipt |-> FALSE]

AgentTypeOK ==
  /\ ground \in [revision : Nat, allowed : BOOLEAN, version : Nat, troubles : 0 .. AgentTroubles]
  /\ agentRun \in [status : Active \cup {"none", "succeeded", "failed", "cancelled"},
                   revision : Nat, job : 0 .. MaxAgentJobs, step : 0 .. MaxAgentSteps + Cardinality(Agents) - 1, source : Nat]
  /\ agentJobs \in Seq(JobRow) /\ Len(agentJobs) <= MaxAgentJobs
  /\ actions \in Seq([status : {"planned", "confirmed", "rejected", "applied", "cancelled", "failed"},
                      expected : Nat, job : Nat])
  /\ mind \in [Agents -> [at : {"idle", "begin", "turn", "commit", "act", "report"},
                          job : 0 .. MaxAgentJobs, choice : {"answer", "read", "propose"}, seen : Nat]]
  /\ deeds \in Seq([action : Nat, onto : Nat, status : Active])
  /\ agreed \in SUBSET Nat

AgentInit ==
  /\ ground = [revision |-> 1, allowed |-> TRUE, version |-> 1, troubles |-> 0]
  /\ agentRun = [status |-> "none", revision |-> 0, job |-> 0, step |-> 0, source |-> 0]
  /\ agentJobs = <<>> /\ actions = <<>> /\ deeds = <<>> /\ agreed = {}
  /\ mind = [w \in Agents |-> NoMind]

----------------
(* What changes around a run.                                                 *)

AgentTrouble(new) ==
  /\ ground.troubles < AgentTroubles
  /\ ground' = [new EXCEPT !.troubles = @ + 1]

SaveWorkspaceAgent == AgentTrouble([ground EXCEPT !.revision = @ + 1])
ChangeAuthority    == AgentTrouble([ground EXCEPT !.allowed = ~@])
EditReadDocument   == AgentTrouble([ground EXCEPT !.version = @ + 1])

Around ==
  /\ SaveWorkspaceAgent \/ ChangeAuthority \/ EditReadDocument
  /\ UNCHANGED <<agentRun, agentJobs, actions, mind, deeds, agreed>>

\* agentGuard and agentRunTx: the run is active under the revision it was
\* started with, and its actor, session and provider are as they were.
AgentCurrent ==
  /\ agentRun.status \in Active
  /\ agentRun.revision = ground.revision /\ ground.allowed

\* What the run has read is as it read it: agentSourceTx locks the sources,
\* validateAgentSources only reads them.
SourcesCurrent == agentRun.source \in {0, ground.version}
SourcesValid   == SourcesCurrent

AgentGuard == AgentCurrent /\ SourcesValid

\* What a tool returns: the document as it is now.
ReadByTool(choice) == IF choice = "answer" THEN 0 ELSE ground.version

\* A plan names the version it changes.
PlanValid(expected) == expected = ground.version

----------------
(* Requests of the user.                                                      *)

Enqueued(kind, action) ==
  /\ Len(agentJobs) < MaxAgentJobs
  /\ agentJobs' = Append(agentJobs, NewAgentJob(kind, action))

CreateAgentRun ==
  /\ agentRun.status = "none" /\ ground.allowed
  /\ Enqueued("run", 0)
  /\ agentRun' = [agentRun EXCEPT !.status = "pending", !.revision = ground.revision, !.job = 1]
  /\ UNCHANGED <<ground, actions, mind, deeds, agreed>>

\* The row of the run is locked; what was not yet reported is cancelled too.
CancelAgentRun ==
  /\ agentRun.status \in Active
  /\ agentRun' = [agentRun EXCEPT !.status = "cancelled"]
  /\ agentJobs' = [agentJobs EXCEPT ![agentRun.job].status =
       IF @ \in {"pending", "running"} THEN "cancelled" ELSE @]
  /\ actions' = [n \in DOMAIN actions |->
       IF actions[n].status \in {"planned", "confirmed"} THEN [actions[n] EXCEPT !.status = "cancelled"]
       ELSE actions[n]]
  /\ UNCHANGED <<ground, mind, deeds, agreed>>

\* One planned action is confirmed, and gets a job, or rejected, and the run
\* goes on with a new one.
DecideAgentAction(n, confirm) ==
  /\ AgentGuard /\ agentRun.status = "awaiting_confirmation"
  /\ actions[n].status = "planned"
  /\ Enqueued(IF confirm THEN "action" ELSE "run", IF confirm THEN n ELSE 0)
  /\ actions' = [actions EXCEPT ![n] =
       [actions[n] EXCEPT !.status = IF confirm THEN "confirmed" ELSE "rejected",
                          !.job = IF confirm THEN Len(agentJobs) + 1 ELSE @]]
  /\ agentRun' = [agentRun EXCEPT !.status = "pending", !.job = Len(agentJobs) + 1]
  /\ agreed' = IF confirm THEN agreed \cup {n} ELSE agreed
  /\ UNCHANGED <<ground, mind, deeds>>

----------------
(* The queue and the goroutines.                                              *)

Thinks(w, place) == mind' = [mind EXCEPT ![w] = place]

ClaimAgentJob(w, j) ==
  /\ mind[w] = NoMind /\ agentJobs[j].status = "pending"
  /\ agentJobs' = [agentJobs EXCEPT ![j] =
       [agentJobs[j] EXCEPT !.status = "running", !.holder = w, !.attempts = @ + 1]]
  /\ Thinks(w, [NoMind EXCEPT !.at = "begin", !.job = j])
  /\ UNCHANGED <<ground, agentRun, actions, deeds, agreed>>

\* The lease of a job is lost by a worker that stalls, or dies with its process.
LoseAgentJob(j) ==
  /\ agentJobs[j].status = "running"
  /\ AgentTrouble(ground)
  /\ agentJobs' = [agentJobs EXCEPT ![j] = [@ EXCEPT !.status = "pending", !.holder = NoAgent]]
  /\ UNCHANGED mind \/ Thinks(agentJobs[j].holder, NoMind)
  /\ UNCHANGED <<agentRun, actions, deeds, agreed>>

\* The queue takes the result of a handler from the one who holds the job.
Released(w, jobs) ==
  LET j == mind[w].job IN
  IF jobs[j].holder # w THEN jobs
  ELSE [jobs EXCEPT ![j] = [jobs[j] EXCEPT !.holder = NoAgent,
          !.status = IF @ = "running" THEN "done" ELSE @]]

\* Mutant: what a failed job has left confirmed has failed with it.
FailedStatus(n, j) == "failed"

\* The receipt tells whether a change was made before its job failed.
LeftStatus(n, j) == IF agentJobs[j].receipt THEN "applied" ELSE "failed"

\* agentFail: only the job that the run waits for may fail it.
FailAgentRun(w) ==
  LET j == mind[w].job IN
  /\ mind[w].at # "idle"
  /\ IF agentRun.job = j /\ agentRun.status \in {"pending", "running"}
     THEN /\ agentRun' = [agentRun EXCEPT !.status = "failed"]
          /\ actions' = [n \in DOMAIN actions |->
               IF actions[n].job = j /\ actions[n].status = "confirmed"
               THEN [actions[n] EXCEPT !.status = LeftStatus(n, j)] ELSE actions[n]]
     ELSE UNCHANGED <<agentRun, actions>>
  /\ agentJobs' = Released(w, agentJobs)
  /\ Thinks(w, NoMind)
  /\ UNCHANGED <<ground, deeds, agreed>>

----------------
(* runWorkspaceAgent.                                                         *)

\* Mutant: the steps are not counted.
StepsUncounted == TRUE

\* Only looked at when a step begins: every goroutine may still commit one.
StepsLeft == agentRun.step < MaxAgentSteps

BeginAgentStep(w) ==
  LET j == mind[w].job IN
  /\ mind[w].at = "begin" /\ agentJobs[j].kind = "run"
  /\ AgentGuard /\ agentRun.job = j /\ StepsLeft
  /\ agentRun' = [agentRun EXCEPT !.status = "running"]
  /\ Thinks(w, [mind[w] EXCEPT !.at = "turn"])
  /\ UNCHANGED <<ground, agentJobs, actions, deeds, agreed>>

\* What the model wants, and what its tools return now. A change is planned for
\* the version that the run has read.
ModelTurn(w, choice) ==
  /\ mind[w].at = "turn" /\ AgentGuard
  /\ choice = "propose" => PlanValid(agentRun.source)
  /\ Thinks(w, [mind[w] EXCEPT !.at = "commit", !.choice = choice, !.seen = ReadByTool(choice)])
  /\ UNCHANGED <<ground, agentRun, agentJobs, actions, deeds, agreed>>

\* The step is committed if the run still waits for this job and the values
\* just read are current; the status may be anything active.
CommitAgentStep(w) ==
  LET j == mind[w].job  choice == mind[w].choice
      source == IF choice = "read" THEN mind[w].seen ELSE agentRun.source
  IN
  /\ mind[w].at = "commit" /\ AgentCurrent /\ agentRun.job = j
  /\ choice = "read" => agentRun.source \in {0, mind[w].seen}
  /\ source \in {0, ground.version}
  /\ agentRun' = [agentRun EXCEPT !.step = @ + 1, !.source = source,
       !.status = CASE choice = "answer"  -> "succeeded"
                    [] choice = "read"    -> "running"
                    [] choice = "propose" -> "awaiting_confirmation"]
  /\ actions' = IF choice = "propose"
                THEN Append(actions, [status |-> "planned", expected |-> mind[w].seen, job |-> 0])
                ELSE actions
  /\ IF choice = "read"
     THEN Thinks(w, [NoMind EXCEPT !.at = "begin", !.job = j]) /\ UNCHANGED agentJobs
     ELSE Thinks(w, NoMind) /\ agentJobs' = Released(w, agentJobs)
  /\ UNCHANGED <<ground, deeds, agreed>>

----------------
(* runAgentAction.                                                            *)

\* A job that finds its receipt has only to report it.
BeginAgentAction(w) ==
  LET j == mind[w].job IN
  /\ mind[w].at = "begin" /\ agentJobs[j].kind = "action"
  /\ AgentGuard /\ agentRun.job = j
  /\ actions[agentJobs[j].action].status = "confirmed"
  /\ Thinks(w, [mind[w] EXCEPT !.at = IF agentJobs[j].receipt THEN "report" ELSE "act"])
  /\ UNCHANGED <<ground, agentRun, agentJobs, actions, deeds, agreed>>

\* Mutant: the change is only checked before its transaction.
MayActUnguarded(w, n) == TRUE

\* The guard inside the transaction that changes the document.
MayAct(w, n) ==
  /\ AgentCurrent /\ agentRun.job = mind[w].job
  /\ actions[n].status = "confirmed"
  /\ SourcesCurrent

\* The change, its receipt and the new version of the source are one commit,
\* under the lease; its answer may be lost.
ApplyAgentAction(w) ==
  LET j == mind[w].job  n == agentJobs[j].action IN
  /\ mind[w].at = "act" /\ MayAct(w, n)
  /\ ~agentJobs[j].receipt
  /\ agentJobs[j].holder = w /\ agentJobs[j].status = "running"
  /\ PlanValid(actions[n].expected)
  /\ ground' = [ground EXCEPT !.version = @ + 1]
  /\ agentRun' = [agentRun EXCEPT !.source = IF @ = 0 THEN 0 ELSE ground.version + 1]
  /\ agentJobs' = [agentJobs EXCEPT ![j].receipt = TRUE]
  /\ deeds' = Append(deeds, [action |-> n, onto |-> ground.version, status |-> agentRun.status])
  /\ Thinks(w, [mind[w] EXCEPT !.at = "report"])
  /\ UNCHANGED <<actions, agreed>>

ReportAgentAction(w) ==
  LET j == mind[w].job  n == agentJobs[j].action IN
  /\ mind[w].at = "report" /\ AgentGuard /\ agentRun.job = j
  /\ Len(agentJobs) < MaxAgentJobs
  /\ agentJobs' = Append(Released(w, agentJobs), NewAgentJob("run", 0))
  /\ actions' = [actions EXCEPT ![n].status = IF @ = "confirmed" THEN "applied" ELSE @]
  /\ agentRun' = [agentRun EXCEPT !.status = "pending", !.source = ground.version,
                                  !.job = Len(agentJobs) + 1]
  /\ Thinks(w, NoMind)
  /\ UNCHANGED <<ground, deeds, agreed>>

----------------
AgentNext ==
  \/ Around \/ CreateAgentRun \/ CancelAgentRun
  \/ \E n \in DOMAIN actions, confirm \in BOOLEAN : DecideAgentAction(n, confirm)
  \/ \E j \in DOMAIN agentJobs : LoseAgentJob(j) \/ \E w \in Agents : ClaimAgentJob(w, j)
  \/ \E w \in Agents :
       \/ FailAgentRun(w) \/ BeginAgentStep(w) \/ CommitAgentStep(w) \/ BeginAgentAction(w)
       \/ ApplyAgentAction(w) \/ ReportAgentAction(w)
       \/ \E choice \in {"answer", "read", "propose"} : ModelTurn(w, choice)

AgentSpec == AgentInit /\ [][AgentNext]_agentVars

----------------
(* Properties.                                                                *)

\* The run changes the document once for every action the user confirmed, on
\* the version the plan was made for, and never once it was cancelled or failed.
WritesAsAgreed ==
  /\ \A i \in DOMAIN deeds :
       /\ deeds[i].action \in agreed
       /\ deeds[i].onto = actions[deeds[i].action].expected
       /\ deeds[i].status \in Active
  /\ \A i, k \in DOMAIN deeds : deeds[i].action = deeds[k].action => i = k

\* An action that says it failed or was rejected has changed nothing, and one
\* that says it was applied has.
ToldAsDone ==
  LET done == {deeds[i].action : i \in DOMAIN deeds} IN
  \A n \in DOMAIN actions :
    /\ actions[n].status \in {"failed", "rejected", "planned"} => n \notin done
    /\ actions[n].status = "applied" => n \in done

\* The user can rely on what the agent does and on what it reports.
AgentIsTrue == WritesAsAgreed /\ ToldAsDone
==============================================================================
