-------------------------- MODULE RunbookExecution ---------------------------
(* Runbook executions (internal/server/runbook_*.go): a plan is prepared,     *)
(* approved, confirmed once, and run step by step on AWX or Kubernetes by a   *)
(* job of the queue, while cancellations, the reconciler, an operator and     *)
(* changes of what the plan was built from get in the way. The queue is here  *)
(* what its handlers see of it: claims, lost leases, attempts and a result.   *)
EXTENDS Naturals

CONSTANTS
  Executions,     \* rows of runbook_executions, all of one document
  Last,           \* the number of steps of a plan
  Kind,           \* the runner of every step: "awx" or "kubernetes"
  Confirmations,  \* requests of the owner that confirm an execution
  Runners,        \* goroutines of the queue
  Reconciler,     \* the maintenance goroutine
  None,
  RunbookAttempts,    \* max_attempts of the job
  RunbookTroubles     \* bound: changes of the sources, lost leases, failed checks,
                      \* expired Jobs

VARIABLES
  sources,      \* what a plan is built from, and whether approvals are on
  execution,    \* runbook_executions, their approval request and their job
  step,         \* runbook_execution_steps
  confirm,      \* the transaction of every confirmation
  at,           \* the goroutines that work on an execution
  remote,       \* what AWX and Kubernetes have of each step
  noted         \* history: jobs queued, operators' words, processes lost

runbookVars == <<sources, execution, step, confirm, at, remote, noted>>

Numbers    == 1 .. Last

\* A plan has a step (runbook_plan.go), and every step a runner.
ASSUME RunbookAssumption ==
  /\ Last \in Nat \ {0} /\ Kind \in [Numbers -> {"awx", "kubernetes"}]
  /\ None \notin Executions

Goroutines == Runners \cup {Reconciler}
OpenStates       == {"queued", "running", "unknown"}
ClosedStates     == {"succeeded", "failed", "cancelled"}
Statuses   == OpenStates \cup ClosedStates \cup {"none", "prepared", "review", "approved", "rejected"}
StepStates == OpenStates \cup ClosedStates \cup {"launching"}
Plan       == [revision : Nat, allowed : BOOLEAN]

Idle == [at |-> "idle", x |-> None, n |-> 1, state |-> "queued", known |-> 0,
         halts |-> FALSE, result |-> "none"]
Goroutine ==
  [at : {"idle", "begin", "read", "launch", "call", "persist", "watch",
         "record", "halt", "stop", "save", "finish", "return"},
   x : Executions \cup {None}, n : Nat, state : StepStates, known : Nat,
   halts : BOOLEAN, result : Statuses \cup {"retry"}]

RunbookTypeOK ==
  /\ sources \in [plan : Plan, approvals : BOOLEAN]
  /\ execution \in [Executions ->
       [status : Statuses, plan : Plan, required : BOOLEAN, cancel : BOOLEAN,
        ticket : {"none", "pending", "approved", "consumed", "rejected", "cancelled"},
        job : {"none", "queued", "running", "succeeded", "failed", "cancelled"},
        holder : Runners \cup {None}, attempts : Nat]]
  /\ step \in [Executions -> [Numbers -> [state : StepStates, external : Nat]]]
  /\ confirm \in [Confirmations -> Executions \cup {None}]
  /\ at \in [Goroutines -> Goroutine]
  /\ remote \in [Executions -> [Numbers ->
       [state : {"none", "running"} \cup ClosedStates, launches : Nat, removed : Nat, done : BOOLEAN]]]
  /\ noted \in [queued : [Executions -> Nat], attested : SUBSET Executions,
                troubles : Nat]

\* Jobs of a step are numbered as they are launched, and 0 is no Job: the rows
\* and the goroutines know a Job by its number. History: how many were removed,
\* and whether one has succeeded.
NoJob == [state |-> "none", launches |-> 0, removed |-> 0, done |-> FALSE]

FirstPlan == [revision |-> 0, allowed |-> TRUE]

RunbookInit ==
  /\ sources = [plan |-> FirstPlan, approvals |-> TRUE]
  /\ execution = [x \in Executions |->
       [status |-> "none", plan |-> FirstPlan, required |-> FALSE, cancel |-> FALSE,
        ticket |-> "none", job |-> "none", holder |-> None, attempts |-> 0]]
  /\ step = [x \in Executions |-> [n \in Numbers |-> [state |-> "queued", external |-> 0]]]
  /\ confirm = [r \in Confirmations |-> None]
  /\ at = [p \in Goroutines |-> Idle]
  /\ remote = [x \in Executions |-> [n \in Numbers |-> NoJob]]
  /\ noted = [queued |-> [x \in Executions |-> 0], attested |-> {},
              troubles |-> 0]

----------------
(* What plans are built from: the definition of the document, the allowed     *)
(* actions of the runners, the switch of the feature and the user's rights.   *)

Trouble ==
  /\ noted.troubles < RunbookTroubles
  /\ noted' = [noted EXCEPT !.troubles = @ + 1]

ChangeSources(plan, approvals) ==
  /\ Trouble
  /\ sources' = [plan |-> plan, approvals |-> approvals]
  /\ UNCHANGED <<execution, step, confirm, at, remote>>

\* Definitions, runners and settings are saved against their revision: each
\* save makes a new one, and none of them ever returns.
Revised == [sources.plan EXCEPT !.revision = @ + 1]

SaveRunbook  == ChangeSources(Revised, sources.approvals)
SaveRunner   == ChangeSources(Revised, sources.approvals)
SaveSettings == ChangeSources(Revised, sources.approvals)

\* The switch of the approvals is no part of a plan.
SwitchApprovals == ChangeSources(sources.plan, ~sources.approvals)

\* A right that was withdrawn may come back as it was.
ChangeRunner == ChangeSources([sources.plan EXCEPT !.allowed = ~@], sources.approvals)

\* Lock builds the plan again, as the owner, and compares the two hashes.
Fresh(x) == sources.plan.allowed /\ execution[x].plan = sources.plan

\* The FOR UPDATE of a confirmation holds the row of its execution.
Unlocked(x) == \A r \in Confirmations : confirm[r] # x

----------------
(* The requests of users.                                                     *)

\* The plan is built before and after the runners were asked without a
\* transaction, and refused if the two differ.
PrepareRunbook(x) ==
  /\ execution[x].status = "none" /\ sources.plan.allowed
  /\ execution' = [execution EXCEPT ![x] =
       [@ EXCEPT !.status = "prepared", !.plan = sources.plan, !.required = sources.approvals]]
  /\ UNCHANGED <<sources, step, confirm, at, remote, noted>>

SubmitApproval(x) ==
  /\ Unlocked(x) /\ Fresh(x)
  /\ execution[x].status \in {"prepared", "rejected", "cancelled"}
  /\ execution[x].job = "none" /\ execution[x].required /\ sources.approvals
  /\ execution[x].ticket # "pending"
  /\ execution' = [execution EXCEPT ![x] = [@ EXCEPT !.status = "review", !.ticket = "pending"]]
  /\ UNCHANGED <<sources, step, confirm, at, remote, noted>>

\* The last decision on a request moves its execution in the same transaction.
DecideApproval(x, outcome) ==
  /\ Unlocked(x) /\ execution[x].ticket = "pending" /\ sources.approvals
  /\ outcome = "approved" => Fresh(x)
  /\ LET row == execution[x] IN
     execution' = [execution EXCEPT ![x] =
       [row EXCEPT !.ticket = outcome,
                   !.status = IF row.status = "review" /\ row.job = "none" THEN outcome ELSE row.status]]
  /\ UNCHANGED <<sources, step, confirm, at, remote, noted>>

\* Mutant: the row is only read.
LocksNothing(r, x) == confirm' = [confirm EXCEPT ![r] = x]

\* The first statement of a confirmation takes the row ...
LocksRow(r, x) ==
  /\ Unlocked(x)
  /\ confirm' = [confirm EXCEPT ![r] = x]

\* ... and reads what it decides on.
BeginConfirm(r, x) ==
  /\ confirm[r] = None
  /\ LocksRow(r, x)
  /\ Fresh(x) /\ execution[x].job = "none"
  /\ execution[x].required = sources.approvals
  /\ execution[x].status = IF execution[x].required THEN "approved" ELSE "prepared"
  /\ execution[x].required => execution[x].ticket = "approved"
  /\ UNCHANGED <<sources, execution, step, at, remote, noted>>

Uncertain == \E x \in Executions : execution[x].status = "unknown"

\* ConsumeApprovalTx, in the transaction that queues the job.
SpendTicket(x) == IF execution[x].required THEN "consumed" ELSE execution[x].ticket

CommitConfirm(r) ==
  LET x == confirm[r] IN
  /\ x # None /\ ~Uncertain
  /\ execution[x].required => execution[x].ticket = "approved"
  /\ execution' = [execution EXCEPT ![x] =
       [@ EXCEPT !.status = "queued", !.job = "queued", !.ticket = SpendTicket(x)]]
  /\ confirm' = [confirm EXCEPT ![r] = None]
  /\ noted' = [noted EXCEPT !.queued[x] = @ + 1]
  /\ UNCHANGED <<sources, step, at, remote>>

\* A refused or interrupted confirmation leaves no trace.
RollbackConfirm(r) ==
  /\ confirm[r] # None
  /\ confirm' = [confirm EXCEPT ![r] = None]
  /\ UNCHANGED <<sources, execution, step, at, remote, noted>>

CancelExecution(x) ==
  /\ Unlocked(x) /\ execution[x].status \in OpenStates /\ ~execution[x].cancel
  /\ execution' = [execution EXCEPT ![x].cancel = TRUE]
  /\ UNCHANGED <<sources, step, confirm, at, remote, noted>>

\* An operator attests that nothing runs any more; only "unknown" is closed so.
ResolveUncertain(x) ==
  /\ execution[x].status = "unknown"
  /\ execution' = [execution EXCEPT ![x] = [@ EXCEPT !.status = "cancelled", !.cancel = TRUE]]
  /\ step' = [step EXCEPT ![x] = [n \in Numbers |->
       IF @[n].state \in ClosedStates THEN @[n] ELSE [@[n] EXCEPT !.state = "cancelled"]]]
  /\ noted' = [noted EXCEPT !.attested = @ \cup {x}]
  /\ UNCHANGED <<sources, confirm, at, remote>>

----------------
(* The queue, as the handler meets it.                                        *)

Goes(p, place) == at' = [at EXCEPT ![p] = place]

\* A job is claimed when it waits, and cancelled instead when asked to.
ClaimRun(p, x) ==
  /\ at[p] = Idle /\ execution[x].job = "queued"
  /\ IF execution[x].cancel
     THEN execution' = [execution EXCEPT ![x].job = "cancelled"] /\ UNCHANGED at
     ELSE /\ execution' = [execution EXCEPT ![x] =
               [@ EXCEPT !.job = "running", !.holder = p, !.attempts = execution[x].attempts + 1]]
          /\ Goes(p, [Idle EXCEPT !.at = "begin", !.x = x])
  /\ UNCHANGED <<sources, step, confirm, remote, noted>>

Requeued(x) == IF execution[x].attempts < RunbookAttempts THEN "queued" ELSE "failed"

\* A lease runs out under a goroutine that goes on, or with its process.
LoseRun(x) ==
  /\ execution[x].job = "running"
  /\ execution' = [execution EXCEPT ![x] = [@ EXCEPT !.job = Requeued(x), !.holder = None]]
  /\ Trouble
  /\ UNCHANGED at \/ Goes(execution[x].holder, Idle)
  /\ UNCHANGED <<sources, step, confirm, remote>>

\* The result of a handler counts while its goroutine holds the lease.
JobAfter(p, result) ==
  LET x == at[p].x IN
  IF p = Reconciler \/ execution[x].holder # p THEN execution[x]
  ELSE [execution[x] EXCEPT !.holder = None,
          !.job = IF result = "retry" THEN Requeued(x) ELSE result]

ReturnRun(p) ==
  /\ at[p].at = "return"
  /\ execution' = [execution EXCEPT ![at[p].x] = JobAfter(p, at[p].result)]
  /\ Goes(p, Idle)
  /\ UNCHANGED <<sources, step, confirm, remote, noted>>

----------------
(* executeRunbookJob.                                                         *)

\* runbookCurrentForJob, under the lock of the row.
Allowed(p) ==
  LET x == at[p].x IN
  /\ Unlocked(x) /\ ~execution[x].cancel
  /\ execution[x].status \in {"queued", "running"}
  /\ Fresh(x)
  /\ IF execution[x].required THEN execution[x].ticket = "consumed" ELSE ~sources.approvals

\* The check fails with its cause, with the context of a lost lease, or with the
\* database or the time limit of the step.
Refused(p) ==
  \/ /\ ~Allowed(p) \/ execution[at[p].x].holder # p
     /\ UNCHANGED noted
  \/ Trouble

MarkRunning(x) == execution' = [execution EXCEPT ![x].status = "running"]

Returns(p, result)  == Goes(p, [Idle EXCEPT !.at = "return", !.x = at[p].x, !.result = result])
Finishes(p, result) == Goes(p, [Idle EXCEPT !.at = "finish", !.x = at[p].x, !.result = result])

\* An execution that ended is not run again. A refusal, and an error of the
\* check itself, halt the execution before the job fails.
BeginRun(p) ==
  LET x == at[p].x  status == execution[x].status IN
  /\ at[p].at = "begin"
  /\ \/ /\ status = "succeeded" /\ Returns(p, "succeeded") /\ UNCHANGED <<execution, noted>>
     \/ /\ status \in {"failed", "cancelled", "unknown"}
        /\ Returns(p, "failed") /\ UNCHANGED <<execution, noted>>
     \/ /\ Allowed(p) /\ MarkRunning(x) /\ UNCHANGED noted
        /\ Goes(p, [at[p] EXCEPT !.at = "read"])
     \/ /\ status \in {"queued", "running"} /\ Refused(p) /\ UNCHANGED execution
        /\ Goes(p, [at[p] EXCEPT !.at = "halt", !.halts = TRUE, !.result = "cancelled"])
  /\ UNCHANGED <<sources, step, confirm, remote>>

NextStep(p) == Goes(p, [Idle EXCEPT !.at = "read", !.x = at[p].x, !.n = at[p].n + 1])

SetStep(p, state) == step' = [step EXCEPT ![at[p].x][at[p].n].state = state]

\* Mutant: an AWX launch whose answer was lost is tried again.
MayRelaunch(x, n) == step[x][n].state = "launching"

\* Only Kubernetes, where the name of the Job is fixed, is asked twice.
MayLaunch(x, n) == step[x][n].state = "launching" /\ Kind[n] = "kubernetes"

\* Mutant: a step that has ended is skipped, however it ended.
EndedStep(state) == state \in ClosedStates

DoneStep(state) == state = "succeeded"

\* What the row says now decides, and is not read again before the launch.
CheckStep(p) ==
  LET x == at[p].x  n == at[p].n  row == step[x][n] IN
  /\ at[p].at = "read" /\ n \in Numbers
  /\ \/ /\ DoneStep(row.state) /\ NextStep(p) /\ UNCHANGED <<execution, step, noted>>
     \/ /\ row.state \in {"failed", "cancelled", "unknown"}
        /\ Finishes(p, row.state) /\ UNCHANGED <<execution, step, noted>>
     \/ /\ row.state \in {"queued", "launching", "running"}
        /\ Allowed(p) /\ MarkRunning(x) /\ UNCHANGED noted
        /\ \/ /\ row.state = "queued" \/ MayLaunch(x, n)
              /\ Goes(p, [at[p] EXCEPT !.at = "launch", !.state = row.state])
              /\ UNCHANGED step
           \/ /\ row.state = "launching" /\ ~MayLaunch(x, n)
              /\ SetStep(p, "unknown") /\ Finishes(p, "unknown")
           \/ /\ row.state = "running"
              /\ Goes(p, [at[p] EXCEPT !.at = "watch", !.known = row.external]) /\ UNCHANGED step
     \/ /\ row.state = "queued" /\ Refused(p)
        /\ SetStep(p, "failed") /\ Finishes(p, "failed") /\ UNCHANGED execution
     \/ /\ row.state \in {"launching", "running"} /\ Refused(p)
        /\ Goes(p, [at[p] EXCEPT !.at = "stop", !.known = row.external])
        /\ UNCHANGED <<execution, step>>
  /\ UNCHANGED <<sources, confirm, remote>>

\* Mutant: the step is claimed whatever became of it since it was read.
TakesStep(p) == SetStep(p, "launching")

\* One goroutine wins the step; the other gets an error and its job a retry.
ClaimStep(p) == step[at[p].x][at[p].n].state = "queued" /\ SetStep(p, "launching")

\* The preflight must return what was reviewed.
LaunchStep(p) ==
  LET x == at[p].x IN
  /\ at[p].at = "launch"
  /\ \/ /\ at[p].state = "queued" /\ ClaimStep(p)
        /\ Goes(p, [at[p] EXCEPT !.at = "call"])
     \/ /\ at[p].state = "queued" /\ step[x][at[p].n].state # "queued"
        /\ Returns(p, "retry") /\ UNCHANGED step
     \/ /\ at[p].state = "launching"
        /\ Goes(p, [at[p] EXCEPT !.at = "call"]) /\ UNCHANGED step
     \/ /\ IF step[x][at[p].n].state = "queued" THEN SetStep(p, "failed") ELSE UNCHANGED step
        /\ Finishes(p, "failed")
  /\ UNCHANGED <<sources, execution, confirm, remote, noted>>

\* Mutant: every request makes a Job of another name.
StartedAnew(x, n) == [remote[x][n] EXCEPT !.state = "running", !.launches = @ + 1]

\* A second POST of a Job's name is answered with the Job that has it, for as
\* long as it has it.
Started(x, n) ==
  LET job == remote[x][n] IN
  IF Kind[n] = "kubernetes" /\ job.state # "none" THEN job
  ELSE [job EXCEPT !.state = "running", !.launches = @ + 1]

\* The launch request: done and answered, done or not without an answer, or
\* done as something else than was asked for.
CallRemote(p) ==
  LET x == at[p].x  n == at[p].n IN
  /\ at[p].at = "call"
  /\ \/ /\ remote' = [remote EXCEPT ![x][n] = Started(x, n)]
        /\ LET id == Started(x, n).launches IN
           \/ Goes(p, [at[p] EXCEPT !.at = "persist", !.known = id])
           \/ Goes(p, [at[p] EXCEPT !.at = "stop", !.known = id, !.result = "failed"])
        /\ UNCHANGED step
     \/ /\ remote' \in {remote, [remote EXCEPT ![x][n] = Started(x, n)]}
        /\ IF Kind[n] = "kubernetes"
           THEN Returns(p, "retry") /\ UNCHANGED step
           ELSE SetStep(p, "unknown") /\ Finishes(p, "unknown")
  /\ UNCHANGED <<sources, execution, confirm, noted>>

PersistStep(p) ==
  LET x == at[p].x  n == at[p].n IN
  /\ at[p].at = "persist"
  /\ \/ /\ step[x][n].state = "launching"
        /\ step' = [step EXCEPT ![x][n] = [state |-> "running", external |-> at[p].known]]
        /\ Goes(p, [at[p] EXCEPT !.at = "watch"])
     \/ Goes(p, [at[p] EXCEPT !.at = "stop"]) /\ UNCHANGED step
  /\ UNCHANGED <<sources, execution, confirm, remote, noted>>

\* The runner still has the Job the goroutine knows, and it has ended.
EndedThere(p, id) ==
  LET job == remote[at[p].x][at[p].n] IN id = job.launches /\ job.state \in ClosedStates

\* Every second the check and a poll; a refusal and the deadline stop the step,
\* and a Job that is gone or was replaced is an error of the poll.
WatchStep(p) ==
  LET x == at[p].x  n == at[p].n IN
  /\ at[p].at = "watch"
  /\ \/ /\ Allowed(p) /\ MarkRunning(x) /\ UNCHANGED noted
        /\ \/ /\ EndedThere(p, at[p].known)
              /\ Goes(p, [at[p] EXCEPT !.at = "record", !.result = remote[x][n].state])
           \/ Returns(p, "retry")
     \/ Refused(p) /\ Goes(p, [at[p] EXCEPT !.at = "stop"]) /\ UNCHANGED execution
  /\ UNCHANGED <<sources, step, confirm, remote>>

RecordStep(p) ==
  /\ at[p].at = "record"
  /\ SetStep(p, at[p].result)
  /\ IF at[p].result = "succeeded" THEN NextStep(p) ELSE Finishes(p, at[p].result)
  /\ UNCHANGED <<sources, execution, confirm, remote, noted>>

\* After the last step the authority is checked once more.
CloseRun(p) ==
  LET x == at[p].x IN
  /\ at[p].at = "read" /\ at[p].n = Last + 1
  /\ \/ Allowed(p) /\ MarkRunning(x) /\ Finishes(p, "succeeded") /\ UNCHANGED noted
     \/ Refused(p) /\ Finishes(p, "failed") /\ UNCHANGED execution
  /\ UNCHANGED <<sources, step, confirm, remote>>

----------------
(* Stopping, by whoever finds that a step must not go on.                     *)

Removed(job) == [job EXCEPT !.state = "none", !.removed = @ + 1]

CutShort(job) == [job EXCEPT !.state = IF job.state = "running" THEN "cancelled" ELSE job.state]

\* A cancellation ends a run of AWX and deletes a Job: its name is free again.
EndRemote(x, n) ==
  remote' = [remote EXCEPT ![x][n] =
    IF Kind[n] = "kubernetes" THEN Removed(@) ELSE CutShort(@)]

\* The next step to halt, or the end of the halting.
HaltsNext(p, result) ==
  IF at[p].n = Last THEN Finishes(p, result)
  ELSE Goes(p, [Idle EXCEPT !.at = "halt", !.x = at[p].x, !.n = at[p].n + 1,
                            !.halts = TRUE, !.result = result])

\* A Job that was never recorded is looked up by its name, and deleted only if
\* it is the one that is known. What cannot be found out is "unknown", whatever
\* became of the job; the lookup that fails leaves the row as it was.
StopStep(p) ==
  LET x == at[p].x  n == at[p].n  job == remote[x][n]
      named == IF Kind[n] = "kubernetes" /\ job.state # "none" THEN job.launches ELSE 0
      id    == IF at[p].known = 0 THEN named ELSE at[p].known
      there == id = job.launches /\ job.state # "none"
      gone  == Kind[n] = "kubernetes" /\ job.state = "none"
      Saves(state) ==
        Goes(p, [at[p] EXCEPT !.at = "save", !.state = state, !.known = id])
  IN
  /\ at[p].at = "stop"
  /\ \/ id = 0 /\ Saves(IF Kind[n] = "kubernetes" THEN "cancelled" ELSE "unknown")
        /\ UNCHANGED remote
     \/ id # 0 /\ there /\ EndRemote(x, n) /\ (Saves("cancelled") \/ Saves("unknown"))
     \/ id # 0 /\ (gone \/ EndedThere(p, id)) /\ Saves("cancelled") /\ UNCHANGED remote
     \/ id # 0 /\ Saves("unknown") /\ UNCHANGED remote
     \/ /\ Kind[n] = "kubernetes" /\ at[p].known = 0 /\ UNCHANGED remote
        /\ IF at[p].halts
           THEN HaltsNext(p, "unknown") ELSE Finishes(p, "unknown")
  /\ UNCHANGED <<sources, execution, step, confirm, noted>>

SaveStop(p) ==
  LET x == at[p].x  n == at[p].n
      external == IF at[p].known = 0 /\ Kind[n] = "kubernetes" THEN step[x][n].external ELSE at[p].known
      worse == IF at[p].state = "unknown" \/ at[p].result = "unknown" THEN "unknown" ELSE at[p].result
  IN
  /\ at[p].at = "save"
  /\ step' = [step EXCEPT ![x][n] = [state |-> at[p].state, external |-> external]]
  /\ IF at[p].halts
     THEN HaltsNext(p, worse)
     ELSE Finishes(p, IF at[p].result = "failed" /\ at[p].state = "cancelled" THEN "failed" ELSE at[p].state)
  /\ UNCHANGED <<sources, execution, confirm, remote, noted>>

\* haltRunbookExecution: a step nobody claimed is closed by a compare-and-set,
\* the others are stopped.
HaltStep(p) ==
  LET x == at[p].x  n == at[p].n  row == step[x][n] IN
  /\ at[p].at = "halt"
  /\ IF row.state \in {"launching", "running", "unknown"}
     THEN /\ Goes(p, [at[p] EXCEPT !.at = "stop", !.known = row.external])
          /\ UNCHANGED step
     ELSE /\ HaltsNext(p, at[p].result)
          /\ IF row.state = "queued" THEN SetStep(p, "cancelled") ELSE UNCHANGED step
  /\ UNCHANGED <<sources, execution, confirm, remote, noted>>

\* The reconciler takes what was cancelled and what its job has left behind.
Reconcile(x) ==
  /\ at[Reconciler] = Idle /\ Unlocked(x) /\ execution[x].status \in OpenStates
  /\ \/ execution[x].cancel
     \/ /\ execution[x].status \in {"queued", "running"}
        /\ execution[x].job \in {"failed", "cancelled", "succeeded"}
  /\ Goes(Reconciler, [Idle EXCEPT !.at = "halt", !.x = x, !.halts = TRUE, !.result = "cancelled"])
  /\ UNCHANGED <<sources, execution, step, confirm, remote, noted>>

\* runbookFinish: what has ended stays as it is, but for the end of "unknown".
Ends(x, result) ==
  \/ execution[x].status \in {"queued", "running"}
  \/ execution[x].status = "unknown" /\ result = "cancelled"

FinishRun(p) ==
  LET x == at[p].x  result == at[p].result
      after == JobAfter(p, IF result = "succeeded" THEN "succeeded" ELSE "failed")
  IN
  /\ at[p].at = "finish" /\ Unlocked(x)
  /\ execution' = [execution EXCEPT ![x] =
       [after EXCEPT !.status = IF Ends(x, result) THEN result ELSE after.status]]
  /\ Goes(p, Idle)
  /\ UNCHANGED <<sources, step, confirm, remote, noted>>

\* External: the remote job ends by itself.
RemoteEnds(x, n) ==
  /\ remote[x][n].state = "running"
  /\ \E end \in {"succeeded", "failed"} :
       remote' = [remote EXCEPT ![x][n].state = end, ![x][n].done = @ \/ end = "succeeded"]
  /\ UNCHANGED <<sources, execution, step, confirm, at, noted>>

\* External: the cluster removes a Job a day after its end.
RemoteExpires(x, n) ==
  /\ Kind[n] = "kubernetes" /\ remote[x][n].state \in ClosedStates
  /\ Trouble
  /\ remote' = [remote EXCEPT ![x][n] = Removed(@)]
  /\ UNCHANGED <<sources, execution, step, confirm, at>>

----------------
RunbookNext ==
  \/ SaveRunbook \/ SaveRunner \/ SaveSettings \/ ChangeRunner \/ SwitchApprovals
  \/ \E x \in Executions :
       \/ PrepareRunbook(x) \/ SubmitApproval(x) \/ CancelExecution(x)
       \/ ResolveUncertain(x) \/ LoseRun(x) \/ Reconcile(x)
       \/ \E outcome \in {"approved", "rejected", "cancelled"} : DecideApproval(x, outcome)
       \/ \E r \in Confirmations : BeginConfirm(r, x)
       \/ \E p \in Runners : ClaimRun(p, x)
       \/ \E n \in Numbers : RemoteEnds(x, n) \/ RemoteExpires(x, n)
  \/ \E r \in Confirmations : CommitConfirm(r) \/ RollbackConfirm(r)
  \/ \E p \in Goroutines :
       \/ BeginRun(p) \/ CheckStep(p) \/ LaunchStep(p) \/ CallRemote(p)
       \/ PersistStep(p) \/ WatchStep(p) \/ RecordStep(p) \/ CloseRun(p)
       \/ StopStep(p) \/ SaveStop(p) \/ HaltStep(p) \/ FinishRun(p)
       \/ ReturnRun(p)

RunbookSpec == RunbookInit /\ [][RunbookNext]_runbookVars

----------------
(* Properties.                                                                *)

\* However often an execution is confirmed, claimed, retried and halted, it is
\* queued once and AWX never runs a step twice; Kubernetes has one Job of a step
\* at a time, and a further one only once the former was removed from the
\* cluster. A step is only launched when a job of each step before it has
\* succeeded. That a Kubernetes step may so run twice is the exception: see
\* NeverASecondJob.
LaunchedOnceInOrder ==
  \A x \in Executions :
    /\ noted.queued[x] <= 1
    /\ \A n \in Numbers :
         /\ remote[x][n].launches <= (IF Kind[n] = "awx" THEN 1 ELSE 1 + remote[x][n].removed)
         /\ remote[x][n].launches > 0 => \A m \in 1 .. n - 1 : remote[x][m].done

\* For every step of an execution that is called succeeded a job has succeeded
\* on its runner, and one that needed an approval has spent it.
SuccessIsReal ==
  \A x \in Executions : execution[x].status = "succeeded" =>
    /\ \A n \in Numbers : remote[x][n].done
    /\ execution[x].required => execution[x].ticket = "consumed"

\* runbook_worker.go says of a launch that is tried again: "Deterministic name
\* permits recovery, never a second distinct Job." But a stop deletes the Job,
\* and with it what keeps its name: a goroutine that was past its checks, or
\* whose launch is tried again, then makes another.
NeverASecondJob == \A x \in Executions : \A n \in Numbers : remote[x][n].launches <= 1

\* The plan of the run that shows it.
OnKubernetes == [n \in Numbers |-> "kubernetes"]

\* An execution does what was approved, in order, and says so truly.
RunAsApproved == LaunchedOnceInOrder /\ SuccessIsReal
==============================================================================
