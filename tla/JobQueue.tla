------------------------------- MODULE JobQueue ------------------------------
(* The durable job queue: PostgreSQL rows of automation_jobs claimed under a  *)
(* lease by the worker goroutines of any number of server processes           *)
(* (internal/server/jobs.go), the sweep that runs beside them every second    *)
(* (scheduleDueAutomations in automation.go) and the requests that cancel,    *)
(* retry and pause work. Every SQL statement or transaction is one action;    *)
(* what a worker keeps in memory between two of them is its own state.        *)
EXTENDS Naturals, Sequences

CONSTANTS
  Jobs,         \* the jobs that may ever be enqueued, each with a fresh UUID
  NoJob,        \* what an idle worker holds
  Workers,      \* worker goroutines of all processes below the concurrency cap
  MaxAttempts,  \* automation_jobs.max_attempts
  MaxLosses,    \* bound: process losses and failed database calls
  MaxRetries    \* bound: manual retries

ASSUME NoJobAssumption == NoJob \notin Jobs
ASSUME BoundsAssumption == /\ MaxAttempts \in Nat \ {0}
                           /\ MaxLosses \in Nat
                           /\ MaxRetries \in Nat

VARIABLES
  job,        \* the table automation_jobs
  history,    \* automation_job_attempts of each job, in order of their id
  paused,     \* job_settings.paused
  run,        \* what each worker goroutine remembers
  nextLease,  \* lease ids are fresh UUIDs: numbered in the order of the claims
  losses,     \* losses so far
  retries     \* manual retries so far

vars == <<job, history, paused, run, nextLease, losses, retries>>

NoLease   == 0                                  \* SQL NULL
Open      == {"pending", "running"}
Settled   == {"succeeded", "failed", "cancelled"}
Status    == {"absent", "deleted"} \cup Open \cup Settled
Busy      == {"claimed", "running", "stopping", "finishing"}
Phase     == {"idle", "polled"} \cup Busy

Row == [status   : Status,
        attempts : 0 .. MaxAttempts,
        lease    : Nat,
        expired  : BOOLEAN,        \* lease_until < now()
        cancel   : BOOLEAN,        \* cancel_requested
        due      : BOOLEAN,        \* run_after <= now()
        finished : BOOLEAN]        \* finished_at IS NOT NULL

\* automation_job_attempts; "claim" is the lease id, which the table omits.
Attempt == [claim : Nat, attempt : 0 .. MaxAttempts, status : Status]

Memory == [phase   : Phase,
           job     : Jobs \cup {NoJob},
           lease   : Nat,
           attempt : 0 .. MaxAttempts,          \* j.Attempts as claimed
           verdict : Open \cup Settled]         \* "running": none yet

Idle    == [phase |-> "idle", job |-> NoJob, lease |-> NoLease,
            attempt |-> 0, verdict |-> "running"]
Missing == [status |-> "absent", attempts |-> 0, lease |-> NoLease,
            expired |-> FALSE, cancel |-> FALSE, due |-> TRUE, finished |-> FALSE]
Fresh      == [Missing EXCEPT !.status = "pending"]
Deleted(r) == [r EXCEPT !.status = "deleted"]

TypeOK == /\ job \in [Jobs -> Row]
          /\ history \in [Jobs -> Seq(Attempt)]
          /\ paused \in BOOLEAN
          /\ run \in [Workers -> Memory]
          /\ nextLease \in Nat \ {0}
          /\ losses \in 0 .. MaxLosses
          /\ retries \in 0 .. MaxRetries

Init == /\ job = [j \in Jobs |-> Missing]
        /\ history = [j \in Jobs |-> <<>>]
        /\ paused = FALSE
        /\ run = [w \in Workers |-> Idle]
        /\ nextLease = 1
        /\ losses = 0
        /\ retries = 0

----------------
(* The table. *)

\* INSERT INTO automation_jobs: the rows of one transaction.
Enqueue(new) ==
  /\ \A j \in new : job[j].status = "absent"
  /\ job' = [j \in Jobs |-> IF j \in new THEN Fresh ELSE job[j]]
  /\ UNCHANGED <<history, paused, run, nextLease, losses, retries>>

\* The rows the SELECT ... FOR UPDATE SKIP LOCKED of claimJob can return.
Claimable(r) == /\ ~r.cancel
                /\ r.attempts < MaxAttempts
                /\ \/ r.status = "pending" /\ r.due
                   \/ r.status = "running" /\ r.expired

\* Mutant: exhausted rows of a lost worker are left running.
SweepableIfCancelled(r) == r.cancel /\ (r.status = "pending" \/ (r.status = "running" /\ r.expired))

\* The rows scheduleDueAutomations settles, and what it makes of them.
Sweepable(r) ==
  \/ r.status = "pending" /\ r.cancel
  \/ /\ r.status = "running" /\ r.expired
     /\ r.attempts >= MaxAttempts \/ r.cancel

Swept(r) == [r EXCEPT !.status = IF r.cancel THEN "cancelled" ELSE "failed",
                      !.finished = TRUE]

\* Its retention delete looks at finished_at, which some cancellations omit.
Expirable(r) == r.status \in Settled /\ r.finished

Sweep(old) ==
  /\ ~paused
  /\ \A j \in old : Expirable(job[j])
  /\ job' = [j \in Jobs |-> CASE Sweepable(job[j]) -> Swept(job[j])
                              [] j \in old         -> Deleted(job[j])
                              [] OTHER            -> job[j]]
  /\ UNCHANGED <<history, paused, run, nextLease, losses, retries>>

\* Time: the database clock passes lease_until, or run_after.
Expired(r) == [r EXCEPT !.expired = TRUE]
Ready(r)   == [r EXCEPT !.due = TRUE]

LeaseRunsOut(j) ==
  /\ job[j].status = "running" /\ ~job[j].expired
  /\ job' = [job EXCEPT ![j] = Expired(job[j])]
  /\ UNCHANGED <<history, paused, run, nextLease, losses, retries>>

BackoffEnds(j) ==
  /\ job[j].status = "pending" /\ ~job[j].due
  /\ job' = [job EXCEPT ![j] = Ready(job[j])]
  /\ UNCHANGED <<history, paused, run, nextLease, losses, retries>>

----------------
(* Requests. *)

CancelledRow(r) ==
  IF r.status = "pending"
  THEN [r EXCEPT !.cancel = TRUE, !.status = "cancelled", !.finished = TRUE]
  ELSE [r EXCEPT !.cancel = TRUE]

CancelJob(j) ==
  /\ job[j].status \in Open
  /\ job' = [job EXCEPT ![j] = CancelledRow(job[j])]
  /\ UNCHANGED <<history, paused, run, nextLease, losses, retries>>

\* Owners of a running export, Git sync, migration, inbound capture or RAG
\* index only raise the flag and leave the row to its worker or to the sweep;
\* a runbook cancellation does so whatever became of the row meanwhile.
Flagged(r) == [r EXCEPT !.cancel = TRUE]

FlagCancel(j) ==
  /\ job[j].status \in Open \cup Settled
  /\ job' = [job EXCEPT ![j] = Flagged(job[j])]
  /\ UNCHANGED <<history, paused, run, nextLease, losses, retries>>

\* Attachment extraction, agent and vector index requests withdraw a pending
\* row at once, without its finished_at.
WithdrawnRow(r) == [r EXCEPT !.cancel = TRUE,
                             !.status = IF r.status = "pending" THEN "cancelled" ELSE r.status]

Withdraw(j) ==
  /\ job[j].status \in Open
  /\ job' = [job EXCEPT ![j] = WithdrawnRow(job[j])]
  /\ UNCHANGED <<history, paused, run, nextLease, losses, retries>>

\* Mutant: a retry that does not give the attempts back.
RetriedOnOldBudget(r) == [r EXCEPT !.status = "pending", !.cancel = FALSE,
                                   !.due = TRUE, !.finished = FALSE]

\* Mutant: a retry of any settled job.
RetriableOnceSettled(r) == r.status \in Settled

Retriable(r)  == r.status \in {"failed", "cancelled"}
RetriedRow(r) == [r EXCEPT !.status = "pending", !.attempts = 0, !.cancel = FALSE,
                           !.due = TRUE, !.finished = FALSE]

RetryJob(j) ==
  /\ retries < MaxRetries
  /\ Retriable(job[j])
  /\ job' = [job EXCEPT ![j] = RetriedRow(job[j])]
  /\ retries' = retries + 1
  /\ UNCHANGED <<history, paused, run, nextLease, losses>>

SetPaused ==
  /\ paused' = ~paused
  /\ UNCHANGED <<job, history, run, nextLease, losses, retries>>

----------------
(* A worker goroutine: StartJobs, claimJob and runJob. *)

\* Mutants: the guard of the UPDATE without its lease, and without its status.
CurrentByStatus(w) == run[w].phase \in Busy /\ job[run[w].job].status = "running"
CurrentByLease(w)  == run[w].phase \in Busy /\ job[run[w].job].lease = run[w].lease

\* The row still names this worker's lease, as the UPDATE of runJob checks it.
Current(w) == /\ run[w].phase \in Busy
              /\ job[run[w].job].status = "running"
              /\ job[run[w].job].lease = run[w].lease

\* What changes in the memory of a worker.
At(m, p)          == [m EXCEPT !.phase = p]
Decided(m, p, v)  == [m EXCEPT !.phase = p, !.verdict = v]
Remembers(w, m)   == run' = [run EXCEPT ![w] = m]

\* The pause is read in a statement of its own, before the claim.
Poll(w) ==
  /\ run[w].phase = "idle" /\ ~paused
  /\ Remembers(w, At(run[w], "polled"))
  /\ UNCHANGED <<job, history, paused, nextLease, losses, retries>>

ClaimedRow(r) == [r EXCEPT !.status = "running", !.attempts = r.attempts + 1,
                           !.lease = nextLease, !.expired = FALSE]

Claimed(j) == [phase |-> "claimed", job |-> j, lease |-> nextLease,
               attempt |-> job[j].attempts + 1, verdict |-> "running"]

Claim(w, j) ==
  /\ run[w].phase = "polled" /\ Claimable(job[j])
  /\ job' = [job EXCEPT ![j] = ClaimedRow(job[j])]
  /\ Remembers(w, Claimed(j))
  /\ nextLease' = nextLease + 1
  /\ UNCHANGED <<history, paused, losses, retries>>

\* A row that another transaction has locked (SKIP LOCKED) counts as what that
\* transaction makes of it: one that is claimed, settled or cancelled.
ClaimNothing(w) ==
  /\ run[w].phase = "polled" /\ \A j \in Jobs : ~Claimable(job[j])
  /\ Remembers(w, Idle)
  /\ UNCHANGED <<job, history, paused, nextLease, losses, retries>>

\* Mutant: one attempt too many.
RetryVerdictLate(w) == IF run[w].attempt > MaxAttempts THEN "failed" ELSE "pending"

\* What runJob makes of an error that may be retried.
RetryVerdict(w) == IF run[w].attempt >= MaxAttempts THEN "failed" ELSE "pending"

\* workerPrincipal for owner and actor under their current rights: refused,
\* or the settings could not be read, or the handler starts.
Authorize(w) ==
  /\ run[w].phase = "claimed"
  /\ \/ Remembers(w, At(run[w], "running"))
     \/ \E v \in {"failed", RetryVerdict(w)} : Remembers(w, Decided(run[w], "finishing", v))
  /\ UNCHANGED <<job, history, paused, nextLease, losses, retries>>

\* The monitor of a running job ends its context once the row is no longer
\* this worker's to run.
MonitorStops(w) ==
  /\ run[w].phase = "running" /\ job[run[w].job].status # "deleted"
  /\ ~Current(w) \/ job[run[w].job].cancel
  /\ Remembers(w, At(run[w], "stopping"))
  /\ UNCHANGED <<job, history, paused, nextLease, losses, retries>>

\* The context ends after timeout_seconds, 30 seconds before the lease.
Deadline(w) ==
  /\ run[w].phase = "running"
  /\ Remembers(w, At(run[w], "stopping"))
  /\ UNCHANGED <<job, history, paused, nextLease, losses, retries>>

\* The monitor finds the API key or plugin grant revoked: whatever the handler
\* still returns, the attempt is reported as cancelled.
PolicyStops(w) ==
  /\ run[w].phase = "running"
  /\ Remembers(w, Decided(run[w], "stopping", "cancelled"))
  /\ UNCHANGED <<job, history, paused, nextLease, losses, retries>>

\* The handler returns a result, a permanent error (a panic and an oversized
\* result count as one) or an error that may be retried.
HandlerReturns(w) ==
  /\ run[w].phase \in {"running", "stopping"}
  /\ \E v \in {"succeeded", "failed", RetryVerdict(w)} :
       Remembers(w, Decided(run[w], "finishing",
                            IF run[w].verdict = "cancelled" THEN "cancelled" ELSE v))
  /\ UNCHANGED <<job, history, paused, nextLease, losses, retries>>

\* Mutant: the verdict overrules a cancellation requested meanwhile.
FinishedDespiteCancel(r, v) ==
  [r EXCEPT !.status = v, !.lease = NoLease, !.expired = FALSE,
            !.due = FALSE, !.finished = v # "pending"]

\* The row as the UPDATE of runJob leaves it for the verdict v.
FinishedRow(r, v) ==
  LET status == IF r.cancel THEN "cancelled" ELSE v IN
  [r EXCEPT !.status = status, !.lease = NoLease, !.expired = FALSE,
            !.due = FALSE, !.finished = status # "pending"]

AttemptRow(w) == [claim |-> run[w].lease, attempt |-> run[w].attempt,
                  status |-> FinishedRow(job[run[w].job], run[w].verdict).status]

\* The result and the attempt row are written in one transaction, or the
\* lease was lost and the result is dropped.
Finish(w) ==
  /\ run[w].phase = "finishing"
  /\ LET j == run[w].job IN
     IF Current(w)
     THEN /\ job' = [job EXCEPT ![j] = FinishedRow(job[j], run[w].verdict)]
          /\ history' = [history EXCEPT ![j] = Append(history[j], AttemptRow(w))]
     ELSE UNCHANGED <<job, history>>
  /\ Remembers(w, Idle)
  /\ UNCHANGED <<paused, nextLease, losses, retries>>

\* The process is lost, or the claim or the final transaction fails: the
\* goroutine forgets the job and only the lease remembers it.
Lose(w) ==
  /\ losses < MaxLosses
  /\ run[w].phase # "idle"
  /\ Remembers(w, Idle)
  /\ losses' = losses + 1
  /\ UNCHANGED <<job, history, paused, nextLease, retries>>

----------------
Table   == \/ \E new \in SUBSET Jobs : Enqueue(new)
           \/ \E old \in SUBSET Jobs : Sweep(old)
           \/ \E j \in Jobs : LeaseRunsOut(j) \/ BackoffEnds(j)
Request == \/ \E j \in Jobs : \/ CancelJob(j) \/ FlagCancel(j)
                              \/ Withdraw(j) \/ RetryJob(j)
           \/ SetPaused
Worker(w) == \/ Poll(w) \/ (\E j \in Jobs : Claim(w, j)) \/ ClaimNothing(w)
             \/ Authorize(w) \/ MonitorStops(w) \/ Deadline(w) \/ PolicyStops(w)
             \/ HandlerReturns(w) \/ Finish(w)

Next == Table \/ Request \/ \E w \in Workers : Worker(w) \/ Lose(w)

Spec == Init /\ [][Next]_vars

\* The tickers and the clock go on, and a handler returns once its context has
\* ended; before that nothing makes it return. Requests owe nothing.
Fairness ==
  /\ \A w \in Workers :
       /\ WF_vars(Poll(w)) /\ WF_vars(\E j \in Jobs : Claim(w, j))
       /\ WF_vars(ClaimNothing(w)) /\ WF_vars(Authorize(w)) /\ WF_vars(Deadline(w))
       /\ WF_vars(run[w].phase = "stopping" /\ HandlerReturns(w)) /\ WF_vars(Finish(w))
  /\ \A j \in Jobs : WF_vars(LeaseRunsOut(j)) /\ WF_vars(BackoffEnds(j))
  /\ WF_vars(Sweep({}))

FairSpec == Spec /\ Fairness

----------------
(* Properties. *)

\* At any moment at most one worker can pass the lease check that guards a
\* job's result and its effects, however many still execute the same job after
\* crashes, expiries, cancellations and retries (runJob, recordAutomationEffect).
SingleHolder == \A v, w \in Workers :
  Current(v) /\ Current(w) /\ run[v].job = run[w].job => v = w

\* The attempts of a job are recorded in the order they were claimed: a worker
\* that comes back after its lease was taken over never records its result
\* over a newer attempt (the guarded UPDATE of runJob).
HistoryInClaimOrder == \A j \in Jobs : \A m, n \in DOMAIN history[j] :
  m < n => history[j][m].claim < history[j][n].claim

\* No pending job is stranded: claimJob skips a row that has used its attempts
\* and the sweep only settles cancelled pending rows, so a row that is neither
\* would wait for ever (runJob, retryJob and claimJob agree on the budget).
NoStrandedJob == \A j \in Jobs :
  job[j].status = "pending" => job[j].cancel \/ job[j].attempts < MaxAttempts

\* A success is the last thing recorded for a job: no later attempt, retry or
\* late worker runs again what has succeeded.
SuccessIsLast == \A j \in Jobs : \A n \in DOMAIN history[j] :
  history[j][n].status = "succeeded"
    => n = Len(history[j]) /\ job[j].status \in {"succeeded", "deleted"}

\* The record of attempts can be relied on: in order, nothing after a success,
\* and a row that is to be tried again can be.
AttemptsStand == HistoryInClaimOrder /\ SuccessIsLast /\ NoStrandedJob

\* Once the cancellation of an open job has been requested no new attempt of
\* it starts and it can only become cancelled, whatever its worker reports.
CancelIsFinal == [][\A j \in Jobs :
  job[j].status \in Open /\ job[j].cancel
    => /\ job'[j].status \in {job[j].status, "cancelled"}
       /\ job'[j].attempts = job[j].attempts]_vars

\* If the queue is eventually left unpaused every job settles, whatever
\* processes were lost on the way ("SQL leases recover work after process loss").
EveryJobSettles ==
  <>[](~paused) => \A j \in Jobs : job[j].status \in Open ~> job[j].status \notin Open

\* The queue keeps the contract its users rely on: JobContract, with pending
\* and running rows open and the cancellation flag as the wish to stop.
Contract == INSTANCE JobContract WITH
  stage    <- [j \in Jobs |-> CASE job[j].status \in Open     -> "open"
                                [] job[j].status = "deleted"  -> "purged"
                                [] OTHER                      -> job[j].status],
  unwanted <- [j \in Jobs |-> job[j].cancel]
ContractSpec == Contract!Spec

----------------
(* Why the safety properties hold: what is true between any two steps. *)

\* Lease ids are older than the next one and workers hold different ones.
LeasesFresh ==
  /\ \A j \in Jobs : job[j].lease < nextLease
  /\ \A w \in Workers : run[w].phase \in Busy =>
       /\ run[w].job \in Jobs
       /\ run[w].lease # NoLease /\ run[w].lease < nextLease
  /\ \A v, w \in Workers :
       run[v].phase \in Busy /\ run[w].phase \in Busy /\ run[v].lease = run[w].lease
         => v = w

\* What a worker remembers of a job that is still its own is what the row says.
MemoryAgrees == \A w \in Workers :
  /\ Current(w) => run[w].attempt = job[run[w].job].attempts
  /\ run[w].phase = "finishing" =>
       /\ run[w].verdict # "running"
       /\ run[w].verdict = "pending" => run[w].attempt < MaxAttempts

\* A running row is under a lease newer than everything recorded for it.
RunningIsNewest == \A j \in Jobs :
  /\ job[j].status = "running" => job[j].lease # NoLease
  /\ \A n \in DOMAIN history[j] :
       /\ history[j][n].claim < nextLease
       /\ job[j].status = "running" => history[j][n].claim < job[j].lease

\* The inductive invariant: every safety property above follows from it.
IInv == /\ TypeOK /\ LeasesFresh /\ MemoryAgrees /\ RunningIsNewest
        /\ HistoryInClaimOrder /\ NoStrandedJob /\ SuccessIsLast
==============================================================================
