------------------------------- MODULE LeasedJob -------------------------------
(* What the handlers of a kind see of their job in the queue (jobs.go): the     *)
(* queue itself, with its workers, leases and retention, is JobQueue.           *)
EXTENDS Naturals

Unqueued  == [status |-> "none", attempts |-> 0, holder |-> "none", cancel |-> FALSE]
NewJob == [Unqueued EXCEPT !.status = "pending"]

JobIsOpen(job) == job.status \in {"pending", "running"}
MayClaim(job)  == job.status = "pending" /\ ~job.cancel
ClaimedBy(job, w) == [job EXCEPT !.status = "running", !.attempts = @ + 1, !.holder = w]

\* The context of a handler ends with its lease or with a cancellation.
LeasedBy(job, w) == job.status = "running" /\ job.holder = w /\ ~job.cancel

JobCancelled(job) == [job EXCEPT !.cancel = @ \/ JobIsOpen(job)]

Retried(job, limit) == IF job.attempts < limit THEN "pending" ELSE "failed"

\* The lease has run out: recovery ends the job or leaves it to the next claim.
JobLapsed(job, limit) ==
  [job EXCEPT !.holder = "none", !.status = IF job.cancel THEN "cancelled" ELSE Retried(job, limit)]

\* The end of an attempt, by the worker that still has the lease: "done",
\* "failed" (jobPermanent) or "retry".
JobSettled(job, w, result, limit) ==
  IF job.status # "running" \/ job.holder # w THEN job
  ELSE [job EXCEPT !.holder = "none",
          !.status = IF job.cancel THEN "cancelled" ELSE IF result = "retry" THEN Retried(job, limit) ELSE result]
=============================================================================
