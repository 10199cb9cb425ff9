--------------------------- MODULE WorkspaceProofs ---------------------------
(* Theorems about the job queue and the automations that run on it, for any   *)
(* number of jobs, workers and actions.                                       *)
(*                                                                            *)
(* The queue first: its inductive invariant, the fencing of results, the      *)
(* attempt budget, the finality of a cancellation, and that JobQueue          *)
(* implements JobContract. Then the executions of automation rules, whose     *)
(* steps are steps of the queue: every action once and in order, complete     *)
(* successes, at most one action after the rule changed, none after a         *)
(* cancellation. Then the public shares, the rights of readers and the        *)
(* proposals of a workspace, whose promises are about single steps.           *)
EXTENDS MCWorkspace, FiniteSetTheorems, TLAPS

(****************************** The job queue *******************************)

LEMMA Bounds == 0 \in 0 .. MaxAttempts /\ 0 \in 0 .. MaxLosses /\ 0 \in 0 .. MaxRetries
  BY BoundsAssumption

\* What each statement makes of a row is a row.
LEMMA RowOperations ==
  ASSUME NEW r \in Row
  PROVE  /\ Deleted(r) \in Row /\ Swept(r) \in Row /\ CancelledRow(r) \in Row
         /\ Flagged(r) \in Row /\ WithdrawnRow(r) \in Row /\ RetriedRow(r) \in Row
         /\ Expired(r) \in Row /\ Ready(r) \in Row
<1> USE Bounds DEF Row, Status, Open, Settled
<1>1. Deleted(r) \in Row /\ Flagged(r) \in Row BY DEF Deleted, Flagged
<1>2. Swept(r) \in Row BY DEF Swept
<1>3. CancelledRow(r) \in Row BY DEF CancelledRow
<1>4. WithdrawnRow(r) \in Row BY DEF WithdrawnRow
<1>5. RetriedRow(r) \in Row BY DEF RetriedRow
<1>6. Expired(r) \in Row /\ Ready(r) \in Row BY DEF Expired, Ready
<1>7. QED BY <1>1, <1>2, <1>3, <1>4, <1>5, <1>6

LEMMA FreshRow == Missing \in Row /\ Fresh \in Row
  BY Bounds DEF Missing, Fresh, Row, Status, Open, Settled, NoLease

LEMMA IdleMemory == Idle \in Memory
  BY Bounds DEF Idle, Memory, Phase, Busy, Open, Settled, NoLease

LEMMA ClaimTypes ==
  ASSUME NEW j \in Jobs, job[j] \in Row, Claimable(job[j]), nextLease \in Nat
  PROVE  ClaimedRow(job[j]) \in Row /\ Claimed(j) \in Memory
<1>1. job[j].attempts + 1 \in 0 .. MaxAttempts BY BoundsAssumption DEF Row, Claimable
<1>2. ClaimedRow(job[j]) \in Row BY <1>1 DEF ClaimedRow, Row, Status, Open
<1>3. QED BY <1>1, <1>2 DEF Claimed, Memory, Phase, Busy, Open

LEMMA ClaimFields ==
  ASSUME NEW r \in Row
  PROVE  /\ ClaimedRow(r).status = "running" /\ ClaimedRow(r).lease = nextLease
         /\ ClaimedRow(r).attempts = r.attempts + 1 /\ ClaimedRow(r).cancel = r.cancel
  BY DEF ClaimedRow, Row

LEMMA FinishTypes ==
  ASSUME NEW r \in Row, NEW v \in Open \cup Settled
  PROVE  FinishedRow(r, v) \in Row
  BY DEF FinishedRow, Row, Status, Open, Settled, NoLease

\* A handler's step changes no more than phase and verdict of a memory.
LEMMA MemoryOperations ==
  ASSUME NEW m \in Memory, NEW p \in Phase
  PROVE  /\ At(m, p) \in Memory
         /\ \A v \in Open \cup Settled : Decided(m, p, v) \in Memory
  BY DEF At, Decided, Memory

LEMMA InitTypeOK == Init => TypeOK
<1> SUFFICES ASSUME Init PROVE TypeOK
  OBVIOUS
<1>1. job \in [Jobs -> Row] /\ run \in [Workers -> Memory] BY FreshRow, IdleMemory DEF Init
<1>2. history \in [Jobs -> Seq(Attempt)] BY DEF Init
<1>3. paused \in BOOLEAN BY Zenon DEF Init
<1>4. nextLease \in Nat \ {0} /\ losses \in 0 .. MaxLosses /\ retries \in 0 .. MaxRetries
  BY Bounds DEF Init
<1>5. QED BY <1>1, <1>2, <1>3, <1>4 DEF TypeOK

LEMMA NextTypeOK == TypeOK /\ [Next]_vars => TypeOK'
<1> SUFFICES ASSUME TypeOK, [Next]_vars PROVE TypeOK'
  OBVIOUS
<1> USE DEF TypeOK
<1>1. ASSUME NEW new \in SUBSET Jobs, Enqueue(new) PROVE TypeOK' BY <1>1, FreshRow DEF Enqueue
<1>2. ASSUME NEW old \in SUBSET Jobs, Sweep(old) PROVE TypeOK' BY <1>2, RowOperations DEF Sweep
<1>3. ASSUME NEW j \in Jobs, LeaseRunsOut(j) \/ BackoffEnds(j) PROVE TypeOK'
  BY <1>3, RowOperations DEF LeaseRunsOut, BackoffEnds
<1>4. ASSUME NEW j \in Jobs, CancelJob(j) \/ FlagCancel(j) \/ Withdraw(j) PROVE TypeOK'
  BY <1>4, RowOperations DEF CancelJob, FlagCancel, Withdraw
<1>5. ASSUME NEW j \in Jobs, RetryJob(j) PROVE TypeOK'
  <2>1. retries' \in 0 .. MaxRetries BY <1>5, BoundsAssumption DEF RetryJob
  <2>2. QED BY <1>5, <2>1, RowOperations DEF RetryJob
<1>6. ASSUME SetPaused PROVE TypeOK' BY <1>6 DEF SetPaused
<1>7. ASSUME NEW w \in Workers, Poll(w) \/ ClaimNothing(w) PROVE TypeOK'
  BY <1>7, IdleMemory, MemoryOperations DEF Poll, ClaimNothing, Remembers, Phase
<1>8. ASSUME NEW w \in Workers, NEW j \in Jobs, Claim(w, j) PROVE TypeOK'
  BY <1>8, ClaimTypes DEF Claim, Remembers
<1>9. ASSUME NEW w \in Workers,
             Authorize(w) \/ MonitorStops(w) \/ Deadline(w) \/ PolicyStops(w)
      PROVE TypeOK'
  BY <1>9, MemoryOperations DEF Authorize, RetryVerdict, MonitorStops, Deadline,
     PolicyStops, Remembers, Phase, Busy, Open, Settled
<1>10. ASSUME NEW w \in Workers, HandlerReturns(w) PROVE TypeOK'
  BY <1>10, MemoryOperations DEF HandlerReturns, Remembers, RetryVerdict, Phase, Busy, Open, Settled
<1>11. ASSUME NEW w \in Workers, Finish(w) PROVE TypeOK'
  <2>1. /\ run[w].verdict \in Open \cup Settled
        /\ run[w].lease \in Nat /\ run[w].attempt \in 0 .. MaxAttempts
    BY DEF Memory
  <2>2. ASSUME run[w].job \in Jobs
        PROVE  /\ FinishedRow(job[run[w].job], run[w].verdict) \in Row
               /\ AttemptRow(w) \in Attempt
    <3>1. FinishedRow(job[run[w].job], run[w].verdict) \in Row BY <2>1, <2>2, FinishTypes
    <3>2. QED BY <2>1, <3>1 DEF AttemptRow, Attempt, Row
  <2>3. job' \in [Jobs -> Row] /\ history' \in [Jobs -> Seq(Attempt)]
    <3>1. CASE run[w].job \in Jobs /\ Current(w)
      <4>1. Append(history[run[w].job], AttemptRow(w)) \in Seq(Attempt) BY <2>2, <3>1
      <4>2. QED BY <1>11, <2>2, <3>1, <4>1 DEF Finish
    <3>2. CASE run[w].job \notin Jobs BY <1>11, <3>2 DEF Finish
    <3>3. CASE ~Current(w) BY <1>11, <3>3 DEF Finish
    <3>4. QED BY <3>1, <3>2, <3>3
  <2>4. QED BY <1>11, <2>3, IdleMemory DEF Finish, Remembers
<1>12. ASSUME NEW w \in Workers, Lose(w) PROVE TypeOK'
  BY <1>12, IdleMemory, BoundsAssumption DEF Lose, Remembers
<1>13. CASE UNCHANGED vars BY <1>13 DEF vars
<1>14. QED
  BY <1>1, <1>2, <1>3, <1>4, <1>5, <1>6, <1>7, <1>8, <1>9, <1>10, <1>11, <1>12,
     <1>13 DEF Next, Table, Request, Worker

\* Every reachable state has well-typed rows, histories and memories.
THEOREM TypeCorrect == Spec => []TypeOK
  BY InitTypeOK, NextTypeOK, PTL DEF Spec

----------------
\* Statements that touch rows but no worker: what they cannot do to a row.
Quiet(r, s) ==
  /\ s.lease \in {r.lease, NoLease}
  /\ s.status = "running" =>
       r.status = "running" /\ s.lease = r.lease /\ s.attempts = r.attempts
  /\ s.status = "pending" => s.cancel \/ s.attempts < MaxAttempts
  /\ r.status \in {"succeeded", "deleted"} => s.status \in {"succeeded", "deleted"}

\* Every row operation of the table and of the requests is quiet where its
\* guard lets it happen.
LEMMA QuietOperations ==
  ASSUME NEW r \in Row,
         r.status = "pending" => r.cancel \/ r.attempts < MaxAttempts
  PROVE  /\ Quiet(r, r)
         /\ r.status = "absent" => Quiet(r, Fresh)
         /\ Sweepable(r) => Quiet(r, Swept(r))
         /\ r.status \in Settled => Quiet(r, Deleted(r))
         /\ Quiet(r, Expired(r)) /\ Quiet(r, Ready(r)) /\ Quiet(r, Flagged(r))
         /\ r.status \in Open => Quiet(r, CancelledRow(r)) /\ Quiet(r, WithdrawnRow(r))
         /\ r.status \in {"failed", "cancelled"} => Quiet(r, RetriedRow(r))
<1> USE DEF Quiet, Row, Status, Open, Settled
<1>1. Quiet(r, r)
  OBVIOUS
<1>2. r.status = "absent" => Quiet(r, Fresh) BY BoundsAssumption DEF Fresh, Missing, NoLease
<1>3. Sweepable(r) => Quiet(r, Swept(r)) BY DEF Sweepable, Swept
<1>4. r.status \in Settled => Quiet(r, Deleted(r)) BY DEF Deleted
<1>5. Quiet(r, Expired(r)) /\ Quiet(r, Ready(r)) /\ Quiet(r, Flagged(r))
  BY DEF Expired, Ready, Flagged
<1>6. r.status \in Open => Quiet(r, CancelledRow(r)) /\ Quiet(r, WithdrawnRow(r))
  BY DEF CancelledRow, WithdrawnRow
<1>7. r.status \in {"failed", "cancelled"} => Quiet(r, RetriedRow(r))
  BY BoundsAssumption DEF RetriedRow
<1>8. QED BY <1>1, <1>2, <1>3, <1>4, <1>5, <1>6, <1>7

QuietTable == /\ \A j \in Jobs : Quiet(job[j], job'[j])
              /\ UNCHANGED <<history, run, nextLease>>

LEMMA TableIsQuiet ==
  ASSUME TypeOK, NoStrandedJob, Table \/ Request
  PROVE  QuietTable
<1> USE QuietOperations DEF TypeOK, NoStrandedJob, QuietTable
<1>1. ASSUME NEW new \in SUBSET Jobs, Enqueue(new) PROVE QuietTable BY <1>1 DEF Enqueue
<1>2. ASSUME NEW old \in SUBSET Jobs, Sweep(old) PROVE QuietTable
  <2>1. ASSUME NEW j \in Jobs PROVE Quiet(job[j], job'[j])
    <3>1. job[j] \in Row /\ (j \in old => job[j].status \in Settled) BY <1>2 DEF Sweep, Expirable
    <3>2. \/ Sweepable(job[j]) /\ job'[j] = Swept(job[j])
          \/ j \in old /\ job'[j] = Deleted(job[j])
          \/ job'[j] = job[j]
      BY <1>2 DEF Sweep
    <3>3. QED BY <3>1, <3>2
  <2>2. QED BY <1>2, <2>1 DEF Sweep
<1>3. ASSUME NEW j \in Jobs, LeaseRunsOut(j) \/ BackoffEnds(j) PROVE QuietTable
  BY <1>3 DEF LeaseRunsOut, BackoffEnds
<1>4. ASSUME NEW j \in Jobs, CancelJob(j) \/ FlagCancel(j) \/ Withdraw(j) PROVE QuietTable
  BY <1>4 DEF CancelJob, FlagCancel, Withdraw
<1>5. ASSUME NEW j \in Jobs, RetryJob(j) PROVE QuietTable BY <1>5 DEF RetryJob, Retriable
<1>6. ASSUME SetPaused PROVE QuietTable BY <1>6 DEF SetPaused
<1>7. QED BY <1>1, <1>2, <1>3, <1>4, <1>5, <1>6 DEF Table, Request

\* A quiet step keeps the invariant: leases and histories stay as they are and
\* no row starts running.
LEMMA QuietKeepsIInv ==
  ASSUME IInv, TypeOK', QuietTable
  PROVE  IInv'
<1> USE DEF IInv, QuietTable, Quiet
<1>1. LeasesFresh'
  <2>1. NoLease < nextLease BY DEF TypeOK, NoLease
  <2>2. QED BY <2>1 DEF LeasesFresh
<1>2. MemoryAgrees' BY DEF MemoryAgrees, Current, LeasesFresh
<1>3. RunningIsNewest' BY DEF RunningIsNewest
<1>4. HistoryInClaimOrder' /\ NoStrandedJob' /\ SuccessIsLast'
  BY DEF HistoryInClaimOrder, NoStrandedJob, SuccessIsLast
<1>5. QED BY <1>1, <1>2, <1>3, <1>4

----------------
\* Steps inside a worker: it drops its job or goes on with the same one.
GoesOn(m, n) ==
  n.phase \in Busy =>
    /\ m.phase \in Busy
    /\ n.job = m.job /\ n.lease = m.lease /\ n.attempt = m.attempt
    /\ n.phase = "finishing" =>
         /\ n.verdict # "running"
         /\ n.verdict = "pending" => n.attempt < MaxAttempts

QuietWorkers == /\ \A w \in Workers : run'[w] = run[w] \/ GoesOn(run[w], run'[w])
                /\ UNCHANGED <<job, history, nextLease>>

Inside(w) == \/ Poll(w) \/ ClaimNothing(w) \/ Authorize(w) \/ MonitorStops(w)
             \/ Deadline(w) \/ PolicyStops(w) \/ HandlerReturns(w) \/ Lose(w)

LEMMA MemoryGoesOn ==
  ASSUME NEW m \in Memory
  PROVE  /\ GoesOn(m, Idle) /\ GoesOn(m, At(m, "polled"))
         /\ m.phase \in Busy =>
              /\ GoesOn(m, At(m, "running")) /\ GoesOn(m, At(m, "stopping"))
              /\ \A v : GoesOn(m, Decided(m, "stopping", v))
              /\ \A v \in {"succeeded", "failed", "cancelled"} :
                    GoesOn(m, Decided(m, "finishing", v))
              /\ m.attempt < MaxAttempts => GoesOn(m, Decided(m, "finishing", "pending"))
  BY DEF GoesOn, Idle, At, Decided, Memory, Phase, Busy

LEMMA InsideIsQuiet ==
  ASSUME TypeOK, NEW w \in Workers, Inside(w)
  PROVE  QuietWorkers
<1> USE MemoryGoesOn DEF TypeOK, QuietWorkers, Remembers
<1>1. CASE Poll(w) BY <1>1 DEF Poll
<1>2. CASE ClaimNothing(w) BY <1>2 DEF ClaimNothing
<1>3. ASSUME NEW v \in {"failed", "succeeded", RetryVerdict(w)}, run[w].phase \in Busy
      PROVE  GoesOn(run[w], Decided(run[w], "finishing", v))
  <2>1. run[w].attempt \in Nat /\ MaxAttempts \in Nat BY BoundsAssumption DEF Memory
  <2>2. \/ RetryVerdict(w) = "failed"
        \/ RetryVerdict(w) = "pending" /\ run[w].attempt < MaxAttempts
    BY <2>1 DEF RetryVerdict
  <2>3. QED BY <1>3, <2>2
<1>4. CASE Authorize(w) BY <1>3, <1>4 DEF Authorize, Busy
<1>5. CASE MonitorStops(w) \/ Deadline(w) \/ PolicyStops(w)
  BY <1>5 DEF MonitorStops, Deadline, PolicyStops, Busy
<1>6. CASE HandlerReturns(w) BY <1>3, <1>6 DEF HandlerReturns, Busy
<1>7. CASE Lose(w) BY <1>7 DEF Lose
<1>8. QED BY <1>1, <1>2, <1>4, <1>5, <1>6, <1>7 DEF Inside

LEMMA InsideKeepsIInv ==
  ASSUME IInv, TypeOK', QuietWorkers
  PROVE  IInv'
<1> USE DEF IInv, QuietWorkers, GoesOn
<1>1. LeasesFresh' BY DEF LeasesFresh
<1>2. MemoryAgrees'
  <2>1. ASSUME NEW w \in Workers
        PROVE  /\ Current(w)' => run'[w].attempt = job[run'[w].job].attempts
               /\ run'[w].phase = "finishing" =>
                    /\ run'[w].verdict # "running"
                    /\ run'[w].verdict = "pending" => run'[w].attempt < MaxAttempts
    <3>1. CASE run'[w] = run[w] BY <3>1 DEF MemoryAgrees, Current
    <3>2. CASE GoesOn(run[w], run'[w])
      <4>1. Current(w)' => Current(w) BY <3>2 DEF Current
      <4>2. run'[w].phase = "finishing" => run'[w].phase \in Busy BY DEF Busy
      <4>3. Current(w)' => run'[w].job = run[w].job /\ run'[w].attempt = run[w].attempt
        BY <3>2 DEF Current
      <4>4. Current(w)' => run'[w].attempt = job[run'[w].job].attempts
        BY <4>1, <4>3 DEF MemoryAgrees
      <4>5. QED BY <3>2, <4>2, <4>4
    <3>3. QED BY <3>1, <3>2
  <2>2. QED BY <2>1 DEF MemoryAgrees
<1>3. RunningIsNewest' /\ HistoryInClaimOrder' /\ NoStrandedJob' /\ SuccessIsLast'
  BY DEF RunningIsNewest, HistoryInClaimOrder, NoStrandedJob, SuccessIsLast
<1>4. QED BY <1>1, <1>2, <1>3

----------------
\* A claim starts a row under a lease nobody has seen.
LEMMA ClaimKeepsIInv ==
  ASSUME IInv, TypeOK', NEW w \in Workers, NEW j \in Jobs, Claim(w, j)
  PROVE  IInv'
<1> USE DEF IInv, Claim, Remembers
<1>0. /\ job[j] \in Row /\ nextLease \in Nat /\ nextLease # NoLease
      /\ nextLease' = nextLease + 1 /\ history' = history
  <2>1. job[j] \in Row /\ nextLease \in Nat /\ nextLease # NoLease BY DEF TypeOK, NoLease
  <2>2. nextLease' = nextLease + 1 /\ history' = history
    OBVIOUS
  <2>3. QED BY <2>1, <2>2
<1>1. /\ \A i \in Jobs : i # j => job'[i] = job[i]
      /\ \A v \in Workers : v # w => run'[v] = run[v]
      /\ run'[w] = Claimed(j) /\ job'[j] = ClaimedRow(job[j])
  BY DEF TypeOK
<1>2. /\ job'[j].status = "running" /\ job'[j].lease = nextLease
      /\ job'[j].attempts = job[j].attempts + 1
  BY <1>0, <1>1, ClaimFields
<1>3. /\ run'[w].phase = "claimed" /\ run'[w].phase \in Busy /\ run'[w].job = j
      /\ run'[w].lease = nextLease /\ run'[w].attempt = job[j].attempts + 1
  BY <1>1 DEF Claimed, Busy
<1>4. LeasesFresh'
  <2>1. \A i \in Jobs : job[i].lease \in Nat BY DEF TypeOK, Row
  <2>2. \A v \in Workers : run[v].lease \in Nat BY DEF TypeOK, Memory
  <2>3. \A i \in Jobs : job'[i].lease < nextLease' BY <1>0, <1>1, <1>2, <2>1 DEF LeasesFresh
  <2>4. ASSUME NEW v \in Workers, run'[v].phase \in Busy
        PROVE  /\ run'[v].job \in Jobs
               /\ run'[v].lease # NoLease /\ run'[v].lease < nextLease'
    BY <1>0, <1>1, <1>3, <2>2, <2>4 DEF LeasesFresh
  <2>5. ASSUME NEW u \in Workers, NEW v \in Workers,
               run'[u].phase \in Busy, run'[v].phase \in Busy,
               run'[u].lease = run'[v].lease
        PROVE  u = v
    BY <1>0, <1>1, <1>3, <2>2, <2>5 DEF LeasesFresh
  <2>6. QED BY <2>3, <2>4, <2>5 DEF LeasesFresh
<1>5. MemoryAgrees'
  <2>1. ASSUME NEW v \in Workers, Current(v)'
        PROVE  run'[v].attempt = job'[run'[v].job].attempts
    <3>1. CASE v = w BY <3>1, <1>2, <1>3
    <3>2. CASE v # w /\ run[v].job = j
      \* impossible: the row now carries a lease that v cannot hold
      BY <2>1, <3>2, <1>0, <1>1, <1>2 DEF Current, LeasesFresh
    <3>3. CASE v # w /\ run[v].job # j BY <2>1, <3>3, <1>1 DEF Current, LeasesFresh, MemoryAgrees
    <3>4. QED BY <3>1, <3>2, <3>3
  <2>2. ASSUME NEW v \in Workers, run'[v].phase = "finishing"
        PROVE  /\ run'[v].verdict # "running"
               /\ run'[v].verdict = "pending" => run'[v].attempt < MaxAttempts
    BY <2>2, <1>1, <1>3 DEF MemoryAgrees
  <2>3. QED BY <2>1, <2>2 DEF MemoryAgrees
<1>6. RunningIsNewest'
  <2>1. ASSUME NEW i \in Jobs, NEW n \in DOMAIN history[i]
        PROVE  history[i][n].claim \in Nat
    <3>1. history[i] \in Seq(Attempt) BY DEF TypeOK
    <3>2. history[i][n] \in Attempt BY <3>1
    <3>3. QED BY <3>2 DEF Attempt
  <2>2. QED BY <1>0, <1>1, <1>2, <2>1 DEF RunningIsNewest
<1>7. HistoryInClaimOrder' /\ NoStrandedJob' /\ SuccessIsLast'
  <2>1. job[j].status \in Open BY DEF Claimable, Open
  <2>2. QED BY <1>0, <1>1, <1>2, <2>1 DEF HistoryInClaimOrder, NoStrandedJob, SuccessIsLast, Open
<1>8. QED BY <1>4, <1>5, <1>6, <1>7

\* A finished worker settles its own row, newest in the history, or nothing.
LEMMA FinishKeepsIInv ==
  ASSUME IInv, TypeOK', NEW w \in Workers, Finish(w)
  PROVE  IInv'
<1> USE DEF IInv
<1>1. /\ \A v \in Workers : v # w => run'[v] = run[v]
      /\ run'[w] = Idle /\ nextLease' = nextLease
  BY DEF Finish, Remembers, TypeOK
<1>2. CASE ~Current(w)
  <2>1. job' = job /\ history' = history BY <1>2 DEF Finish
  <2>2. GoesOn(run[w], run'[w]) BY <1>1 DEF GoesOn, Idle, Busy
  <2>3. QuietWorkers BY <1>1, <2>1, <2>2 DEF QuietWorkers
  <2>4. QED BY <2>3, InsideKeepsIInv
<1>3. CASE Current(w)
  <2> DEFINE j == run[w].job
             s == FinishedRow(job[j], run[w].verdict)
             a == AttemptRow(w)
  <2>1. /\ run[w].phase = "finishing" /\ run[w].phase \in Busy /\ j \in Jobs
        /\ job[j].status = "running" /\ job[j].lease = run[w].lease
        /\ job[j] \in Row /\ history[j] \in Seq(Attempt)
    BY <1>3 DEF Finish, Current, Busy, LeasesFresh, TypeOK
  <2>2. job' = [job EXCEPT ![j] = s] /\ history' = [history EXCEPT ![j] = Append(history[j], a)]
    BY <1>3 DEF Finish
  <2>3. /\ job'[j] = s /\ history'[j] = Append(history[j], a)
        /\ \A i \in Jobs : i # j => job'[i] = job[i] /\ history'[i] = history[i]
    BY <2>1, <2>2 DEF TypeOK
  <2>4. /\ run[w].verdict \in Open \cup Settled /\ run[w].verdict # "running"
        /\ run[w].verdict = "pending" => job[j].attempts < MaxAttempts
    <3>1. run[w].verdict \in Open \cup Settled BY DEF TypeOK, Memory
    <3>2. QED BY <1>3, <2>1, <3>1 DEF MemoryAgrees
  <2>5. /\ s.status # "running" /\ s.lease = NoLease
        /\ s.status = "pending" => s.attempts < MaxAttempts
    BY <2>1, <2>4 DEF FinishedRow, Row, Open, Settled
  <2>6. a.claim = job[j].lease /\ a.status = s.status BY <2>1 DEF AttemptRow
  <2>7. ASSUME NEW i \in Jobs, NEW n \in DOMAIN history[i]
        PROVE  history[i][n].claim \in Nat
    <3>1. history[i] \in Seq(Attempt) BY DEF TypeOK
    <3>2. history[i][n] \in Attempt BY <3>1
    <3>3. QED BY <3>2 DEF Attempt
  <2>8. /\ DOMAIN history'[j] = DOMAIN history[j] \cup {Len(history[j]) + 1}
        /\ Len(history'[j]) = Len(history[j]) + 1
        /\ history'[j][Len(history[j]) + 1] = a
        /\ \A n \in DOMAIN history[j] : history'[j][n] = history[j][n] /\ n < Len(history[j]) + 1
    BY <2>1, <2>3
  <2>9. nextLease \in Nat /\ NoLease < nextLease /\ job[j].lease \in Nat /\ job[j].lease < nextLease
    BY <2>1 DEF TypeOK, Row, NoLease, LeasesFresh
  <2>10. LeasesFresh'
    <3>1. run'[w].phase \notin Busy BY <1>1 DEF Idle, Busy
    <3>2. \A i \in Jobs : job'[i].lease < nextLease' BY <1>1, <2>3, <2>5, <2>9 DEF LeasesFresh
    <3>3. QED BY <1>1, <3>1, <3>2 DEF LeasesFresh
  <2>11. MemoryAgrees'
    <3>1. run'[w].phase \notin Busy /\ run'[w].phase # "finishing" BY <1>1 DEF Idle, Busy
    <3>2. ASSUME NEW v \in Workers, v # w, Current(v)'
          PROVE  run'[v].attempt = job'[run'[v].job].attempts
      <4>1. run[v] = run'[v] /\ run[v].phase \in Busy /\ run[v].job \in Jobs
        BY <1>1, <3>2 DEF Current, LeasesFresh
      <4>2. run[v].job # j BY <2>3, <2>5, <3>2, <4>1 DEF Current
      <4>3. QED BY <2>3, <3>2, <4>1, <4>2 DEF Current, MemoryAgrees
    <3>3. QED BY <1>1, <3>1, <3>2 DEF MemoryAgrees, Current
  <2>12. RunningIsNewest'
    <3>1. ASSUME NEW n \in DOMAIN history'[j] PROVE history'[j][n].claim < nextLease'
      BY <1>1, <2>1, <2>6, <2>8, <2>9 DEF RunningIsNewest
    <3>2. QED BY <1>1, <2>3, <2>5, <3>1, SMTT(20) DEF RunningIsNewest
  <2>13. HistoryInClaimOrder'
    <3>1. ASSUME NEW m \in DOMAIN history'[j], NEW n \in DOMAIN history'[j], m < n
          PROVE  history'[j][m].claim < history'[j][n].claim
      <4>1. m \in Nat /\ n \in Nat /\ Len(history[j]) \in Nat BY <2>1, <2>8
      <4>2. CASE n \in DOMAIN history[j]
        <5>1. m \in DOMAIN history[j] BY <2>1, <2>8, <3>1, <4>1, <4>2
        <5>2. QED BY <2>1, <2>8, <3>1, <4>2, <5>1 DEF HistoryInClaimOrder
      <4>3. CASE n = Len(history[j]) + 1
        <5>1. m \in DOMAIN history[j] BY <2>8, <3>1, <4>1, <4>3
        <5>2. QED BY <2>1, <2>6, <2>8, <4>3, <5>1 DEF RunningIsNewest
      <4>4. QED BY <2>8, <4>2, <4>3
    <3>2. QED BY <2>3, <3>1 DEF HistoryInClaimOrder
  <2>14. NoStrandedJob' BY <2>3, <2>5 DEF NoStrandedJob
  <2>15. SuccessIsLast'
    <3>1. ASSUME NEW n \in DOMAIN history'[j], history'[j][n].status = "succeeded"
          PROVE  n = Len(history'[j]) /\ job'[j].status \in {"succeeded", "deleted"}
      BY <2>1, <2>3, <2>6, <2>8, <3>1, SMTT(20) DEF SuccessIsLast
    <3>2. QED BY <2>3, <3>1 DEF SuccessIsLast
  <2>16. QED BY <2>10, <2>11, <2>12, <2>13, <2>14, <2>15
<1>4. QED BY <1>2, <1>3

LEMMA InitIInv == Init => IInv
<1> SUFFICES ASSUME Init PROVE IInv
  OBVIOUS
<1>1. TypeOK BY InitTypeOK
<1>2. /\ \A j \in Jobs : job[j] = Missing /\ history[j] = <<>>
      /\ \A w \in Workers : run[w] = Idle
      /\ nextLease = 1
  BY DEF Init
<1>3. LeasesFresh BY <1>2 DEF LeasesFresh, Missing, Idle, Busy, NoLease
<1>4. MemoryAgrees BY <1>2 DEF MemoryAgrees, Current, Idle, Busy
<1>5. RunningIsNewest /\ HistoryInClaimOrder /\ NoStrandedJob /\ SuccessIsLast
  BY <1>2 DEF RunningIsNewest, HistoryInClaimOrder, NoStrandedJob, SuccessIsLast, Missing
<1>6. QED BY <1>1, <1>3, <1>4, <1>5 DEF IInv

\* Every step is quiet for the table, stays inside a worker, claims, finishes
\* or stutters.
LEMMA NextCases ==
  ASSUME [Next]_vars
  PROVE  \/ Table \/ Request
         \/ \E w \in Workers : Inside(w)
         \/ \E w \in Workers, j \in Jobs : Claim(w, j)
         \/ \E w \in Workers : Finish(w)
         \/ UNCHANGED vars
  BY DEF Next, Worker, Inside

LEMMA NextIInv == IInv /\ [Next]_vars => IInv'
<1> SUFFICES ASSUME IInv, [Next]_vars PROVE IInv'
  OBVIOUS
<1>1. TypeOK /\ TypeOK' BY NextTypeOK DEF IInv
<1>2. CASE Table \/ Request BY <1>1, <1>2, TableIsQuiet, QuietKeepsIInv DEF IInv
<1>3. ASSUME NEW w \in Workers, Inside(w) PROVE IInv' BY <1>1, <1>3, InsideIsQuiet, InsideKeepsIInv
<1>4. ASSUME NEW w \in Workers, NEW j \in Jobs, Claim(w, j) PROVE IInv'
  BY <1>1, <1>4, ClaimKeepsIInv
<1>5. ASSUME NEW w \in Workers, Finish(w) PROVE IInv' BY <1>1, <1>5, FinishKeepsIInv
<1>6. CASE UNCHANGED vars
  <2>1. QuietWorkers BY <1>6 DEF QuietWorkers, vars
  <2>2. QED BY <1>1, <2>1, InsideKeepsIInv
<1>7. QED BY <1>2, <1>3, <1>4, <1>5, <1>6, NextCases

\* The inductive invariant holds in every reachable state.
THEOREM Invariance == Spec => []IInv
  BY InitIInv, NextIInv, PTL DEF Spec

\* At most one worker passes the lease check of a job (recordAutomationEffect).
THEOREM LeaseFences == Spec => []SingleHolder
<1>1. IInv => SingleHolder BY DEF IInv, LeasesFresh, SingleHolder, Current
<1>2. QED BY <1>1, Invariance, PTL

\* Results are recorded in the order of the claims (the guarded UPDATE of runJob).
THEOREM LateResultsDropped == Spec => []HistoryInClaimOrder
<1>1. IInv => HistoryInClaimOrder BY DEF IInv
<1>2. QED BY <1>1, Invariance, PTL

\* A pending job can always be claimed or is about to be swept (claimJob, runJob).
THEOREM BudgetNeverStrands == Spec => []NoStrandedJob
<1>1. IInv => NoStrandedJob BY DEF IInv
<1>2. QED BY <1>1, Invariance, PTL

\* Nothing is recorded, and nothing runs, after a success (runJob, retryJob).
THEOREM SuccessStands == Spec => []SuccessIsLast
<1>1. IInv => SuccessIsLast BY DEF IInv
<1>2. QED BY <1>1, Invariance, PTL

----------------
\* What a step does to one row, told by its status and cancellation flag only.
RowStep(r, s) ==
  \/ s.status = r.status /\ s.cancel = r.cancel /\ s.attempts = r.attempts
  \/ r.status = "absent" /\ s = Fresh
  \/ r.status \in Open \cup Settled /\ s = Flagged(r)
  \/ r.status \in Open /\ s \in {CancelledRow(r), WithdrawnRow(r)}
  \/ r.status \in {"failed", "cancelled"} /\ s = RetriedRow(r)
  \/ Sweepable(r) /\ s = Swept(r)
  \/ r.status \in Settled /\ s = Deleted(r)
  \/ Claimable(r) /\ s = ClaimedRow(r)
  \/ \E v \in {"pending"} \cup Settled : r.status = "running" /\ s = FinishedRow(r, v)

LEMMA EveryRowSteps ==
  ASSUME IInv, [Next]_vars, NEW j \in Jobs
  PROVE  RowStep(job[j], job'[j])
<1>0. job[j] \in Row /\ job \in [Jobs -> Row] BY DEF IInv, TypeOK
<1>1. ASSUME NEW new \in SUBSET Jobs, Enqueue(new) PROVE RowStep(job[j], job'[j])
  BY <1>1 DEF Enqueue, RowStep
<1>2. ASSUME NEW old \in SUBSET Jobs, Sweep(old) PROVE RowStep(job[j], job'[j])
  <2>1. \/ Sweepable(job[j]) /\ job'[j] = Swept(job[j])
        \/ j \in old /\ job[j].status \in Settled /\ job'[j] = Deleted(job[j])
        \/ job'[j] = job[j]
    BY <1>2 DEF Sweep, Expirable
  <2>2. QED BY <2>1 DEF RowStep
<1>3. ASSUME NEW i \in Jobs, LeaseRunsOut(i) \/ BackoffEnds(i) PROVE RowStep(job[j], job'[j])
  <2>1. job'[j] \in {job[j], Expired(job[j]), Ready(job[j])}
    BY <1>0, <1>3 DEF LeaseRunsOut, BackoffEnds
  <2>2. QED BY <1>0, <2>1 DEF RowStep, Expired, Ready, Row
<1>4. ASSUME NEW i \in Jobs, CancelJob(i) \/ FlagCancel(i) \/ Withdraw(i)
      PROVE RowStep(job[j], job'[j])
  BY <1>0, <1>4 DEF CancelJob, FlagCancel, Withdraw, RowStep
<1>5. ASSUME NEW i \in Jobs, RetryJob(i) PROVE RowStep(job[j], job'[j])
  BY <1>0, <1>5 DEF RetryJob, Retriable, RowStep
<1>6. CASE SetPaused BY <1>6 DEF SetPaused, RowStep
<1>7. ASSUME NEW w \in Workers, Inside(w) PROVE RowStep(job[j], job'[j])
  <2>1. job' = job BY <1>7, InsideIsQuiet DEF IInv, QuietWorkers
  <2>2. QED BY <2>1 DEF RowStep
<1>8. ASSUME NEW w \in Workers, NEW i \in Jobs, Claim(w, i) PROVE RowStep(job[j], job'[j])
  BY <1>0, <1>8 DEF Claim, RowStep
<1>9. ASSUME NEW w \in Workers, Finish(w) PROVE RowStep(job[j], job'[j])
  <2>1. CASE Current(w) /\ run[w].job = j
    <3>1. run[w].verdict \in {"pending"} \cup Settled
      BY <1>9 DEF Finish, IInv, TypeOK, Memory, MemoryAgrees, Open
    <3>2. job'[j] = FinishedRow(job[j], run[w].verdict) /\ job[j].status = "running"
      BY <1>0, <1>9, <2>1 DEF Finish, Current
    <3>3. QED BY <3>1, <3>2 DEF RowStep
  <2>2. CASE ~(Current(w) /\ run[w].job = j)
    <3>1. job'[j] = job[j] BY <1>0, <1>9, <2>2 DEF Finish
    <3>2. QED BY <3>1 DEF RowStep
  <2>3. QED BY <2>1, <2>2
<1>10. CASE UNCHANGED vars BY <1>10 DEF vars, RowStep
<1>11. QED
  BY <1>1, <1>2, <1>3, <1>4, <1>5, <1>6, <1>7, <1>8, <1>9, <1>10, NextCases DEF Table, Request

\* The cancellation of an open job can only be followed by its cancellation:
\* no attempt starts and no result overrules it (claimJob, runJob, the sweep).
THEOREM CancellationStands == Spec => CancelIsFinal
<1>1. ASSUME IInv, [Next]_vars
      PROVE  [\A j \in Jobs : job[j].status \in Open /\ job[j].cancel
                => /\ job'[j].status \in {job[j].status, "cancelled"}
                   /\ job'[j].attempts = job[j].attempts]_vars
  <2>1. ASSUME NEW j \in Jobs, job[j].status \in Open, job[j].cancel
        PROVE  /\ job'[j].status \in {job[j].status, "cancelled"}
               /\ job'[j].attempts = job[j].attempts
    <3>1. job[j] \in Row /\ RowStep(job[j], job'[j]) BY <1>1, EveryRowSteps DEF IInv, TypeOK
    <3>2. job[j].status \notin Settled \cup {"absent", "failed", "cancelled"} /\ ~Claimable(job[j])
      BY <2>1 DEF Open, Settled, Claimable
    <3>3. QED
      BY <2>1, <3>1, <3>2, ZenonT(40) DEF RowStep, Flagged, CancelledRow, WithdrawnRow, Swept,
         FinishedRow, Row
  <2>2. QED BY <2>1
<1>2. QED BY <1>1, Invariance, PTL DEF Spec, CancelIsFinal

----------------
\* The refinement of JobContract, row by row.
Stage(r) == CASE r.status \in Open    -> "open"
              [] r.status = "deleted" -> "purged"
              [] OTHER                -> r.status

ContractStep(r, s) ==
  \/ Stage(r) = "absent" /\ Stage(s) = "open" /\ ~s.cancel
  \/ Stage(r) \in {"open"} \cup Settled /\ Stage(s) = Stage(r) /\ s.cancel
  \/ /\ Stage(r) = "open" /\ Stage(s) \in Settled
     /\ r.cancel => Stage(s) = "cancelled" /\ s.cancel
     /\ s.cancel => Stage(s) = "cancelled"
  \/ Stage(r) \in {"failed", "cancelled"} /\ Stage(s) = "open" /\ ~s.cancel
  \/ Stage(r) \in Settled /\ Stage(s) = "purged" /\ s.cancel = r.cancel
  \/ Stage(s) = Stage(r) /\ s.cancel = r.cancel

LEMMA RowStepRefines ==
  ASSUME NEW r \in Row, NEW s \in Row, RowStep(r, s)
  PROVE  ContractStep(r, s)
<1> USE DEF ContractStep, Stage, Row, Status, Open, Settled
<1>1. CASE s.status = r.status /\ s.cancel = r.cancel BY <1>1
<1>2. CASE r.status = "absent" /\ s = Fresh BY <1>2 DEF Fresh, Missing
<1>3. CASE r.status \in Open \cup Settled /\ s = Flagged(r) BY <1>3 DEF Flagged
<1>4. CASE r.status \in Open /\ s \in {CancelledRow(r), WithdrawnRow(r)}
  BY <1>4 DEF CancelledRow, WithdrawnRow
<1>5. CASE r.status \in {"failed", "cancelled"} /\ s = RetriedRow(r) BY <1>5 DEF RetriedRow
<1>6. CASE Sweepable(r) /\ s = Swept(r) BY <1>6 DEF Sweepable, Swept
<1>7. CASE r.status \in Settled /\ s = Deleted(r) BY <1>7 DEF Deleted
<1>8. CASE Claimable(r) /\ s = ClaimedRow(r) BY <1>8 DEF Claimable, ClaimedRow
<1>9. ASSUME NEW v \in {"pending"} \cup Settled, r.status = "running", s = FinishedRow(r, v)
      PROVE  ContractStep(r, s)
  BY <1>9 DEF FinishedRow
<1>10. QED BY <1>1, <1>2, <1>3, <1>4, <1>5, <1>6, <1>7, <1>8, <1>9 DEF RowStep

\* The queue implements its contract (EnqueueJob, cancelJob, retryJob, the
\* workers and the sweep together).
THEOREM Implements == Spec => ContractSpec
<1>1. Init => Contract!Init
  <2> SUFFICES ASSUME Init PROVE Contract!Init
    OBVIOUS
  <2>1. \A j \in Jobs : job[j].status = "absent" /\ job[j].cancel = FALSE BY DEF Init, Missing
  <2>2. QED BY <2>1 DEF Contract!Init, Open
<1>2. ASSUME IInv, [Next]_vars PROVE [Contract!Next]_(Contract!vars)
  <2>1. job \in [Jobs -> Row] /\ job' \in [Jobs -> Row] BY <1>2, NextTypeOK DEF IInv, TypeOK
  <2>2. ASSUME NEW j \in Jobs PROVE Contract!JobStep(j)
    <3>1. ContractStep(job[j], job'[j]) BY <1>2, <2>1, EveryRowSteps, RowStepRefines
    <3>2. QED
      BY <3>1 DEF ContractStep, Stage, Contract!JobStep, Contract!Submit, Contract!AskCancel,
         Contract!Settle, Contract!Reopen, Contract!Purge, Contract!Settled, Settled
  <2>3. \A r \in Row : Stage(r) \in Contract!Stage
    BY DEF Stage, Contract!Stage, Contract!Settled, Row, Status, Open, Settled
  <2>4. /\ [j \in Jobs |-> Stage(job'[j])] \in [Jobs -> Contract!Stage]
        /\ [j \in Jobs |-> job'[j].cancel] \in [Jobs -> BOOLEAN]
    BY <2>1, <2>3 DEF Row
  <2>5. QED BY <2>2, <2>4 DEF Contract!Next, Stage
<1>3. QED BY <1>1, <1>2, Invariance, PTL DEF Spec, ContractSpec, Contract!Spec

\* Attempts are recorded in order, nothing is recorded after a success, and no
\* pending row is out of attempts (runJob, retryJob, claimJob).
THEOREM AttemptsAreKept == Spec => []AttemptsStand
BY LateResultsDropped, SuccessStands, BudgetNeverStrands, PTL DEF AttemptsStand

(************************** Executions of automations *************************)

\* An automation step is a step of the queue or leaves it alone.
LEMMA QueueSteps == [AutomationNext]_automationVars => [Next]_vars
<1> SUFFICES ASSUME [AutomationNext]_automationVars PROVE [Next]_vars
  OBVIOUS
<1>1. CASE (Table \/ Request) /\ UNCHANGED ownVars BY <1>1 DEF Next
<1>2. CASE ChangeRule BY <1>2 DEF ChangeRule
<1>3. ASSUME NEW w \in Workers, Outside(w) PROVE [Next]_vars BY <1>3 DEF Outside, Next, Worker
<1>4. ASSUME NEW w \in Workers,
             ReadRule(w) \/ CheckRule(w) \/ LookForReceipt(w)
               \/ BeginEffect(w) \/ Act(w)
      PROVE  [Next]_vars
  BY <1>4 DEF ReadRule, CheckRule, LookForReceipt, BeginEffect, Act
<1>5. ASSUME NEW w \in Workers, Returns(w) \/ Forgets(w) PROVE [Next]_vars
  BY <1>5 DEF Returns, Forgets, Next, Worker
<1>6. CASE UNCHANGED automationVars BY <1>6 DEF automationVars
<1>7. QED BY <1>1, <1>2, <1>3, <1>4, <1>5, <1>6 DEF AutomationNext

\* A lease that is not current never becomes current again.
LEMMA LeaseIsLostForGood ==
  ASSUME IInv, [Next]_vars, NEW w \in Workers, Current(w)'
  PROVE  Current(w) \/ run'[w].phase = "claimed"
<1> USE DEF IInv
<1>1. TypeOK /\ TypeOK' BY NextTypeOK
<1>2. CASE Table \/ Request
  <2>1. QuietTable BY <1>1, <1>2, TableIsQuiet
  <2>2. run' = run /\ run[w].phase \in Busy /\ run[w].job \in Jobs
    BY <2>1 DEF QuietTable, Current, LeasesFresh
  <2>3. QED BY <2>1, <2>2 DEF QuietTable, Quiet, Current
<1>3. ASSUME NEW v \in Workers, Inside(v) PROVE Current(w)
  <2>1. QuietWorkers BY <1>1, <1>3, InsideIsQuiet
  <2>2. QED BY <2>1 DEF QuietWorkers, GoesOn, Current
<1>4. ASSUME NEW v \in Workers, NEW j \in Jobs, Claim(v, j), v # w PROVE Current(w)
  <2>1. job[j] \in Row /\ job \in [Jobs -> Row] BY <1>1 DEF TypeOK
  <2>2. run'[w] = run[w] BY <1>1, <1>4 DEF Claim, Remembers, TypeOK
  <2>3. run[w].phase \in Busy /\ run[w].job \in Jobs /\ run[w].lease \in Nat /\ run[w].lease < nextLease
    BY <1>1, <2>2 DEF Current, LeasesFresh, TypeOK, Memory
  <2>4. CASE run[w].job = j
    <3>1. job'[j] = ClaimedRow(job[j]) BY <1>4, <2>1 DEF Claim
    <3>2. job'[j].lease = nextLease BY <2>1, <3>1, ClaimFields
    <3>3. job'[j].lease = run[w].lease BY <2>2, <2>4 DEF Current
    <3>4. QED BY <1>1, <2>3, <3>2, <3>3 DEF TypeOK
  <2>5. CASE run[w].job # j
    <3>1. job'[run[w].job] = job[run[w].job] BY <1>4, <2>1, <2>3, <2>5 DEF Claim
    <3>2. QED BY <2>2, <3>1 DEF Current
  <2>6. QED BY <2>4, <2>5
<1>5. ASSUME NEW j \in Jobs, Claim(w, j) PROVE run'[w].phase = "claimed"
  BY <1>1, <1>5 DEF Claim, Remembers, Claimed, TypeOK
<1>6. ASSUME NEW v \in Workers, Finish(v) PROVE Current(w)
  <2>1. run'[v] = Idle /\ (w # v => run'[w] = run[w]) BY <1>1, <1>6 DEF Finish, Remembers, TypeOK
  <2>2. w # v BY <2>1 DEF Current, Idle, Busy
  <2>3. run[w] = run'[w] /\ run[w].phase \in Busy /\ run[w].job \in Jobs
    BY <2>1, <2>2 DEF Current, LeasesFresh
  <2>4. CASE job' = job BY <2>3, <2>4 DEF Current
  <2>5. CASE /\ Current(v)
             /\ job' = [job EXCEPT ![run[v].job] = FinishedRow(job[run[v].job], run[v].verdict)]
    <3>1. run[v].phase = "finishing" /\ run[v].job \in Jobs /\ run[v].verdict # "running"
      BY <1>6, <2>5 DEF Finish, Current, LeasesFresh, MemoryAgrees
    <3>2. job \in [Jobs -> Row] /\ job[run[v].job] \in Row BY <1>1, <3>1 DEF TypeOK
    <3>3. job'[run[v].job].status # "running" BY <2>5, <3>1, <3>2 DEF FinishedRow, Row
    <3>4. run[w].job # run[v].job BY <2>3, <3>3 DEF Current
    <3>5. job'[run[w].job] = job[run[w].job] BY <2>3, <2>5, <3>2, <3>4
    <3>6. QED BY <2>3, <3>5 DEF Current
  <2>6. QED BY <1>6, <2>4, <2>5 DEF Finish
<1>7. CASE UNCHANGED vars BY <1>7 DEF vars, Current
<1>8. QED BY <1>2, <1>3, <1>4, <1>5, <1>6, <1>7, NextCases

\* How a step outside the handler may move the memory of a worker.
Moves(m, n) ==
  LET inside(x) == x.phase \in {"running", "stopping"} IN
  /\ inside(m) => inside(n)
  /\ inside(n) => n.job = m.job /\ (inside(m) \/ m.phase = "claimed")
  /\ ~(n.phase = "finishing" /\ n.verdict = "succeeded")

LEMMA OutsideMoves ==
  ASSUME TypeOK, NEW w \in Workers, Outside(w)
  PROVE  /\ \A v \in Workers : v # w => run'[v] = run[v]
         /\ Moves(run[w], run'[w])
<1> USE DEF Moves, Remembers, TypeOK
<1>1. CASE Poll(w) \/ ClaimNothing(w) BY <1>1 DEF Poll, ClaimNothing, At, Idle, Memory
<1>2. ASSUME NEW j \in Jobs, Claim(w, j)
      PROVE  run'[w] = Claimed(j) /\ \A v \in Workers : v # w => run'[v] = run[v]
  BY <1>2 DEF Claim
<1>3. ASSUME NEW j \in Jobs, Claim(w, j) PROVE Moves(run[w], run'[w])
  BY <1>2, <1>3 DEF Claim, Claimed
<1>4. CASE Authorize(w) BY <1>4, ZenonT(40) DEF Authorize, RetryVerdict, At, Decided, Memory
<1>5. CASE Deadline(w) \/ MonitorStops(w) \/ PolicyStops(w)
  BY <1>5, ZenonT(40) DEF Deadline, MonitorStops, PolicyStops, At, Decided, Memory
<1>6. CASE Finish(w) BY <1>6 DEF Finish, Idle
<1>7. QED BY <1>1, <1>2, <1>3, <1>4, <1>5, <1>6 DEF Outside

----------------
LEMMA InitAutomationInv == AutomationInit => AutomationInv
<1> SUFFICES ASSUME AutomationInit PROVE AutomationInv
  OBVIOUS
<1> USE DEF AutomationInit
<1>1. IInv /\ TypeOK BY InitIInv DEF IInv
<1>2. AutomationTypeOK
  <2>1. AtStart \in Handler BY ActionsAssumption DEF AtStart, Handler, Place
  <2>2. applied \in [Jobs -> Seq(Deed)] /\ receipts \in [Jobs -> SUBSET (1 .. Actions)]
    OBVIOUS
  <2>3. QED BY <1>1, <2>1, <2>2 DEF AutomationTypeOK
<1>3. \A w \in Workers : ~Executing(w) /\ run[w].phase # "finishing" BY DEF Init, Idle, Executing
<1>4. HandlersFollow /\ VerdictsEarned BY <1>3 DEF HandlersFollow, VerdictsEarned, AtStart
<1>5. ReceiptsMatch /\ LateIsLast BY DEF ReceiptsMatch, LateIsLast
<1>6. SuccessIsComplete BY DEF Init, SuccessIsComplete
<1>7. QED BY <1>1, <1>2, <1>4, <1>5, <1>6 DEF AutomationInv

\* What every case below relies on.
Before == AutomationInv /\ [AutomationNext]_automationVars

LEMMA QueueKept ==
  ASSUME Before
  PROVE  /\ IInv /\ IInv' /\ TypeOK /\ TypeOK' /\ [Next]_vars
         /\ \A w \in Workers : Current(w)' => Current(w) \/ run'[w].phase = "claimed"
<1>1. IInv /\ [Next]_vars BY QueueSteps DEF Before, AutomationInv
<1>2. IInv' BY <1>1, NextIInv
<1>3. TypeOK /\ TypeOK' BY <1>1, <1>2 DEF IInv
<1>4. QED BY <1>1, <1>2, <1>3, LeaseIsLostForGood

\* A success is recorded from a verdict of success only.
LEMMA SuccessesRecorded ==
  ASSUME Before, applied' = applied
  PROVE  SuccessIsComplete'
<1>1. IInv /\ TypeOK /\ [Next]_vars /\ VerdictsEarned /\ SuccessIsComplete
  BY QueueKept DEF Before, AutomationInv
<1>2. CASE history' = history BY <1>1, <1>2 DEF SuccessIsComplete
<1>3. ASSUME NEW w \in Workers, Finish(w), Current(w) PROVE SuccessIsComplete'
  <2> DEFINE j == run[w].job
  <2>1. j \in Jobs /\ history[j] \in Seq(Attempt) /\ history' = [history EXCEPT ![j] = Append(history[j], AttemptRow(w))]
    BY <1>1, <1>3 DEF Finish, Current, IInv, LeasesFresh, TypeOK
  <2>2. AttemptRow(w).status = "succeeded" => run[w].phase = "finishing" /\ run[w].verdict = "succeeded"
    <3>1. job[j] \in Row BY <1>1, <2>1 DEF TypeOK
    <3>2. QED BY <1>3, <3>1 DEF Finish, AttemptRow, FinishedRow, Row
  <2>3. ASSUME NEW i \in Jobs, NEW n \in DOMAIN history'[i], history'[i][n].status = "succeeded"
        PROVE  Len(applied[i]) = Actions
    <3>1. CASE n \in DOMAIN history[i] /\ history'[i][n] = history[i][n]
      BY <1>1, <2>3, <3>1 DEF SuccessIsComplete
    <3>2. CASE i = j /\ history'[i][n] = AttemptRow(w) BY <1>1, <2>2, <2>3, <3>2 DEF VerdictsEarned
    <3>3. QED
      <4>1. history \in [Jobs -> Seq(Attempt)] BY <1>1 DEF TypeOK
      <4>2. CASE i # j BY <2>1, <4>1, <4>2, <2>3, <3>1
      <4>3. CASE i = j BY <2>1, <4>1, <4>3, <2>3, <3>1, <3>2
      <4>4. QED BY <4>2, <4>3
  <2>4. QED BY <2>3 DEF SuccessIsComplete
<1>4. history' = history \/ \E w \in Workers : Finish(w) /\ Current(w)
  <2>1. CASE Table \/ Request BY <1>1, <2>1, TableIsQuiet DEF QuietTable, IInv
  <2>2. CASE \E w \in Workers : Inside(w) BY <1>1, <2>2, InsideIsQuiet DEF QuietWorkers
  <2>3. CASE \E w \in Workers, j \in Jobs : Claim(w, j) BY <2>3 DEF Claim
  <2>4. CASE \E w \in Workers : Finish(w) BY <2>4 DEF Finish
  <2>5. CASE UNCHANGED vars BY <2>5 DEF vars
  <2>6. QED BY <1>1, <2>1, <2>2, <2>3, <2>4, <2>5, NextCases
<1>5. QED BY <1>2, <1>3, <1>4

\* A step that does nothing to the world keeps what is known of it.
LEMMA NothingApplied ==
  ASSUME Before, UNCHANGED <<receipts, applied>>, rule' = rule \/ rule' = "changed"
  PROVE  ReceiptsMatch' /\ LateIsLast' /\ SuccessIsComplete'
<1>1. ReceiptsMatch /\ LateIsLast BY DEF Before, AutomationInv
<1>2. ReceiptsMatch' /\ LateIsLast' BY <1>1 DEF ReceiptsMatch, LateIsLast
<1>3. QED BY <1>2, SuccessesRecorded

\* A step outside the handlers.
LEMMA OutsideKeeps ==
  ASSUME Before, UNCHANGED <<handler, receipts, applied>>,
         rule' = rule \/ rule' = "changed",
         \A w \in Workers : run'[w] = run[w] \/ Moves(run[w], run'[w])
  PROVE  AutomationInv'
<1>1. /\ IInv' /\ TypeOK' /\ AutomationTypeOK /\ HandlersFollow /\ VerdictsEarned
      /\ \A w \in Workers : Current(w)' => Current(w) \/ run'[w].phase = "claimed"
  BY QueueKept DEF Before, AutomationInv
<1>2. AutomationTypeOK' BY <1>1 DEF AutomationTypeOK
<1>3. ASSUME NEW w \in Workers
      PROVE  /\ ~Executing(w)' => ~Executing(w)
             /\ Executing(w)' => run'[w].job = run[w].job
             /\ Executing(w)' => run'[w].job \in Jobs
             /\ Executing(w)' => Executing(w) \/ handler[w] = AtStart
  <2>1. Executing(w)' => run'[w].phase \in Busy BY DEF Executing, Busy
  <2>2. Executing(w)' => run'[w].job \in Jobs BY <1>1, <2>1 DEF IInv, LeasesFresh
  <2>3. run[w].phase = "claimed" => handler[w] = AtStart BY <1>1 DEF HandlersFollow, Executing
  <2>4. QED BY <2>2, <2>3 DEF Moves, Executing
<1>4. HandlersFollow'
  <2>1. ASSUME NEW w \in Workers
        PROVE  /\ ~Executing(w)' => handler[w] = AtStart
               /\ Executing(w)' => /\ run'[w].job \in Jobs
                                  /\ handler[w].pos <= Len(applied[run'[w].job])
    <3>1. CASE ~Executing(w)' BY <1>1, <1>3, <3>1 DEF HandlersFollow, Executing
    <3>2. CASE Executing(w)' /\ Executing(w) BY <1>1, <1>3, <3>2 DEF HandlersFollow, Executing
    <3>3. CASE Executing(w)' /\ handler[w] = AtStart
      <4>1. applied[run'[w].job] \in Seq(Deed) BY <1>1, <1>3, <3>3 DEF AutomationTypeOK, Executing
      <4>2. Len(applied[run'[w].job]) \in Nat BY <4>1
      <4>3. QED BY <1>3, <3>3, <4>2 DEF AtStart, Executing
    <3>4. QED BY <1>3, <3>1, <3>2, <3>3
  <2>2. ASSUME NEW w \in Workers, handler[w].place \in {"look", "act", "begun"}
        PROVE  /\ handler[w].pos < Actions
               /\ Current(w)' => Current(w) /\ run'[w].job = run[w].job
    <3>1. handler[w] # AtStart BY <2>2 DEF AtStart
    <3>2. Executing(w) /\ Executing(w)' /\ handler[w].pos < Actions
      BY <1>1, <1>3, <2>2, <3>1 DEF HandlersFollow
    <3>3. run'[w].phase # "claimed" BY <3>2 DEF Executing
    <3>4. QED BY <1>1, <1>3, <3>2, <3>3 DEF Executing
  <2>3. QED BY <1>1, <2>1, <2>2 DEF HandlersFollow, NoLate
<1>5. VerdictsEarned' BY <1>1 DEF VerdictsEarned, Moves
<1>6. QED BY <1>1, <1>2, <1>4, <1>5, NothingApplied DEF AutomationInv

\* A step of one handler that does nothing to the world yet.
LEMMA HandlerKeeps ==
  ASSUME Before, NEW w \in Workers, NEW h \in Handler,
         UNCHANGED <<vars, rule, receipts, applied>>, Executing(w), Goes(w, h),
         h.pos <= Len(applied[run[w].job]),
         h.place \in {"look", "act", "begun"} =>
            h.pos < Actions /\ (Current(w) => NoLate(run[w].job)),
         h.place \in {"act", "begun"} /\ Current(w) => h.pos = Len(applied[run[w].job])
  PROVE  AutomationInv'
<1>1. IInv' /\ TypeOK' /\ AutomationTypeOK /\ HandlersFollow /\ VerdictsEarned
  BY QueueKept DEF Before, AutomationInv
<1>2. handler'[w] = h /\ \A v \in Workers : v # w => handler'[v] = handler[v]
  BY <1>1 DEF Goes, AutomationTypeOK
<1>3. AutomationTypeOK'
  <2>1. handler' \in [Workers -> Handler] BY <1>1 DEF Goes, AutomationTypeOK
  <2>2. QED BY <1>1, <2>1 DEF AutomationTypeOK
<1>4. run' = run /\ job' = job BY DEF vars
<1>5. HandlersFollow' BY <1>1, <1>2, <1>4 DEF HandlersFollow, Executing, Current, NoLate
<1>6. VerdictsEarned' BY <1>1, <1>4 DEF VerdictsEarned
<1>7. QED BY <1>1, <1>3, <1>5, <1>6, NothingApplied DEF AutomationInv

\* The committed action: the next one, by the only worker that may commit.
LEMMA ActKeeps ==
  ASSUME Before, NEW w \in Workers, Act(w)
  PROVE  AutomationInv'
<1> DEFINE j == run[w].job
           n == handler[w].pos + 1
           deed == [action |-> n, late |-> rule = "changed"]
<1>1. /\ IInv /\ IInv' /\ TypeOK' /\ AutomationTypeOK /\ HandlersFollow /\ VerdictsEarned
      /\ ReceiptsMatch /\ LateIsLast /\ SuccessIsComplete
  BY QueueKept DEF Before, AutomationInv
<1>2. /\ Executing(w) /\ Current(w) /\ handler[w].place = "begun"
      /\ UNCHANGED vars /\ rule' = rule
  BY DEF Act, MayCommit
<1>3. /\ j \in Jobs /\ handler[w] \in Handler /\ applied[j] \in Seq(Deed)
      /\ handler[w].pos = Len(applied[j]) /\ n \in 1 .. Actions /\ NoLate(j)
  <2>1. j \in Jobs /\ handler[w].pos = Len(applied[j]) /\ NoLate(j) /\ handler[w].pos < Actions
    BY <1>1, <1>2 DEF HandlersFollow
  <2>2. handler[w] \in Handler /\ applied[j] \in Seq(Deed) BY <1>1, <2>1 DEF AutomationTypeOK
  <2>3. n \in 1 .. Actions BY <2>1, <2>2, ActionsAssumption DEF Handler
  <2>4. QED BY <2>1, <2>2, <2>3
<1>4. deed \in Deed /\ deed.action = n /\ (deed.late => rule = "changed")
  <2>1. (rule = "changed") \in BOOLEAN BY Zenon
  <2>2. QED BY <1>3, <2>1 DEF Deed
<1>5. applied' = [applied EXCEPT ![j] = Append(applied[j], deed)] BY DEF Act
<1>6. receipts' = [receipts EXCEPT ![j] = receipts[j] \cup {n}] BY DEF Act, Receipt
<1>7. /\ applied'[j] = Append(applied[j], deed) /\ receipts'[j] = receipts[j] \cup {n}
      /\ \A i \in Jobs : i # j => applied'[i] = applied[i] /\ receipts'[i] = receipts[i]
  BY <1>1, <1>3, <1>5, <1>6 DEF AutomationTypeOK
<1>8. /\ Len(applied'[j]) = n /\ DOMAIN applied'[j] = 1 .. n /\ applied'[j][n] = deed
      /\ DOMAIN applied[j] = 1 .. n - 1
      /\ \A m \in 1 .. n - 1 : applied'[j][m] = applied[j][m]
  BY <1>3, <1>7
<1>9. PICK h \in {[place |-> "check", pos |-> n], [handler[w] EXCEPT !.place = "broken"]} :
        Goes(w, h)
  BY DEF Act
<1>10. /\ h \in Handler /\ h.place \in {"check", "broken"} /\ h.pos <= n
       /\ handler'[w] = h /\ \A v \in Workers : v # w => handler'[v] = handler[v]
  <2>1. h \in Handler /\ h.place \in {"check", "broken"} /\ h.pos <= n
    BY <1>3, <1>9 DEF Handler, Place
  <2>2. QED BY <1>1, <1>9, <2>1 DEF Goes, AutomationTypeOK
<1>11. AutomationTypeOK'
  <2>1. Append(applied[j], deed) \in Seq(Deed) BY <1>3, <1>4
  <2>2. applied' \in [Jobs -> Seq(Deed)] BY <1>1, <1>5, <2>1 DEF AutomationTypeOK
  <2>3. receipts' \in [Jobs -> SUBSET (1 .. Actions)] BY <1>1, <1>3, <1>6 DEF AutomationTypeOK
  <2>4. handler' \in [Workers -> Handler] BY <1>1, <1>9, <1>10 DEF Goes, AutomationTypeOK
  <2>5. QED BY <1>1, <1>2, <2>2, <2>3, <2>4 DEF AutomationTypeOK
<1>12. ReceiptsMatch'
  <2>1. receipts'[j] = 1 .. Len(applied'[j])
    <3>1. receipts[j] = 1 .. n - 1 BY <1>1, <1>3 DEF ReceiptsMatch
    <3>2. QED BY <1>3, <1>7, <1>8, <3>1
  <2>2. ASSUME NEW m \in DOMAIN applied'[j] PROVE applied'[j][m].action = m
    BY <1>1, <1>3, <1>4, <1>8 DEF ReceiptsMatch
  <2>3. QED BY <1>1, <1>7, <2>1, <2>2 DEF ReceiptsMatch
<1>13. LateIsLast'
  <2>1. ASSUME NEW m \in DOMAIN applied'[j], applied'[j][m].late
        PROVE  rule = "changed" /\ m = n
    BY <1>3, <1>4, <1>8, <2>1 DEF NoLate
  <2>2. QED
    <3>1. ASSUME NEW i \in Jobs, NEW m \in DOMAIN applied'[i], applied'[i][m].late
          PROVE  rule' = "changed" /\ m = Len(applied'[i])
      <4>1. CASE i = j BY <1>2, <1>8, <2>1, <3>1, <4>1
      <4>2. CASE i # j
        <5>1. applied'[i] = applied[i] BY <1>7, <4>2
        <5>2. QED BY <1>1, <1>2, <3>1, <5>1 DEF LateIsLast
      <4>3. QED BY <4>1, <4>2
    <3>2. QED BY <3>1 DEF LateIsLast
<1>14. ASSUME NEW i \in Jobs PROVE Len(applied[i]) <= Len(applied'[i])
  <2>1. Len(applied[i]) \in Nat BY <1>1 DEF AutomationTypeOK
  <2>2. QED BY <1>3, <1>7, <1>8, <2>1
<1>15. ASSUME NEW i \in Jobs, Len(applied[i]) = Actions PROVE applied'[i] = applied[i]
  BY <1>3, <1>7, <1>15, ActionsAssumption
<1>16. HandlersFollow'
  <2>1. run' = run /\ job' = job BY <1>2 DEF vars
  <2>2. ASSUME NEW v \in Workers, v # w
        PROVE  /\ ~Executing(v) => handler'[v] = AtStart
               /\ Executing(v) => run[v].job \in Jobs
               /\ Executing(v) => handler'[v].pos <= Len(applied'[run[v].job])
               /\ handler'[v].place \in {"look", "act", "begun"} =>
                    /\ handler'[v].pos < Actions
                    /\ Current(v) => \A m \in DOMAIN applied'[run[v].job] :
                                        ~applied'[run[v].job][m].late
               /\ handler'[v].place \in {"act", "begun"} /\ Current(v)
                    => handler'[v].pos = Len(applied'[run[v].job])
    <3>1. handler'[v] = handler[v] /\ handler[v] \in Handler
      BY <1>1, <1>10, <2>2 DEF AutomationTypeOK
    <3>2. Current(v) => run[v].job \in Jobs /\ run[v].job # j
      BY <1>1, <1>2, <2>2 DEF IInv, LeasesFresh, Current
    <3>3. ASSUME Executing(v)
          PROVE  run[v].job \in Jobs /\ handler[v].pos <= Len(applied'[run[v].job])
      <4>1. run[v].job \in Jobs /\ handler[v].pos <= Len(applied[run[v].job])
        BY <1>1, <3>3 DEF HandlersFollow
      <4>2. Len(applied[run[v].job]) \in Nat /\ Len(applied'[run[v].job]) \in Nat /\ handler[v].pos \in Nat
        BY <1>1, <1>11, <3>1, <4>1 DEF AutomationTypeOK, Handler
      <4>3. QED BY <1>14, <4>1, <4>2
    <3>4. QED BY <1>1, <1>7, <3>1, <3>2, <3>3 DEF HandlersFollow, NoLate
  <2>3. /\ Executing(w) /\ run[w].job \in Jobs
        /\ handler'[w].pos <= Len(applied'[run[w].job])
        /\ handler'[w].place \notin {"look", "act", "begun"}
    BY <1>2, <1>3, <1>8, <1>10
  <2>4. QED BY <2>1, <2>2, <2>3 DEF HandlersFollow, NoLate, Executing, Current
<1>17. VerdictsEarned' BY <1>1, <1>2, <1>15 DEF VerdictsEarned, vars
<1>18. SuccessIsComplete' BY <1>1, <1>2, <1>15 DEF SuccessIsComplete, vars
<1>19. QED BY <1>1, <1>11, <1>12, <1>13, <1>16, <1>17, <1>18 DEF AutomationInv

\* The end of a handler, with a verdict or without.
LEMMA EndKeeps ==
  ASSUME Before, NEW w \in Workers, Returns(w) \/ Forgets(w)
  PROVE  AutomationInv'
<1>1. /\ IInv' /\ TypeOK /\ TypeOK' /\ AutomationTypeOK /\ HandlersFollow /\ VerdictsEarned
  BY QueueKept DEF Before, AutomationInv
<1>2. /\ UNCHANGED <<rule, receipts, applied>> /\ job' = job /\ Goes(w, AtStart)
      /\ \A v \in Workers : v # w => run'[v] = run[v]
      /\ run'[w].phase \in {"idle", "finishing"}
  <2>1. CASE Returns(w)
    <3>1. PICK v : Remembers(w, Decided(run[w], "finishing", v)) BY <2>1 DEF Returns, HandlerReturns
    <3>2. run'[w] = Decided(run[w], "finishing", v) /\ \A u \in Workers : u # w => run'[u] = run[u]
      BY <1>1, <3>1 DEF Remembers, TypeOK
    <3>3. run'[w].phase = "finishing" BY <1>1, <3>2 DEF Decided, TypeOK, Memory
    <3>4. QED BY <2>1, <3>2, <3>3 DEF Returns, HandlerReturns
  <2>2. CASE Forgets(w) BY <1>1, <2>2 DEF Forgets, Lose, Remembers, TypeOK, Idle
  <2>3. QED BY <2>1, <2>2
<1>3. handler'[w] = AtStart /\ \A v \in Workers : v # w => handler'[v] = handler[v]
  BY <1>1, <1>2 DEF Goes, AutomationTypeOK
<1>4. AutomationTypeOK'
  <2>1. AtStart \in Handler BY ActionsAssumption DEF AtStart, Handler, Place
  <2>2. handler' \in [Workers -> Handler] BY <1>1, <1>2, <2>1 DEF Goes, AutomationTypeOK
  <2>3. QED BY <1>1, <1>2, <2>2 DEF AutomationTypeOK
<1>5. HandlersFollow'
  <2>1. ~Executing(w)' BY <1>2 DEF Executing
  <2>2. AtStart.place \notin {"look", "act", "begun"} BY DEF AtStart
  <2>3. QED BY <1>1, <1>2, <1>3, <2>1, <2>2 DEF HandlersFollow, Executing, Current, NoLate
<1>6. VerdictsEarned'
  <2>1. ASSUME run'[w].phase = "finishing", run'[w].verdict = "succeeded"
        PROVE  run'[w].job \in Jobs /\ Len(applied[run'[w].job]) = Actions
    <3>1. Returns(w) /\ run'[w].job = run[w].job /\ Executing(w) /\ Complete(w)
      <4>1. Returns(w) BY <1>1, <2>1 DEF Forgets, Lose, Remembers, TypeOK, Idle
      <4>2. Executing(w) /\ Complete(w) BY <2>1, <4>1 DEF Returns, HandlerReturns, Executing
      <4>3. PICK v : Remembers(w, Decided(run[w], "finishing", v))
        BY <4>1 DEF Returns, HandlerReturns
      <4>4. run'[w] = Decided(run[w], "finishing", v) /\ run[w] \in Memory
        BY <1>1, <4>3 DEF Remembers, TypeOK
      <4>5. QED BY <4>1, <4>2, <4>4 DEF Decided, Memory
    <3>2. run[w].job \in Jobs /\ Actions <= Len(applied[run[w].job])
      BY <1>1, <3>1 DEF HandlersFollow, Complete
    <3>3. applied[run[w].job] \in Seq(Deed) /\ 1 .. Len(applied[run[w].job]) \in SUBSET (1 .. Actions)
      BY <1>1, <3>2 DEF AutomationTypeOK, Before, AutomationInv, ReceiptsMatch
    <3>4. Len(applied[run[w].job]) = Actions
      <4>1. Len(applied[run[w].job]) \in Nat /\ Actions \in Nat BY <3>3, ActionsAssumption
      <4>2. Len(applied[run[w].job]) > 0 BY <3>2, <4>1, ActionsAssumption
      <4>3. Len(applied[run[w].job]) \in 1 .. Actions BY <3>3, <4>1, <4>2
      <4>4. QED BY <3>2, <4>1, <4>3
    <3>5. QED BY <3>1, <3>2, <3>4
  <2>2. QED BY <1>1, <1>2, <2>1 DEF VerdictsEarned
<1>7. QED BY <1>1, <1>2, <1>4, <1>5, <1>6, NothingApplied DEF AutomationInv

LEMMA NextAutomationInv == AutomationInv /\ [AutomationNext]_automationVars => AutomationInv'
<1> SUFFICES ASSUME Before PROVE AutomationInv' BY DEF Before
<1>1. /\ TypeOK /\ AutomationTypeOK /\ HandlersFollow /\ ReceiptsMatch
      /\ [AutomationNext]_automationVars
  BY QueueKept DEF Before, AutomationInv
<1>2. CASE (Table \/ Request) /\ UNCHANGED ownVars
  <2>1. run' = run BY <1>1, <1>2, TableIsQuiet, QueueKept DEF QuietTable, IInv
  <2>2. QED BY <1>2, <2>1, OutsideKeeps DEF ownVars
<1>3. CASE ChangeRule BY <1>3, OutsideKeeps DEF ChangeRule, vars
<1>4. ASSUME NEW w \in Workers, Outside(w), UNCHANGED ownVars PROVE AutomationInv'
  <2>1. \A v \in Workers : run'[v] = run[v] \/ Moves(run[v], run'[v]) BY <1>1, <1>4, OutsideMoves
  <2>2. QED BY <1>4, <2>1, OutsideKeeps DEF ownVars
<1>5. ASSUME NEW w \in Workers, ReadRule(w) PROVE AutomationInv'
  <2> DEFINE h == [place |-> "check", pos |-> 0]
  <2>1. Executing(w) /\ run[w].job \in Jobs BY <1>1, <1>5 DEF ReadRule, Executing, HandlersFollow
  <2>2. Len(applied[run[w].job]) \in Nat BY <1>1, <2>1 DEF AutomationTypeOK
  <2>3. h \in Handler /\ h.place = "check" /\ h.pos <= Len(applied[run[w].job])
    BY <2>2, ActionsAssumption DEF Handler, Place
  <2>4. QED BY <1>5, <2>1, <2>3, HandlerKeeps DEF ReadRule
<1>6. ASSUME NEW w \in Workers, CheckRule(w) PROVE AutomationInv'
  <2> DEFINE h == [handler[w] EXCEPT !.place = "look"]
  <2>1. Executing(w) /\ run[w].job \in Jobs /\ handler[w] \in Handler
    BY <1>1, <1>6 DEF CheckRule, Executing, HandlersFollow, AutomationTypeOK
  <2>2. h \in Handler /\ h.place = "look" /\ h.pos = handler[w].pos BY <2>1 DEF Handler, Place
  <2>3. h.pos <= Len(applied[run[w].job]) /\ h.pos < Actions
    BY <1>1, <1>6, <2>1, <2>2 DEF HandlersFollow, CheckRule
  <2>4. NoLate(run[w].job) BY <1>6, <2>1 DEF NoLate, CheckRule, Before, AutomationInv, LateIsLast
  <2>5. QED BY <1>6, <2>1, <2>2, <2>3, <2>4, HandlerKeeps DEF CheckRule
<1>7. ASSUME NEW w \in Workers, LookForReceipt(w) PROVE AutomationInv'
  <2> DEFINE j == run[w].job
             n == handler[w].pos + 1
  <2>1. /\ Executing(w) /\ j \in Jobs /\ handler[w] \in Handler
        /\ handler[w].place = "look" /\ handler[w].pos < Actions
        /\ handler[w].pos <= Len(applied[j]) /\ (Current(w) => NoLate(j))
    BY <1>1, <1>7 DEF LookForReceipt, HandlersFollow, AutomationTypeOK
  <2>2. receipts[j] = 1 .. Len(applied[j]) /\ Len(applied[j]) \in Nat
    BY <1>1, <2>1 DEF ReceiptsMatch, AutomationTypeOK
  <2>3. handler[w].pos \in 0 .. Actions /\ n \in 1 .. Actions BY <2>1, ActionsAssumption DEF Handler
  <2>4. CASE n \in receipts[j]
    <3> DEFINE h == [place |-> "check", pos |-> n]
    <3>1. h \in Handler /\ h.place = "check" /\ h.pos <= Len(applied[j])
      BY <2>2, <2>3, <2>4, ActionsAssumption DEF Handler, Place
    <3>2. Goes(w, h) BY <1>7, <2>4 DEF LookForReceipt
    <3>3. QED BY <1>7, <2>1, <3>1, <3>2, HandlerKeeps DEF LookForReceipt
  <2>5. CASE n \notin receipts[j]
    <3> DEFINE h == [handler[w] EXCEPT !.place = "act"]
    <3>1. h \in Handler /\ h.place = "act" /\ h.pos = handler[w].pos BY <2>1 DEF Handler, Place
    <3>2. handler[w].pos = Len(applied[j]) BY <2>1, <2>2, <2>3, <2>5
    <3>3. Goes(w, h) BY <1>7, <2>5 DEF LookForReceipt
    <3>4. QED BY <1>7, <2>1, <3>1, <3>2, <3>3, HandlerKeeps DEF LookForReceipt
  <2>6. QED BY <2>4, <2>5
<1>8. ASSUME NEW w \in Workers, Act(w) \/ Returns(w) \/ Forgets(w) PROVE AutomationInv'
  BY <1>8, ActKeeps, EndKeeps
<1>9. ASSUME NEW w \in Workers, BeginEffect(w) PROVE AutomationInv'
  <2> DEFINE h == [handler[w] EXCEPT !.place = "begun"]
  <2>1. /\ Executing(w) /\ run[w].job \in Jobs /\ handler[w] \in Handler
        /\ handler[w].place = "act" /\ handler[w].pos < Actions
        /\ handler[w].pos <= Len(applied[run[w].job])
        /\ (Current(w) => NoLate(run[w].job) /\ handler[w].pos = Len(applied[run[w].job]))
    BY <1>1, <1>9 DEF BeginEffect, HandlersFollow, AutomationTypeOK
  <2>2. h \in Handler /\ h.place = "begun" /\ h.pos = handler[w].pos BY <2>1 DEF Handler, Place
  <2>3. QED BY <1>9, <2>1, <2>2, HandlerKeeps DEF BeginEffect
<1>10. CASE UNCHANGED automationVars BY <1>10, OutsideKeeps DEF automationVars, ownVars, vars
<1>11. QED BY <1>1, <1>2, <1>3, <1>4, <1>5, <1>6, <1>7, <1>8, <1>9, <1>10 DEF AutomationNext

\* The inductive invariant of automation executions.
THEOREM AutomationInvariance == AutomationSpec => []AutomationInv
  BY InitAutomationInv, NextAutomationInv, PTL DEF AutomationSpec

\* Every action of a job happens once and in order (recordAutomationEffect).
THEOREM ActionsOnceInOrder == AutomationSpec => []AppliedOnceInOrder
<1>1. AutomationInv => AppliedOnceInOrder BY DEF AutomationInv, ReceiptsMatch, AppliedOnceInOrder
<1>2. QED BY <1>1, AutomationInvariance, PTL

\* A succeeded job has done all its actions (executeAutomation).
THEOREM SuccessesComplete == AutomationSpec => []SuccessIsComplete
<1>1. AutomationInv => SuccessIsComplete BY DEF AutomationInv
<1>2. QED BY <1>1, AutomationInvariance, PTL

\* At most one action follows a change of the rule (the check before each action).
THEOREM OneLateAction == AutomationSpec => []AtMostOneLateAction
<1>1. ASSUME AutomationInv PROVE AtMostOneLateAction
  <2>1. ASSUME NEW j \in Jobs
        PROVE  Cardinality({n \in DOMAIN applied[j] : applied[j][n].late}) <= 1
    <3> DEFINE late == {n \in DOMAIN applied[j] : applied[j][n].late}
    <3>1. \A n \in late : n = Len(applied[j]) BY <1>1 DEF AutomationInv, LateIsLast
    <3>2. late = {} \/ late = {Len(applied[j])} BY <3>1
    <3>3. Cardinality(late) \in {0, 1} BY <3>2, FS_EmptySet, FS_Singleton
    <3>4. QED BY <3>3
  <2>2. QED BY <2>1 DEF AtMostOneLateAction
<1>2. QED BY <1>1, AutomationInvariance, PTL

\* Nothing happens after a cancellation or a takeover (recordAutomationEffect).
THEOREM CancelledJobsDoNothing == AutomationSpec => NothingAfterCancel
<1>1. ASSUME AutomationInv, [AutomationNext]_automationVars
      PROVE  [\A j \in Jobs : applied'[j] # applied[j]
                => job[j].status = "running" /\ ~job[j].cancel]_automationVars
  <2>1. ASSUME NEW w \in Workers, Act(w), NEW j \in Jobs, applied'[j] # applied[j]
        PROVE  job[j].status = "running" /\ ~job[j].cancel
    <3>1. applied \in [Jobs -> Seq(Deed)] BY <1>1 DEF AutomationInv, AutomationTypeOK
    <3>2. j = run[w].job BY <2>1, <3>1 DEF Act
    <3>3. QED BY <2>1, <3>2 DEF Act, MayCommit, Current
  <2>2. applied' = applied \/ \E w \in Workers : Act(w)
    BY <1>1 DEF AutomationNext, ownVars, automationVars, ChangeRule, ReadRule, CheckRule,
       LookForReceipt, BeginEffect, Returns, Forgets
  <2>3. QED BY <2>1, <2>2
<1>2. QED BY <1>1, AutomationInvariance, PTL DEF AutomationSpec, NothingAfterCancel

\* Exactly once, over all attempts of a job (recordAutomationEffect).
THEOREM ActionsExactlyOnce == AutomationSpec => []DoneOnceInFull
BY ActionsOnceInOrder, SuccessesComplete, PTL DEF DoneOnceInFull

\* Who edits a rule or cancels a job is obeyed (executeAutomationAction).
THEOREM PeopleAreObeyed == AutomationSpec => StopsInTime
BY OneLateAction, CancelledJobsDoNothing, PTL DEF StopsInTime


(******************************* Public shares ******************************)

ShareRow == [made : BOOLEAN, revision : Nat, token : Nat, password : Nat, expired : BOOLEAN,
             revoked : BOOLEAN, download : BOOLEAN]
PubPolicies == [on : BOOLEAN, most : 1 .. PubLevels, password : BOOLEAN, download : BOOLEAN]
Judging   == [at : {"judge"}, row : ShareRow, download : BOOLEAN]
Reading   == [at : {"read"}, row : ShareRow, policy : PubPolicies, download : BOOLEAN]
Looking   == [at : {"look"}, row : ShareRow, policy : PubPolicies, download : BOOLEAN, version : Nat]
Again     == [at : {"again"}, row : ShareRow, policy : PubPolicies, download : BOOLEAN, version : Nat,
              same : BOOLEAN, meant : BOOLEAN]
Answering == [at : {"answer", "stream"}, row : ShareRow, policy : PubPolicies, download : BOOLEAN, version : Nat,
              meant : BOOLEAN, open : BOOLEAN, now : Nat]
PubVisit  == {NoVisit} \cup Judging \cup Reading \cup Looking \cup Again \cup Answering

SharingTyped ==
  /\ pubDoc \in [version : Nat, level : 1 .. PubLevels, owned : BOOLEAN, trashed : BOOLEAN]
  /\ pubPolicy \in PubPolicies /\ pubShare \in ShareRow
  /\ pubGrants \subseteq [of : Visitors, revision : Nat \ {0}]
  /\ pubTabs \in {NoTab} \cup [at : {"update"}, seen : Nat \ {0}, password : Nat, download : BOOLEAN]
  /\ pubVisitors \in [Visitors -> [token : Nat, password : Nat, visit : PubVisit]]
  /\ pubBounds \in [changes : 0 .. PubChanges, visits : Nat]

\* A revision is paid for by a change, the one that a tab is making included.
RevisionsPaid ==
  /\ pubShare.revision + (IF pubTabs = NoTab THEN 0 ELSE 1) <= pubBounds.changes + 1
  /\ (IF pubShare.made THEN pubShare.revision > 0 ELSE pubShare = NoShare) /\ pubShare.token <= pubShare.revision

\* A grant of the present revision was given to one who knows its password.
GrantsKnown ==
  \A g \in pubGrants :
    /\ g.revision <= pubShare.revision
    /\ g.revision = pubShare.revision => pubVisitors[g.of].password = pubShare.password

\* What a tab writes at the revision it saw is the password that stood there, a
\* new one, or none.
TabKnown ==
  pubTabs.at = "update" =>
    /\ pubTabs.seen <= pubShare.revision
    /\ pubTabs.seen = pubShare.revision => pubTabs.password \in {0, pubShare.password, pubTabs.seen + 1}

\* What a visitor of this moment must know.
Knows(v) == pubShare.token = pubVisitors[v].token /\ pubShare.password \in {0, pubVisitors[v].password}

\* A visit has a row that stood in the table; at the present revision it is the
\* present row.
RowKnown(v) ==
  Visit(v).at # "idle" =>
    /\ Visit(v).row.revision \in Nat \ {0} /\ Visit(v).row.revision <= pubShare.revision
    /\ Visit(v).row.revision = pubShare.revision => Visit(v).row.password = pubShare.password
Present(v) == Visit(v).row.revision = pubShare.revision

\* What a visit goes on with is of a version of the document that was, and it was
\* meant and open.
VersionKnown(v) ==
  /\ Visit(v).at \in {"look", "again"} => Visit(v).version <= pubDoc.version
  /\ Visit(v).at \in {"answer", "stream"} => Visit(v).version <= Visit(v).now /\ Visit(v).now <= pubDoc.version
MeantKnown(v) ==
  /\ Visit(v).at = "again" =>
       /\ Present(v) => pubShare.token = pubVisitors[v].token
       /\ Granted(v, Visit(v).row) => Visit(v).meant
  /\ Visit(v).at \in {"answer", "stream"} =>
       /\ Visit(v).meant /\ Visit(v).open
       /\ Present(v) => Knows(v)
VisitKnown(v) == RowKnown(v) /\ VersionKnown(v) /\ MeantKnown(v)

SharingInv ==
  /\ SharingTyped /\ RevisionsPaid /\ GrantsKnown /\ TabKnown
  /\ \A v \in Visitors : VisitKnown(v)
LEMMA SharingStart == PubInit => SharingInv
<1> SUFFICES ASSUME PubInit PROVE SharingInv
  OBVIOUS
<1> USE PublicShareAssumption DEF PubInit
<1>1. SharingTyped BY DEF SharingTyped, NoShare, ShareRow, PubPolicies, PubVisit
<1>2. RevisionsPaid /\ GrantsKnown /\ TabKnown
  BY DEF RevisionsPaid, GrantsKnown, TabKnown, NoShare, NoTab
<1>3. NoVisit.at = "idle" /\ \A v \in Visitors : Visit(v) = NoVisit BY DEF Visit, NoVisit
<1>4. \A v \in Visitors : VisitKnown(v) BY <1>3 DEF VisitKnown, RowKnown, VersionKnown, MeantKnown
<1> QED BY <1>1, <1>2, <1>4 DEF SharingInv

VisitTyped(v) ==
  LET t == Visit(v) IN
  /\ t.at # "idle" => t \notin {NoVisit} /\ t.row \in ShareRow
  /\ t.at = "judge" => t \in Judging
  /\ t.at = "read" => t \in Reading
  /\ t.at = "look" => t \in Looking /\ t.version \in Nat
  /\ t.at = "again" => t \in Again /\ t.version \in Nat
  /\ t.at \in {"answer", "stream"} => t \in Answering /\ t.version \in Nat /\ t.now \in Nat

LEMMA VisitFields == ASSUME SharingTyped, NEW v \in Visitors PROVE VisitTyped(v)
<1>1. Visit(v) \in PubVisit BY DEF SharingTyped, Visit
<1>3. /\ NoVisit.at = "idle"
      /\ \A t \in Judging : t.at = "judge" /\ t.row \in ShareRow
      /\ \A t \in Reading : t.at = "read" /\ t.row \in ShareRow
      /\ \A t \in Looking : t.at = "look" /\ t.row \in ShareRow /\ t.version \in Nat
      /\ \A t \in Again : t.at = "again" /\ t.row \in ShareRow /\ t.version \in Nat
      /\ \A t \in Answering : t.at \in {"answer", "stream"} /\ t.row \in ShareRow /\ t.version \in Nat /\ t.now \in Nat
  BY DEF NoVisit, Judging, Reading, Looking, Again, Answering
<1> QED BY <1>1, <1>3 DEF PubVisit, VisitTyped

LEMMA Onward == \A a, b, c \in Nat : a <= b /\ b <= c => a <= c
  OBVIOUS

OwnGrants(v) == {g \in pubGrants : g.of = v}

\* A visit that goes on stays known while the row it may be compared with is the
\* same or has a new revision, and its visitor learns no more than the present.
LEMMA VisitFrame ==
  ASSUME SharingTyped, SharingTyped', NEW v \in Visitors, VisitKnown(v), Visit(v)' = Visit(v),
         \/ pubShare'.revision = pubShare.revision + 1
         \/ /\ pubShare'.revision = pubShare.revision /\ pubShare'.token = pubShare.token
            /\ pubShare'.password = pubShare.password,
         pubDoc.version <= pubDoc'.version,
         OwnGrants(v)' \subseteq OwnGrants(v),
         Knows(v)' \/ (pubVisitors'[v].token = pubVisitors[v].token /\ pubVisitors'[v].password = pubVisitors[v].password)
  PROVE  VisitKnown(v)'
<1> USE DEF VisitKnown
<1>1. /\ pubShare.revision \in Nat /\ pubShare'.revision \in Nat /\ pubDoc.version \in Nat /\ pubDoc'.version \in Nat
      /\ VisitTyped(v)
  BY VisitFields DEF SharingTyped, ShareRow
<1>2. Visit(v).at # "idle" /\ Present(v)' =>
        Present(v) /\ pubShare'.token = pubShare.token /\ pubShare'.password = pubShare.password
  BY <1>1 DEF RowKnown, Present
<1>3. RowKnown(v)' BY <1>1, <1>2 DEF RowKnown, Present
<1>4. VersionKnown(v)'
  <2>1. /\ Visit(v).at \in {"look", "again", "answer", "stream"} => Visit(v).version \in Nat
        /\ Visit(v).at \in {"answer", "stream"} => Visit(v).now \in Nat
    BY <1>1 DEF VisitTyped
  <2>2. Visit(v).at \in {"look", "again"} => Visit(v).version <= pubDoc'.version
    <3>1. Visit(v).at \in {"look", "again"} => Visit(v).version <= pubDoc.version
      BY DEF VersionKnown
    <3> QED BY <1>1, <2>1, <3>1, Onward
  <2>3. Visit(v).at \in {"answer", "stream"} => Visit(v).version <= Visit(v).now /\ Visit(v).now <= pubDoc'.version
    <3>1. Visit(v).at \in {"answer", "stream"} => Visit(v).version <= Visit(v).now /\ Visit(v).now <= pubDoc.version
      BY DEF VersionKnown
    <3> QED BY <1>1, <2>1, <3>1, Onward
  <2> QED BY <2>2, <2>3 DEF VersionKnown
<1>5. Granted(v, Visit(v).row)' /\ Visit(v).at # "idle" => Granted(v, Visit(v).row)
  BY DEF Granted, OwnGrants
<1>6. MeantKnown(v)' BY <1>2, <1>5 DEF MeantKnown, Knows
<1> QED BY <1>3, <1>4, <1>6

LEMMA ChangeCounted ==
  ASSUME SharingTyped, PubChange
  PROVE  pubBounds' \in [changes : 0 .. PubChanges, visits : Nat] /\ pubBounds'.changes = pubBounds.changes + 1
BY PublicShareAssumption DEF SharingTyped, PubChange

\* What the owner, the administrators and time do to a share: a new revision of
\* the row, or the same row, over or not.
LEMMA SharingOwner ==
  ASSUME SharingInv,
         \/ \E password, download \in BOOLEAN : CreateShare(password, download)
         \/ \E change \in {"keep", "clear", "new"}, download \in BOOLEAN, seen \in 1 .. PubChanges :
              ReadToUpdate(change, download, seen)
         \/ UpdateShare \/ RevokeShare \/ ShareExpires \/ DocumentChanges \/ PolicyChanges
         \/ \E seen \in 1 .. PubChanges : RotateShare(seen)
  PROVE  SharingInv' /\ SharesAreKept
<1> DEFINE New   == pubShare'.revision = pubShare.revision + 1
           Same  == /\ pubShare'.revision = pubShare.revision /\ pubShare'.token = pubShare.token
                    /\ pubShare'.password = pubShare.password
           Going == /\ New \/ Same
                    /\ pubDoc.version <= pubDoc'.version /\ pubGrants' \subseteq pubGrants
                    /\ TabKnown' /\ RevokedIsRevoked
<1> USE PublicShareAssumption, ChangeCounted DEF SharingInv
<1>a. /\ pubShare \in ShareRow /\ pubShare.revision \in Nat /\ pubShare.revision + 1 \in Nat
      /\ pubDoc.version \in Nat /\ pubDoc.version + 1 \in Nat
      /\ pubBounds.changes \in Nat
      /\ pubTabs.at = "update" => pubTabs.seen \in Nat \ {0} /\ pubTabs.password \in Nat /\ pubTabs.download \in BOOLEAN
  BY DEF SharingTyped, ShareRow, NoTab
<1>c. pubTabs.at = "update" => pubShare.made BY <1>a DEF TabKnown, RevisionsPaid, NoShare
<1>b. pubVisitors' = pubVisitors /\ (\A v \in Visitors : Visit(v)' = Visit(v))
  BY DEF CreateShare, ReadToUpdate, UpdateShare, RevokeShare, ShareExpires, DocumentChanges, PolicyChanges, RotateShare, Visit
<1> USE <1>a, <1>b, <1>c
<1>1. ASSUME NEW password \in BOOLEAN, NEW download \in BOOLEAN, CreateShare(password, download)
      PROVE  SharingTyped' /\ RevisionsPaid' /\ Going
  <2>1. pubShare.revision = 0 /\ pubTabs = NoTab /\ ~pubShare.made /\ pubShare = NoShare
    <3>1. pubShare = NoShare BY <1>1 DEF CreateShare, RevisionsPaid
    <3>2. pubTabs.at # "update" BY <3>1 DEF TabKnown, NoShare
    <3> QED BY <3>1, <3>2 DEF SharingTyped, NoShare
  <2>2. /\ pubShare' \in ShareRow /\ pubShare'.revision = 1 /\ pubShare'.token = 1 /\ pubShare'.password \in {0, 1}
        /\ pubShare'.made /\ UNCHANGED <<pubDoc, pubPolicy, pubGrants, pubTabs, pubBounds>>
    BY <1>1 DEF CreateShare, NoShare, ShareRow
  <2>3. SharingTyped' BY <1>1, <2>2 DEF CreateShare, SharingTyped
  <2>4. RevisionsPaid' BY <2>1, <2>2 DEF RevisionsPaid
  <2>5. ~pubShare.revoked BY <2>1 DEF NoShare
  <2>6. Going BY <2>1, <2>2, <2>5 DEF TabKnown, RevokedIsRevoked, NoTab
  <2> QED BY <2>3, <2>4, <2>6
<1>2. ASSUME NEW change \in {"keep", "clear", "new"}, NEW download \in BOOLEAN, NEW seen \in 1 .. PubChanges,
             ReadToUpdate(change, download, seen)
      PROVE  SharingTyped' /\ RevisionsPaid' /\ Going
  <2>1. SharingTyped' BY <1>2 DEF ReadToUpdate, SharingTyped, ShareRow, NoTab
  <2>2. RevisionsPaid' BY <1>2 DEF ReadToUpdate, RevisionsPaid, ShareRow, NoTab
  <2>3. Going BY <1>2 DEF ReadToUpdate, SharingTyped, TabKnown, RevokedIsRevoked, ShareRow, NoTab
  <2> QED BY <2>1, <2>2, <2>3
<1>3. ASSUME UpdateShare
      PROVE  SharingTyped' /\ RevisionsPaid' /\ Going
  <2>1. SharingTyped' BY <1>3 DEF UpdateShare, Rewrites, SharingTyped, ShareRow, NoTab
  <2>2. RevisionsPaid' BY <1>3 DEF UpdateShare, Rewrites, RevisionsPaid, ShareRow, NoTab
  <2>3. Going
    BY <1>3 DEF UpdateShare, Rewrites, SharingTyped, TabKnown, RevokedIsRevoked, ShareRow, NoTab
  <2> QED BY <2>1, <2>2, <2>3
<1>4. ASSUME RevokeShare
      PROVE  SharingTyped' /\ RevisionsPaid' /\ Going
  <2>1. SharingTyped' BY <1>4 DEF RevokeShare, SharingTyped, ShareRow, NoTab
  <2>2. RevisionsPaid' BY <1>4 DEF RevokeShare, RevisionsPaid, ShareRow, NoTab
  <2>3. Going BY <1>4 DEF RevokeShare, SharingTyped, TabKnown, RevokedIsRevoked, ShareRow, NoTab
  <2> QED BY <2>1, <2>2, <2>3
<1>5. ASSUME ShareExpires
      PROVE  SharingTyped' /\ RevisionsPaid' /\ Going
  <2>1. SharingTyped' BY <1>5 DEF ShareExpires, SharingTyped, ShareRow, NoTab
  <2>2. RevisionsPaid' BY <1>5 DEF ShareExpires, RevisionsPaid, ShareRow, NoTab
  <2>3. Going BY <1>5 DEF ShareExpires, SharingTyped, TabKnown, RevokedIsRevoked, ShareRow, NoTab
  <2> QED BY <2>1, <2>2, <2>3
<1>6. ASSUME DocumentChanges
      PROVE  SharingTyped' /\ RevisionsPaid' /\ Going
  <2>1. SharingTyped' BY <1>6 DEF DocumentChanges, SharingTyped, ShareRow, NoTab
  <2>2. RevisionsPaid' BY <1>6 DEF DocumentChanges, RevisionsPaid, ShareRow, NoTab
  <2>3. Going
    <3>1. pubDoc'.version \in {pubDoc.version, pubDoc.version + 1}
      BY <1>6 DEF DocumentChanges, SharingTyped
    <3>2. UNCHANGED <<pubPolicy, pubShare, pubGrants, pubTabs>> BY <1>6 DEF DocumentChanges
    <3> QED BY <3>1, <3>2 DEF TabKnown, RevokedIsRevoked
  <2> QED BY <2>1, <2>2, <2>3
<1>7. ASSUME PolicyChanges
      PROVE  SharingTyped' /\ RevisionsPaid' /\ Going
  <2>1. SharingTyped' BY <1>7 DEF PolicyChanges, SharingTyped, PubPolicies
  <2>2. RevisionsPaid' BY <1>7 DEF PolicyChanges, RevisionsPaid, ShareRow, NoTab
  <2>3. Going BY <1>7 DEF PolicyChanges, SharingTyped, TabKnown, RevokedIsRevoked, ShareRow, NoTab
  <2> QED BY <2>1, <2>2, <2>3
<1>8. ASSUME NEW seen \in 1 .. PubChanges, RotateShare(seen)
      PROVE  SharingTyped' /\ RevisionsPaid' /\ Going
  <2>1. SharingTyped' BY <1>8 DEF RotateShare, Rewrites, SharingTyped, ShareRow, NoTab
  <2>a. /\ pubShare'.revision = pubShare.revision + 1 /\ pubShare'.token = pubShare.revision + 1
        /\ pubShare'.made /\ pubShare'.password = pubShare.password /\ ~pubShare.revoked
        /\ UNCHANGED <<pubDoc, pubPolicy, pubGrants, pubTabs>> /\ PubChange
    BY <1>8 DEF RotateShare, Rewrites, ShareRow
  <2>2. RevisionsPaid' BY <2>a DEF RevisionsPaid
  <2>3. Going BY <2>a DEF TabKnown, RevokedIsRevoked
  <2> QED BY <2>1, <2>2, <2>3
<1>9. SharingTyped' /\ RevisionsPaid' /\ Going BY <1>1, <1>2, <1>3, <1>4, <1>5, <1>6, <1>7, <1>8
<1>10. GrantsKnown' BY <1>9 DEF GrantsKnown, SharingTyped
<1>11. ASSUME NEW v \in Visitors PROVE VisitKnown(v)' BY <1>9, VisitFrame DEF OwnGrants
<1>12. ShownWasMeant BY DEF ShownWasMeant
<1> QED BY <1>9, <1>10, <1>11, <1>12 DEF SharesAreKept

\* What is shown was meant, at any step.
LEMMA ShownIsMeant == ASSUME SharingInv PROVE ShownWasMeant
<1>1. ASSUME NEW v \in Visitors, Shown(v)
      PROVE  Visit(v).meant /\ Visit(v).open /\ (Visit(v).download \/ Visit(v).now = Visit(v).version)
  <2>1. VisitTyped(v) /\ VisitKnown(v) /\ Visit(v).at = "answer" /\ pubDoc.version \in Nat
    BY <1>1, VisitFields DEF SharingInv, Shown, SharingTyped
  <2>2. Visit(v).meant /\ Visit(v).open BY <2>1 DEF VisitKnown, MeantKnown
  <2>3. Visit(v).version \in Nat /\ Visit(v).now \in Nat BY <2>1 DEF VisitTyped
  <2>4. Visit(v).version <= Visit(v).now /\ Visit(v).now <= pubDoc.version
    BY <2>1 DEF VisitKnown, VersionKnown
  <2> QED BY <1>1, <2>1, <2>2, <2>3, <2>4 DEF Shown
<1> QED BY <1>1 DEF ShownWasMeant

\* A visit that goes on, or ends with a grant.
LEMMA VisitGoes ==
  ASSUME SharingInv, NEW v \in Visitors, NEW next \in PubVisit, Visits(v, next),
         UNCHANGED <<pubDoc, pubPolicy, pubShare, pubTabs>>,
         pubBounds' \in [changes : 0 .. PubChanges, visits : Nat], pubBounds'.changes = pubBounds.changes,
         \/ pubGrants' = pubGrants
         \/ /\ pubGrants' = pubGrants \cup {[of |-> v, revision |-> Visit(v).row.revision]}
            /\ Visit(v).at # "idle" /\ Visit(v).row.password = pubVisitors[v].password,
         pubVisitors'[v].visit = next => VisitKnown(v)'
  PROVE  SharingInv' /\ SharesAreKept
<1> USE DEF SharingInv
<1>1. pubVisitors \in [Visitors -> [token : Nat, password : Nat, visit : PubVisit]]
  BY DEF SharingTyped
<1>2. \A w \in Visitors : /\ pubVisitors'[w].token = pubVisitors[w].token
                          /\ pubVisitors'[w].password = pubVisitors[w].password
                          /\ pubVisitors'[w].visit = IF w = v THEN next ELSE pubVisitors[w].visit
  BY <1>1 DEF Visits
<1>3. pubVisitors' \in [Visitors -> [token : Nat, password : Nat, visit : PubVisit]]
  BY <1>1 DEF Visits
<1>4. RowKnown(v) BY DEF VisitKnown
<1>5. \A g \in pubGrants' \ pubGrants :
        /\ g.of = v /\ g.revision \in Nat \ {0} /\ g.revision <= pubShare.revision
        /\ g = [of |-> v, revision |-> g.revision]
        /\ g.revision = pubShare.revision => pubVisitors[v].password = pubShare.password
  BY <1>4 DEF RowKnown
<1>6. SharingTyped' BY <1>3, <1>5 DEF SharingTyped
<1>7. RevisionsPaid' /\ TabKnown' BY DEF RevisionsPaid, TabKnown
<1>8. GrantsKnown' BY <1>2, <1>5 DEF GrantsKnown, SharingTyped
<1>9. ASSUME NEW w \in Visitors, w # v PROVE VisitKnown(w)'
  <2>1. Visit(w)' = Visit(w) BY <1>2, <1>9 DEF Visit
  <2>2. OwnGrants(w)' \subseteq OwnGrants(w) BY <1>5, <1>9 DEF OwnGrants
  <2>3. pubDoc.version <= pubDoc'.version BY DEF SharingTyped
  <2> QED BY <1>2, <1>6, <2>1, <2>2, <2>3, VisitFrame
<1>10. VisitKnown(v)' BY <1>2
<1>11. RevokedIsRevoked BY DEF RevokedIsRevoked
<1> QED BY <1>6, <1>7, <1>8, <1>9, <1>10, <1>11, ShownIsMeant DEF SharesAreKept

\* What a visitor learns and does.
LEMMA SharingVisitor ==
  ASSUME SharingInv, NEW v \in Visitors,
         \/ Tell(v) \/ JudgeVisit(v) \/ ReadShared(v) \/ LookAgain(v) \/ JudgeAgain(v)
         \/ Answer(v) \/ Stream(v) \/ Unlock(v)
         \/ \E download \in BOOLEAN : BeginVisit(v, download)
  PROVE  SharingInv' /\ SharesAreKept
<1> USE DEF SharingInv
<1> DEFINE t == Visit(v)
           Told == pubVisitors'[v].token = pubVisitors[v].token /\ pubVisitors'[v].password = pubVisitors[v].password
<1>1. /\ pubShare \in ShareRow /\ pubPolicy \in PubPolicies /\ pubDoc.version \in Nat /\ pubShare.revision \in Nat
      /\ pubBounds \in [changes : 0 .. PubChanges, visits : Nat] /\ VisitTyped(v) /\ VisitKnown(v)
      /\ NoVisit \in PubVisit
  BY VisitFields DEF SharingTyped, ShareRow, PubVisit
<1>2. ASSUME pubVisitors'[v].visit = NoVisit PROVE VisitKnown(v)'
  <2>1. Visit(v)'.at = "idle" BY <1>2 DEF Visit, NoVisit
  <2> QED BY <2>1 DEF VisitKnown, RowKnown, VersionKnown, MeantKnown
<1>3. CASE Visits(v, NoVisit) /\ UnchangedButVisit /\ UNCHANGED pubBounds
  BY <1>1, <1>2, <1>3, VisitGoes DEF UnchangedButVisit
<1>4. CASE Unlock(v) BY <1>1, <1>2, <1>4, VisitGoes DEF Unlock
<1>5. CASE Tell(v)
  <2>1. UNCHANGED <<pubDoc, pubPolicy, pubShare, pubGrants, pubTabs, pubBounds>> BY <1>5 DEF Tell
  <2>2. /\ pubVisitors' \in [Visitors -> [token : Nat, password : Nat, visit : PubVisit]]
        /\ \A w \in Visitors : pubVisitors'[w].visit = pubVisitors[w].visit
        /\ \A w \in Visitors \ {v} : pubVisitors'[w] = pubVisitors[w]
        /\ pubVisitors'[v].token = pubShare.token /\ pubVisitors'[v].password = pubShare.password
    BY <1>5 DEF Tell, SharingTyped, ShareRow
  <2>3. SharingTyped' BY <2>1, <2>2 DEF SharingTyped
  <2>4. RevisionsPaid' /\ TabKnown' /\ RevokedIsRevoked
    BY <2>1 DEF RevisionsPaid, TabKnown, RevokedIsRevoked
  <2>5. GrantsKnown' BY <2>1, <2>2 DEF GrantsKnown, SharingTyped
  <2>6. Knows(v)' BY <2>1, <2>2 DEF Knows
  <2>7. ASSUME NEW w \in Visitors PROVE VisitKnown(w)'
    <3>1. Visit(w)' = Visit(w) BY <2>2 DEF Visit
    <3>2. pubDoc.version <= pubDoc'.version BY <1>1, <2>1
    <3>3. Knows(w)' \/ (pubVisitors'[w].token = pubVisitors[w].token /\ pubVisitors'[w].password = pubVisitors[w].password)
      BY <2>2, <2>6
    <3>4. OwnGrants(w)' = OwnGrants(w) BY <2>1 DEF OwnGrants
    <3> QED BY <2>1, <2>3, <3>1, <3>2, <3>3, <3>4, VisitFrame
  <2> QED BY <2>3, <2>4, <2>5, <2>7, ShownIsMeant DEF SharesAreKept
<1>6. CASE \E download \in BOOLEAN : BeginVisit(v, download)
  <2> PICK download \in BOOLEAN : BeginVisit(v, download) BY <1>6
  <2> DEFINE next == [at |-> "judge", row |-> pubShare, download |-> download]
  <2>1. next \in PubVisit BY <1>1 DEF PubVisit, Judging
  <2>2. /\ Visits(v, next) /\ UnchangedButVisit /\ pubShare.made
        /\ pubBounds' \in [changes : 0 .. PubChanges, visits : Nat] /\ pubBounds'.changes = pubBounds.changes
    BY <1>1 DEF BeginVisit
  <2>3. pubShare.revision \in Nat \ {0} BY <1>1, <2>2 DEF RevisionsPaid
  <2>4. ASSUME pubVisitors'[v].visit = next PROVE VisitKnown(v)'
    <3>1. Visit(v)'.at = "judge" /\ Visit(v)'.row = pubShare /\ pubShare' = pubShare
      BY <2>2, <2>4 DEF Visit, UnchangedButVisit
    <3>2. RowKnown(v)' BY <1>1, <2>3, <3>1 DEF RowKnown
    <3>3. VersionKnown(v)' /\ MeantKnown(v)' BY <3>1 DEF VersionKnown, MeantKnown
    <3> QED BY <3>2, <3>3 DEF VisitKnown
  <2> QED BY <2>1, <2>2, <2>4, VisitGoes DEF UnchangedButVisit
<1>7. ASSUME NEW next \in PubVisit, Visits(v, next), UnchangedButVisit, UNCHANGED pubBounds,
             pubVisitors'[v].visit = next => VisitKnown(v)'
      PROVE  SharingInv' /\ SharesAreKept
  BY <1>1, <1>7, VisitGoes DEF UnchangedButVisit
<1>t. ASSUME NEW next, Visits(v, next) PROVE Told
  <2>1. pubVisitors[v] \in [token : Nat, password : Nat, visit : PubVisit] BY DEF SharingTyped
  <2> QED BY <1>t, <2>1 DEF Visits, SharingTyped
<1>8. ASSUME UnchangedButVisit, t.at # "idle", Visit(v)'.at # "idle",
             Visit(v)'.row = t.row \/ (Visit(v)'.row = pubShare /\ pubShare.revision # 0)
      PROVE  RowKnown(v)'
  BY <1>1, <1>8 DEF VisitKnown, RowKnown, UnchangedButVisit
<1>9. CASE JudgeVisit(v)
  <2> DEFINE next == [at |-> "read", row |-> t.row, policy |-> pubPolicy, download |-> t.download]
  <2>1. t \in Judging /\ UnchangedButVisit /\ UNCHANGED pubBounds /\ (Visits(v, next) \/ Visits(v, NoVisit))
    BY <1>1, <1>9 DEF JudgeVisit, VisitTyped
  <2>2. next \in PubVisit BY <1>1, <2>1 DEF PubVisit, Judging, Reading
  <2>3. ASSUME pubVisitors'[v].visit = next PROVE VisitKnown(v)'
    <3>1. t.at = "judge" /\ Visit(v)'.at = "read" /\ Visit(v)'.row = t.row
      BY <2>1, <2>3 DEF Visit, Judging
    <3>2. RowKnown(v)' BY <1>8, <2>1, <3>1
    <3> QED BY <3>1, <3>2 DEF VisitKnown, VersionKnown, MeantKnown
  <2> QED BY <1>3, <1>7, <2>1, <2>2, <2>3
<1>10. CASE ReadShared(v)
  <2> DEFINE next == [at |-> "look", row |-> t.row, policy |-> t.policy, download |-> t.download, version |-> pubDoc.version]
  <2>1. t \in Reading /\ UnchangedButVisit /\ UNCHANGED pubBounds /\ (Visits(v, next) \/ Visits(v, NoVisit))
    BY <1>1, <1>10 DEF ReadShared, VisitTyped
  <2>2. next \in PubVisit BY <1>1, <2>1 DEF PubVisit, Reading, Looking
  <2>3. ASSUME pubVisitors'[v].visit = next PROVE VisitKnown(v)'
    <3>1. /\ t.at = "read" /\ Visit(v)'.at = "look" /\ Visit(v)'.row = t.row
          /\ Visit(v)'.version = pubDoc'.version /\ pubDoc'.version \in Nat
      BY <1>1, <2>1, <2>3 DEF Visit, Reading, UnchangedButVisit
    <3>2. RowKnown(v)' BY <1>8, <2>1, <3>1
    <3>3. VersionKnown(v)' /\ MeantKnown(v)' BY <3>1 DEF VersionKnown, MeantKnown
    <3> QED BY <3>2, <3>3 DEF VisitKnown
  <2> QED BY <1>3, <1>7, <2>1, <2>2, <2>3
<1>11. CASE LookAgain(v)
  <2> DEFINE next == [at |-> "again", row |-> pubShare, policy |-> t.policy, download |-> t.download,
                      version |-> t.version, same |-> pubShare.revision = t.row.revision, meant |-> Meant(v)]
  <2>0. t \in Looking /\ UnchangedButVisit /\ UNCHANGED pubBounds
    BY <1>1, <1>11 DEF LookAgain, VisitTyped
  <2>1. (Visits(v, next) /\ OpenTo(v, pubShare)) \/ Visits(v, NoVisit) BY <1>11 DEF LookAgain
  <2>2. next \in PubVisit
    <3>1. Meant(v) \in BOOLEAN BY DEF Meant
    <3> QED BY <1>1, <2>0, <3>1 DEF PubVisit, Looking, Again
  <2>3. ASSUME pubVisitors'[v].visit = next, Told, OpenTo(v, pubShare) PROVE VisitKnown(v)'
    <3>1. /\ t.at = "look" /\ Visit(v)'.at = "again" /\ Visit(v)'.row = pubShare
          /\ Visit(v)'.version = t.version /\ Visit(v)'.meant = Meant(v)
      BY <2>0, <2>3 DEF Visit, Looking
    <3>2. RowKnown(v)'
      <4>1. pubShare.revision # 0 BY <1>1, <3>1 DEF VisitKnown, RowKnown
      <4> QED BY <1>8, <2>0, <3>1, <4>1
    <3>3. VersionKnown(v)' BY <1>1, <2>0, <3>1 DEF VisitKnown, VersionKnown, UnchangedButVisit
    <3>4. pubVisitors'[v].token = pubVisitors[v].token /\ pubShare.token = pubVisitors[v].token
      BY <2>3 DEF OpenTo
    <3>5. ASSUME Granted(v, pubShare) PROVE Meant(v)
      BY <2>3, <3>5 DEF Granted, Meant, OpenTo, GrantsKnown
    <3>6. Granted(v, pubShare)' = Granted(v, pubShare) BY <2>0 DEF Granted, UnchangedButVisit
    <3>7. MeantKnown(v)' BY <2>0, <3>1, <3>4, <3>5, <3>6 DEF MeantKnown, UnchangedButVisit
    <3> QED BY <3>2, <3>3, <3>7 DEF VisitKnown
  <2> QED BY <1>3, <1>7, <1>t, <2>0, <2>1, <2>2, <2>3
<1>12. CASE JudgeAgain(v)
  <2> DEFINE next == [at |-> "answer", row |-> t.row, policy |-> t.policy, download |-> t.download, version |-> t.version,
                      meant |-> t.meant, open |-> PubAllowed(pubPolicy), now |-> pubDoc.version]
  <2>0. t \in Again /\ UnchangedButVisit /\ UNCHANGED pubBounds
    BY <1>1, <1>12 DEF JudgeAgain, VisitTyped
  <2>1. (Visits(v, next) /\ PubAllowed(pubPolicy) /\ Granted(v, t.row)) \/ Visits(v, NoVisit)
    BY <1>12 DEF JudgeAgain, Judged
  <2>2. next \in PubVisit
    <3>1. PubAllowed(pubPolicy) \in BOOLEAN BY DEF PubAllowed
    <3> QED BY <1>1, <2>0, <3>1 DEF PubVisit, Again, Answering
  <2>3. ASSUME pubVisitors'[v].visit = next, Told, PubAllowed(pubPolicy), Granted(v, t.row) PROVE VisitKnown(v)'
    <3>0. pubDoc' = pubDoc BY <2>0 DEF UnchangedButVisit
    <3>1. /\ t.at = "again" /\ Visit(v)'.at = "answer" /\ Visit(v)'.row = t.row /\ Visit(v)'.version = t.version
          /\ Visit(v)'.now = pubDoc'.version /\ Visit(v)'.meant = t.meant /\ Visit(v)'.open
      BY <2>0, <2>3, <3>0 DEF Visit, Again
    <3>2. RowKnown(v)' BY <1>8, <2>0, <3>1
    <3>3. VersionKnown(v)'
      <4>1. t.version <= pubDoc.version BY <1>1, <3>1 DEF VisitKnown, VersionKnown
      <4> QED BY <1>1, <3>0, <3>1, <4>1 DEF VersionKnown
    <3>4. t.meant /\ (Present(v) => pubShare.token = pubVisitors[v].token)
      BY <1>1, <2>3, <3>1 DEF VisitKnown, MeantKnown
    <3>5. Present(v) => pubShare.password \in {0, pubVisitors[v].password}
      BY <1>1, <2>3, <3>1 DEF VisitKnown, RowKnown, Present, Granted, GrantsKnown
    <3>7. MeantKnown(v)'
      BY <2>0, <3>1, <2>3, <3>4, <3>5 DEF MeantKnown, Knows, Present, UnchangedButVisit
    <3> QED BY <3>2, <3>3, <3>7 DEF VisitKnown
  <2> QED BY <1>3, <1>7, <1>t, <2>0, <2>1, <2>2, <2>3
<1>13. ASSUME NEW next \in Answering, next.row = t.row, next.version = t.version, next.now = t.now, next.meant, next.open,
              t \in Answering, UnchangedButVisit, UNCHANGED pubBounds, Visits(v, next)
       PROVE  SharingInv' /\ SharesAreKept
  <2>1. next \in PubVisit BY <1>13 DEF PubVisit
  <2>2. ASSUME pubVisitors'[v].visit = next PROVE VisitKnown(v)'
    <3>1. Visit(v)' = next /\ pubDoc' = pubDoc /\ pubShare' = pubShare
      BY <1>13, <2>2 DEF Visit, UnchangedButVisit
    <3>2. t.at \in {"answer", "stream"} /\ next.at \in {"answer", "stream"} BY <1>13 DEF Answering
    <3>3. RowKnown(v)' BY <1>8, <1>13, <3>1, <3>2
    <3>4. VersionKnown(v)'
      <4>1. t.version <= t.now /\ t.now <= pubDoc.version BY <1>1, <3>2 DEF VisitKnown, VersionKnown
      <4> QED BY <1>13, <3>1, <3>2, <4>1 DEF VersionKnown
    <3>5. MeantKnown(v)'
      <4>1. Present(v) => Knows(v) BY <1>1, <3>2 DEF VisitKnown, MeantKnown
      <4> QED BY <1>13, <1>t, <3>1, <3>2, <4>1 DEF MeantKnown, Present, Knows
    <3> QED BY <3>3, <3>4, <3>5 DEF VisitKnown
  <2> QED BY <1>7, <1>13, <2>1, <2>2
<1>14. CASE Answer(v)
  <2> DEFINE next == [t EXCEPT !.at = "stream"]
  <2>1. /\ t.at = "answer" /\ t \in Answering /\ UnchangedButVisit /\ UNCHANGED pubBounds
        /\ Visits(v, next) \/ Visits(v, NoVisit)
    BY <1>1, <1>14 DEF Answer, VisitTyped
  <2>2. next \in Answering /\ next.row = t.row /\ next.version = t.version /\ next.now = t.now
    BY <2>1 DEF Answering
  <2>3. next.meant = t.meant /\ next.open = t.open BY <2>1 DEF Answering
  <2>4. t.meant /\ t.open BY <1>1, <2>1 DEF VisitKnown, MeantKnown
  <2> QED BY <1>3, <1>13, <2>1, <2>2, <2>3, <2>4
<1>15. CASE Stream(v)
  <2> DEFINE next == [t EXCEPT !.at = "answer", !.meant = Meant(v), !.open = PubAllowed(pubPolicy)]
  <2>1. /\ t.at = "stream" /\ t \in Answering /\ UnchangedButVisit /\ UNCHANGED pubBounds
        /\ \/ Visits(v, NoVisit)
           \/ /\ Visits(v, next) /\ pubShare.revision = t.row.revision /\ ~pubShare.revoked /\ ~pubShare.expired
              /\ PubAllowed(pubPolicy)
    BY <1>1, <1>15 DEF Stream, VisitTyped
  <2>2. CASE Visits(v, NoVisit) BY <1>3, <2>1, <2>2
  <2>3. CASE ~Visits(v, NoVisit)
    <3>1. Meant(v) /\ PubAllowed(pubPolicy)
      BY <1>1, <2>1, <2>3 DEF VisitKnown, MeantKnown, Present, Knows, Meant
    <3>2. next = [t EXCEPT !.at = "answer", !.meant = TRUE, !.open = TRUE] BY <3>1
    <3>3. next \in Answering /\ next.row = t.row /\ next.version = t.version /\ next.now = t.now /\ next.meant /\ next.open
      BY <2>1, <3>2 DEF Answering
    <3> QED BY <1>13, <2>1, <2>3, <3>3
  <2> QED BY <2>2, <2>3
<1> QED BY <1>4, <1>5, <1>6, <1>9, <1>10, <1>11, <1>12, <1>14, <1>15


LEMMA SharingStep == ASSUME SharingInv, PubNext \/ UNCHANGED pubVars PROVE SharingInv' /\ PubTypeOK' /\ SharesAreKept
<1>1. ASSUME PubNext PROVE SharingInv' /\ SharesAreKept
  BY <1>1, SharingOwner, SharingVisitor DEF PubNext
<1>2. ASSUME UNCHANGED pubVars PROVE SharingInv' /\ SharesAreKept
  <2>1. SharingTyped' /\ RevisionsPaid' /\ GrantsKnown' /\ TabKnown'
    BY <1>2 DEF pubVars, SharingInv, SharingTyped, RevisionsPaid, GrantsKnown, TabKnown
  <2>2. \A v \in Visitors : VisitKnown(v)'
    BY <1>2 DEF pubVars, SharingInv, VisitKnown, RowKnown, VersionKnown, MeantKnown, Visit, Present, Knows, Granted
  <2>3. RevokedIsRevoked BY <1>2 DEF pubVars, RevokedIsRevoked
  <2>4. SharingInv' BY <2>1, <2>2 DEF SharingInv
  <2> QED BY <2>3, <2>4, ShownIsMeant DEF SharesAreKept
<1>3. SharingInv' /\ SharesAreKept BY <1>1, <1>2
<1>4. \A v \in Visitors : Visit(v)'.at \in {"idle", "judge", "read", "look", "again", "answer", "stream"}
  BY <1>3 DEF SharingInv, SharingTyped, Visit, PubVisit, NoVisit, Judging, Reading, Looking, Again, Answering
<1>5. pubShare'.revision \in 0 .. PubChanges + 1 /\ pubShare'.token <= pubShare'.revision
  BY <1>3, PublicShareAssumption DEF SharingInv, SharingTyped, RevisionsPaid, ShareRow
<1>6. \A g \in pubGrants' : g.revision \in 1 .. pubShare'.revision
  BY <1>3, <1>5 DEF SharingInv, SharingTyped, GrantsKnown
<1> QED BY <1>3, <1>4, <1>5, <1>6 DEF SharingInv, SharingTyped, PubTypeOK, PubPolicies, NoTab, Visit

(******************************* Access rights ******************************)

RowsTyped ==
  /\ accDoc \in [version : Nat \ {0}, visibility : Visibilities, above : BOOLEAN, trashed : BOOLEAN]
  /\ accShares \in [Members -> Rights \cup {"none"}]
  /\ accRoles \in [Members -> {"editor", "viewer", "gone"}]
  /\ accBounds \in [changes : Nat, requests : Nat]

\* A request is known by its id.
RequestsKnown ==
  /\ accRequests \subseteq [id : Nat, by : Members, right : Rights,
                            status : {"pending", "granted", "rejected", "cancelled"}, named : BOOLEAN]
  /\ \A q \in accRequests : q.id <= accBounds.requests
  /\ \A q, r \in accRequests : q.id = r.id => q = r

\* What a preview was shown to open is what it opens on the rows it has seen.
Opens(t) ==
  {k \in Members \X Rights : MayAccess(k[1], k[2], [t.fingerprint[1] EXCEPT !.visibility = t.visibility],
                                       t.fingerprint[2], t.fingerprint[3])}
TicketKnown == accTicket # NoPreview => accTicket.visibility \in Visibilities /\ accTicket.opens = Opens(accTicket)

AccessInv == RowsTyped /\ RequestsKnown /\ TicketKnown

LEMMA AccessStart == AccInit => AccessInv
BY DEF AccInit, AccessInv, RowsTyped, RequestsKnown, TicketKnown, Visibilities, Rights, NoPreview

\* A request that is answered is the only one that is.
LEMMA Answered ==
  ASSUME AccessInv, NEW q \in accRequests, NEW status \in {"granted", "rejected", "cancelled"}, q.status = "pending",
         Resolve(q, status), accBounds' = accBounds
  PROVE  /\ RequestsKnown' /\ accRequests' # accRequests
         /\ \A r \in accRequests : Grants(r) => r = q /\ status = "granted"
<1> DEFINE a == [q EXCEPT !.status = status]
<1> USE DEF AccessInv, RequestsKnown
<1>1. /\ accRequests' = (accRequests \ {q}) \cup {a} /\ a.id = q.id /\ a.status = status
      /\ a \in [id : Nat, by : Members, right : Rights,
                status : {"pending", "granted", "rejected", "cancelled"}, named : BOOLEAN]
  BY DEF Resolve
<1>2. RequestsKnown' /\ accRequests' # accRequests BY <1>1
<1>3. ASSUME NEW r \in accRequests, Grants(r) PROVE r = q /\ status = "granted"
  <2>1. [r EXCEPT !.status = "granted"].id = r.id /\ [r EXCEPT !.status = "granted"].status = "granted"
    OBVIOUS
  <2>2. PICK s \in accRequests' : s.id = r.id /\ s.status = "granted" BY <1>3, <2>1 DEF Grants
  <2>3. r.status = "pending" BY <1>3 DEF Grants
  <2> QED BY <1>1, <2>2, <2>3
<1> QED BY <1>2, <1>3

LEMMA NothingGranted == ASSUME AccessInv, NEW q \in accRequests, accRequests' = accRequests PROVE ~Grants(q)
<1>1. [q EXCEPT !.status = "granted"].id = q.id /\ [q EXCEPT !.status = "granted"].status = "granted"
  BY DEF AccessInv, RequestsKnown
<1> QED BY <1>1 DEF AccessInv, RequestsKnown, Grants

LEMMA AccessStep == ASSUME AccessInv, AccNext \/ UNCHANGED accVars PROVE AccessInv' /\ AccTypeOK' /\ AccessIsAsMeant
<1> USE DEF AccessInv
<1> DEFINE Kept == RequestsKnown' /\ TicketKnown' /\ AccessIsAsMeant
<1>0. accDoc.version + 1 \in Nat \ {0} /\ (~accDoc.above) \in BOOLEAN /\ (~accDoc.trashed) \in BOOLEAN
  BY DEF RowsTyped
<1>1. ASSUME RowsTyped', accRequests' = accRequests, accTicket' \in {accTicket, NoPreview},
             accBounds'.requests = accBounds.requests,
             accDoc'.visibility = accDoc.visibility \/ accBounds' # accBounds
      PROVE  Kept
  <2>1. RequestsKnown' /\ TicketKnown' BY <1>1 DEF RequestsKnown, TicketKnown, Opens
  <2> QED BY <1>1, <2>1, NothingGranted DEF AccessIsAsMeant, GrantIsExact, ConfirmedAsShown
<1>2. ASSUME AccChange PROVE /\ accBounds' \in [changes : Nat, requests : Nat] /\ accBounds' # accBounds
                             /\ accBounds'.requests = accBounds.requests
  BY <1>2 DEF AccChange, RowsTyped
<1>3. ASSUME AccRequest PROVE /\ accBounds' \in [changes : Nat, requests : Nat] /\ accBounds' # accBounds
                              /\ accBounds'.requests = accBounds.requests + 1
  BY <1>3 DEF AccRequest, RowsTyped
<1>4. ASSUME NEW m \in Members, NEW right \in Rights \cup {"none"}, SetShare(m, right) PROVE RowsTyped' /\ Kept
  <2>1. RowsTyped' BY <1>2, <1>4 DEF SetShare, RowsTyped
  <2> QED BY <1>1, <1>2, <1>4, <2>1 DEF SetShare
<1>5. ASSUME NEW m \in Members, NEW role \in {"editor", "viewer", "gone"}, ChangeRole(m, role) PROVE RowsTyped' /\ Kept
  <2>1. RowsTyped' BY <1>2, <1>5 DEF ChangeRole, RowsTyped
  <2> QED BY <1>1, <1>2, <1>5, <2>1 DEF ChangeRole
<1>6. ASSUME DocumentAround PROVE RowsTyped' /\ Kept
  <2>1. UNCHANGED <<accShares, accRoles, accRequests, accTicket>> /\ AccChange
    BY <1>6 DEF DocumentAround
  <2>2. accDoc' \in [version : Nat \ {0}, visibility : Visibilities, above : BOOLEAN, trashed : BOOLEAN]
    BY <1>0, <1>6 DEF DocumentAround, RowsTyped
  <2>3. RowsTyped' BY <1>2, <2>1, <2>2 DEF RowsTyped
  <2> QED BY <1>1, <1>2, <2>1, <2>3
<1>7. ASSUME NEW visibility \in Visibilities, NEW expected \in Nat, SaveVisibility(visibility, expected) PROVE RowsTyped' /\ Kept
  <2>1. RowsTyped' BY <1>0, <1>2, <1>7 DEF SaveVisibility, RowsTyped
  <2> QED BY <1>1, <1>2, <1>7, <2>1 DEF SaveVisibility
<1>8. ASSUME NEW m \in Members, NEW right \in Rights, RequestAccess(m, right) PROVE RowsTyped' /\ Kept
  <2> DEFINE named == ~accDoc.trashed /\ ~MayAccess(m, right, accDoc, accShares, accRoles)
             new   == [id |-> accBounds'.requests, by |-> m, right |-> right, status |-> "pending", named |-> named]
  <2>1. /\ accRequests' = accRequests \cup {new} /\ accBounds'.requests = accBounds.requests + 1 /\ accBounds' # accBounds
        /\ UNCHANGED <<accDoc, accShares, accRoles, accTicket>> /\ accBounds' \in [changes : Nat, requests : Nat]
    BY <1>3, <1>8 DEF RequestAccess
  <2>2. named \in BOOLEAN
    OBVIOUS
  <2>3. new \in [id : Nat, by : Members, right : Rights,
                 status : {"pending", "granted", "rejected", "cancelled"}, named : BOOLEAN] /\ new.id = accBounds.requests + 1
        /\ new.status = "pending"
    BY <2>1, <2>2
  <2>4. RowsTyped' BY <2>1 DEF RowsTyped
  <2>5. accBounds.requests \in Nat BY DEF RowsTyped
  <2> HIDE DEF new
  <2>6. RequestsKnown' BY <2>1, <2>3, <2>5 DEF RequestsKnown
  <2>7. ASSUME NEW q \in accRequests PROVE ~Grants(q)
    <3>1. [q EXCEPT !.status = "granted"].id = q.id /\ [q EXCEPT !.status = "granted"].status = "granted"
      BY DEF RequestsKnown
    <3> QED BY <2>1, <2>3, <3>1 DEF RequestsKnown, Grants
  <2> QED BY <2>1, <2>4, <2>6, <2>7 DEF TicketKnown, Opens, AccessIsAsMeant, GrantIsExact, ConfirmedAsShown
<1>9. ASSUME NEW q \in accRequests, CancelRequest(q) \/ RejectRequest(q) PROVE RowsTyped' /\ Kept
  <2>1. PICK status \in {"rejected", "cancelled"} : q.status = "pending" /\ Resolve(q, status)
    BY <1>9 DEF CancelRequest, RejectRequest
  <2>2. UNCHANGED <<accDoc, accShares, accRoles, accTicket, accBounds>>
    BY <1>9 DEF CancelRequest, RejectRequest
  <2> QED BY <2>1, <2>2, Answered DEF RowsTyped, TicketKnown, Opens, AccessIsAsMeant, GrantIsExact, ConfirmedAsShown
<1>10. ASSUME NEW q \in accRequests, NEW expected \in Nat, GrantRequest(q, expected) PROVE RowsTyped' /\ Kept
  <2>1. /\ q.status = "pending" /\ Resolve(q, "granted") /\ MayGrant(q) /\ q.by \in Members /\ q.right \in Rights
        /\ accShares' = [accShares EXCEPT ![q.by] = q.right] /\ UNCHANGED <<accRoles, accTicket, accBounds>>
    BY <1>10 DEF GrantRequest, RequestsKnown
  <2>2. RowsTyped' /\ accDoc'.above = accDoc.above
        /\ accDoc'.visibility = IF accDoc.visibility = "private" THEN "selected" ELSE accDoc.visibility
    BY <1>0, <1>10, <2>1 DEF GrantRequest, RowsTyped, Visibilities
  <2>3. /\ RequestsKnown' /\ accRequests' # accRequests /\ \A r \in accRequests : Grants(r) => r = q
    BY <2>1, Answered
  <2>4. <<q.by, q.right>> \in Access'
    BY <2>1, <2>2 DEF Access, MayAccess, MayGrant, RowsTyped, Rights, Visibilities
  <2>5. ASSUME NEW k \in Access' \ Access PROVE k[1] = q.by /\ (q.right = "write" \/ k[2] = "read")
    <3>1. k \in Members \X Rights /\ k[1] \in Members /\ k[2] \in Rights BY DEF Access
    <3>2. MayAccess(k[1], k[2], accDoc', accShares', accRoles) /\ ~MayAccess(k[1], k[2], accDoc, accShares, accRoles)
      BY <2>1, <3>1 DEF Access
    <3>3. k[1] = q.by
      BY <2>1, <2>2, <3>1, <3>2 DEF MayAccess, MayGrant, Dormant, RowsTyped, Rights, Visibilities
    <3> QED BY <2>1, <2>2, <3>1, <3>2, <3>3 DEF MayAccess, RowsTyped, Rights, Visibilities
  <2> QED BY <2>1, <2>2, <2>3, <2>4, <2>5 DEF TicketKnown, Opens, AccessIsAsMeant, GrantIsExact, ConfirmedAsShown
<1>11. ASSUME NEW visibility \in Visibilities, PreviewAccess(visibility) PROVE RowsTyped' /\ Kept
  <2>1. /\ UNCHANGED <<accDoc, accShares, accRoles, accRequests>> /\ accBounds' # accBounds
        /\ accBounds'.requests = accBounds.requests + 1 /\ accBounds' \in [changes : Nat, requests : Nat]
    BY <1>3, <1>11 DEF PreviewAccess
  <2>2. /\ accTicket'.visibility = visibility /\ accTicket'.fingerprint = <<accDoc, accShares, accRoles>>
        /\ accTicket'.opens = {k \in Members \X Rights :
                    MayAccess(k[1], k[2], [accDoc EXCEPT !.visibility = visibility], accShares, accRoles)}
    BY <1>11 DEF PreviewAccess, Fingerprint
  <2>3. RowsTyped' /\ RequestsKnown' BY <2>1 DEF RowsTyped, RequestsKnown
  <2>4. TicketKnown' BY <2>2 DEF TicketKnown, Opens
  <2> QED BY <2>1, <2>3, <2>4, NothingGranted DEF AccessIsAsMeant, GrantIsExact, ConfirmedAsShown
<1>12. ASSUME PreviewExpires PROVE RowsTyped' /\ Kept BY <1>1, <1>12 DEF PreviewExpires, RowsTyped
<1>13. ASSUME Confirm PROVE RowsTyped' /\ Kept
  <2>1. /\ UNCHANGED <<accShares, accRoles, accRequests, accTicket, accBounds>> /\ accTicket # NoPreview
        /\ accTicket.fingerprint = <<accDoc, accShares, accRoles>>
    BY <1>13 DEF Confirm, Fingerprint
  <2>a. accTicket.visibility \in Visibilities BY <2>1 DEF TicketKnown
  <2>2. RowsTyped' /\ accDoc'.above = accDoc.above /\ accDoc'.visibility = accTicket.visibility
    <3>1. accDoc' = [accDoc EXCEPT !.version = accDoc.version + 1, !.visibility = accTicket.visibility]
      BY <1>13 DEF Confirm
    <3> QED BY <1>0, <2>1, <2>a, <3>1 DEF RowsTyped
  <2>3. accTicket.opens = {k \in Members \X Rights :
             MayAccess(k[1], k[2], [accDoc EXCEPT !.visibility = accTicket.visibility], accShares, accRoles)}
    BY <2>1 DEF TicketKnown, Opens
  <2>4. Access' = accTicket.opens
    <3>1. /\ [accDoc EXCEPT !.visibility = accTicket.visibility].above = accDoc'.above
          /\ [accDoc EXCEPT !.visibility = accTicket.visibility].visibility = accDoc'.visibility
      BY <2>2 DEF RowsTyped
    <3> QED BY <2>1, <2>3, <3>1 DEF Access, MayAccess
  <2>5. RequestsKnown' /\ TicketKnown' BY <2>1 DEF RequestsKnown, TicketKnown, Opens
  <2> QED BY <2>1, <2>2, <2>4, <2>5, NothingGranted DEF AccessIsAsMeant, GrantIsExact, ConfirmedAsShown
<1>14. ASSUME UNCHANGED accVars PROVE RowsTyped' /\ Kept
  <2>1. RowsTyped' BY <1>14 DEF accVars, RowsTyped
  <2> QED BY <1>1, <1>14, <2>1 DEF accVars
<1>15. RowsTyped' /\ Kept
  <2>1. 1 .. accDoc.version \subseteq Nat BY DEF RowsTyped
  <2> QED BY <1>4, <1>5, <1>6, <1>7, <1>8, <1>9, <1>10, <1>11, <1>12, <1>13, <1>14, <2>1 DEF AccNext
<1> QED BY <1>15 DEF RowsTyped, RequestsKnown, AccTypeOK


(********************************* Proposals ********************************)

Texts     == ProposalIds \cup {Plain, Edit, Masked}
DocRows   == [version : Nat \ {0}, text : Texts, open : BOOLEAN]
Reports   == [revision : Nat \ {0}, versions : [Pair -> Nat \ {0}]]
Proposals == [status : {"open", "merged", "decided"}, revision : Nat, doc : Pair, base : Nat, from : Texts,
              origin : {NoOrigin} \cup Reports]
Merges    == [at : {"merge"}, id : ProposalIds, seen : Nat, old : DocRows, held : SUBSET Pair]

ProposalsTyped ==
  /\ propDocs \in [Pair -> DocRows] /\ propMasking \in BOOLEAN /\ propReport \in {NoReport} \cup Reports
  /\ proposals \in [ProposalIds -> {NoProposal} \cup Proposals] /\ propTxs \in [Mergers -> {NoMerge} \cup Merges]

\* The version that a proposal started from had its text, and the report it was
\* drawn from is there.
ProposalKnown(p) ==
  LET q == proposals[p] IN q.status # "none" =>
    /\ q.base <= propDocs[q.doc].version /\ (q.base = propDocs[q.doc].version => q.from = propDocs[q.doc].text)
    /\ q.origin # NoOrigin => propReport # NoReport

\* A merge has locked the first rows of its order.
MergeKnown(c) ==
  LET p == propTxs[c].id IN c \in Merging =>
    /\ proposals[p].status # "none"
    /\ propTxs[c].held \in IF p \in Linked THEN {{}, {1}, {1, 2}} ELSE {{}, {proposals[p].doc}}

ProposalsInv ==
  /\ ProposalsTyped
  /\ \A p \in ProposalIds : ProposalKnown(p)
  /\ \A c \in Mergers : MergeKnown(c)

LEMMA ProposalsStart == PropInit => ProposalsInv
<1> SUFFICES ASSUME PropInit PROVE ProposalsInv
  OBVIOUS
<1>1. ProposalsTyped
  <2>1. [version |-> 1, text |-> Plain, open |-> TRUE] \in DocRows BY DEF DocRows, Texts
  <2> QED BY <2>1 DEF PropInit, ProposalsTyped
<1>2. (\A p \in ProposalIds : proposals[p].status = "none") /\ (\A c \in Mergers : c \notin Merging)
  BY DEF PropInit, NoProposal, NoMerge, Merging
<1> QED BY <1>1, <1>2 DEF ProposalsInv, ProposalKnown, MergeKnown

WantsOf(c) ==
  LET p == propTxs[c].id  held == propTxs[c].held IN
  IF p \in Linked THEN IF held = {} THEN {1} ELSE IF held = {1} THEN {2} ELSE {}
  ELSE IF held = {} THEN {proposals[p].doc} ELSE {}

LEMMA Wanted == ASSUME NEW c \in Mergers, c \in Merging, MergeKnown(c) PROVE Wants(c) = WantsOf(c)
<1> DEFINE p == propTxs[c].id  held == propTxs[c].held
           order == LockOrder(p)  left == {n \in DOMAIN order : order[n] \notin held}
<1>1. CASE p \in Linked
  <2>1. order = <<1, 2>> /\ held \in {{}, {1}, {1, 2}} BY <1>1 DEF LockOrder, MergeKnown
  <2>2. /\ held = {} => left = {1, 2} 
        /\ held = {1} => left = {2}
        /\ held = {1, 2} => left = {}
    BY <2>1
  <2> QED BY <1>1, <2>1, <2>2 DEF Wants, WantsOf
<1>2. CASE p \notin Linked
  <2>1. order = <<proposals[p].doc>> /\ held \in {{}, {proposals[p].doc}}
    BY <1>2 DEF LockOrder, MergeKnown
  <2>2. /\ held = {} => left = {1} 
        /\ held # {} => left = {}
    BY <2>1
  <2>3. held = {} => (CHOOSE n \in left : \A m \in left : n <= m) = 1 BY <2>2
  <2>4. order[1] = proposals[p].doc BY <2>1
  <2>5. Wants(c) = IF left = {} THEN {} ELSE {order[CHOOSE n \in left : \A m \in left : n <= m]}
    BY DEF Wants
  <2>6. CASE held = {} BY <1>2, <2>2, <2>3, <2>4, <2>5, <2>6 DEF WantsOf
  <2>7. CASE held # {} BY <1>2, <2>2, <2>5, <2>7 DEF WantsOf
  <2> QED BY <2>6, <2>7
<1> QED BY <1>1, <1>2

\* Two rows that are locked and wanted crosswise are the same.
LEMMA NobodyEmbraced == ProposalsInv => NoEmbrace
<1> SUFFICES ASSUME ProposalsInv, NEW b \in Merging, NEW c \in Merging,
                    Wants(b) \cap propTxs[c].held # {}, Wants(c) \cap propTxs[b].held # {}
             PROVE  FALSE
  BY DEF NoEmbrace
<1>1. b \in Mergers /\ c \in Mergers /\ MergeKnown(b) /\ MergeKnown(c) BY DEF Merging, ProposalsInv
<1>2. Wants(b) = WantsOf(b) /\ Wants(c) = WantsOf(c) BY <1>1, Wanted
<1> QED BY <1>1, <1>2 DEF WantsOf, MergeKnown

Stays(p) ==
  proposals[p].status # "none" =>
    /\ proposals'[p].status # "none" /\ proposals'[p].doc = proposals[p].doc /\ proposals'[p].base = proposals[p].base
    /\ proposals'[p].from = proposals[p].from /\ proposals'[p].origin = proposals[p].origin

\* Documents move on, proposals keep what they were drawn from, and a report that
\* one refers to stays.
LEMMA ProposalFrame ==
  ASSUME ProposalsInv, NEW p \in ProposalIds, proposals[p].status # "none", Stays(p),
         \A d \in Pair : propDocs'[d] = propDocs[d] \/ propDocs'[d].version = propDocs[d].version + 1
                          \/ (propDocs'[d].version = propDocs[d].version /\ propDocs'[d].text = propDocs[d].text),
         p \in Linked => propReport' # NoReport
  PROVE  ProposalKnown(p)'
<1>1. /\ proposals[p].base \in Nat /\ proposals[p].doc \in Pair /\ ProposalKnown(p)
      /\ propDocs[proposals[p].doc].version \in Nat
  BY DEF ProposalsInv, ProposalsTyped, Proposals, NoProposal, DocRows
<1> QED BY <1>1 DEF Stays, ProposalKnown, Linked

LEMMA MergeFrame ==
  ASSUME ProposalsInv, NEW c \in Mergers, propTxs'[c] = propTxs[c], c \in Merging => Stays(propTxs[c].id)
  PROVE  MergeKnown(c)'
<1>1. c \in Merging => propTxs[c].id \in ProposalIds /\ MergeKnown(c)
  BY DEF ProposalsInv, ProposalsTyped, Merges, NoMerge, Merging
<1> QED BY <1>1 DEF MergeKnown, Merging, Linked, Stays

LEMMA ProposalsStep ==
  ASSUME ProposalsInv, PropNext \/ UNCHANGED propVars PROVE ProposalsInv' /\ PropTypeOK' /\ MergedAsCompared /\ AnsweredOnce
<1> USE DEF ProposalsInv
<1> DEFINE Kept  == ProposalsInv' /\ MergedAsCompared /\ AnsweredOnce
           Going == \A d \in Pair : \/ propDocs'[d] = propDocs[d] \/ propDocs'[d].version = propDocs[d].version + 1
                                    \/ propDocs'[d].version = propDocs[d].version /\ propDocs'[d].text = propDocs[d].text
<1>0. /\ \A c \in Mergers : c \in Merging => propTxs[c].id \in ProposalIds
      /\ \A c \in Mergers : propTxs'[c] = NoMerge => MergeKnown(c)'
  BY DEF ProposalsTyped, Merging, Merges, NoMerge, MergeKnown
<1>1. ASSUME ProposalsTyped', UNCHANGED <<proposals, propTxs>>, Linked # {} => propReport' # NoReport, Going
      PROVE  Kept
  <2>1. \A p \in ProposalIds : Stays(p) /\ (proposals[p].status = "none" => ProposalKnown(p)')
    BY <1>1 DEF Stays, ProposalKnown
  <2>2. \A p \in ProposalIds : ProposalKnown(p)' BY <1>1, <2>1, ProposalFrame
  <2>3. \A c \in Mergers : MergeKnown(c)' BY <1>1, MergeFrame DEF Stays
  <2> QED BY <1>1, <2>2, <2>3 DEF MergedAsCompared, AnsweredOnce
<1>2. \A p \in Linked : propReport # NoReport BY DEF Linked, ProposalKnown
<1>3. ASSUME NEW d \in Pair, EditDocument(d) \/ RightsChange(d) PROVE Kept
  <2>1. propDocs[d].version + 1 \in Nat \ {0} /\ (~propDocs[d].open) \in BOOLEAN
    BY DEF ProposalsTyped, DocRows
  <2>2. /\ UNCHANGED <<propMasking, propReport, proposals, propTxs>>
        /\ propDocs' \in [Pair -> DocRows] /\ Going
    <3>1. CASE EditDocument(d) BY <2>1, <3>1 DEF EditDocument, ProposalsTyped, DocRows, Texts
    <3>2. CASE RightsChange(d) BY <2>1, <3>2 DEF RightsChange, ProposalsTyped, DocRows
    <3> QED BY <1>3, <3>1, <3>2
  <2> QED BY <1>1, <1>2, <2>2 DEF ProposalsTyped
<1>4. ASSUME MaskingChanges \/ UNCHANGED propVars PROVE Kept
  <2>1. ProposalsTyped' /\ UNCHANGED <<propDocs, propReport, proposals, propTxs>>
    BY <1>4 DEF MaskingChanges, propVars, ProposalsTyped
  <2> QED BY <1>1, <1>2, <2>1
<1>5. ASSUME NEW seen \in Nat, Compare \/ Review(seen) \/ DeleteReport PROVE Kept
  <2>1. UNCHANGED <<propDocs, propMasking, proposals, propTxs>>
    BY <1>5 DEF Compare, Review, DeleteReport
  <2>2. propReport' \in {NoReport} \cup Reports /\ (Linked # {} => propReport' # NoReport)
    <3>1. CASE Compare BY <3>1 DEF Compare, Reports, NoReport, ProposalsTyped, DocRows
    <3>2. CASE Review(seen)
      <4>1. propReport \in Reports /\ propReport.revision + 1 \in Nat \ {0}
        BY <3>2 DEF Review, Reports, ProposalsTyped
      <4> QED BY <3>2, <4>1 DEF Review, Reports, NoReport
    <3>3. CASE DeleteReport BY <3>3 DEF DeleteReport, Deletable
    <3> QED BY <1>5, <3>1, <3>2, <3>3
  <2> QED BY <1>1, <2>1, <2>2 DEF ProposalsTyped
<1>6. ASSUME NEW p \in ProposalIds, NEW d \in Pair, NEW linked \in BOOLEAN, Propose(p, d, linked)
      PROVE  Kept
  <2> DEFINE origin == IF linked THEN propReport ELSE NoOrigin
             new    == [status |-> "open", revision |-> 1, doc |-> d, base |-> propDocs[d].version,
                        from |-> propDocs[d].text, origin |-> origin]
  <2>1. /\ proposals' = [proposals EXCEPT ![p] = new] /\ proposals[p] = NoProposal
        /\ UNCHANGED <<propDocs, propMasking, propReport, propTxs>> /\ (linked => propReport # NoReport)
    BY <1>6 DEF Propose
  <2>2. new \in Proposals BY <2>1 DEF Proposals, ProposalsTyped, DocRows
  <2>3. new.status = "open" /\ new.doc = d /\ new.base = propDocs[d].version /\ new.from = propDocs[d].text /\ new.origin = origin
    OBVIOUS
  <2> HIDE DEF new
  <2>4. ProposalsTyped' BY <2>1, <2>2 DEF ProposalsTyped
  <2>5. proposals'[p] = new /\ \A q \in ProposalIds \ {p} : proposals'[q] = proposals[q]
    BY <2>1 DEF ProposalsTyped
  <2>6. NoProposal.status = "none" BY DEF NoProposal
  <2>7. \A q \in ProposalIds : Stays(q) BY <2>1, <2>5, <2>6 DEF Stays
  <2>8. ASSUME NEW q \in ProposalIds PROVE ProposalKnown(q)'
    <3>1. CASE proposals[q].status # "none" BY <1>2, <2>1, <2>7, <3>1, ProposalFrame
    <3>2. CASE proposals[q].status = "none" /\ q # p BY <2>5, <3>2 DEF ProposalKnown
    <3>3. CASE q = p
      BY <2>1, <2>2, <2>3, <2>5, <3>3 DEF ProposalKnown, Proposals, ProposalsTyped, DocRows
    <3> QED BY <3>1, <3>2, <3>3
  <2>9. ASSUME NEW c \in Mergers PROVE MergeKnown(c)' BY <1>0, <2>1, <2>7, MergeFrame
  <2> QED BY <1>2, <2>1, <2>3, <2>4, <2>5, <2>6, <2>8, <2>9 DEF MergedAsCompared, AnsweredOnce
\* What a proposal that is answered leaves as it was.
<1>7. ASSUME NEW p \in ProposalIds, NEW status \in {"decided", "merged"}, proposals[p].status = "open",
             proposals' = [proposals EXCEPT ![p].status = status, ![p].revision = @ + 1],
             propReport' = propReport
      PROVE  /\ proposals' \in [ProposalIds -> {NoProposal} \cup Proposals] /\ \A q \in ProposalIds : Stays(q)
             /\ AnsweredOnce /\ \A q \in ProposalIds \ {p} : proposals'[q] = proposals[q]
             /\ proposals'[p].status = status
             /\ \A q \in ProposalIds : proposals[q].status = "none" => proposals'[q] = proposals[q]
  <2>1. proposals[p] \in Proposals BY <1>7 DEF ProposalsTyped, NoProposal
  <2>2. proposals[p].revision + 1 \in Nat BY <2>1 DEF Proposals
  <2>3. proposals'[p] = [proposals[p] EXCEPT !.status = status, !.revision = proposals[p].revision + 1]
    BY <1>7 DEF ProposalsTyped
  <2>4. /\ proposals'[p] \in Proposals /\ proposals'[p].status = status
        /\ proposals'[p].doc = proposals[p].doc /\ proposals'[p].base = proposals[p].base
        /\ proposals'[p].from = proposals[p].from /\ proposals'[p].origin = proposals[p].origin
    BY <2>1, <2>2, <2>3 DEF Proposals
  <2>5. \A q \in ProposalIds \ {p} : proposals'[q] = proposals[q] BY <1>7 DEF ProposalsTyped
  <2>6. proposals' \in [ProposalIds -> {NoProposal} \cup Proposals]
    BY <1>7, <2>4, <2>5 DEF ProposalsTyped
  <2>7. \A q \in ProposalIds : Stays(q) BY <2>4, <2>5 DEF Stays
  <2> QED BY <1>2, <1>7, <2>4, <2>5, <2>6, <2>7 DEF AnsweredOnce
<1>8. ASSUME NEW p \in ProposalIds, DecideProposal(p) PROVE Kept
  <2>1. /\ proposals[p].status = "open" /\ UNCHANGED <<propDocs, propMasking, propReport, propTxs>>
        /\ proposals' = [proposals EXCEPT ![p].status = "decided", ![p].revision = @ + 1]
    BY <1>8 DEF DecideProposal
  <2>2. ProposalsTyped' BY <1>7, <2>1 DEF ProposalsTyped
  <2>3. ASSUME NEW q \in ProposalIds PROVE ProposalKnown(q)'
    <3>1. CASE proposals[q].status # "none" BY <1>2, <1>7, <2>1, <3>1, ProposalFrame
    <3>2. CASE proposals[q].status = "none" BY <1>7, <2>1, <3>2 DEF ProposalKnown
    <3> QED BY <3>1, <3>2
  <2>4. ASSUME NEW c \in Mergers PROVE MergeKnown(c)' BY <1>0, <1>7, <2>1, MergeFrame
  <2> QED BY <1>7, <2>1, <2>2, <2>3, <2>4 DEF MergedAsCompared
\* A merge begins, locks a row, or is given up.
<1>9. ASSUME NEW c \in Mergers, NEW next \in {NoMerge} \cup Merges, propTxs' = [propTxs EXCEPT ![c] = next],
             UNCHANGED <<propDocs, propMasking, propReport, proposals>>, propTxs'[c] = next => MergeKnown(c)'
      PROVE  Kept
  <2>1. ProposalsTyped' /\ propTxs'[c] = next /\ \A b \in Mergers \ {c} : propTxs'[b] = propTxs[b]
    BY <1>9 DEF ProposalsTyped
  <2>2. \A p \in ProposalIds : ProposalKnown(p)' BY <1>9 DEF ProposalKnown
  <2>3. \A b \in Mergers : MergeKnown(b)' BY <1>9, <2>1, MergeFrame DEF Stays
  <2> QED BY <1>2, <1>9, <2>1, <2>2, <2>3 DEF MergedAsCompared, AnsweredOnce
<1>10. ASSUME NEW c \in Mergers, GiveUp(c) PROVE Kept BY <1>0, <1>9, <1>10 DEF GiveUp
<1>11. ASSUME NEW c \in Mergers, NEW p \in ProposalIds, BeginMerge(c, p) PROVE Kept
  <2> DEFINE next == [at |-> "merge", id |-> p, seen |-> proposals[p].revision, old |-> propDocs[proposals[p].doc], held |-> {}]
  <2>1. /\ proposals[p].status = "open" /\ propTxs' = [propTxs EXCEPT ![c] = next]
        /\ UNCHANGED <<propDocs, propMasking, propReport, proposals>>
    BY <1>11 DEF BeginMerge
  <2>2. proposals[p] \in Proposals BY <2>1 DEF ProposalsTyped, NoProposal
  <2>3. next \in Merges /\ next.id = p /\ next.held = {}
    BY <2>2 DEF Merges, Proposals, ProposalsTyped
  <2> HIDE DEF next
  <2>4. propTxs'[c] = next => MergeKnown(c)' BY <2>1, <2>3 DEF MergeKnown
  <2> QED BY <1>9, <2>1, <2>3, <2>4
<1>12. ASSUME NEW c \in Mergers, LockRow(c) PROVE Kept
  <2> DEFINE p    == propTxs[c].id
             next == [propTxs[c] EXCEPT !.held = propTxs[c].held \cup Wants(c)]
  <2>1. /\ c \in Merging /\ propTxs' = [propTxs EXCEPT ![c] = next] /\ Wants(c) # {}
        /\ UNCHANGED <<propDocs, propMasking, propReport, proposals>>
    BY <1>12 DEF LockRow, ProposalsTyped
  <2>2. propTxs[c] \in Merges /\ p \in ProposalIds /\ MergeKnown(c) /\ Wants(c) = WantsOf(c)
    BY <2>1, Wanted DEF ProposalsTyped, NoMerge, Merging, Merges
  <2>3. proposals[p].doc \in Pair
    BY <2>1, <2>2 DEF MergeKnown, ProposalsTyped, Proposals, NoProposal
  <2>4. WantsOf(c) \subseteq Pair BY <2>3 DEF WantsOf, Pair
  <2>5. next \in Merges /\ next.id = p /\ next.held = propTxs[c].held \cup WantsOf(c)
    BY <2>2, <2>4 DEF Merges
  <2>6. next.held \in IF p \in Linked THEN {{}, {1}, {1, 2}} ELSE {{}, {proposals[p].doc}}
    BY <2>1, <2>2, <2>5 DEF MergeKnown, WantsOf
  <2> HIDE DEF next
  <2>7. propTxs'[c] = next => MergeKnown(c)' BY <2>1, <2>2, <2>5, <2>6 DEF MergeKnown, Linked
  <2> QED BY <1>9, <2>1, <2>5, <2>7
<1>13. ASSUME NEW c \in Mergers, EndMerge(c) PROVE Kept
  <2> DEFINE p == propTxs[c].id  q == proposals[p]  d == q.doc
  <2>1. /\ c \in Merging /\ propTxs' = [propTxs EXCEPT ![c] = NoMerge] /\ UNCHANGED <<propMasking, propReport>>
    BY <1>13 DEF EndMerge
  <2>2. p \in ProposalIds /\ q \in Proposals /\ d \in Pair /\ ProposalKnown(p)
    <3>1. p \in ProposalIds /\ q.status # "none" BY <1>0, <2>1 DEF MergeKnown
    <3> QED BY <3>1 DEF ProposalsTyped, Proposals, NoProposal
  <2>3. CASE UNCHANGED <<propDocs, proposals>> BY <1>0, <1>9, <2>1, <2>3
  <2>4. CASE ~UNCHANGED <<propDocs, proposals>>
    <3>1. /\ MayMerge(c) /\ Readable(Rows(p)) /\ q.status = "open" /\ Mask(p) = p /\ propDocs[d].version = q.base
          /\ propDocs' = [propDocs EXCEPT ![d].version = @ + 1, ![d].text = p] /\ OriginStands(p)
          /\ proposals' = [proposals EXCEPT ![p].status = "merged", ![p].revision = @ + 1]
      BY <1>13, <2>4 DEF EndMerge, MayMerge, Mask
    <3>2. propDocs[d].version + 1 \in Nat \ {0} /\ p \in Texts
      BY <2>2 DEF ProposalsTyped, DocRows, Texts
    <3>3. /\ propDocs'[d].version = propDocs[d].version + 1 /\ propDocs'[d].text = p
          /\ \A e \in Pair \ {d} : propDocs'[e] = propDocs[e]
          /\ propDocs' \in [Pair -> DocRows]
      BY <2>2, <3>1, <3>2 DEF ProposalsTyped, DocRows
    <3>4. ProposalsTyped' BY <1>7, <2>1, <2>2, <3>1, <3>3 DEF ProposalsTyped
    <3>5. ASSUME NEW r \in ProposalIds PROVE ProposalKnown(r)'
      <4>1. CASE proposals[r].status # "none"
        BY <1>2, <1>7, <2>1, <2>2, <3>1, <3>3, <4>1, ProposalFrame
      <4>2. CASE proposals[r].status = "none" BY <1>7, <2>1, <2>2, <3>1, <4>2 DEF ProposalKnown
      <4> QED BY <4>1, <4>2
    <3>6. ASSUME NEW b \in Mergers PROVE MergeKnown(b)'
      <4>1. CASE b = c BY <1>0, <2>1, <4>1 DEF ProposalsTyped
      <4>2. CASE b # c
        <5>1. propTxs'[b] = propTxs[b] BY <2>1, <4>2 DEF ProposalsTyped
        <5> QED BY <1>0, <1>7, <2>1, <2>2, <3>1, <5>1, MergeFrame
      <4> QED BY <4>1, <4>2
    <3>7. MergedAsCompared
      <4>1. propDocs[d].text = q.from BY <2>2, <3>1 DEF ProposalKnown
      <4>2. q.origin # NoOrigin =>
              propReport.revision = q.origin.revision /\ \A e \in Pair : propDocs[e].version = q.origin.versions[e] /\ propDocs[e].open
        BY <2>2, <3>1 DEF OriginStands, ReportFresh, Linked, Readable, Rows
      <4>3. \A r \in ProposalIds \ {p} : proposals'[r] = proposals[r] BY <1>7, <2>1, <2>2, <3>1
      <4>4. QED
        <5>1. propDocs'[d].version = q.base + 1 BY <3>1, <3>3
        <5>2. ASSUME NEW r \in ProposalIds, proposals[r] # proposals'[r] PROVE r = p BY <4>3, <5>2
        <5>3. /\ q.status = "open" /\ propDocs[q.doc].version = q.base /\ propDocs[q.doc].text = q.from
              /\ propDocs'[q.doc].version = q.base + 1 /\ propDocs'[q.doc].text = p
              /\ q.origin # NoOrigin =>
                   /\ propReport.revision = q.origin.revision
                   /\ \A e \in Pair : propDocs[e].version = q.origin.versions[e] /\ propDocs[e].open
          BY <3>1, <3>3, <4>1, <4>2, <5>1
        <5> QED BY <5>2, <5>3, Zenon DEF MergedAsCompared
    <3> QED BY <1>7, <2>1, <2>2, <3>1, <3>4, <3>5, <3>6, <3>7
  <2> QED BY <2>3, <2>4
<1>14. Kept
  <2>1. 1 .. PropChanges \subseteq Nat
    OBVIOUS
  <2> QED BY <1>3, <1>4, <1>5, <1>6, <1>8, <1>10, <1>11, <1>12, <1>13, <2>1 DEF PropNext
<1>15. PropTypeOK'
  BY <1>14 DEF PropTypeOK, ProposalsTyped, DocRows, Texts, Reports, NoReport, Proposals, NoProposal, Merges, NoMerge
<1> QED BY <1>14, <1>15


(********************************* The workspace ****************************)

WorkspaceInv ==
  /\ scene = "sharing" => SharingInv
  /\ scene = "access" => AccessInv
  /\ scene = "proposals" => ProposalsInv
MergesGoOn == scene = "proposals" => NoEmbrace

LEMMA WorkspaceStep ==
  ASSUME WorkspaceInv, [WorkspaceNext]_workspaceVars
  PROVE  /\ WorkspaceInv'
         /\ scene = "sharing" => PubTypeOK' /\ SharesAreKept
         /\ scene = "access" => AccTypeOK' /\ AccessIsAsMeant
         /\ scene = "proposals" => PropTypeOK' /\ MergedAsCompared /\ AnsweredOnce
         /\ scene' = scene
<1> USE DEF WorkspaceInv
<1>1. scene' = scene BY DEF WorkspaceNext, workspaceVars
<1>2. CASE scene = "sharing"
  <2>1. PubNext \/ UNCHANGED pubVars BY <1>2 DEF WorkspaceNext, workspaceVars
  <2> QED BY <1>1, <1>2, <2>1, SharingStep
<1>3. CASE scene = "access"
  <2>1. AccNext \/ UNCHANGED accVars BY <1>3 DEF WorkspaceNext, workspaceVars
  <2> QED BY <1>1, <1>3, <2>1, AccessStep
<1>4. CASE scene = "proposals"
  <2>1. PropNext \/ UNCHANGED propVars BY <1>4 DEF WorkspaceNext, workspaceVars
  <2> QED BY <1>1, <1>4, <2>1, ProposalsStep
<1> QED BY <1>1, <1>2, <1>3, <1>4

\* What each part of a workspace promises about its steps: a visitor is shown what
\* was theirs to see, a granted request opens what was asked for and no more, a
\* confirmed change gives what its preview said, and a proposal is merged once,
\* word for word, on the text it was compared with.
THEOREM WorkspaceHolds == WorkspaceSpec => WorkspaceHold
<1>1. WorkspaceInit => WorkspaceInv
  BY SharingStart, AccessStart, ProposalsStart DEF WorkspaceInit, WorkspaceInv
<1>2. WorkspaceInv => MergesGoOn BY NobodyEmbraced DEF WorkspaceInv, MergesGoOn
<1>3. WorkspaceInv /\ [WorkspaceNext]_workspaceVars => WorkspaceInv' BY WorkspaceStep
<1>4. WorkspaceInv /\ [WorkspaceNext]_workspaceVars /\ MergesGoOn' =>
        /\ scene = "sharing" => PubTypeOK' /\ SharesAreKept
        /\ scene = "access" => AccTypeOK' /\ AccessIsAsMeant
        /\ scene = "proposals" => PropTypeOK' /\ ProposalsAreExact
  BY WorkspaceStep DEF MergesGoOn, ProposalsAreExact
<1> QED BY <1>1, <1>2, <1>3, <1>4, PTL DEF WorkspaceSpec, WorkspaceHold
==============================================================================
