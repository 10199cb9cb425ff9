-------------------------------- MODULE GitSync --------------------------------
(* Git synchronisation (internal/server/git_sync_*.go): a run is previewed by a *)
(* job, confirmed by a user, and executed by another job.  A push is one        *)
(* compare-and-swap of the remote branch, which no transaction of the database  *)
(* covers and whose answer may be lost; a pull saves one document at a time.    *)
(* Users edit the documents and others commit to the branch meanwhile.          *)
EXTENDS Naturals, Sequences, FiniteSets

CONSTANTS
  GitWorkers, NoGitWorker,  \* goroutines of the queue
  GitRuns,                  \* git_sync_runs of one connection, numbers from 1: also their commits
  GitPaths,                 \* paths, numbers from 1; the document at path 1 links to the others
  Foreign,                  \* what is numbered from here on was not written here
  GitAttempts, GitTroubles  \* bounds

ASSUME GitAssumption == /\ Foreign \in Nat /\ GitRuns \cup GitPaths \subseteq 1 .. (Foreign - 1)
                        /\ GitAttempts \in Nat \ {0} /\ GitTroubles \in Nat

VARIABLES
  gitConsent,   \* git_sync_settings and git_sync_connections: their revisions and switches
  gitTexts,     \* versions of the documents; 0 is none
  gitMaps,      \* git_sync_mappings, with every pair the row has held
  gitRemote,    \* the branch: its head, its files, the runs' commits in its history, packs on their way
  gitRuns,      \* git_sync_runs, each with its current job
  gitWorkers,   \* what each goroutine is doing
  gitInspected, \* inspections that have found the candidate at the head
  gitTroubled   \* bound

gitVars == <<gitConsent, gitTexts, gitMaps, gitRemote, gitRuns, gitWorkers, gitInspected, gitTroubled>>

\* A document is named for its path, if it was written here, or else for its path
\* above Foreign, as the files of other people are.
GitDocs == GitPaths \cup {Foreign + p : p \in GitPaths}
PathOf(x) == IF x > Foreign THEN x - Foreign ELSE x
FileOf(x) == IF x > Foreign THEN gitTexts[x] + Foreign \div 2 ELSE gitTexts[x]   \* the hash of its export
Unmapped == <<0, 0, 0>>   \* a mapping: the document, its version, the hash of the remote file
GitOpen == {"preparing", "queued", "running"}
NoGitJob == [kind |-> "preview", status |-> "done", cancel |-> FALSE, attempts |-> 0, holder |-> NoGitWorker]
NoGitRun == [status |-> "none", direction |-> "push", selected |-> {}, consent |-> 0, remote |-> 0,
             docs |-> <<>>, files |-> <<>>, versions |-> <<>>, blocked |-> FALSE, confirmed |-> FALSE, launched |-> FALSE,
             kept |-> FALSE, job |-> NoGitJob]
GitIdle  == [at |-> "idle", r |-> 0, job |-> NoGitJob, run |-> NoGitRun, head |-> 0, left |-> <<>>]

GitTypeOK ==
  /\ gitTexts \in [GitDocs -> Nat]
  /\ \A p \in GitPaths : gitMaps[p].now \in gitMaps[p].past \cup {Unmapped}
  /\ gitRemote.commits \subseteq GitRuns /\ gitRemote.files \in [GitPaths -> Nat]
  /\ \A r \in GitRuns :
       /\ gitRuns[r].status \in GitOpen \cup {"none", "preview", "succeeded", "conflict", "failed",
                                              "cancelled", "unknown"}
       /\ gitRuns[r].job.attempts \in 0 .. GitAttempts
       /\ gitRuns[r].status \in {"queued", "running", "unknown"} => gitRuns[r].confirmed
       /\ gitRuns[r].launched => gitRuns[r].direction = "push"
  /\ \A w \in GitWorkers : gitWorkers[w].at \in {"idle", "load", "fetch", "rebuild", "connect", "launch",
                             "send", "transfer", "finish", "accept", "save", "settle"}
  /\ gitInspected \subseteq GitRuns /\ gitTroubled <= GitTroubles

Maps(p, row) == [gitMaps EXCEPT ![p] = [now |-> row, past |-> @.past \cup {row}]]

\* Path 1 is written here, and may have been exchanged; the others are in the
\* remote only.
GitInit ==
  /\ gitConsent = 1
  /\ gitTexts = [x \in GitDocs |-> IF x = 1 THEN 1 ELSE 0]
  /\ \E before \in BOOLEAN :
       /\ gitMaps = [p \in GitPaths |-> IF p = 1 /\ before
                       THEN [now |-> <<1, 1, 1>>, past |-> {<<1, 1, 1>>}] ELSE [now |-> Unmapped, past |-> {}]]
       /\ gitRemote = [head |-> Foreign, commits |-> {}, flying |-> {},
                       files |-> [p \in GitPaths |-> IF p # 1 THEN Foreign ELSE IF before THEN 1 ELSE 0]]
  /\ gitRuns = [r \in GitRuns |-> NoGitRun]
  /\ gitWorkers = [w \in GitWorkers |-> GitIdle]
  /\ gitInspected = {} /\ gitTroubled = 0

GitTrouble == gitTroubled < GitTroubles /\ gitTroubled' = gitTroubled + 1
Turns(w, record) == gitWorkers' = [gitWorkers EXCEPT ![w] = record]
Held(w)  == gitRuns[gitWorkers[w].r].job      \* the job, as it is now
RunOf(w) == gitRuns[gitWorkers[w].r]

\* gitSyncGuardTx: the consent and the versions are as the run has them.
Guarded(run) ==
  /\ run.consent = gitConsent
  /\ \A d \in DOMAIN run.versions : gitTexts[d] = run.versions[d]

----------------
(* The user.                                                                  *)

NotAtWork(run) == run.status \notin GitOpen

\* queueGitSyncPreview: one run of the connection at a time, unless the result
\* of the other is unknown.  Bound: the later runs are of the first path.
QueuePreview(r, direction, selected) ==
  /\ gitRuns[r].status = "none" /\ \A q \in GitRuns : NotAtWork(gitRuns[q]) /\ (q < r => gitRuns[q].status # "none")
  /\ r > 1 => {PathOf(x) : x \in selected} = {1}
  /\ direction = "push" => \A x \in selected : gitTexts[x] > 0
  /\ direction = "pull" => selected \subseteq GitPaths
  /\ gitRuns' = [gitRuns EXCEPT ![r] =
       [NoGitRun EXCEPT !.status = "preparing", !.direction = direction, !.selected = selected,
          !.consent = gitConsent, !.job = [NoGitJob EXCEPT !.status = "pending"]]]
  /\ UNCHANGED <<gitConsent, gitTexts, gitMaps, gitRemote, gitWorkers, gitInspected, gitTroubled>>

ConfirmGit(r) ==
  /\ gitRuns[r].status = "preview" /\ ~gitRuns[r].blocked /\ Guarded(gitRuns[r])
  /\ \A q \in GitRuns \ {r} : NotAtWork(gitRuns[q])
  /\ gitRuns' = [gitRuns EXCEPT ![r].status = "queued", ![r].confirmed = TRUE,
       ![r].job = [NoGitJob EXCEPT !.kind = "execute", !.status = "pending"]]
  /\ UNCHANGED <<gitConsent, gitTexts, gitMaps, gitRemote, gitWorkers, gitInspected, gitTroubled>>

\* A push that was launched stays unknown.
CancelGit(r) ==
  LET run == gitRuns[r] IN
  /\ run.status \in {"preparing", "preview", "queued", "running", "unknown"}
  /\ gitRuns' = [gitRuns EXCEPT
       ![r].status = IF run.direction = "push" /\ run.status \in {"running", "unknown"} THEN "unknown" ELSE "cancelled",
       ![r].job.cancel = @ \/ run.job.status \in {"pending", "running"}]
  /\ UNCHANGED <<gitConsent, gitTexts, gitMaps, gitRemote, gitWorkers, gitInspected, gitTroubled>>

\* gitSyncFinishPush: the mappings of what was sent.
Finished(r) ==
  /\ gitRuns[r].status \in {"running", "unknown", "queued", "succeeded"}
  /\ gitMaps' = [p \in GitPaths |->
       IF p \notin DOMAIN gitRuns[r].files THEN gitMaps[p]
       ELSE LET x == gitRuns[r].docs[p] IN Maps(p, <<x, gitRuns[r].versions[x], gitRuns[r].files[p]>>)[p]]

\* inspectGitSync only reads: the head, then the snapshot that is still kept.
InspectGit(r) ==
  /\ gitRuns[r].status = "unknown" /\ gitRuns[r].launched /\ gitRemote.head = r
  /\ gitInspected' = gitInspected \cup {r}
  /\ UNCHANGED <<gitConsent, gitTexts, gitMaps, gitRemote, gitRuns, gitWorkers, gitTroubled>>

FinishInspection(r) ==
  /\ r \in gitInspected /\ gitInspected' = gitInspected \ {r}
  /\ IF gitRuns[r].kept /\ gitRuns[r].status \in {"running", "unknown", "queued", "succeeded"}
     THEN Finished(r) /\ gitRuns' = [gitRuns EXCEPT ![r].status = "succeeded"]
     ELSE UNCHANGED <<gitMaps, gitRuns>>
  /\ UNCHANGED <<gitConsent, gitTexts, gitRemote, gitWorkers, gitTroubled>>

----------------
(* The queue.                                                                 *)

ClaimGit(w, r) ==
  LET job == [gitRuns[r].job EXCEPT !.status = "running", !.attempts = @ + 1, !.holder = w] IN
  /\ gitWorkers[w].at = "idle" /\ gitRuns[r].job.status = "pending" /\ ~gitRuns[r].job.cancel
  /\ gitRuns' = [gitRuns EXCEPT ![r].job = job]
  /\ Turns(w, [GitIdle EXCEPT !.at = "load", !.r = r, !.job = job])
  /\ UNCHANGED <<gitConsent, gitTexts, gitMaps, gitRemote, gitInspected, gitTroubled>>

\* The lease runs out: the goroutine died, or goes on without it.
LoseGit(r) ==
  LET job == gitRuns[r].job IN
  /\ job.status = "running" /\ GitTrouble
  /\ gitRuns' = [gitRuns EXCEPT ![r].job = [job EXCEPT !.holder = NoGitWorker,
       !.status = IF job.cancel THEN "cancelled" ELSE IF job.attempts < GitAttempts THEN "pending" ELSE "failed"]]
  /\ UNCHANGED gitWorkers \/ Turns(job.holder, GitIdle)
  /\ UNCHANGED <<gitConsent, gitTexts, gitMaps, gitRemote, gitInspected>>

GitMine(w) == Held(w).kind = gitWorkers[w].job.kind   \* run.job_id is this job
GitLeased(w) == GitMine(w) /\ Held(w).status = "running" /\ Held(w).holder = w /\ ~Held(w).cancel
GitSettled(w, status) ==
  IF ~GitMine(w) \/ Held(w).holder # w THEN Held(w)
  ELSE [Held(w) EXCEPT !.holder = NoGitWorker,
          !.status = IF Held(w).cancel THEN "cancelled"
                     ELSE IF status = "retry" THEN IF Held(w).attempts < GitAttempts THEN "pending" ELSE "failed"
                     ELSE status]

\* Mutant: a transfer without an answer counts as a failure.
LostAsFailed(run, status) ==
  IF run.status \notin GitOpen THEN run ELSE [run EXCEPT !.status = status]

\* Mutant: whatever breaks before a push may have happened.
BrokenAsUnknown(run, status) ==
  IF run.status \notin GitOpen THEN run
  ELSE [run EXCEPT !.status = IF run.direction = "push" THEN "unknown" ELSE status]

\* The deferred update of runGitSyncJob: an open run ends with the attempt, a
\* push that was launched as unknown; the job may still be tried again.
FailedRun(run, status) ==
  IF run.status \notin GitOpen THEN run
  ELSE [run EXCEPT !.status = IF run.status = "running" /\ run.direction = "push" THEN "unknown" ELSE status]

FailGit(w, status, job) ==
  /\ gitRuns' = [gitRuns EXCEPT ![gitWorkers[w].r] =
       [FailedRun(RunOf(w), status) EXCEPT !.job = GitSettled(w, job)]]
  /\ Turns(w, GitIdle)

\* StartGitSync: runs whose job has ended.
SweepGit(r) ==
  LET run == gitRuns[r] IN
  /\ run.status \in GitOpen
  /\ run.job.status \in {"failed", "cancelled"} \/ (run.job.status = "pending" /\ run.job.cancel)
  /\ gitRuns' = [gitRuns EXCEPT ![r] = FailedRun(run, IF run.job.cancel THEN "cancelled" ELSE "failed")]
  /\ UNCHANGED <<gitConsent, gitTexts, gitMaps, gitRemote, gitWorkers, gitInspected, gitTroubled>>

\* StartGitSync: the preview expires, its snapshot goes; what may have been
\* sent keeps it.
ExpireGit(r) ==
  LET run == gitRuns[r] IN
  /\ run.status \notin {"none", "running", "unknown"} /\ (run.kept \/ run.status \in {"preparing", "preview", "queued"})
  /\ GitTrouble
  /\ gitRuns' = [gitRuns EXCEPT ![r].kept = FALSE,
       ![r].status = IF @ \in {"preparing", "preview", "queued"} THEN "cancelled" ELSE @]
  /\ UNCHANGED <<gitConsent, gitTexts, gitMaps, gitRemote, gitWorkers, gitInspected>>

----------------
(* Both jobs: the run is read, then the consent, then the branch.             *)

LoadGit(w) ==
  LET run == RunOf(w) IN
  /\ gitWorkers[w].at = "load"
  /\ IF ~GitMine(w) \/ run.status \in {"cancelled", "conflict", "failed", "unknown"}
     THEN Turns(w, GitIdle) /\ gitRuns' = [gitRuns EXCEPT ![gitWorkers[w].r].job = GitSettled(w, "failed")]
     ELSE IF run.status = "succeeded"
     THEN Turns(w, GitIdle) /\ gitRuns' = [gitRuns EXCEPT ![gitWorkers[w].r].job = GitSettled(w, "done")]
     ELSE IF run.consent # gitConsent THEN FailGit(w, "failed", "failed")
     ELSE /\ Turns(w, [gitWorkers[w] EXCEPT !.at = "fetch", !.run =
               [NoGitRun EXCEPT !.status = run.status, !.direction = run.direction, !.remote = run.remote]])
          /\ UNCHANGED gitRuns
  /\ UNCHANGED <<gitConsent, gitTexts, gitMaps, gitRemote, gitInspected, gitTroubled>>

\* Mutants: the comparison with the mapping is left out.
PushUnchecked(x) == FALSE
PullUnchecked(p) == FALSE

\* gitSyncPushChanges and gitSyncBuildPull: what would overwrite something that
\* was never exchanged is a conflict.
PushConflicts(x) ==
  LET there == gitRemote.files[PathOf(x)]  row == gitMaps[PathOf(x)].now IN
  \/ row[1] \notin {0, x}
  \/ IF there = 0 THEN row[3] # 0 ELSE there # FileOf(x) /\ row[3] # there
PullConflicts(p) == LET row == gitMaps[p].now IN row # Unmapped /\ row[2] # gitTexts[row[1]]

\* gitSyncRemoteFiles: the paths the branch has.
RemotePaths == {p \in GitPaths : gitRemote.files[p] # 0}

\* The transaction that ends the preview guards what was read.  A document
\* keeps its path; two on one path are refused, and paths the remote has not.
MayPreview(w) ==
  LET run == RunOf(w) IN
  /\ run.status = "preparing" /\ GitMine(w) /\ run.consent = gitConsent
  /\ IF run.direction = "pull" THEN run.selected \subseteq RemotePaths
     ELSE \A x, y \in run.selected : PathOf(x) = PathOf(y) => x = y

\* gitSyncBuildExport, or gitSyncBuildPull; a path without a mapping is to become
\* a new document.
Previewed(run) ==
  LET push == run.direction = "push"
      docs == IF push THEN [p \in {PathOf(x) : x \in run.selected} |-> CHOOSE x \in run.selected : PathOf(x) = p]
              ELSE [p \in run.selected |-> gitMaps[p].now[1]]
  IN
  [run EXCEPT !.status = "preview", !.remote = gitRemote.head, !.kept = TRUE, !.docs = docs,
     !.versions = [x \in {docs[p] : p \in DOMAIN docs} \ {0} |-> gitTexts[x]],
     !.files = [p \in DOMAIN docs |-> IF push THEN FileOf(docs[p]) ELSE gitRemote.files[p]],
     !.blocked = \E x \in run.selected : IF push THEN PushConflicts(x) ELSE PullConflicts(x)]

PreviewGit(w) ==
  LET r == gitWorkers[w].r IN
  /\ gitWorkers[w].at = "fetch" /\ gitWorkers[w].job.kind = "preview"
  /\ IF MayPreview(w)
     THEN /\ gitRuns' = [gitRuns EXCEPT ![r] = [Previewed(@) EXCEPT !.job = GitSettled(w, "done")]]
          /\ Turns(w, GitIdle)
     ELSE FailGit(w, "failed", "failed")
  /\ UNCHANGED <<gitConsent, gitTexts, gitMaps, gitRemote, gitInspected, gitTroubled>>

\* A run that runs already is finished if its commit is the head, and never
\* launched again.
FetchGit(w) ==
  LET me == gitWorkers[w]  head == gitRemote.head IN
  /\ me.at = "fetch" /\ me.job.kind = "execute"
  /\ IF me.run.status = "running"
     THEN IF me.run.direction = "push" /\ head = me.r
          THEN Turns(w, [me EXCEPT !.at = "finish"]) /\ UNCHANGED gitRuns
          ELSE FailGit(w, "failed", "failed")
     ELSE IF head # me.run.remote THEN FailGit(w, "conflict", "retry")
     ELSE IF ~RunOf(w).kept THEN FailGit(w, "failed", "retry")
     ELSE /\ Turns(w, [me EXCEPT !.at = IF me.run.direction = "push" THEN "rebuild" ELSE "accept", !.head = head])
          /\ UNCHANGED gitRuns
  /\ UNCHANGED <<gitConsent, gitTexts, gitMaps, gitRemote, gitInspected, gitTroubled>>

----------------
(* A push.                                                                    *)

\* The export is built again and compared with the one the user saw.
RebuildGit(w) ==
  LET run == RunOf(w) IN
  /\ gitWorkers[w].at = "rebuild"
  /\ IF \A x \in DOMAIN run.versions : gitTexts[x] = run.versions[x]
     THEN Turns(w, [gitWorkers[w] EXCEPT !.at = "connect"]) /\ UNCHANGED gitRuns
     ELSE FailGit(w, "failed", "failed")
  /\ UNCHANGED <<gitConsent, gitTexts, gitMaps, gitRemote, gitInspected, gitTroubled>>

\* gitSyncPush: the branch as the write connection shows it.
ConnectGit(w) ==
  LET me == gitWorkers[w] IN
  /\ me.at = "connect"
  /\ IF gitRemote.head \in {me.head, me.r}
     THEN Turns(w, [me EXCEPT !.at = IF gitRemote.head = me.r THEN "finish" ELSE "launch"]) /\ UNCHANGED gitRuns
     ELSE FailGit(w, "conflict", "retry")
  /\ UNCHANGED <<gitConsent, gitTexts, gitMaps, gitRemote, gitInspected, gitTroubled>>

MaySend(w) == Guarded(RunOf(w)) /\ GitLeased(w) /\ RunOf(w).status = "queued"

\* beforeLaunch writes the candidate down before anything is sent.
LaunchGit(w) ==
  LET r == gitWorkers[w].r IN
  /\ gitWorkers[w].at = "launch"
  /\ IF MaySend(w)
     THEN /\ gitRuns' = [gitRuns EXCEPT ![r].status = "running", ![r].launched = TRUE]
          /\ Turns(w, [gitWorkers[w] EXCEPT !.at = "send"])
     ELSE FailGit(w, "failed", "failed")
  /\ UNCHANGED <<gitConsent, gitTexts, gitMaps, gitRemote, gitInspected, gitTroubled>>

SendGit(w) ==
  LET me == gitWorkers[w] IN
  /\ me.at = "send"
  /\ gitRemote' = [gitRemote EXCEPT !.flying = @ \cup {<<me.r, me.head>>}]
  /\ Turns(w, [me EXCEPT !.at = "transfer"])
  /\ UNCHANGED <<gitConsent, gitTexts, gitMaps, gitRuns, gitInspected, gitTroubled>>

\* A definite failure: nothing was sent because the job's context had ended, or
\* the remote has refused.
RefusedGit(w) ==
  LET me == gitWorkers[w] IN
  /\ \/ me.at = "send" /\ ~GitLeased(w)
     \/ me.at = "transfer" /\ me.r \notin gitRemote.commits /\ <<me.r, me.head>> \notin gitRemote.flying
  /\ gitRuns' = [gitRuns EXCEPT ![me.r].status = IF @ = "running" THEN "failed" ELSE @,
                                ![me.r].job = GitSettled(w, "retry")]
  /\ Turns(w, GitIdle)
  /\ UNCHANGED <<gitConsent, gitTexts, gitMaps, gitRemote, gitInspected, gitTroubled>>

\* The answer is lost, or the monitor stops the transfer, which may arrive yet.
StopGit(w) ==
  /\ gitWorkers[w].at = "transfer"
  /\ IF Guarded(RunOf(w)) /\ GitLeased(w) THEN GitTrouble ELSE UNCHANGED gitTroubled
  /\ FailGit(w, "failed", "retry")
  /\ UNCHANGED <<gitConsent, gitTexts, gitMaps, gitRemote, gitInspected>>

\* The remote compares the head the pack builds on.
ReceiveGit(r, old) ==
  /\ <<r, old>> \in gitRemote.flying
  /\ gitRemote' = IF gitRemote.head # old THEN [gitRemote EXCEPT !.flying = @ \ {<<r, old>>}]
       ELSE [gitRemote EXCEPT !.flying = @ \ {<<r, old>>}, !.head = r, !.commits = @ \cup {r},
               !.files = [p \in GitPaths |-> IF p \in DOMAIN gitRuns[r].files THEN gitRuns[r].files[p] ELSE @[p]]]
  /\ UNCHANGED <<gitConsent, gitTexts, gitMaps, gitRuns, gitWorkers, gitInspected, gitTroubled>>

AnsweredGit(w) ==
  LET me == gitWorkers[w] IN
  /\ me.at = "transfer" /\ me.r \in gitRemote.commits
  /\ Turns(w, [me EXCEPT !.at = "finish"])
  /\ UNCHANGED <<gitConsent, gitTexts, gitMaps, gitRemote, gitRuns, gitInspected, gitTroubled>>

FinishPush(w) ==
  LET r == gitWorkers[w].r IN
  /\ gitWorkers[w].at = "finish"
  /\ IF gitRuns[r].status \in {"running", "unknown", "queued", "succeeded"}
     THEN /\ Finished(r) /\ gitRuns' = [gitRuns EXCEPT ![r].status = "succeeded"]
          /\ Turns(w, [gitWorkers[w] EXCEPT !.at = "settle"])
     ELSE FailGit(w, "failed", "retry") /\ UNCHANGED gitMaps
  /\ UNCHANGED <<gitConsent, gitTexts, gitRemote, gitInspected, gitTroubled>>

SettleGit(w) ==
  /\ gitWorkers[w].at = "settle"
  /\ gitRuns' = [gitRuns EXCEPT ![gitWorkers[w].r].job = GitSettled(w, "done")]
  /\ Turns(w, GitIdle)
  /\ UNCHANGED <<gitConsent, gitTexts, gitMaps, gitRemote, gitInspected, gitTroubled>>

----------------
(* A pull: the run is taken, then saved document by document.                 *)

Received(run, p) == gitMaps[p].now[3] = run.files[p] /\ gitMaps[p].now # Unmapped
Ordered(ps) == [i \in 1 .. Cardinality(ps) |-> CHOOSE p \in ps : Cardinality({q \in ps : q <= p}) = i]

\* The paths that are not as they were received last, then once more the one
\* whose links lead to the others, unless the text has them already.
Saves(run) ==
  LET first == Ordered({p \in run.selected : ~Received(run, p)})
      linked == 1 \in run.selected /\ run.selected # {1}
  IN
  (IF linked THEN {Append(first, 1)} ELSE {first}) \cup (IF linked /\ Received(run, 1) THEN {first} ELSE {})

\* What was received by another run meanwhile is the document that it made.
Meant(run) == [p \in DOMAIN run.docs |-> IF Received(run, p) THEN gitMaps[p].now[1] ELSE run.docs[p]]

AcceptPull(w) ==
  LET r == gitWorkers[w].r  run == RunOf(w) IN
  /\ gitWorkers[w].at = "accept"
  /\ IF Guarded(run) /\ run.status = "queued"
     THEN /\ gitRuns' = [gitRuns EXCEPT ![r].status = "running", ![r].docs = Meant(run)]
          /\ \E saves \in Saves(run) : Turns(w, [gitWorkers[w] EXCEPT !.at = "save", !.left = saves])
     ELSE FailGit(w, "failed", "failed")
  /\ UNCHANGED <<gitConsent, gitTexts, gitMaps, gitRemote, gitInspected, gitTroubled>>

\* Mutant: only the first transaction looks at the versions.
MayPullUnguarded(w) == RunOf(w).status = "running"

\* The result guard, in the transaction that saves the document.
MayPull(w) == RunOf(w).status = "running" /\ Guarded(RunOf(w))

\* saveDocument asks for the version of a document that is there, which the run
\* knows if it has previewed or saved it.
KnowsVersion(run, p) == run.docs[p] \in {0} \cup DOMAIN run.versions

\* A document that is made stays the run's for the second round.  Bound: the
\* document of a path is made once.
SavePull(w) ==
  LET r == gitWorkers[w].r  p == Head(gitWorkers[w].left)
      x == IF gitRuns[r].docs[p] = 0 THEN Foreign + p ELSE gitRuns[r].docs[p]
      version == gitTexts[x] + 1
  IN
  /\ gitWorkers[w].at = "save" /\ gitWorkers[w].left # <<>>
  /\ IF ~KnowsVersion(gitRuns[r], p)
     THEN FailGit(w, "failed", "failed") /\ UNCHANGED <<gitTexts, gitMaps>>
     ELSE IF MayPull(w)
     THEN /\ gitRuns[r].docs[p] = 0 => gitTexts[x] = 0
          /\ gitTexts' = [gitTexts EXCEPT ![x] = version]
          /\ gitMaps' = Maps(p, <<x, version, gitRuns[r].files[p]>>)
          /\ gitRuns' = [gitRuns EXCEPT ![r].docs[p] = x,
               ![r].versions = [y \in DOMAIN @ \cup {x} |-> IF y = x THEN version ELSE @[y]]]
          /\ Turns(w, [gitWorkers[w] EXCEPT !.left = Tail(@)])
     ELSE FailGit(w, "failed", "retry") /\ UNCHANGED <<gitTexts, gitMaps>>
  /\ UNCHANGED <<gitConsent, gitRemote, gitInspected, gitTroubled>>

FinishPull(w) ==
  LET r == gitWorkers[w].r IN
  /\ gitWorkers[w].at = "save" /\ gitWorkers[w].left = <<>>
  /\ IF gitRuns[r].status = "running"
     THEN /\ gitRuns' = [gitRuns EXCEPT ![r].status = "succeeded"]
          /\ Turns(w, [gitWorkers[w] EXCEPT !.at = "settle"])
     ELSE FailGit(w, "failed", "retry")
  /\ UNCHANGED <<gitConsent, gitTexts, gitMaps, gitRemote, gitInspected, gitTroubled>>

----------------
(* The surroundings.                                                          *)

EditText(x) ==
  /\ gitTexts[x] > 0 /\ GitTrouble
  /\ gitTexts' = [gitTexts EXCEPT ![x] = @ + 1]
  /\ UNCHANGED <<gitConsent, gitMaps, gitRemote, gitRuns, gitWorkers, gitInspected>>

\* Someone else commits: another file, or one of ours, changed or deleted.
CommitElsewhere(p, deleted) ==
  LET id == Foreign + gitTroubled + 1 IN
  /\ GitTrouble
  /\ gitRemote' = [gitRemote EXCEPT !.head = id,
       !.files = [q \in GitPaths |-> IF q # p THEN @[q] ELSE IF deleted THEN 0 ELSE id]]
  /\ UNCHANGED <<gitConsent, gitTexts, gitMaps, gitRuns, gitWorkers, gitInspected>>

\* saveGitSyncSettings or saveGitSyncConnection.
ChangeConsent ==
  /\ GitTrouble /\ gitConsent' = gitConsent + 1
  /\ UNCHANGED <<gitTexts, gitMaps, gitRemote, gitRuns, gitWorkers, gitInspected>>

GitNext ==
  \/ \E r \in GitRuns :
       \/ \E direction \in {"push", "pull"}, selected \in SUBSET GitDocs \ {{}} : QueuePreview(r, direction, selected)
       \/ ConfirmGit(r) \/ CancelGit(r) \/ InspectGit(r) \/ FinishInspection(r)
       \/ LoseGit(r) \/ SweepGit(r) \/ ExpireGit(r)
       \/ \E w \in GitWorkers : ClaimGit(w, r)
  \/ \E w \in GitWorkers :
       \/ LoadGit(w) \/ PreviewGit(w) \/ FetchGit(w) \/ RebuildGit(w) \/ ConnectGit(w) \/ LaunchGit(w)
       \/ SendGit(w) \/ RefusedGit(w) \/ StopGit(w) \/ AnsweredGit(w) \/ FinishPush(w) \/ SettleGit(w)
       \/ AcceptPull(w) \/ SavePull(w) \/ FinishPull(w)
  \/ \E pack \in gitRemote.flying : ReceiveGit(pack[1], pack[2])
  \/ \E x \in GitDocs : EditText(x)
  \/ \E p \in GitPaths : CommitElsewhere(p, TRUE)
  \/ \E p \in GitPaths \cup {0} : CommitElsewhere(p, FALSE)
  \/ ChangeConsent

GitSpec == GitInit /\ [][GitNext]_gitVars

----------------
(* Properties.                                                                *)

\* The branch changes by a run at most once, only from the commit the user was
\* shown, and replaces nothing that was not exchanged before; a document is
\* replaced by a pull only at a version that was exchanged.  However often the
\* job is tried again, whatever is edited, cancelled or late.
NothingOverwritten ==
  /\ gitRemote.head' # gitRemote.head /\ gitRemote.head' \in GitRuns =>
       LET run == gitRuns[gitRemote.head'] IN
       /\ run.confirmed /\ gitRemote.head = run.remote /\ gitRemote.head' \notin gitRemote.commits
       /\ \A p \in DOMAIN run.files :
            gitRemote.files[p] \in {0, run.files[p]} \cup {row[3] : row \in gitMaps[p].past}
  /\ \A p \in GitPaths : LET row == gitMaps'[p].now IN
       row # gitMaps[p].now /\ gitTexts'[row[1]] # gitTexts[row[1]] /\ gitTexts[row[1]] > 0 =>
         \E old \in gitMaps[p].past : old[1] = row[1] /\ old[2] = gitTexts[row[1]]

\* What a run says of the remote is true, or it says that it does not know.
ResultIsTrue ==
  \A r \in GitRuns : LET run == gitRuns[r] IN
    IF run.direction = "push"
    THEN /\ r \in gitRemote.commits => run.status \in {"running", "unknown", "succeeded"}
         /\ run.status = "succeeded" => r \in gitRemote.commits
    ELSE run.status = "succeeded" =>
           \A p \in run.selected : run.files[p] \in {row[3] : row \in gitMaps[p].past}

\* Nothing is overwritten unseen, and what a run reports has happened.
GitIsTrue == ResultIsTrue' /\ NothingOverwritten
=============================================================================
