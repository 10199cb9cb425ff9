# TLA+ models of madi

madi is a knowledge service: a Go server (`internal/server`) over PostgreSQL and a
React client (`web/src`). Documents are edited by forms and together in real time,
reviewed, approved, shared, indexed, exported and synchronised; rules and webhooks
react to what happens to them; everything slow or repeatable is a row of one job table
that the processes of the server share.

These modules model the parts of madi whose correctness depends on what happens
*between* two statements: leases that run out, transactions that overlap, messages and
answers that are lost, processes that die, rights that change between a check and a
write. Each module is translated from the code; its comments name the functions. TLC
checks every model on small instances; TLAPS proves the safety of most of them for all
values of their constants.

| Part | Specification | Proofs | TLC instance |
| --- | --- | --- | --- |
| Durable job queue | `JobQueue`, promise: `JobContract` | `WorkspaceProofs` | `MCJobQueue` |
| Execution of an automation rule | `AutomationRun` (extends `JobQueue`) | `WorkspaceProofs` | `MCWorkspace` |
| Events, rules, webhooks | `EventDispatch` | `EventDispatchProofs` | `MCEventDispatch` |
| Review and approval of documents | `Approval` | `ApprovalProofs` | `MCDocuments`, `MCOperations`, `MCApproval` |
| Collaborative editing, server | `CollaborationStore`, promise: `SharedDocument`, data: `EditHistory` | `CollaborationStoreProofs` | `MCCollaboration` |
| Collaborative editing, browser | `CollaborationSession` | `CollaborationSessionProofs` | `MCCollaboration`, `MCJobQueue`, `MCCollaborationSession` |
| Workspace agent | `WorkspaceAgent` | `OperationsProofs` | `MCOperations` |
| Accounts and API keys | `Identity`, `AccessKeys` | `OperationsProofs` | `MCOperations` |
| Runbooks | `RunbookExecution` | `OperationsProofs` | `MCOperations` |
| Exports and distribution | `KnowledgeDistribution` | `OperationsProofs` | `MCOperations` |
| Search index | `SearchIndex` | `ExchangeProofs` | `MCExchange` |
| Notifications outside madi | `NotificationDelivery` | `ExchangeProofs` | `MCExchange` |
| Migration, Git, inbound capture | `MigrationSession`, `GitSync`, `InboundCapture` | `ImportProofs`, composed in `ExchangeProofs` | `MCExchange` |
| Public shares, access, proposals | `PublicShare`, `DocumentAccess`, `KnowledgeProposals` | `WorkspaceProofs` | `MCWorkspace` |
| Tree of documents, attachments, backups, extraction, databases, proposed rows | `DocumentTree`, `AttachmentStore`, `BackupLedger`, `AttachmentExtraction`, `DatabaseRows`, `StructuredDrafts` | | `MCDocuments` |

`LeasedJob` is what the handlers of five of these see of their job.

To check: `tlc -config MCJobQueue.cfg MCJobQueue.tla`, and so on for every
configuration; `tlapm ApprovalProofs.tla`, and so on for every module of proofs
(`ImportProofs` takes about twenty minutes, `ExchangeProofs` and `OperationsProofs` about ten,
the session's eight, the others less). `PROJECT.json` lists components,
runs, the lines of code every definition stands for, the mutations that break each
property, hazards, findings and theorems.

## Inventory

What the system consists of, what each part keeps, and what makes it correct. Files
are under `internal/server/` unless a directory is given.

**Durable job queue** (`jobs.go`, `jobs_schema.sql`, sweep in `automation.go`).
State: rows `automation_jobs` (status, attempts, lease, cancellation, date), attempts
recorded in `automation_job_attempts`, `job_settings` (pause, concurrency, retention).
Up to 16 goroutines per process poll, claim a row under a lease, run its handler
under a deadline, and report in a transaction that is fenced by the lease. A monitor
cancels the handler's context; a sweep settles rows nobody may claim; users cancel
and retry; other subsystems cancel rows by statements of their own. Hard: an expired
lease leaves two workers executing; the verdict is formed from remembered values; a
process dies between work and report. Correct if only one worker passes the lease
check, results are recorded in claim order, success and cancellation are final, and
every job settles.

**Automation: events, rules, webhooks** (`automation*.go`). State: `automation_events`,
`automation_rules` (revision, trigger, conditions, actions), `automation_webhooks`,
`automation_effects` (receipts). A change records its event in its own transaction;
a job dispatches the event to rules and webhooks, each a job with a unique key; a
rule's actions are each one transaction with a receipt, and record events one deeper.
Hard: every job may run twice, rules are edited meanwhile, rules answer each other.
Correct if an action happens once and in order, at most one action follows an edit, a
dispatch reaches everybody it finds, cascades end.

**Approval engine** (`approval_*.go`, `approval.sql`). State: settings, policies per
space and workspace with versions, requests with a frozen policy and snapshot,
decisions, capabilities. Every operation that touches a document touches an open
review. Hard: the policy, the rights, the document and its place all change while a
review is open, several reviewers decide at once, and six other writers change the
status of a document. Correct if decisions follow the frozen policy, an approval is
of what is in force, at most one request lives, outcomes stand, and what is published
is what was approved.

**Collaborative editing, server** (`collaboration*.go/.sql`). State: one row per
document (epoch, sequence, checkpoint, hash, projected text), a journal of updates, a
copy per process, the Markdown of the document. Hard: copies in several processes, a
journal compacted under readers, text rewritten by other handlers, a refused update
already applied to a copy. Correct if the stored state is a single growing line per
epoch, text and state agree, readers catch up from anywhere.

**Collaborative editing, browser** (`web/src/collaboration/provider.ts`,
`collaborationSocket`). State: the Y.Doc, unsent updates, requests in flight, the
saved revision; per socket the epoch and sequence last told. Hard: lost connections
with answers in flight, two tabs seeding one empty document, rights given and taken.
Correct if "saved" means committed, no delta is misapplied, no tab waits for nothing,
and what was typed is confirmed in the end.

**Runbooks** (`runbook_*.go`): a plan built from a document, the allowed actions of the
runners and the settings; approved, confirmed once, and executed step by step on AWX
or Kubernetes by a job. State: the execution, its steps, the approval, the job, and
what the runners have. Hard: launch answers are lost, two workers may hold one
execution, cancellation and the reconciler stop steps somebody is launching. Correct
if no step runs twice at once or before its predecessors succeeded and "succeeded" is
true.

**Workspace agent** (`workspace_agent*.go`): a conversation in steps; the model asks,
reads or proposes a change of a document, which waits for the user and is made by a
job of its own. Correct if a change is made once, as confirmed, on the version it was
planned for, and what an action reports has happened.

**Search index** (`rag_*.go`): consents to send a text to a provider, jobs that embed
it in batches, automatic reindexing, generations of which one serves. Correct if
only consented versions are sent, what is searched is the present text, switching a
generation loses nothing of what it was verified with and no new version is forgotten.

**Migration** (`migration*.go`): sessions that upload, prepare, review, stage objects
and publish in one transaction. Correct if a session shows whole or not at all, once,
over nobody's work, and no object is orphaned or removed in use.

**Git synchronisation** (`git_sync*.go`): runs with preview, confirmation, push by a
compare-and-swap of the branch, pull by saving documents one at a time. Correct if
nothing is overwritten unseen and what a run reports is true.

**Inbound capture** (`inbound_capture_*.go`): mailboxes polled from a checkpoint, signed
webhooks, messages that become private documents. Correct if mail the checkpoint has
passed is kept, and a message is one document.

**Notification delivery** (`notification_delivery_*.go`): an outbox filled by a trigger,
a dispatcher that makes a delivery and a job per channel. Correct if a notification
arrives once, and once more only for an attempt nobody knows the end of, and only
while it is wanted.

**Exports and distribution** (`export_jobs.go`, `knowledge_distribution_*.go`): archives
built by jobs, reviewed as a whole, signed, imported elsewhere under a trusted key.
Correct if what is signed is what was confirmed and approved.

**Identity and keys** (`identity*.go`, `integrations_oidc.go`, `integrations_keys.go`,
`accounts.go`, `admin.go`): sign-ins, SCIM, group mappings, membership by hand,
administrators, keys with a limit per minute. Correct if memberships follow the groups
or the hand, an administrator remains, a key lets through no more than its limit.

**Documents** (`documents.go`, `document_split*.go`, `capture.go`, `spaces.go`): rows with
versions in a tree, each save reading before its transaction; trash, hold, split with
its ticket. Correct if the tree has no circle, a save keeps what it was not asked to
change, a split makes one child.

**Public shares** (`public_share.go`), **access** (`document_access_*.go`): a visit reads
share, policy and document several times and no transaction spans it; a request is
granted, or a preview confirmed, while rights change. Correct if what is shown was
meant, and what is granted is what was asked.

**Proposals and conflicts** (`knowledge_proposals.go`, `knowledge_conflicts*.go`): a
proposed text is merged through the ordinary save, with the report it came from.
Correct if it is merged as compared, once, and merges do not deadlock.

**Attachments** (`storage*.go`, `data.go`), **backups** (`backup_*.go`, `restore.go`,
`maintenance.go`): objects and files that no transaction covers, removed by sweeps.
Correct if a row has its object, a backup is whole and retention spares the newest.

**Text extraction** (`attachment_extraction*.go`): a job publishes the text of an
attachment as its head. Correct if what is visible was asked for under the present
document, rights, login and policy.

**Databases** (`data.go`, `database_editing.go`, `database_advanced_ai.go`), **structured
drafts** (`knowledge_structured*.go`): rows of a schema that changes; rows proposed by
a model, kept, reviewed and applied. Correct if values fit, nothing unseen is
overwritten, and a proposal becomes one row, as reviewed.

Without state machines of their own, and not modelled: search and ranking, evidence,
impact and the knowledge graph, learning paths, questions, AI writing, connectors,
SQL sources, plugins, views, formulas and canvas, tasks, templates, worksets,
discussion, formats of import and export, information protection, operations and
support, the schema and routing, the user interface, the SDKs: queries, conversions
and forms over rows with optimistic versions. `PROJECT.json` gives the reason for
each. Where they write what a modelled part reads, the write is an action of that
part (connectors in `Approval.SaveDocument`; exports, extraction, index runs, agents
and Git in the queue's `Withdraw` and `FlagCancel`; rights everywhere as a relation
that may change between any two transactions).

### How the parts interact

```
 browser tab --messages--> socket --transactions--> collaboration row + journal
 (CollaborationSession)                  |            (CollaborationStore)
 forms ------------------------------> document row <---- approval engine (Approval)
 (DocumentTree, KnowledgeProposals,      | same transaction     |
  DatabaseRows, StructuredDrafts)   event + dispatch job    runbooks, bundles
                                         v                  (ConsumeApprovalTx)
 scheduler, users --> automation_jobs --claim--> workers --> handlers
      (JobQueue)      dispatch -> rules, webhooks      (EventDispatch)
                      rule -> actions with receipts    (AutomationRun)
                      runbooks, agents, exports        (RunbookExecution, ...)
                      indexing, Git, migration, mail   (SearchIndex, GitSync, ...)
                      notifications, backups, text     (NotificationDelivery, ...)
```

All shared state is in PostgreSQL, the object storage and the systems outside. A row
lock makes a handler one action where all it reads and writes is under that lock;
where it is not, the models split the handler at the point where another may come
between. The queue itself is modelled once, in full; the handlers' modules reduce it
to what a handler notices of it (claims, lost leases, attempts, cancellation), which is
what `JobQueue` proves of it: several may execute, one reports.

## Scenes

`MCJobQueue`, `MCCollaboration`, `MCWorkspace`, `MCDocuments`, `MCOperations` and
`MCExchange` put several components
that do not touch each other's rows in one instance. A behaviour is of one of them, its
*scene*, chosen in the initial state; the variables of the others are the constant
`Off` (in `MCDocuments` the document of the reviews is a draft that nobody touches; in
`MCWorkspace` the queue of the rules is empty). The states of the scenes therefore add
up instead of multiplying, and every property says of its scene exactly what its module
says: `scene = "agent" => AgentIsTrue`. That the parts are independent is read off the
code: they write disjoint tables, and what one reads of another's (documents, rights,
policies, settings) is in the reading module a variable that changes by itself between
any two transactions; the tabs and the store of one document meet at `SharedDocument`,
which the store is shown to implement and the tabs assume. A scene other than the rules
may stutter in `MCWorkspace`, and the tabs in `MCJobQueue`, so that a deadlock is still
looked for among the rules and in the queue, where workers must always be able to poll.

## The models

### JobQueue, AutomationRun (`settling`, `workspace`)

One action per statement or transaction of `jobs.go`: `Enqueue`, `Claim` (claimJob),
`ClaimNothing`, `Authorize` (the rule check of runJob), `MonitorStops`, `Deadline`,
`PolicyStops`, `HandlerReturns`, `Finish` (the final transaction), `Lose` (the process
dies), `Sweep` (automation.go:333-337), `CancelJob`, `FlagCancel` and `Withdraw`
(cancellations by other subsystems), `RetryJob`, `SetPaused`; the clock is
`LeaseRunsOut` and `BackoffEnds`. A worker's `run[w]` is what its goroutine remembers.
The concurrency setting is left out (a worker at or above it does not poll, which is a
smaller `Workers`); identity checks are outcomes. A row that `SKIP LOCKED` passes over
is what the transaction that holds it makes of it: a claim that finds nothing
(`ClaimNothing`) stands after that one's commit. A failing database at the rule
check is a failed attempt.

The scene "jobs": one job, two workers, two attempts, one lost process, one retry. One job is
enough because no statement relates two rows except the claim's choice of one, and the
sweep treats each row for itself. Two attempts and a loss give two executions at once;
the retry gives a third claim with the attempts started anew. `SingleHolder` (one
worker passes the lease check), `AttemptsStand` (attempts are recorded in claim
order, nothing after a success, and a row that is to be tried again can be), `CancelIsFinal`, `ContractSpec` (the queue implements
`JobContract`: an accepted job is open until it is settled, one whose cancellation was
asked for settles as cancelled, a success is never undone, only settled jobs are
purged), and `EveryJobSettles` while the queue stays unpaused. *Fairness:* the tickers of
the workers and of the sweep, the clock, and handlers that return once their context is
done; the deadline is what ends a context. No request of a user is assumed.

`AutomationRun` extends the queue with the handler `executeAutomation`: `ReadRule`,
`CheckRule` and `LookForReceipt` before every action, then `Act`, one transaction of the
action and its receipt that locks the job row and needs an unexpired lease. The handler
goes on after its lease is lost, its answer may be lost after the commit, `ChangeRule` may
come anywhere. Access refusals are a failed attempt; what an action does is one deed.
The scene "rules": two actions, two attempts, two workers, one loss. `DoneOnceInFull`
(actions once, in order, and all of them if the job succeeds), `StopsInTime` (at most
one action after an edit, none after a cancellation).

### EventDispatch (`events`)

Rows are a function on the unique key `(event_id, kind, target_id)`, so `Insert` is ON
CONFLICT DO NOTHING. `Change` and `Fire` record root events, `ReadTargets` and
`CommitTargets` are the two halves of dispatchEvent, `ReadRule` and `Act` those of an
execution (a rule has one action here), `Post` is a delivery; `SaveRule`, `Turn`,
`SaveHook`, `Cancel`, `Retry`, `Lapse`, `Lose`, `Report`, `Sweep`, `Purge` surround them.
Whether a rule would act (conditions, rights of its owner) is one bit that may turn at
any time. Time is left out: any date may be reached at any time.

Three rules and a webhook that answer each other, two workers, depth limit 1 (5 in the
code), two tries, one root event and two *troubles*, a shared budget of failed lookups, edits, turns,
lapses, losses, cancellations, retries and purges: what the hazards need (a lapse and
an edit, a cancellation and a retry, a purge and a retry). `EventsAnswered` (a rule acts
once per event, and a dispatch that succeeded reached everybody who was due, but for
those it passed over),
`CascadeBounded`, and `CascadeEnds` under the fairness of polling workers, ending handlers
and the sweep.

*Observations.* A database error while the owner, the access or the conditions of a target
are looked up is taken for a refusal (automation.go:194-198, 233-239, 288): the dispatch
commits without that target and is not repeated. `Found` chooses what is passed over,
`missed` remembers it, and `DispatchComplete` names it as its exception.
Retention may remove an execution with its receipts; a dispatch retried
afterwards makes it again and the rule acts twice. An edit drops what is queued:
executions of the old revision are refused and no new ones are made
(automation_execute.go:81). A dispatch is not fenced: it commits its jobs under a lost
lease or a cancellation. A webhook that an action chooses shares the key of its
subscription (automation_execute.go:275, automation_webhooks.go:91-97).

### Approval (`documents`, `operations`, `approval-around`)

One document, its requests, the two policies that cover it (of its space and of its
workspace), the settings. The row locks (document, settings, policy, request, in this
order) make each handler one action: `Submit`, `Decide`, `Cancel`, `SaveDocument`,
`CollaborativeEdit`, `CollaborativeMetadata`, `ClassifyCapture`, `MarkStale`,
`DeleteDocument`, `RestoreDocument`, `UpdateSettings`, `SavePolicy`, `DisablePolicy`,
`ChangeRights`, `Quarantine`. Two writers are not covered by locks and are split:
`saveDocument` compares with a row it read before its transaction, and
`updateDocumentKnowledge` (`ReadKnowledge`, `WriteKnowledge`). A stale version is refused
and changes nothing, so it is not an action. Gates are sets; rights are read in the
transaction without a lock and are linearised there; of restoring a backup only the
quarantine of open requests.

The scene "review" of `documents`: two requests, two texts, two places, four versions,
two changes around: `AsReviewed` (what is published is what was approved, and one
request lives), `OutcomesStand`. The scene "approval" of `operations`: stages of one or
two gates, all or any, policies of two scopes: `DecisionsFollowPolicy`, `ApprovedAsFrozen`.
The two divide what would multiply: the first has many documents and few policies, the
second the other way round. There is no liveness to state: nothing obliges a reviewer.

*Observations.* Cancelling a stale request sets the document to draft whatever it has
become since (approval_api.go:216). Classifying a capture and changing the owner leave
a document published with another snapshot. A nearer policy that is added and disabled
again makes an open request valid again.

### CollaborationStore (`collaboration`)

The row of a document, its journal and the copies of the instances. In `EditHistory` a
state is a set of operations, an update is applied when what it builds on is there. The
row lock makes each request one action up to its commit (`Accept`, `AcceptAndCompact`,
`Repeat`, `Refuse`, `Rebase`, `RebaseByWriter`, `CompactByHand`); keeping the copy is a
later step (`Keep`), `Forget` covers restarts. `Rewrite` and `ReplaceText` are the other
writers of the text; `PutBack` is the rollback of the database under running servers for
which the hash is compared. Left out: the document version, history groups, presence,
the weight of the cache. The hash is injective; the conversion to Markdown is a function.

Four operations, one of them too large, two epochs, three updates each, checkpoints every
two (100 in the code), so that checkpoint, tail and a full journal all occur; instances
symmetric. `ReadersAreCurrent` (from wherever a reader stands it is brought to the
latest state; copies are what the row says), and `SharedDocument`: the store implements
a document that is one line of growing states per epoch whose text is that of its last.

### CollaborationSession (`collaboration`, `settling`, `session-warned`)

Tabs with their provider, sockets and the two channels between them, against the line
of states that `SharedDocument` promises. Every handler of a message is one action: at
the server `Handle` (hello, seed, update) and `Poll`; in the tab `Connect`, `Receive`
(ack, delta, sync, reset, errors), `Insert`, `Erase`, `Flush`; around them `Drop`, `Turn`
(rights), `Replace` (a new epoch), `Leave`. Channels are FIFO and are lost with the
connection; what the server received before is handled or lost. Yjs is blocks with
author clocks and neighbours: what it takes to find a gap. Cursors, rate limits (as
errors), closing for lost read access and the reload after a conflict are left out.

The scene "tabs" of `collaboration`: two tabs of two blocks each, two epochs, one broken connection, tabs
symmetric. `TabsAreCurrent` (what a tab has seen stays, deltas continue where the tab
stands, and no operation of a committed state waits for a missing one), `SavedIsCommitted` (what the
indicator calls saved is committed, or was handed to recovery), `CalmIsOrderly` (while
no connection breaks, the first seeds are serialized and a tab that waits has something
under way). That of `settling`: one tab with an erasure, two broken connections and a
change of rights: `EditsSettle` under the fairness of the retry timer, the socket loop
with its catch-up timer, and the browser's message and flush events.

*Observations.* A seed lost with its connection is not sent again: the tab stays
"syncing" until it is reloaded (provider.ts:207-215), and when it joins without a reset
its next edit adds its seed beside the other's (collaboration/README.md:35 says seeds
are serialized). A tab that was never initialised keeps its requests in flight for ever.

### RunbookExecution, WorkspaceAgent, KnowledgeDistribution, Identity, AccessKeys (`operations`)

*RunbookExecution.* `PrepareRunbook`, `SubmitApproval`, `DecideApproval`; a confirmation is
split at its row lock (`BeginConfirm`, `CommitConfirm`, `RollbackConfirm`) and spends the
approval (ConsumeApprovalTx) in the transaction that queues the job. `executeRunbookJob`
is a walk of a goroutine over the steps: `BeginRun`, `CheckStep`, `LaunchStep` (preflight
and compare-and-set), `CallRemote` (answered, done without an answer, or not done),
`PersistStep`, `WatchStep`, `RecordStep`, `CloseRun`; stopping is `StopStep`, `SaveStop`,
`HaltStep`, for a worker as for the reconciler; `FinishRun` is runbookFinish. Around it
`SaveRunbook`, `SaveRunner`, `SaveSettings`, `ChangeRunner`, `SwitchApprovals`,
`CancelExecution`, `ResolveUncertain`, `LoseRun`, `RemoteEnds`, and `RemoteExpires` (a Job is
removed a day after its end). The Jobs of a step are numbered as they are launched, and
rows and goroutines know a Job by its number: a cancellation deletes the Job (`EndRemote`),
its name is free again, and a POST that comes then makes another (`Started`). One
execution of an AWX and a Kubernetes step, two confirmations, two workers, two attempts,
one trouble. `RunAsApproved`: queued once; AWX runs no step twice, Kubernetes has one Job
of a step at a time and a further one only after the former was removed; no step is
launched before a job of each step before it has succeeded; "succeeded" is true and its
approval spent. That a Kubernetes step may run twice is the finding `runbook-twice`.
*Observations.* A step that is stopped without an answer remains "unknown" and may run
(runbook_worker.go:161-205), as docs/runbook-guide.md:57 says. A preflight that fails on a step that is "launching" ends
the execution as failed while the Job of an earlier attempt runs (runbook_worker.go:292).

*WorkspaceAgent.* `CreateAgentRun`, `BeginAgentStep`, `ModelTurn`, `CommitAgentStep`,
`DecideAgentAction`, `BeginAgentAction`, `ApplyAgentAction`, `ReportAgentAction`,
`FailAgentRun`, `CancelAgentRun`, claims and lost leases; the settings, the rights and the
documents change in `Around`. Three steps and jobs, two workers, two troubles.
`AgentIsTrue`: changes are made once, as confirmed, on the version planned for, and
reported truly.

*KnowledgeDistribution.* An export from request to download (`CreateExport` ...
`FinishExport`, `ExpireExports`), a bundle from confirmation over review to signature
(`CreateDist`, `MakeManifest`, `PrepareReview`, `SubmitReview`, `DecideReview`, `SignDist`,
`SignReviewed`, `RevokeDist`) and its import elsewhere (`CarryBundle`, the download;
`UploadFiles`, `BindImport` and `CommitImport` of the copy, which no revocation reaches),
while rights, texts, settings, keys and trust change. Two workers, one
bundle, two attempts. `TakenAsApproved`, `EndedForGood`.
*Observation.* An error defers "failed" to the run at once, so that max_attempts 3 helps
only after crashes, and a stale attempt that fails fails its successor's run.

*Identity.* A sign-in is `StartSignIn`, `Proved`, `CreateSession`; `ScimUser`, `ScimGroup`,
`Link`, `Unlink`, `ChangeMapping` under one advisory lock, split between the reading of the
member and the write (`ReadMember`, `CommitIdentity`); `OpenHand`, `CommitHand` for members,
`OpenAdmin`, `CommitAdmin` for accounts, under other locks. Two accounts, one sign-in,
three changes. `FollowsGroups`, `HandStands`, `AdminRemains`.
The marker of a managed membership is read from the snapshot of the statement that waits
for the row, so a synchronization takes for its own a role that was set by hand while it
waited, if it is the role that was managed before. `HandStands` holds in every other case
and names this one (`raced`); `HandAlwaysWins`, without exception as the guide has it, is
the finding `identity-hand`. *Observations.* A
session created after its commit survives a concurrent unlink or disabling. A member
removed by hand is added again by the next sync.

*AccessKeys.* A call is `PresentKey`, `CountCall`; an edit `ReadKey`, `WriteKey`. Two calls,
two editors, two minutes. `RateIsKept`, `RevokedForGood`. *Observations.* A rotation sets
the counter to zero; a call that has passed the SELECT with the old secret is let
through; updateKey writes back the expiry it has read.

### SearchIndex, MigrationSession, GitSync, InboundCapture, NotificationDelivery (`exchange`)

*SearchIndex.* Consents and generations (`CreateRAGIndex`, `StopRAGIndex`,
`CreateRAGGeneration`, `VerifyRAGGeneration`, `ActivateRAGGeneration`, `DeleteRAGGeneration`),
the job (`BeginIndex`, `SendBatch`, `StoreBatch`, `CloseIndex`, `FailIndex`), automatic
reindexing (`DispatchRAGDocument`), the search (`QuerySource`, `Questions`: it changes
nothing); the text, the trash,
settings and rights change. Two providers, two batches, two generations, two jobs.
`IndexFitsText`, `SwitchKeepsSearch`. One document stands for each: it is among the 1-30
that the verification has chosen (rag_generation_verify.go:35-48) or it is not
(`VerifyRAGGeneration` chooses). The first generation loses nothing that the search found,
a later switch none of the documents of its proof; any other is found after the switch
only if the generation happens to have its vectors, which the administrator confirms
(confirm_coverage, rag_generation_activate.go:22-23, and the warning at 150), and a version
that was consented to before the switch is not queued again by it (`rag.since`).
*Observation.* Documents that cannot be indexed keep
their place at the head of the queue of twenty (rag_index_auto.go:31).

*MigrationSession.* `CreateMigration`, `RegisterItems`, `UploadChunk`, the preparing job (from
`BeginPreparing` to `FinishPreparing`), `ReviewItem`, the committing job (`ClassifyItem` ...
`PublishMigration`, with `PlanObject`, `PutObject`, `BreakPut`, `LockObject` around the object
storage), `CancelMigration`, `ClearObject`, edits and other sessions. `PublishedOnce`,
`FilesKept`, `EditsOutlive`. *Observations.* A session whose last attempt died is stranded,
and a stale worker may mark a session as failed that another is committing.

*GitSync.* `QueuePreview`, `PreviewGit`, `ConfirmGit`, then a push (`RebuildGit`, `LaunchGit`,
`SendGit`, `ReceiveGit`, `AnsweredGit`, `FinishPush`) or a pull (`AcceptPull`, `SavePull`,
`FinishPull`); `InspectGit` finds out what an unknown push has done; `EditText`,
`CommitElsewhere`, `LoseGit`, `SweepGit`, `ExpireGit`. Two runs, two paths, two attempts.
A path whose document another run has made since the preview becomes that document
(`Meant`), which the run cannot save again without its version (`KnowsVersion`): it
fails. Bound: the document of a path is made once. `ResultIsTrue`, `NothingOverwritten`.
*Observation.* A late finishPush rewrites the mapping that a later run has made. A restore
of the database is not modelled here.

*InboundCapture.* A poll is `OpenFolder` (which mails are listed and read: `Listed`, `FirstOf`),
`ReadMail`, `StageMail`, `AdvancePoll`, `SettlePoll`; a message `IngestMessage`, `CleanIngest`; `ReceiveHook`, `CancelMessage`, `SaveChannel`,
`RebuildFolder` (another UIDVALIDITY, the mails in any order), `Expunge` surround them. Two mails of which two may share a Message-ID or be
unreadable. `MailIsKept`, `OneDocument`, `OnlyForward`. *Observations.* A mail with a
taken Message-ID and other content makes every poll fail before the checkpoint moves. A
message that failed for good stays "pending" and counts against the quota of 100.

*NotificationDelivery.* The trigger `Notify`, `DispatchNote`, then `CheckNote`,
`ReadNoteChannel`, `SendNote`, `FinishNote`; channels, wishes and reading change. Three
attempts, two channels, two troubles. `ToldOnce`, `AsWished`. *Observation.* A stale
worker can turn "sent" into "failed" or "sending"; delivery is at least once, as the
guide says (docs/notification-delivery-guide.md:17).

### PublicShare, DocumentAccess, KnowledgeProposals (`workspace`)

*PublicShare.* A visit is `BeginVisit`, `JudgeVisit`, `ReadShared`, `LookAgain`, `JudgeAgain`,
`Answer`, `Stream`; `Unlock` buys a grant, a secret that names
its visitor and the revision it is for; the owner creates, updates, rotates, revokes.
`ShownWasMeant`, `RevokedIsRevoked`. *Observations.* The watermark follows the
classification of the first reading; a download looks again once per second.

*DocumentAccess.* `RequestAccess`, `GrantRequest`, `RejectRequest`, `CancelRequest`;
`PreviewAccess`, `Confirm`, `SaveVisibility`; shares and roles change. `GrantIsExact`,
`ConfirmedAsShown`.

*KnowledgeProposals.* `Propose`, `BeginMerge`, `LockRow` (both documents of the report in the
order of their ids, then the one that is written), `EndMerge`, `GiveUp`, `DecideProposal`;
`Compare`, `Review`, `DeleteReport`. `MergedAsCompared`, `AnsweredOnce`, `NoEmbrace` (no two
merges wait for each other). *Observation.* LOCK TABLE documents IN SHARE MODE
(knowledge_conflicts.go:62-69) can embrace with saves; the database ends one (`GiveUp`).
The limit of open proposals is left out.

### DocumentTree, AttachmentStore, BackupLedger, AttachmentExtraction, DatabaseRows, StructuredDrafts (`documents`)

*DocumentTree.* A save reads (`ReadToSave`, `StartSave`) and writes (`Save`); `ReadToCreate`,
`Create`; `ReadToSplit`, `PreviewSplit`, `Split`; `Classify`, `Trash`, `Untrash`, `Hold`, `Import`,
`ChangeReaders`. Three documents, two clients, three requests. `SaveKeepsTheRest`,
`MovesStayInReach`, `TreeIsSound`, `HeldIsKept`, `SplitIsOnce`. *Observations.* A child of a
trashed document cannot be saved until it is moved; restoring or creating can leave a
live document under a trashed parent. updateSpace reads outside its transaction.

*AttachmentStore.* `Upload`, `CommitUpload`, `LoseCommit`, `CheckUpload`, `LateCommit`,
`AbandonUpload`; `Purge` and the sweep; `StartBackup`, `LockBackup`, `ReadBackup`; `StageRestore`,
`CommitRestore`; providers change. `RowsHaveObjects`, `RowsAreKept`, `RequestStoresOnce`,
`BackupsAreWhole`. *Observations.* A commit that comes after the check that found none
leaves a row without an object. So does a restore whose commit is done and its answer
lost: the deferred cleanup removes what was staged (restore.go:213-222, 411-414), although
docs/offline-guide.md:107 says that after a failure the database is as it was. `storeLost`
remembers both, and `RowsHaveObjects` names them as its exceptions. Maintenance removes files after its commit without the
lock, so that a backup may find one missing and fails. The windows between check and
removal inside retention and sweep are one step here.

*BackupLedger.* `StartJob`, `PutZip`, `RecordZip`, `ListOld`, `CleanFile`, `CleanRow`, `EndJob`;
`ReplaceZip`, `Restore`. `RetentionSparesTheNewest`, `OneBackupEach`, `ListedIsThere`.
*Observations.* A lost answer of the insertion removes the archive though its row may be
there (backup_jobs.go:278-282; data.go:716 asks again); a pass of retention begun before
a restore may remove what the restore brought back.

*AttachmentExtraction.* `Queue`, `Begin`, `Publish`, `Acknowledge`, `Fail`, `Lapse`,
`Reconcile`, `RemoveText`, `CancelExtraction`; a reader (`StartReading`, `EndReading`) while
text, rights, login and policy change. `HeadIsTheReadyRun`, `TextsAreAsAsked`,
`RunsStayOver`, `RunsAreTried`, `ShownIsActive`.

*DatabaseRows.* `BeginPut`, `BeginCells`, `CommitPut`, `DeleteRow`, `AskModel`, `SaveAnswer`,
`ChangeSchema`, `DropDatabase`, `ChangeRight`. `RowsFitTheSchema`, `VersionTellsTheValues`,
`NothingUnseenIsWrittenOver`, `CellsTogether`. *Observations.* Pruning values does not change
updated_at, so that an answer may land after a property was removed and put back; rights
are checked before the transaction except in editCells. Relations, views and formulas
are left out.

*StructuredDrafts.* `Generate`, `SealTicket`, `BeginSave`, `CommitSave`, `Preview`, `BeginApply`,
`CommitApply`, `DiscardDraft`, `PurgeDraft`; time and surroundings change. `OneRowEach`,
`MadeAsReviewed`. The lives keep the order they have in the code (review 10 minutes,
ticket 30, tombstone 60, draft a day), which `LivesAssumption` states.

`AccessIsAsMeant`, `DocumentsAreKept` and so on name the conjunction of each module;
`WorkspaceHold` and `DocumentsHold` those of a run.

## Findings

Five runs expect a violation; each checks what a comment or a document says.

| Run | What is said | What happens |
| --- | --- | --- |
| `approval-around` (`OnlyApprovalsPublish`) | approvals cannot be enabled between the check and a direct publication (approval_document.go:12) | they can, in `updateDocumentKnowledge` (knowledge.go:109) |
| `session-warned` (`UnsavedWarned`) | "saved" means that the server has committed it (provider.ts:73) | the answer to a later request covers an earlier one that was lost |
| `migration-excluded` (`ExcludedLeftAlone`) | what the user excludes is left alone (transfer-guide.md:16) | an object that a failed commit staged for it is attached by the next |
| `runbook-twice` (`NeverASecondJob`) | asking again never makes a second Job (runbook_worker.go:320) | a stop deletes the Job, and an attempt past its checks makes another under the name |
| `identity-hand` (`HandAlwaysWins`) | a membership assigned by hand always wins (identity.go:247, docs/identity-guide.md:15) | a synchronization that waits for the row goes on from the marker it read before |

`collaboration` shows what remains true of the second: the *indicator* is right even where
the *warning* on leaving the page is not. One more thing the models show and no run
repeats: four statements cancel pending jobs without a date (attachment extraction,
agents, index runs), and retention, which looks for one, keeps those rows for ever.

## What is proved

TLAPS checks every proof for arbitrary constants, from the assumptions named in the
modules (bounds are naturals, and a job may be tried at least once; model values differ; policies
have stages, a plan has a step, every update has a projection; workers and goroutines are
finitely many; there is a provider) and from nothing else.

**Queue** (`WorkspaceProofs`). That a late worker cannot report rests on lease numbers never
being reused and on what a worker remembers of the row it claimed. `IInv` adds: every
lease in use is below the next (`LeasesFresh`); a worker whose lease is the row's
remembers its attempt (`MemoryAgrees`); a running row is the newest claim of its job
(`RunningIsNewest`). `CancellationStands` is an action property from the same invariant;
`Implements` maps every step to a step or a stutter of `JobContract`.

**Automation** (the same module). Every step of the extended model is a step or a
stutter of the queue (`QueueSteps`), so `IInv` is inherited. `AutomationInv` ties the
handler's place to receipts: what precedes its place is done, what has no receipt was
not done, and a lease once lost is lost for good (`LeaseIsLostForGood`).

**Approval** (`ApprovalProofs`). `ApprovalInv` relates each request to what was frozen when
it was submitted (`FrozenKnown`), the pre-transaction read to rows that existed
(`PatchKnown`) and the published text to the request that sealed it (`SealKnown`). The
writers of the document share one lemma, `DocStepKeeps`; the decisions have their own.

**Store** (`CollaborationStoreProofs`). `StoreInv` says what each part knows of the latest
state: journal and checkpoint leave no gap, merged they give it, copies are one state
throughout. `StoreImplements` is the refinement of `SharedDocument`: updates and
rollbacks extend or cut the line, resets start a new one.

**Session** (`CollaborationSessionProofs`). `SessInv` says, per tab: its record fits
(`TabFits`), what waits in the two channels fits it (`QueuesFit`: requests have numbers
in order and carry what was done, answers come in turn to requests that were made, a
hello comes first on its socket), an unplugged tab has no channel contents, the answers
under way are true of the line and continue it (`Truthful`, `Continues`), what was seen
is kept (`Seen`, `Followed`), and every change made is committed, under way, unsent or
handed to recovery (`Kept`); and the line itself is closed (`LogFits`). `TypeOK`,
`TabsAreCurrent` and `SavedIsCommitted` follow (`SessionTypes`, `TabsStayCurrent`,
`SavedMeansCommitted`) for any number of tabs, clocks, epochs, drops and turns.
`CalmIsOrderly` needs a second invariant, which holds while no connection has been broken
(`CalmInv`). The server refuses a message that something in it waits for (`missing_state`),
and a tab that still listens would then send its whole document and keep the refused request
in flight, which nobody answers any more; so the proof shows that nobody is told so who was
not told to stop before (`Warned`). For that, each message may follow the log and the messages before it without a
gap (`Gapless`), which rests on clocks that are numbered without a gap by their author alone
(`Numbered`, `Signed`). Then every request in flight is itself on its way or its answer is
(`Awaited`), and only a seed, never two blocks, starts a document (`Started`)
(`CalmStaysOrderly`). It assumes that the place that starts a document is not a block
(`RootAssumption`).

**Events** (`EventDispatchProofs`). That nothing acts twice rests on every execution that
acted having its receipt until retention removes both (`DoneHasReceipt`). `CascadeBounded`
needs that a job is as deep as its event and that its rule waits for it (`JobsFit`).
`DispatchComplete` follows a dispatch from reading to success: whoever is still due is
ready as at first (`SteadyIsReady`), so it was found or passed over for an error of the
database, then has a row or had one (`DispatchersReach`), and what was read is of the present revision (`JobsArePresent`).
The actions fall into four groups with a lemma each (`QuietKeeps`, `AltersKeeps`,
`PurgeKeeps`, `GrowthKeeps`).

**Agent, accounts, keys, runbooks, distribution** (`OperationsProofs`), each under its scene and stuttering in the
others. `AgentIInv`: jobs and actions name each other (`RunHasJob`, `JobHasAction`,
`ActionHasJob`), what a worker has in mind belongs to its job (`MindHasJob`), and every
deed has its receipt (`DeedHasReceipt`) (`AgentsAreTrue`). `AccountsIInv`: a transaction
remembers what it has read truly (`TxHonest`), no two transactions of administrators
overlap (`AdminsApart`), and what was set by hand stands unless the ghost `raced` tells that it
was set while a synchronization waited; `KeyIInv`: the window counts no more than the row
(`AccountsAreKept`).
`RunIInv`: a confirmed execution has its job and its approval, and its status says what its
steps are (`RowFits`); a runner has one job of a step at a time, AWX never another, and a
launch comes after a success of each step before (`RemoteFits`, `StepFits`); what a
goroutine holds was read of its own execution (`PlaceFits`); one goroutine at a time stands
before the launch of a step on AWX (`RunCalls`); one confirmation holds the row (`RunLocks`)
(`RunbooksAreTrue`). `DistIInv`: the archive is of the version that was asked for
(`RunFits`): what a goroutine has read is no older than the request, and the last look
finds the document no newer (`WorkFits`); a ready row is what was confirmed and approved
(`DistRowFits`); what another installation has bound was signed here and is never signed
again (`ReceiverFits`); no more wait than may (`WaitingFits`). Each step lemma gives the
invariant and what the step may not do, `EndedForGood` (`DistributionIsTrue`).
The shapes of all rows of these scenes follow from the invariants (`OperationsTypes`); one of
them is a bound that no row checks by itself: the steps committed and those begun together
(`StepsCounted`, in `AgentRest`) never exceed the limit by more than the other goroutines,
because a step is begun only while steps are left.

**Index, notifications** (`ExchangeProofs`). `RagIInv`: the pointers name generations that
are there (`Pointers`), a consent given stands behind every job (`GrantStands`), a job
holds what it may send and only vectors of its own version and provider (`JobStands`)
and the worker knows the text it sends (`KnowsText`); `IndexIsTrue`, `SwitchesKeepSearch`
(of the documents that the proof names).
`NoteIInv`: what an attempt means to do was wanted when it began (`NoteMeant`), and
attempts fit what has arrived and what nobody knows of (`InBudget`); `NotesAreTrue`.

**Migration, Git, inbound capture** (`ImportProofs`: what comes in from outside; the scenes
are put together in `ExchangeProofs`).
`MigIInv`: a text has no document, or the one its binding names (`TextFits`), so two sessions
that bring the same text meet at its binding; what an item says of its text was so
(`ItemFits`); from the end of the review the plan agrees with the items in everything that
decides what is done (`Judged`), so that a goroutine with an old job cannot carry out
another plan; files and documents of a session appear with its completion (`OwnFits`), and
an object in the storage has an entry that is not discarded, whole where the entry says so
(`ObjectFits`). A goroutine that stages has stored all of its plan that it no longer has to
see (`StageFits`), which is why publishing finds every file whole. `MigrationIsKept`. Its
step lemmas are split by what a step touches: items, binding, documents, objects, goroutine.
`InIInv`: a mail up to the checkpoint is among the messages under its UID or its Message-ID
(`TakenTo`), and so is what each poll of the present folder believes it has read, while what
it has left to read are the next mails and only those (`ReadSoFar`). A checkpoint that goes
on is therefore the claim of one poll, whichever goroutine makes it and however late; a
renumbered folder voids the claims of the older polls by its UIDVALIDITY (`PollFits`), and
what may be skipped is the larger of two first polls (`MaySkip`). `CaptureIsTrue`. That a
poll has a next mail is well-foundedness (`NextIsThere`).
`GitIInv`: a pack in flight is of a run that was launched, says "running" or "unknown" and
is not in the history, and it builds on the commit the user was shown (`GitPacks`,
`OnItsWay`); one goroutine at most sends for a run, and before the pack leaves there is
none of its (`GitAtWork`, `GitAlone`): so a candidate arrives once. What a run was shown is
known to be exchanged: the versions of a pull, and the files of the branch while it has
not moved (`RunKnows`); the head is a run's commit in the history or a number that nobody
was shown (`CommitFits`). The paths a pull has still to save, or has as they were received,
are all it selected (`GitAtWork`, over `OrderedCovers`); what the run says then follows
(`RunSays`). A step gives its row and its goroutine; the lemmas `GitRowMoves` and
`GitRemoteMoves` carry the rest. `GitIsKept` states `GitHolds`. It assumes that the
documents and commits of others are numbered apart from ours (`GitAssumption`), which
stands for identifiers that never coincide, and keeps the bound that the document of a
path is made once.

*Types of these scenes.* `ExchangeIsTyped`: all rows of the five scenes keep their types. The
invariants above give shapes; the type invariant says in addition that attempts, jobs,
batches and troubles stay within their bounds, for which `ExchangeLimits` has a second
invariant of its own: a job that waits has an attempt left (`GitTried`, `NoteTried`), a row
of a delivery is of a notification that was dispatched (`NoteDispatched`), what was sent to a
provider was sent by a grant that exists (`RagNames`). Only the claim raises an attempt, and
only of a job that waits; whoever puts a job back to wait must have looked at its limit.

**Shares, rights, proposals** (`WorkspaceProofs`). `WorkspaceHolds` states `WorkspaceHold`, which
is about single steps. `SharingInv`: a row of the share that a visit has read stood in the
table, and at the present revision it is the present row (`RowKnown`); a grant, and what
another tab is about to write, fit the password of their revision (`GrantsKnown`,
`TabKnown`). So a visit that finds its revision unchanged has a visitor who knows what is
asked for now (`MeantKnown`), and the version it goes on with is no newer than the one it is
compared with (`VersionKnown`). It takes a classification to exist (`PublicShareAssumption`).
`AccessInv`: requests are told apart by their ids, and a preview opens what its fingerprint
says (`TicketKnown`). `ProposalsInv`: the version a proposal started from had its text, and its
report is there (`ProposalKnown`); a merge has locked the first rows of its order
(`MergeKnown`), from which it follows that two never wait for each other (`NobodyEmbraced`).

### What is only model-checked

* Liveness (`EveryJobSettles`, `EditsSettle`, `CascadeEnds`): out of this prover's reach.
* `DocumentsHold`: safety of the six parts beside the reviews. Each needs an inductive
  invariant of its own; the tree also needs the order in which parents are reached, which is
  induction over data.

## Bounds

Every bound is a constant of its module and a guard of the actions it limits: attempts
(2 or 3 of at most 10), losses, retries; versions, requests, changes; epochs, clocks,
erasures, drops, turns; roots, tries, depth, troubles. They are chosen so that each
hazard occurs at least once with one step to spare; every action fires in some run.
Theorems have no bounds besides the constants themselves.

| Run | Distinct states |
| --- | --- |
| `settling` | @S |
| `workspace` | @W |
| `documents` | @D |
| `collaboration` | @C |
| `events` | @E |
| `operations` | @O |
| `exchange` | @X |

`CHECK_DEADLOCK FALSE` stands where bounds end every behaviour or where quiescence is
the wanted end; the queue never stops, and in `settling` and `workspace` deadlock is checked.

Symmetry is used for workers, clients, instances, tabs, texts and places, in instances
whose properties are symmetric in them and none of which checks liveness. One set of
model values, `{g1, g2}`, serves the parts of several scenes, so that one permutation
covers all of them.

## Plan

The modules above exist. Still to come, in this order:

1. Proofs of the parts of `MCDocuments`: `DatabaseRows` and `BackupLedger` first, whose
   properties are nearly inductive; `DocumentTree` last.
2. `CollaborationCache`: the weights of the copies (collaboration_cache.go:50).
