--------------------------- MODULE MigrationSession ---------------------------
(* Resumable migration (internal/server/migration_resume_*.go): sources are   *)
(* uploaded in chunks, prepared item by item, reviewed, and published in one  *)
(* transaction after the files they need were staged in the object storage,   *)
(* which no transaction covers.  Several sessions of one user may bring the   *)
(* same sources again; the user edits the documents meanwhile.                *)
EXTENDS Naturals, FiniteSets

CONSTANTS
  MigWorkers, NoMigWorker,  \* goroutines of the queue
  MigSessions,              \* sessions of one user with one source key, numbers from 1
  MigTexts,                 \* documents of the source, numbers from 1; each refers to the asset
  MigProviders,             \* fingerprints of the storage in use
  MigAttempts, MigJobs, MigTroubles   \* bounds

ASSUME MigAssumption ==
  /\ MigSessions \subseteq Nat \ {0} /\ MigTexts \subseteq Nat \ {0} /\ MigProviders # {} /\ 0 \notin MigProviders
  /\ NoMigWorker \notin MigWorkers /\ MigAttempts \in Nat \ {0} /\ MigJobs \in Nat /\ MigTroubles \in Nat

VARIABLES
  migSessions,   \* migration_sessions, each with its current job
  migItems,      \* migration_session_items
  migBindings,   \* migration_source_bindings
  migDocuments,  \* versions of the documents, named for the item that made them
  migFiles,      \* rows of attachments: the document, and the object's key
  migObjects,    \* staged_object of the items and migration_session_objects
  migStore,      \* what the object storage holds under each key
  migWorld,      \* the storage in use, the rights of the user
  migWorkers     \* what each goroutine is doing

migVars == <<migSessions, migItems, migBindings, migDocuments, migFiles, migObjects, migStore,
             migWorld, migWorkers>>

MigAsset   == 0                            \* the attachment of the source
MigSources == MigTexts \cup {MigAsset}     \* in the order of their paths
Earliest(xs, x) == x \in xs /\ \A y \in xs : x <= y
MigMakers  == MigSessions \cup {0}           \* 0 stands for every other session of the key
MigKeys    == MigSessions \X MigSources    \* objects: the asset's own, and one per document
NoBinding  == [target |-> <<>>, hash |-> 0, version |-> 0, revision |-> 0]
NoMigJob   == [n |-> 0, kind |-> "prepare", status |-> "done", cancel |-> FALSE, attempts |-> 0,
               holder |-> NoMigWorker, plan |-> <<>>]
NoObject   == [status |-> "none", provider |-> 0]
MigIdle    == [at |-> "idle", session |-> 0, job |-> NoMigJob, item |-> MigAsset, seen |-> {}]
NoItem     == [hash |-> 0, received |-> FALSE, checkpoint |-> 0, status |-> "none",
               disposition |-> "new", target |-> <<>>, expected |-> 0, binding |-> 0, decision |-> "apply"]

MigTypeOK ==
  /\ \A s \in MigSessions :
       /\ migSessions[s].status \in {"none", "uploading", "preparing", "ready", "committing",
                                     "completed", "failed", "cancelled"}
       /\ migSessions[s].job.n \in 0 .. MigJobs /\ migSessions[s].job.attempts \in 0 .. MigAttempts
       /\ migSessions[s].job.status \in {"pending", "running", "done", "failed", "cancelled"}
       /\ \A x \in MigSources :
            /\ migItems[s][x].status \in {"none", "uploading", "pending", "prepared", "failed"}
            /\ migItems[s][x].disposition \in {"new", "changed", "unchanged", "conflict"}
            /\ migItems[s][x].status = "prepared" => migItems[s][x].checkpoint = 2
  /\ migDocuments \in [MigMakers \X MigTexts -> Nat]
  /\ \A f \in migFiles : f.key \in MigKeys
  /\ \A k \in MigKeys : migObjects[k].status \in {"none", "planned", "ready", "claimed", "discarded"}
  /\ migStore \in [MigKeys -> {"none", "partial", "whole"}]
  /\ migWorld.troubles <= MigTroubles

MigInit ==
  /\ migSessions = [s \in MigSessions |-> [status |-> "none", plan |-> <<>>, job |-> NoMigJob]]
  /\ migItems = [s \in MigSessions |-> [x \in MigSources |-> NoItem]]
  /\ \E before \in BOOLEAN :   \* the texts may have been brought before
       /\ migBindings = [x \in MigSources |-> IF before /\ x # MigAsset
            THEN [target |-> <<0, x>>, hash |-> 1, version |-> 1, revision |-> 1] ELSE NoBinding]
       /\ migDocuments = [d \in MigMakers \X MigTexts |-> IF before /\ d[1] = 0 THEN 1 ELSE 0]
  /\ migFiles = {}
  /\ migObjects = [k \in MigKeys |-> NoObject]
  /\ migStore = [k \in MigKeys |-> "none"]
  /\ migWorld = [provider |-> CHOOSE p \in MigProviders : TRUE, permitted |-> TRUE, troubles |-> 0]
  /\ migWorkers = [w \in MigWorkers |-> MigIdle]

MigTrouble == migWorld.troubles < MigTroubles
Spent      == [migWorld EXCEPT !.troubles = @ + 1]

(* migrationTargetFingerprint: the version stands for the hash of the target. *)
VersionOf(x, target) == IF x = MigAsset THEN 1 ELSE migDocuments[target]

(* migrationSessionPlanTx: the part of the items that the plan's hash covers. *)
PlanOf(s) == [x \in MigSources |-> [migItems[s][x] EXCEPT !.received = TRUE, !.checkpoint = 2]]
Applied(plan, x) == plan[x].decision # "skip" /\ plan[x].disposition # "unchanged"

----------------
(* The upload.                                                                *)

\* Bound: a session begins once the earlier ones have been prepared.
CreateMigration(s) ==
  /\ migSessions[s].status = "none"
  /\ \A t \in MigSessions : t < s => migSessions[t].status \notin {"none", "uploading", "preparing"}
  /\ migSessions' = [migSessions EXCEPT ![s].status = "uploading"]
  /\ UNCHANGED <<migItems, migBindings, migDocuments, migFiles, migObjects, migStore, migWorld, migWorkers>>

\* registerMigrationSessionItems: the texts may have changed since they were
\* brought last; the same source with another hash is refused.
RegisterItems(s, hash) ==
  /\ migSessions[s].status = "uploading" /\ migItems[s][MigAsset].status = "none"
  /\ migItems' = [migItems EXCEPT ![s] = [x \in MigSources |->
       [NoItem EXCEPT !.status = "uploading", !.target = <<s, x>>,
                      !.hash = IF x = MigAsset THEN 1 ELSE hash]]]
  /\ UNCHANGED <<migSessions, migBindings, migDocuments, migFiles, migObjects, migStore, migWorld, migWorkers>>

\* A chunk that was received already is only acknowledged.
UploadChunk(s, x) ==
  /\ migSessions[s].status = "uploading" /\ Earliest({y \in MigSources : migItems[s][y].status = "uploading"}, x)
  /\ migItems' = [migItems EXCEPT ![s][x].received = TRUE, ![s][x].status = "pending"]
  /\ UNCHANGED <<migSessions, migBindings, migDocuments, migFiles, migObjects, migStore, migWorld, migWorkers>>

NextJob(s, kind, plan) ==
  [NoMigJob EXCEPT !.n = migSessions[s].job.n + 1, !.kind = kind, !.status = "pending", !.plan = plan]

Staged(s) ==
  \E x \in MigSources : migObjects[<<s, x>>].status \in (IF x = MigAsset THEN {"planned"} ELSE {"planned", "ready"})

\* beginMigrationSessionPrepare: a session that failed after staging keeps what
\* was reviewed and only returns to the review.
BeginPrepare(s) ==
  LET again == migSessions[s].status = "failed" IN
  /\ migSessions[s].status \in {"uploading", "failed"}
  /\ \A x \in MigSources : migItems[s][x].received
  /\ IF again /\ Staged(s)
     THEN /\ migSessions' = [migSessions EXCEPT ![s].status = "ready", ![s].plan = PlanOf(s)]
          /\ UNCHANGED migItems
     ELSE /\ migSessions[s].job.n < MigJobs
          /\ migSessions' = [migSessions EXCEPT ![s].status = "preparing", ![s].job = NextJob(s, "prepare", <<>>)]
          /\ migItems' = [migItems EXCEPT ![s] = [x \in MigSources |->
               IF again THEN [migItems[s][x] EXCEPT !.checkpoint = 0, !.status = "pending"] ELSE migItems[s][x]]]
  /\ UNCHANGED <<migBindings, migDocuments, migFiles, migObjects, migStore, migWorld, migWorkers>>

----------------
(* The review.                                                                *)

\* reviewMigrationSessionItem: a conflict can only be left out.
ReviewItem(s, x, decision) ==
  /\ migSessions[s].status = "ready" /\ migSessions[s].plan = PlanOf(s)
  /\ migItems[s][x].disposition = "conflict" => decision = "skip"
  /\ migItems[s][x].decision # decision
  /\ migItems' = [migItems EXCEPT ![s][x].decision = decision]
  /\ migSessions' = [migSessions EXCEPT ![s].plan[x].decision = decision]
  /\ UNCHANGED <<migBindings, migDocuments, migFiles, migObjects, migStore, migWorld, migWorkers>>

\* commitMigrationSession: everything prepared, no conflict, no text that needs
\* a file which is left out.
CommitMigration(s) ==
  LET plan == PlanOf(s) IN
  /\ migSessions[s].status = "ready" /\ migSessions[s].plan = plan /\ migSessions[s].job.n < MigJobs
  /\ \A x \in MigSources : plan[x].status = "prepared" /\ (plan[x].disposition = "conflict" => plan[x].decision = "skip")
  /\ plan[MigAsset].decision = "skip" => \A d \in MigTexts : plan[d].decision = "skip"
  /\ migSessions' = [migSessions EXCEPT ![s].status = "committing", ![s].job = NextJob(s, "commit", plan)]
  /\ UNCHANGED <<migItems, migBindings, migDocuments, migFiles, migObjects, migStore, migWorld, migWorkers>>

\* cancelMigrationSession, and expireMigrationSessions for those not completed:
\* a running job is only asked to stop.
CancelMigration(s) ==
  /\ migSessions[s].status \notin {"none", "completed", "cancelled"}
  /\ migSessions' = [migSessions EXCEPT ![s].status = "cancelled", ![s].job.cancel = TRUE]
  /\ UNCHANGED <<migItems, migBindings, migDocuments, migFiles, migObjects, migStore, migWorld, migWorkers>>

----------------
(* The queue, and what every step of a job asks first.                        *)

Places(w, place) == migWorkers' = [migWorkers EXCEPT ![w] = place]
JobOf(w)  == migSessions[migWorkers[w].session].job
Mine(w)   == JobOf(w).n = migWorkers[w].job.n
Leased(w) == Mine(w) /\ JobOf(w).holder = w /\ JobOf(w).status = "running" /\ ~JobOf(w).cancel

ClaimMigration(w, s) ==
  LET job == [migSessions[s].job EXCEPT !.status = "running", !.attempts = @ + 1, !.holder = w] IN
  /\ migWorkers[w].at = "idle" /\ migSessions[s].job.status = "pending" /\ ~migSessions[s].job.cancel
  /\ migSessions' = [migSessions EXCEPT ![s].job = job]
  /\ Places(w, [MigIdle EXCEPT !.at = "begin", !.session = s, !.job = job])
  /\ UNCHANGED <<migItems, migBindings, migDocuments, migFiles, migObjects, migStore, migWorld>>

\* The lease runs out because the worker has died or stalls; the last attempt
\* leaves the session as it is.
LoseMigration(s) ==
  LET job == migSessions[s].job IN
  /\ MigTrouble /\ migWorld' = Spent
  /\ job.status = "running"
  /\ migSessions' = [migSessions EXCEPT ![s].job = [job EXCEPT !.holder = NoMigWorker,
       !.status = IF job.cancel THEN "cancelled" ELSE IF job.attempts < MigAttempts THEN "pending" ELSE "failed"]]
  /\ UNCHANGED migWorkers \/ Places(job.holder, MigIdle)
  /\ UNCHANGED <<migItems, migBindings, migDocuments, migFiles, migObjects, migStore>>

\* migrationSessionJob.
JobHolds(w) ==
  LET s == migWorkers[w].session IN
  Mine(w) /\ migSessions[s].status # "cancelled" /\ migWorld.permitted

\* runJob settles the job if the lease is still its own.
SettledJob(w, status) ==
  IF ~Mine(w) \/ JobOf(w).holder # w THEN JobOf(w)
  ELSE [JobOf(w) EXCEPT !.holder = NoMigWorker, !.status = IF JobOf(w).cancel THEN "cancelled" ELSE status]

EndMigration(w, status) ==
  /\ migSessions' = [migSessions EXCEPT ![migWorkers[w].session].job = SettledJob(w, status)]
  /\ Places(w, MigIdle)

\* The deferred update of both jobs: an error that no retry mends, or the last
\* attempt, fails the session if it is still in this job's hands.
FailMigration(w, permanent) ==
  LET s == migWorkers[w].session  last == permanent \/ migWorkers[w].job.attempts = MigAttempts
      stage == IF migWorkers[w].job.kind = "prepare" THEN "preparing" ELSE "committing"
  IN
  /\ migSessions' = [migSessions EXCEPT
       ![s].status = IF last /\ Mine(w) /\ @ = stage THEN "failed" ELSE @,
       ![s].job = SettledJob(w, IF last THEN "failed" ELSE "pending")]
  /\ Places(w, MigIdle)

----------------
(* The job that prepares.                                                     *)

Preparing(w) == migWorkers[w].job.kind = "prepare" /\ migSessions[migWorkers[w].session].status = "preparing"

BeginPreparing(w) ==
  /\ migWorkers[w].at = "begin" /\ migWorkers[w].job.kind = "prepare" /\ JobHolds(w)
  /\ \/ Preparing(w) /\ Places(w, [migWorkers[w] EXCEPT !.at = "classify"]) /\ UNCHANGED migSessions
     \/ migSessions[migWorkers[w].session].status = "ready" /\ EndMigration(w, "done")
  /\ UNCHANGED <<migItems, migBindings, migDocuments, migFiles, migObjects, migStore, migWorld>>

Classified(s, x, item) ==
  LET b == migBindings[x] IN
  IF b.revision = 0 THEN [item EXCEPT !.disposition = "new", !.checkpoint = 1]
  ELSE [item EXCEPT !.checkpoint = 1, !.binding = b.revision, !.expected = VersionOf(x, b.target),
          !.disposition = IF VersionOf(x, b.target) # b.version THEN "conflict"
                          ELSE IF b.hash = item.hash THEN "unchanged" ELSE "changed",
          !.target = b.target]

\* classifyMigrationItems: one transaction per item, once per item.
ClassifyItem(w, x) ==
  LET s == migWorkers[w].session IN
  /\ migWorkers[w].at = "classify" /\ Preparing(w)
  /\ Earliest({y \in MigSources : migItems[s][y].checkpoint = 0}, x)
  /\ migItems' = [migItems EXCEPT ![s][x] = Classified(s, x, @)]
  /\ UNCHANGED <<migSessions, migBindings, migDocuments, migFiles, migObjects, migStore, migWorld, migWorkers>>

ReadItems(w) ==
  LET s == migWorkers[w].session IN
  /\ migWorkers[w].at = "classify" /\ \A x \in MigSources : migItems[s][x].checkpoint > 0
  /\ Places(w, [migWorkers[w] EXCEPT !.at = "prepare",
       !.seen = {x \in MigSources : migItems[s][x].status # "prepared"}])
  /\ UNCHANGED <<migSessions, migItems, migBindings, migDocuments, migFiles, migObjects, migStore, migWorld>>

CheckItem(w, x) ==
  /\ migWorkers[w].at = "prepare" /\ Earliest(migWorkers[w].seen, x) /\ JobHolds(w)
  /\ Places(w, [migWorkers[w] EXCEPT !.at = "write", !.item = x, !.seen = @ \ {x}])
  /\ UNCHANGED <<migSessions, migItems, migBindings, migDocuments, migFiles, migObjects, migStore, migWorld>>

\* prepareMigrationSessionItem: the checkpoint is published under the session's lock.
PrepareItem(w) ==
  LET s == migWorkers[w].session  x == migWorkers[w].item IN
  /\ migWorkers[w].at = "write" /\ Preparing(w)
  /\ migItems' = [migItems EXCEPT ![s][x].status = "prepared", ![s][x].checkpoint = 2]
  /\ Places(w, [migWorkers[w] EXCEPT !.at = "prepare", !.item = MigAsset])
  /\ UNCHANGED <<migSessions, migBindings, migDocuments, migFiles, migObjects, migStore, migWorld>>

\* ... or the conversion fails, and with it the session.
SpoilItem(w) ==
  LET s == migWorkers[w].session IN
  /\ migWorkers[w].at = "write" /\ MigTrouble /\ migWorld' = Spent
  /\ migItems' = [migItems EXCEPT ![s][migWorkers[w].item].status = "failed"]
  /\ migSessions' = [migSessions EXCEPT ![s].status = IF @ = "preparing" THEN "failed" ELSE @,
                                        ![s].job = SettledJob(w, "failed")]
  /\ Places(w, MigIdle)
  /\ UNCHANGED <<migBindings, migDocuments, migFiles, migObjects, migStore>>

FinishPreparing(w) ==
  LET s == migWorkers[w].session IN
  /\ migWorkers[w].at = "prepare" /\ migWorkers[w].seen = {} /\ Preparing(w)
  /\ migSessions' = [migSessions EXCEPT ![s].status = "ready", ![s].plan = PlanOf(s),
                                        ![s].job = SettledJob(w, "done")]
  /\ Places(w, MigIdle)
  /\ UNCHANGED <<migItems, migBindings, migDocuments, migFiles, migObjects, migStore, migWorld>>

----------------
(* The job that publishes: first the files.                                   *)

Committing(s) == migSessions[s].status = "committing"
Needed(plan)  == {x \in MigSources : Applied(plan, x)}
Locked(k) == \E w \in MigWorkers : migWorkers[w].at \in {"plan", "put"} /\ <<migWorkers[w].session, migWorkers[w].item>> = k

BeginCommitting(w) ==
  LET s == migWorkers[w].session IN
  /\ migWorkers[w].at = "begin" /\ migWorkers[w].job.kind = "commit" /\ JobHolds(w)
  /\ \/ Committing(s) /\ Places(w, [migWorkers[w] EXCEPT !.at = "stage", !.seen = Needed(PlanOf(s))])
        /\ UNCHANGED migSessions
     \/ migSessions[s].status = "completed" /\ EndMigration(w, "done")
  /\ UNCHANGED <<migItems, migBindings, migDocuments, migFiles, migObjects, migStore, migWorld>>

\* stageMigrationPrimaryObject and stageMigrationReference take the lock of the
\* object before they look at anything.
LockObject(w, x) ==
  LET k == <<migWorkers[w].session, x>> IN
  /\ migWorkers[w].at = "stage" /\ Earliest(migWorkers[w].seen, x) /\ ~Locked(k)
  /\ Places(w, [migWorkers[w] EXCEPT !.at = "plan", !.item = x, !.seen = @ \ {x}])
  /\ UNCHANGED <<migSessions, migItems, migBindings, migDocuments, migFiles, migObjects, migStore, migWorld>>

\* Mutant: the key is written down only after the object.
UnjournaledObject(k) == migObjects[k]

\* The key is written down before the object.
JournaledObject(k) ==
  IF migObjects[k].status = "none" /\ Committing(k[1])
  THEN [status |-> "planned", provider |-> migWorld.provider] ELSE migObjects[k]

PlanObject(w) ==
  LET k == <<migWorkers[w].session, migWorkers[w].item>>  entry == JournaledObject(k) IN
  /\ migWorkers[w].at = "plan" /\ JobHolds(w)
  /\ entry.status \in {"none", "planned", "ready"} /\ entry.provider \in {0, migWorld.provider}
  /\ Committing(k[1]) /\ Leased(w)
  /\ migObjects' = [migObjects EXCEPT ![k] = entry]
  /\ Places(w, [migWorkers[w] EXCEPT !.at = "put"])
  /\ UNCHANGED <<migSessions, migItems, migBindings, migDocuments, migFiles, migStore, migWorld>>

MarkedReady(k) ==
  IF k[2] # MigAsset /\ migObjects[k].status \in {"none", "planned"}
  THEN [status |-> "ready", provider |-> migWorld.provider] ELSE migObjects[k]

\* recoverMigrationObject: what is whole stays, what is not is replaced.
PutObject(w) ==
  LET k == <<migWorkers[w].session, migWorkers[w].item>> IN
  /\ migWorkers[w].at = "put"
  /\ migStore[k] = "whole" \/ JobHolds(w)
  /\ migStore' = [migStore EXCEPT ![k] = "whole"]
  /\ migObjects' = [migObjects EXCEPT ![k] = MarkedReady(k)]
  /\ Places(w, [migWorkers[w] EXCEPT !.at = "stage", !.item = MigAsset])
  /\ UNCHANGED <<migSessions, migItems, migBindings, migDocuments, migFiles, migWorld>>

\* The write ends half way: the process dies, or the storage fails and the job
\* is tried again.
BreakPut(w) ==
  LET k == <<migWorkers[w].session, migWorkers[w].item>> IN
  /\ migWorkers[w].at = "put" /\ JobHolds(w) /\ MigTrouble /\ migWorld' = Spent
  /\ migStore' = [migStore EXCEPT ![k] = IF @ = "whole" THEN @ ELSE "partial"]
  /\ \/ UNCHANGED migSessions /\ Places(w, MigIdle)
     \/ FailMigration(w, FALSE)
  /\ UNCHANGED <<migItems, migBindings, migDocuments, migFiles, migObjects>>

----------------
(* ... then the transaction.                                                  *)

\* Mutant: what the review saw is not compared with what is there.
BindingSkipped(x, item) == TRUE

\* migrationBindingGuardTx.
BindingHolds(x, item) ==
  LET b == migBindings[x] IN
  IF item.binding = 0 THEN b.revision = 0
  ELSE /\ b.revision = item.binding
       /\ VersionOf(x, b.target) = item.expected /\ item.expected = b.version

\* commitMigrationDocumentTx makes the document, or replaces it.
DocumentsAfter(s) ==
  [d \in DOMAIN migDocuments |->
     IF \E x \in MigTexts : Applied(PlanOf(s), x) /\ migItems[s][x].target = d
     THEN migDocuments[d] + 1 ELSE migDocuments[d]]

\* The documents that get an attachment: of every object that was staged.
TargetOf(k) == IF k[2] = MigAsset THEN <<>> ELSE migItems[k[1]][k[2]].target
References(s) == {<<s, x>> : x \in {y \in MigTexts : migObjects[<<s, y>>].status # "none"}}
Primary(s)    == {<<s, MigAsset>> : y \in {z \in {MigAsset} : Applied(PlanOf(s), z)}}

FilesHold(s) ==
  /\ \A k \in References(s) : /\ migObjects[k].status = "ready" /\ migObjects[k].provider = migWorld.provider
                              /\ DocumentsAfter(s)[TargetOf(k)] > 0
  /\ \A k \in Primary(s) : migObjects[k].status = "planned" /\ migObjects[k].provider = migWorld.provider

BoundAfter(s, x) ==
  LET item == migItems[s][x] IN
  IF item.decision = "skip" THEN migBindings[x]
  ELSE LET target == IF x = MigAsset /\ item.disposition = "changed" THEN <<s, x>> ELSE item.target IN
       [target |-> target, hash |-> item.hash, revision |-> migBindings[x].revision + 1,
        version |-> IF x = MigAsset THEN 1 ELSE DocumentsAfter(s)[target]]

MayPublish(w) ==
  LET s == migWorkers[w].session IN
  /\ Committing(s) /\ migSessions[s].plan = migWorkers[w].job.plan
  /\ JobHolds(w) /\ Leased(w) /\ FilesHold(s)
  /\ \A x \in MigSources : migItems[s][x].decision # "skip" => BindingHolds(x, migItems[s][x])

\* commitMigrationSessionAtomic; runJob settles the job later.
PublishMigration(w) ==
  LET s == migWorkers[w].session IN
  /\ migWorkers[w].at = "stage" /\ migWorkers[w].seen = {} /\ MayPublish(w)
  /\ migSessions' = [migSessions EXCEPT ![s].status = "completed"]
  /\ migDocuments' = DocumentsAfter(s)
  /\ migFiles' = migFiles \cup {[document |-> TargetOf(k), key |-> k] : k \in References(s) \cup Primary(s)}
  /\ migObjects' = [k \in MigKeys |-> IF k \in References(s) THEN [migObjects[k] EXCEPT !.status = "claimed"] ELSE migObjects[k]]
  /\ migBindings' = [x \in MigSources |-> BoundAfter(s, x)]
  /\ Places(w, [MigIdle EXCEPT !.at = "settle", !.session = s, !.job = migWorkers[w].job])
  /\ UNCHANGED <<migItems, migStore, migWorld>>

SettleMigration(w) ==
  /\ migWorkers[w].at = "settle" /\ EndMigration(w, "done")
  /\ UNCHANGED <<migItems, migBindings, migDocuments, migFiles, migObjects, migStore, migWorld>>

\* Whatever a step asks does not hold: the job ends, the session fails.
RefuseMigration(w) ==
  LET s == migWorkers[w].session  at == migWorkers[w].at
      k == <<s, migWorkers[w].item>>
  IN
  /\ \/ at = "begin" /\ (~JobHolds(w) \/ migSessions[s].status \notin
          (IF migWorkers[w].job.kind = "prepare" THEN {"preparing", "ready"} ELSE {"committing", "completed"}))
     \/ at = "prepare" /\ (IF migWorkers[w].seen = {} THEN ~Preparing(w) ELSE ~JobHolds(w))
     \/ at \in {"classify", "write"} /\ ~Preparing(w)
     \/ at = "plan" /\ ~(/\ JobHolds(w) /\ Committing(s) /\ Leased(w) /\ migObjects[k].status # "discarded"
                         /\ migObjects[k].provider \in {0, migWorld.provider})
     \/ at = "put" /\ migStore[k] # "whole" /\ ~JobHolds(w)
     \/ at = "stage" /\ migWorkers[w].seen = {} /\ ~MayPublish(w)
  /\ FailMigration(w, TRUE)
  /\ UNCHANGED <<migItems, migBindings, migDocuments, migFiles, migObjects, migStore, migWorld>>

----------------
(* The surroundings.                                                          *)

\* Mutant: the objects of a session that has failed are cleaned as well.
ClearableAfterFailure(k) ==
  migSessions[k[1]].status \in {"cancelled", "failed", "completed"} /\ migObjects[k].status \in {"planned", "ready", "claimed"}

\* cleanupMigrationObjects.
Clearable(k) ==
  /\ migSessions[k[1]].status = "cancelled" /\ migObjects[k].status \in {"planned", "ready"}
  /\ ~\E f \in migFiles : f.key = k

\* The object goes first; its entry may be left for another round.
ClearObject(k) ==
  /\ Clearable(k) /\ migObjects[k].provider = migWorld.provider /\ ~Locked(k)
  /\ migStore' = [migStore EXCEPT ![k] = "none"]
  /\ \/ migObjects' = [migObjects EXCEPT ![k] = IF k[2] = MigAsset THEN NoObject ELSE [@ EXCEPT !.status = "discarded"]]
     \/ migStore[k] # "none" /\ UNCHANGED migObjects
  /\ UNCHANGED <<migSessions, migItems, migBindings, migDocuments, migFiles, migWorld, migWorkers>>

EditMigrated(d) ==
  /\ migDocuments[d] > 0 /\ MigTrouble /\ migWorld' = Spent
  /\ migDocuments' = [migDocuments EXCEPT ![d] = @ + 1]
  /\ UNCHANGED <<migSessions, migItems, migBindings, migFiles, migObjects, migStore, migWorkers>>

\* Another session of the same key publishes the text, over the document there
\* is or as its own.
PublishElsewhere(x) ==
  LET b == migBindings[x]
      d == IF b.revision = 0 THEN <<0, x>> ELSE b.target
  IN
  /\ MigTrouble /\ migWorld' = Spent
  /\ b.revision > 0 => migDocuments[d] = b.version
  /\ migDocuments' = [migDocuments EXCEPT ![d] = @ + 1]
  /\ migBindings' = [migBindings EXCEPT ![x] =
       [target |-> d, hash |-> 2, version |-> migDocuments[d] + 1, revision |-> b.revision + 1]]
  /\ UNCHANGED <<migSessions, migItems, migFiles, migObjects, migStore, migWorkers>>

ChangeSurroundings ==
  /\ MigTrouble
  /\ \/ \E p \in MigProviders \ {migWorld.provider} : migWorld' = [Spent EXCEPT !.provider = p]
     \/ migWorld' = [Spent EXCEPT !.permitted = ~@]
  /\ UNCHANGED <<migSessions, migItems, migBindings, migDocuments, migFiles, migObjects, migStore, migWorkers>>

MigNext ==
  \/ \E s \in MigSessions :
       \/ CreateMigration(s) \/ BeginPrepare(s) \/ CommitMigration(s) \/ CancelMigration(s) \/ LoseMigration(s)
       \/ \E hash \in 1 .. 2 : RegisterItems(s, hash)
       \/ \E x \in MigSources : UploadChunk(s, x) \/ \E decision \in {"apply", "skip"} : ReviewItem(s, x, decision)
       \/ \E w \in MigWorkers : ClaimMigration(w, s)
  \/ \E w \in MigWorkers :
       \/ BeginPreparing(w) \/ ReadItems(w) \/ PrepareItem(w) \/ SpoilItem(w) \/ FinishPreparing(w)
       \/ BeginCommitting(w) \/ PlanObject(w) \/ PutObject(w) \/ BreakPut(w)
       \/ PublishMigration(w) \/ SettleMigration(w) \/ RefuseMigration(w)
       \/ \E x \in MigSources : ClassifyItem(w, x) \/ CheckItem(w, x) \/ LockObject(w, x)
  \/ \E k \in MigKeys : ClearObject(k)
  \/ \E d \in DOMAIN migDocuments : EditMigrated(d)
  \/ \E x \in MigTexts : PublishElsewhere(x)
  \/ ChangeSurroundings

MigSpec == MigInit /\ [][MigNext]_migVars

----------------
(* Properties.                                                                *)

\* Nothing of a session shows before the whole of what was confirmed does; a
\* document of the source exists once, whatever sessions, retries and stale
\* workers have brought it.
PublishedOnce ==
  /\ \A s \in MigSessions : migSessions[s].status # "completed" =>
       /\ \A x \in MigTexts : migDocuments[<<s, x>>] = 0
       /\ ~\E f \in migFiles : f.key[1] = s
  /\ \A s \in MigSessions : migSessions[s].status = "completed" =>
       \A x \in MigSources : Applied(migSessions[s].job.plan, x) => migBindings[x].revision > 0
  /\ \A x \in MigTexts : Cardinality({s \in MigMakers : migDocuments[<<s, x>>] > 0}) <= 1

\* Every attachment has its whole object, and every object in the storage is
\* named by an entry or an attachment, through crashes, half writes, cancelling
\* and cleaning.
FilesKept ==
  /\ \A f \in migFiles : migStore[f.key] = "whole"
  /\ \A k \in MigKeys : migStore[k] # "none" => migObjects[k].status \in {"planned", "ready", "claimed"}

\* docs/transfer-guide.md: what the user leaves out at the review stays as it is.
ExcludedLeftAlone ==
  \A f \in migFiles : f.document # <<>> => migSessions[f.key[1]].job.plan[f.key[2]].decision # "skip"

\* A document is replaced only at the version the review has shown.
EditsOutlive ==
  \A w \in MigWorkers : PublishMigration(w) =>
    \A x \in MigTexts : LET plan == migWorkers[w].job.plan IN
      Applied(plan, x) => migDocuments[plan[x].target] = plan[x].expected

\* A migration is published whole, once, with its files, and over nobody's work.
MigrationIsWhole == PublishedOnce' /\ FilesKept' /\ EditsOutlive
=============================================================================
