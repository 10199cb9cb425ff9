------------------------ MODULE KnowledgeDistribution ------------------------
(* Taking knowledge to another network (internal/server/export_jobs.go and      *)
(* knowledge_distribution_*.go).  A user exports a published document; the      *)
(* archive is confirmed, reviewed as a whole where approvals are required,      *)
(* signed by a job, downloaded, carried over, and imported by another           *)
(* installation that trusts the key.  Everything the signature rests on may     *)
(* change in between: it is read again in the transaction of each step.         *)
EXTENDS Naturals, FiniteSets, LeasedJob

CONSTANTS
  DistWorkers,   \* goroutines of the queue
  Dists,         \* knowledge_distribution_exports of the user
  MaxWaiting,    \* how many may wait at once (5 in the code)
  DistAttempts, DistChanges, DistTroubles   \* attempts of export.build (3); bounds

ASSUME DistAssumption == MaxWaiting \in Nat

VARIABLES
  distWorld,     \* the document, the settings, the policies, the key and the session
  distRun,       \* export_runs and export_artifact_blobs
  distRows,      \* knowledge_distribution_exports and their artifacts
  distReceiver,  \* the other installation: its trust, the copy carried to it and an import session
  distWorkers,   \* what each goroutine is doing
  distTroubled   \* bounds

distVars == <<distWorld, distRun, distRows, distReceiver, distWorkers, distTroubled>>

\* A manifest names the text, the protection it was checked under and, where
\* approvals are required, the policy its publication was approved under.
NoManifest == [version |-> 0, protection |-> 0, evidence |-> 0]
NoReview   == [status |-> "none", manifest |-> NoManifest, clock |-> 0]
NoRun      == [status |-> "none", version |-> 0, exports |-> 0, blob |-> 0, due |-> FALSE, job |-> Unqueued]
NoDist     == [status |-> "none", confirmed |-> 0, policy |-> 0, key |-> 0, due |-> FALSE, manifest |-> NoManifest,
               review |-> NoReview, artifact |-> NoManifest, job |-> Unqueued]
DistIdle   == [at |-> "idle", row |-> 0, version |-> 0, manifest |-> NoManifest]

DistTypeOK ==
  /\ distRun.status \in {"none", "queued", "running", "ready", "failed", "cancelled", "expired"}
  /\ distRun.blob # 0 <=> distRun.status = "ready"
  /\ \A d \in Dists :
       /\ distRows[d].status \in {"none", "queued", "awaiting_review", "ready", "failed", "expired", "revoked"}
       /\ distRows[d].review.status \in {"none", "pending", "approved", "rejected"}
       /\ distRows[d].job.attempts <= 1
  /\ Cardinality({d \in Dists : distRows[d].status \in {"queued", "awaiting_review"}}) <= MaxWaiting
  /\ distReceiver.status \in {"uploading", "committed"} /\ distReceiver.bound.version <= distWorld.version
  /\ \A w \in DistWorkers : distWorkers[w].at \in {"idle", "start", "build", "finish", "manifest", "review", "sign"}

DistInit ==
  /\ \E needs \in BOOLEAN :
       distWorld = [version |-> 1, published |-> TRUE, approved |-> needs, allowed |-> TRUE, session |-> TRUE, needs |-> needs,
                    clock |-> 1, protection |-> 1, exports |-> 1, policy |-> 1, closed |-> {}, key |-> 1, revoked |-> FALSE]
  /\ distRun = NoRun
  /\ distRows = [d \in Dists |-> NoDist]
  /\ distReceiver = [trusts |-> TRUE, status |-> "uploading", copy |-> NoManifest, bound |-> NoManifest, items |-> 0, due |-> FALSE]
  /\ distWorkers = [w \in DistWorkers |-> DistIdle]
  /\ distTroubled = [changes |-> 0, troubles |-> 0]

DistTrouble == distTroubled.troubles < DistTroubles /\ distTroubled' = [distTroubled EXCEPT !.troubles = @ + 1]
DistChange  == distTroubled.changes < DistChanges /\ distTroubled' = [distTroubled EXCEPT !.changes = @ + 1]
Works(w, record) == distWorkers' = [distWorkers EXCEPT ![w] = record]

----------------
(* The export of the archive.                                                 *)

\* validateExport: what the request was made with still holds.
ValidRun ==
  /\ distRun.status \in {"queued", "running", "ready"} /\ ~distRun.due
  /\ "exports" \notin distWorld.closed /\ distRun.exports = distWorld.exports
  /\ distWorld.session /\ distWorld.allowed /\ distRun.version = distWorld.version

CreateExport ==
  /\ distRun = NoRun /\ distWorld.session /\ distWorld.allowed /\ "exports" \notin distWorld.closed
  /\ distRun' = [NoRun EXCEPT !.status = "queued", !.version = distWorld.version, !.exports = distWorld.exports,
                              !.job = NewJob]
  /\ UNCHANGED <<distWorld, distRows, distReceiver, distWorkers, distTroubled>>

\* cancelExport, from any status.
CancelExport ==
  /\ distRun.status # "none" /\ distWorld.session /\ DistChange
  /\ distRun' = [distRun EXCEPT !.status = "cancelled", !.blob = 0, !.job = JobCancelled(@)]
  /\ UNCHANGED <<distWorld, distRows, distReceiver, distWorkers>>

ClaimExport(w) ==
  LET job == ClaimedBy(distRun.job, w) IN
  /\ distWorkers[w].at = "idle" /\ MayClaim(distRun.job)
  /\ IF distRun.status = "ready"
     THEN distRun' = [distRun EXCEPT !.job = JobSettled(job, w, "done", DistAttempts)] /\ UNCHANGED distWorkers
     ELSE distRun' = [distRun EXCEPT !.job = job] /\ Works(w, [DistIdle EXCEPT !.at = "start"])
  /\ UNCHANGED <<distWorld, distRows, distReceiver, distTroubled>>

\* The deferred end of an attempt that failed, and the job after it.
FailExport(w, result) ==
  /\ distRun' = [distRun EXCEPT !.status = IF @ \in {"queued", "running"} THEN "failed" ELSE @,
                                !.job = JobSettled(@, w, result, DistAttempts)]
  /\ Works(w, DistIdle)

StartExport(w) ==
  /\ distWorkers[w].at = "start"
  /\ IF ValidRun
     THEN /\ distRun' = [distRun EXCEPT !.status = IF @ = "queued" THEN "running" ELSE @]
          /\ Works(w, [distWorkers[w] EXCEPT !.at = "build"])
     ELSE FailExport(w, "failed")
  /\ UNCHANGED <<distWorld, distRows, distReceiver, distTroubled>>

\* buildExportArtifact reads the document without a lock.
BuildExport(w) ==
  /\ distWorkers[w].at = "build"
  /\ \/ Works(w, [distWorkers[w] EXCEPT !.at = "finish", !.version = distWorld.version]) /\ UNCHANGED <<distRun, distTroubled>>
     \/ DistTrouble /\ \E result \in {"failed", "retry"} : FailExport(w, result)
  /\ UNCHANGED <<distWorld, distRows, distReceiver>>

\* Mutant: the second look at the sources is left out.
ArchivableUnchecked == distRun.status = "running"

\* The sources are locked, the request is validated again.
Archivable == ValidRun /\ distRun.status = "running"

FinishExport(w) ==
  /\ distWorkers[w].at = "finish"
  /\ IF Archivable
     THEN /\ distRun' = [distRun EXCEPT !.status = "ready", !.blob = distWorkers[w].version,
                           !.job = JobSettled(@, w, "done", DistAttempts)]
          /\ Works(w, DistIdle)
     ELSE FailExport(w, "failed")
  /\ UNCHANGED <<distWorld, distRows, distReceiver, distTroubled>>

----------------
(* A distribution, until it is signed.                                        *)

\* What the sources and the settings would put into a manifest now.
CurrentManifest ==
  [version |-> distRun.blob, protection |-> distWorld.protection, evidence |-> IF distWorld.needs THEN distWorld.clock ELSE 0]

\* distributionSourcesTx: the export stands, and the document is published, in
\* the version of the archive, by an approval under the policy of now.
SourcesStand ==
  /\ distRun.status = "ready" /\ "exports" \notin distWorld.closed /\ distRun.exports = distWorld.exports
  /\ distWorld.published /\ distWorld.version = distRun.blob /\ distWorld.allowed
  /\ distWorld.needs => distWorld.approved
  /\ distWorld.session /\ ~distRun.due

\* Mutant: a key is good for ever.
KeyOfRow(row) == TRUE

KeyStands(row) == row.key = distWorld.key /\ ~distWorld.revoked

\* distributionSigningTx.
SigningStands(row) ==
  "policy" \notin distWorld.closed /\ row.policy = distWorld.policy /\ ~row.due /\ KeyStands(row)

CreateDist(d, confirmed) ==
  LET row == [NoDist EXCEPT !.status = "queued", !.confirmed = confirmed, !.policy = distWorld.policy,
                            !.key = distWorld.key, !.job = NewJob]
  IN
  /\ distRows[d] = NoDist /\ distRun.status = "ready" /\ ValidRun /\ SigningStands(row)
  /\ Cardinality({o \in Dists : distRows[o].status \in {"queued", "awaiting_review"}}) < MaxWaiting
  /\ distRows' = [distRows EXCEPT ![d] = row]
  /\ UNCHANGED <<distWorld, distRun, distReceiver, distWorkers, distTroubled>>

\* max_attempts is 1.
EndDist(w, d, row, result) ==
  /\ distRows' = [distRows EXCEPT ![d] = [row EXCEPT !.job = JobSettled(@, w, result, 1)]]
  /\ Works(w, DistIdle)

\* The deferred end of an attempt that failed.
FailDist(w, d) ==
  EndDist(w, d, [distRows[d] EXCEPT !.status = IF @ = "queued" THEN "failed" ELSE @], "failed")

ClaimDist(w, d) ==
  LET row == [distRows[d] EXCEPT !.job = ClaimedBy(@, w)] IN
  /\ distWorkers[w].at = "idle" /\ MayClaim(distRows[d].job)
  /\ IF row.status # "queued"
     THEN /\ distRows' = [distRows EXCEPT ![d] = [row EXCEPT !.job = JobSettled(@, w, IF row.status = "ready" THEN "done" ELSE "failed", 1)]]
          /\ UNCHANGED distWorkers
     ELSE /\ distRows' = [distRows EXCEPT ![d] = row]
          /\ Works(w, [DistIdle EXCEPT !.at = "manifest", !.row = d])
  /\ UNCHANGED <<distWorld, distRun, distReceiver, distTroubled>>

\* Mutant: the archive is taken for what was confirmed.
AnyConfirmed(row) == TRUE

AsConfirmed(row) == row.confirmed = distRun.blob

\* The manifest is made of the archive and of the evidence found now.
MakeManifest(w) ==
  LET d == distWorkers[w].row  row == distRows[d] IN
  /\ distWorkers[w].at = "manifest"
  /\ \/ /\ IF distRun.status = "ready" /\ ValidRun /\ SigningStands(row) /\ AsConfirmed(row) /\ SourcesStand
           THEN Works(w, [distWorkers[w] EXCEPT !.at = "review", !.manifest = CurrentManifest]) /\ UNCHANGED distRows
           ELSE FailDist(w, d)
        /\ UNCHANGED distTroubled
     \/ DistTrouble /\ FailDist(w, d)
  /\ UNCHANGED <<distWorld, distRun, distReceiver>>

\* Mutant: an approval is an approval, whatever it was given to.
ApprovedAnyhow(row, manifest) == manifest.evidence = 0 \/ row.review.status = "approved"

\* distributionBundleApprovedTx: the whole of it was approved, under the policy
\* of now; what needs no approval has none.
BundleApproved(row, manifest) ==
  IF manifest.evidence = 0 THEN row.review = NoReview
  ELSE row.review = [status |-> "approved", manifest |-> manifest, clock |-> distWorld.clock] /\ ~row.due

\* prepareDistributionReview: the first time the manifest is put before the
\* reviewers; otherwise it must have passed them.
PrepareReview(w) ==
  LET d == distWorkers[w].row  row == distRows[d]  manifest == distWorkers[w].manifest IN
  /\ distWorkers[w].at = "review"
  /\ IF ~SourcesStand \/ CurrentManifest # manifest \/ ~SigningStands(row) \/ row.status # "queued" THEN FailDist(w, d)
     ELSE IF manifest.evidence # 0 /\ row.review = NoReview /\ row.manifest = NoManifest
     THEN EndDist(w, d, [row EXCEPT !.status = "awaiting_review", !.manifest = manifest], "done")
     ELSE IF BundleApproved(row, manifest)
     THEN Works(w, [distWorkers[w] EXCEPT !.at = "sign"]) /\ UNCHANGED distRows
     ELSE FailDist(w, d)
  /\ UNCHANGED <<distWorld, distRun, distReceiver, distTroubled>>

\* Mutant: the last transaction trusts the ones before.
SignableUnchecked(row, manifest) == row.status = "queued"

\* Everything is read once more, locked, in the transaction of the artifact.
Signable(row, manifest) ==
  /\ SourcesStand /\ CurrentManifest = manifest /\ SigningStands(row) /\ BundleApproved(row, manifest)
  /\ row.status = "queued"

SignDist(w) ==
  LET d == distWorkers[w].row  row == distRows[d]  manifest == distWorkers[w].manifest IN
  /\ distWorkers[w].at = "sign"
  /\ \/ /\ UNCHANGED distTroubled
        /\ IF Signable(row, manifest)
           THEN EndDist(w, d, [row EXCEPT !.status = "ready", !.manifest = manifest, !.artifact = manifest], "done")
           ELSE FailDist(w, d)
     \/ DistTrouble /\ FailDist(w, d)
  /\ UNCHANGED <<distWorld, distRun, distReceiver>>

\* A lease runs out; the goroutine died, or goes on.
LoseDistWork(w) ==
  LET d == distWorkers[w].row IN
  /\ distWorkers[w].at # "idle" /\ DistTrouble
  /\ IF d = 0
     THEN /\ distRun.job.status = "running" /\ distRun.job.holder = w
          /\ distRun' = [distRun EXCEPT !.job = JobLapsed(@, DistAttempts)] /\ UNCHANGED distRows
     ELSE /\ distRows[d].job.status = "running" /\ distRows[d].job.holder = w
          /\ distRows' = [distRows EXCEPT ![d].job = JobLapsed(@, 1)] /\ UNCHANGED distRun
  /\ UNCHANGED distWorkers \/ Works(w, DistIdle)
  /\ UNCHANGED <<distWorld, distReceiver>>

----------------
(* The review of a distribution.                                              *)

\* distributionReviewTx.
Reviewable(row) ==
  /\ row.status \in {"awaiting_review", "queued", "ready"} /\ row.manifest.evidence # 0
  /\ SourcesStand /\ CurrentManifest = row.manifest /\ SigningStands(row)

\* submitDistributionReview, unless a review of the same is under way or done.
SubmitReview(d) ==
  LET row == distRows[d]
      same == row.review.manifest = row.manifest /\ row.review.clock = distWorld.clock
  IN
  /\ Reviewable(row) /\ row.status = "awaiting_review"
  /\ ~(row.review.status \in {"pending", "approved"} /\ same)
  /\ distRows' = [distRows EXCEPT ![d].review = [status |-> "pending", manifest |-> row.manifest, clock |-> distWorld.clock]]
  /\ UNCHANGED <<distWorld, distRun, distReceiver, distWorkers, distTroubled>>

\* The approval engine, with the adapter's Lock and Complete.
DecideReview(d, decision) ==
  LET review == distRows[d].review IN
  /\ Reviewable(distRows[d]) /\ review.status = "pending" /\ review.clock = distWorld.clock
  /\ review.manifest = distRows[d].manifest
  /\ distRows' = [distRows EXCEPT ![d].review.status = decision]
  /\ UNCHANGED <<distWorld, distRun, distReceiver, distWorkers, distTroubled>>

\* signReviewedDistribution queues the second job.
SignReviewed(d) ==
  LET row == distRows[d] IN
  /\ Reviewable(row) /\ row.status = "awaiting_review" /\ BundleApproved(row, row.manifest)
  /\ distRows' = [distRows EXCEPT ![d].status = "queued", ![d].job = NewJob]
  /\ UNCHANGED <<distWorld, distRun, distReceiver, distWorkers, distTroubled>>

\* revokeDistributionExport, from any status.
RevokeDist(d) ==
  /\ distRows[d].status \notin {"none", "revoked"} /\ distWorld.session /\ DistChange
  /\ distRows' = [distRows EXCEPT ![d].status = "revoked", ![d].artifact = NoManifest]
  /\ UNCHANGED <<distWorld, distRun, distReceiver, distWorkers>>

\* expireExports, then expireDistributions, each in its transaction.
Swept(run) ==
  LET late == IF run.due /\ run.status \in {"queued", "running"} THEN [run EXCEPT !.status = "cancelled"]
              ELSE IF run.due /\ run.status = "ready" THEN [run EXCEPT !.status = "expired"] ELSE run
      told == IF late.status \in {"cancelled", "expired"} THEN [late EXCEPT !.job = JobCancelled(@), !.blob = 0]
              ELSE late
  IN IF told.status \in {"queued", "running"} /\ told.job.status \in {"failed", "cancelled"}
     THEN [told EXCEPT !.status = told.job.status] ELSE told

SweptDist(row) ==
  LET gone == row.status \in {"queued", "awaiting_review", "ready"} /\ (~SigningStands(row) \/ distRun.status # "ready" \/ distRun.due)
      ended == IF gone THEN "expired"
               ELSE IF row.status = "queued" /\ row.job.status \in {"failed", "cancelled"} THEN "failed" ELSE row.status
  IN [row EXCEPT !.status = ended, !.artifact = IF ended \in {"expired", "revoked", "failed"} THEN NoManifest ELSE @]

ExpireExports ==
  /\ distRun # Swept(distRun) /\ distRun' = Swept(distRun)
  /\ UNCHANGED <<distWorld, distRows, distReceiver, distWorkers, distTroubled>>

ExpireDists ==
  /\ \E d \in Dists : distRows[d] # SweptDist(distRows[d])
  /\ distRows' = [d \in Dists |-> SweptDist(distRows[d])]
  /\ UNCHANGED <<distWorld, distRun, distReceiver, distWorkers, distTroubled>>

----------------
(* What changes meanwhile.                                                    *)

ChangeWorld ==
  /\ DistChange
  /\ \/ \E published, approved \in BOOLEAN :      \* the document is saved, or published again
          distWorld' = [distWorld EXCEPT !.version = @ + 1, !.published = published, !.approved = published /\ approved]
     \/ distWorld' = [distWorld EXCEPT !.clock = @ + 1, !.approved = FALSE]   \* the approval policy
     \/ distWorld' = [distWorld EXCEPT !.needs = ~@]
     \/ distWorld' = [distWorld EXCEPT !.protection = @ + 1]
     \/ distWorld' = [distWorld EXCEPT !.allowed = ~@]
     \/ distWorld' = [distWorld EXCEPT !.session = FALSE]
  /\ UNCHANGED <<distRun, distRows, distReceiver, distWorkers>>

\* putExportSettings and putDistributionSettings, at the revision that was read.
PutSettings(which, closed) ==
  /\ DistChange
  /\ distWorld' = [distWorld EXCEPT ![which] = @ + 1, !.closed = IF closed THEN @ \cup {which} ELSE @ \ {which}]
  /\ UNCHANGED <<distRun, distRows, distReceiver, distWorkers>>

RevokeKey ==
  /\ ~distWorld.revoked /\ DistChange
  /\ distWorld' = [distWorld EXCEPT !.revoked = TRUE]
  /\ UNCHANGED <<distRun, distRows, distReceiver, distWorkers>>

CreateKey ==
  /\ distWorld.revoked /\ DistChange
  /\ distWorld' = [distWorld EXCEPT !.revoked = FALSE, !.key = @ + 1]
  /\ UNCHANGED <<distRun, distRows, distReceiver, distWorkers>>

TimePasses ==
  /\ DistChange
  /\ \/ distRun.status # "none" /\ ~distRun.due /\ distRun' = [distRun EXCEPT !.due = TRUE] /\ UNCHANGED <<distRows, distReceiver>>
     \/ \E d \in Dists : /\ distRows[d].status # "none" /\ ~distRows[d].due
                         /\ distRows' = [distRows EXCEPT ![d].due = TRUE]
                         /\ distReceiver' = [distReceiver EXCEPT !.due = TRUE] /\ UNCHANGED distRun
  /\ UNCHANGED <<distWorld, distWorkers>>

----------------
(* The other installation.                                                    *)

\* distributionDownloadCheck.
Downloadable(row) ==
  /\ row.status = "ready" /\ ValidRun /\ SourcesStand /\ CurrentManifest = row.manifest
  /\ SigningStands(row) /\ BundleApproved(row, row.manifest)

\* downloadDistributionExport; from here on no revocation reaches the copy.
CarryBundle(d) ==
  /\ Downloadable(distRows[d]) /\ distReceiver.copy # distRows[d].artifact
  /\ distReceiver' = [distReceiver EXCEPT !.copy = distRows[d].artifact]
  /\ UNCHANGED <<distWorld, distRun, distRows, distWorkers, distTroubled>>

\* trustedDistributionTx; the manifest is valid until the deadline it names.
Trusted == distReceiver.trusts /\ ~distReceiver.due

\* bindSignedMigration, of what was carried over.  The session is empty, or it
\* is bound to the same already.
BindImport ==
  /\ distReceiver.copy # NoManifest /\ Trusted /\ distReceiver.status = "uploading"
  /\ distReceiver.bound = NoManifest /\ distReceiver.items = 0
  /\ distReceiver' = [distReceiver EXCEPT !.bound = distReceiver.copy]
  /\ UNCHANGED <<distWorld, distRun, distRows, distWorkers, distTroubled>>

\* The files of the session, those of the bundle or others.
UploadFiles(version) ==
  /\ distReceiver.status = "uploading" /\ distReceiver.items # version
  /\ distReceiver' = [distReceiver EXCEPT !.items = version]
  /\ UNCHANGED <<distWorld, distRun, distRows, distWorkers, distTroubled>>

\* Mutant: the files are not compared with the manifest.
ItemsUnchecked == TRUE

ItemsAsSigned == distReceiver.items = distReceiver.bound.version

\* validateSignedMigrationTx and finishSignedMigrationTx, in the transaction
\* that publishes the session; a session without a binding is an ordinary one.
CommitImport ==
  /\ distReceiver.status = "uploading" /\ distReceiver.items # 0
  /\ distReceiver.bound # NoManifest => Trusted /\ ItemsAsSigned
  /\ distReceiver' = [distReceiver EXCEPT !.status = "committed"]
  /\ UNCHANGED <<distWorld, distRun, distRows, distWorkers, distTroubled>>

\* revokeDistributionKey and revalidateDistributionTrust.
ChangeTrust ==
  /\ DistChange
  /\ distReceiver' = [distReceiver EXCEPT !.trusts = ~@]
  /\ UNCHANGED <<distWorld, distRun, distRows, distWorkers>>

DistNext ==
  \/ CreateExport \/ CancelExport \/ ExpireExports \/ ExpireDists \/ TimePasses
  \/ \E w \in DistWorkers :
       \/ ClaimExport(w) \/ StartExport(w) \/ BuildExport(w) \/ FinishExport(w)
       \/ MakeManifest(w) \/ PrepareReview(w) \/ SignDist(w) \/ LoseDistWork(w)
  \/ \E d \in Dists :
       \/ \E confirmed \in 1 .. distWorld.version : CreateDist(d, confirmed)
       \/ \E w \in DistWorkers : ClaimDist(w, d)
       \/ SubmitReview(d) \/ SignReviewed(d) \/ RevokeDist(d) \/ CarryBundle(d)
       \/ \E decision \in {"approved", "rejected"} : DecideReview(d, decision)
  \/ ChangeWorld \/ RevokeKey \/ CreateKey \/ ChangeTrust \/ BindImport \/ CommitImport
  \/ \E which \in {"exports", "policy"}, closed \in BOOLEAN : PutSettings(which, closed)
  \/ \E version \in 1 .. 2 : UploadFiles(version)

DistSpec == DistInit /\ [][DistNext]_distVars

----------------
(* Properties.                                                                *)

\* What can be taken away is the version that was confirmed, and where a
\* review was needed it is, in every part, what was approved; an archive is of
\* the version it was asked for; and what another installation imports as
\* signed is, file for file, something that was signed here.
TakenAsApproved ==
  /\ distRun.status = "ready" => distRun.blob = distRun.version
  /\ \A d \in Dists : LET row == distRows[d] IN
       /\ row.artifact # NoManifest <=> row.status = "ready"
       /\ row.status = "ready" =>
            /\ row.artifact = row.manifest /\ row.artifact.version = row.confirmed
            /\ IF row.artifact.evidence = 0 THEN row.review = NoReview
               ELSE row.review.status = "approved" /\ row.review.manifest = row.artifact
                    /\ row.review.clock = row.artifact.evidence
  /\ LET bound == distReceiver.bound IN
       bound # NoManifest =>
         /\ distReceiver.status = "committed" => distReceiver.items = bound.version
         /\ \E d \in Dists : distRows[d].manifest = bound /\ distRows[d].confirmed = bound.version

\* A signature appears while the document is published as it is, its approval,
\* the policy, the key and the session are those of the request; what was
\* revoked, cancelled or has failed never comes back, and what has expired can
\* only be revoked; an import is decided while its key is trusted.
EndedForGood ==
  /\ \A d \in Dists : LET row == distRows[d]  next == distRows'[d] IN
       /\ row.artifact = NoManifest /\ next.artifact # NoManifest =>
            /\ distWorld.version = row.confirmed /\ distWorld.published /\ distWorld.session
            /\ distWorld.needs => distWorld.approved /\ next.artifact.evidence = distWorld.clock
            /\ row.policy = distWorld.policy /\ row.key = distWorld.key /\ ~distWorld.revoked
       /\ row.status \in {"failed", "expired", "revoked"} => next.status \in {row.status, "revoked"}
  /\ distRun.status \in {"cancelled", "expired", "failed"} => distRun'.status \in {distRun.status, "cancelled"}
  /\ distReceiver.bound # NoManifest /\ distReceiver'.status # distReceiver.status => Trusted

\* What leaves the network is what people confirmed and approved.
DistributionIsApproved == TakenAsApproved' /\ EndedForGood
=============================================================================
