---------------------------- MODULE AttachmentStore ----------------------------
(* The objects behind attachments (internal/server/storage*.go, data.go,          *)
(* maintenance.go, backup_jobs.go, restore.go): an object is written before the   *)
(* row that names it and removed after the row is gone.  Uploads, the removal of  *)
(* old trash, a backup and a restore run at once, any of them may stop between    *)
(* two steps, and the answer to a commit may be lost.                             *)
EXTENDS Integers, FiniteSets, SequencesExt

CONSTANTS
  Uploaders,      \* attempts at one upload, all with the same client_request_id
  StoreDocs,      \* documents, numbered from 1
  StoreFiles,     \* attachments, numbered from 1; the first is there at the start
  StoreChanges,   \* bound: changes of users and administrators
  StoreBackups,   \* bound: backups
  StoreRestores   \* bound: restores

VARIABLES
  storeDocs,       \* documents: live, trash, held (in the trash, kept by a legal hold) or gone
  storeRows,       \* attachments
  storeReceipts,   \* attachment_receipts of the request
  storeObjects,    \* what is in the stores
  storeProviders,  \* storage_providers, with the assigned one
  storeUploads,    \* uploads under way
  storeSweep,      \* objects that a maintenance run has still to remove
  storeBackup,     \* the backup under way
  storeArchive,    \* the last one that was made
  storeRestore,    \* the archive that is being restored
  storeLost,       \* history: attachments whose row was committed, and its object given up
  storeBounds      \* bounds

storeVars == <<storeDocs, storeRows, storeReceipts, storeObjects, storeProviders, storeUploads, storeSweep,
               storeBackup, storeArchive, storeRestore, storeLost, storeBounds>>

\* Two providers, each with its place; 0 is the local path of a restore.
Providers == {1, 2}
NoRow     == [doc |-> 0]
NoBackup  == [at |-> "idle"]
NoArchive == [docs |-> <<>>, files |-> {}]
Kept(rows) == {f \in StoreFiles : rows[f] # NoRow}

\* Where the object of a row is: the row names the provider, not the place.
PlaceOf(p)       == IF p = 0 THEN 0 ELSE storeProviders.place[p]
Object(f, row) == [place |-> PlaceOf(row.provider), dir |-> row.dir, file |-> f]

\* putStoredObject writes a new object and overwrites none; deleteStoredObject.
Put(o)     == o \notin storeObjects /\ storeObjects' = storeObjects \cup {o}
Without(o) == storeObjects \ {o}

\* The advisory lock 726234801 of migrations, maintenance, backups and restores.
Unlocked == storeBackup.at # "reading"

\* An upload holds its document FOR SHARE from its check to the end of its
\* transaction, which may come after the request was answered.
Uploading == {u \in Uploaders : storeUploads[u].at \in {"put", "late"} \/ storeUploads[u].late}
\* Before it a mutant: it does not.
HoldsNothing(d) == FALSE
Locked(d) == \E u \in Uploading : storeUploads[u].doc = d

NoUpload == [at |-> "idle", late |-> FALSE]

StoreTypeOK ==
  /\ \A d \in StoreDocs : storeDocs[d] \in {"live", "trash", "held", "gone"}
  /\ \A f \in Kept(storeRows) : storeRows[f].doc \in StoreDocs /\ storeDocs[storeRows[f].doc] # "gone"
  /\ \A o \in storeObjects : o.place \in {0} \cup Providers /\ o.file \in StoreFiles
  /\ storeArchive.files \subseteq StoreFiles

StoreInit ==
  /\ storeDocs \in [StoreDocs -> {"live", "trash"}]
  /\ storeRows = [f \in StoreFiles |-> IF f = 1 THEN [doc |-> 1, provider |-> 1, dir |-> 0] ELSE NoRow]
  /\ storeReceipts = 0
  /\ storeObjects = {[place |-> 1, dir |-> 0, file |-> 1]}
  /\ storeProviders = [assigned |-> 1, place |-> [p \in Providers |-> p], enabled |-> Providers]
  /\ storeUploads = [u \in Uploaders |-> NoUpload] /\ storeSweep = {}
  /\ storeBackup = NoBackup /\ storeArchive = NoArchive
  /\ storeRestore = NoArchive /\ storeLost = {}
  /\ storeBounds = [files |-> 1, changes |-> 0, backups |-> 0, restores |-> 0]

Change == /\ storeBounds.changes < StoreChanges /\ storeBounds' = [storeBounds EXCEPT !.changes = @ + 1]
backupVars == <<storeBackup, storeArchive, storeRestore>>
fileVars == <<storeDocs, storeRows, storeReceipts, storeObjects, storeProviders, storeUploads, storeSweep>>

----------------
(* Users and administrators.                                                    *)

\* deleteDocument, restoreDocument and a legal hold, which wait for an upload.
MoveDocument(d, from, to) ==
  /\ storeDocs[d] = from /\ ~Locked(d) /\ Change
  /\ storeDocs' = [storeDocs EXCEPT ![d] = to]
  /\ UNCHANGED <<storeRows, storeReceipts, storeObjects, storeProviders, storeUploads, storeSweep, backupVars, storeLost>>

\* A mutant: a provider may be pointed at another place.
MovesPlace(p, place) == TRUE
\* saveStorageProvider refuses another kind, endpoint, bucket, prefix or root.
MayConfigure(p, place) == place = storeProviders.place[p]

ConfigureProvider(p, place, on) ==
  /\ MayConfigure(p, place) /\ Change
  /\ storeProviders' = [storeProviders EXCEPT !.place[p] = place,
                                              !.enabled = IF on THEN @ \cup {p} ELSE @ \ {p}]
  /\ UNCHANGED <<storeDocs, storeRows, storeReceipts, storeObjects, storeUploads, storeSweep, backupVars, storeLost>>

\* setStorageAssignment.
AssignProvider(p) ==
  /\ p \in storeProviders.enabled /\ Change
  /\ storeProviders' = [storeProviders EXCEPT !.assigned = p]
  /\ UNCHANGED <<storeDocs, storeRows, storeReceipts, storeObjects, storeUploads, storeSweep, backupVars, storeLost>>

----------------
(* Uploading.                                                                   *)

\* A mutant: an attempt does not look for the receipt of another.
AsksAnew == TRUE
\* uploadAttachment under the advisory lock of the request: what another attempt
\* has stored is the answer.
Unanswered == storeReceipts = 0

\* The provider is resolved, the document checked and held, the object written.
Upload(u, d, f) ==
  /\ storeUploads[u] = NoUpload /\ Uploading = {}
  /\ Unanswered /\ storeDocs[d] = "live" /\ storeProviders.assigned \in storeProviders.enabled
  /\ f = storeBounds.files + 1 /\ storeBounds' = [storeBounds EXCEPT !.files = f]
  /\ LET row == [doc |-> d, provider |-> storeProviders.assigned, dir |-> 0] IN
     /\ storeUploads' = [storeUploads EXCEPT ![u] = [at |-> "put", late |-> FALSE, doc |-> d, file |-> f, row |-> row]]
     /\ Put(Object(f, row))
  /\ UNCHANGED <<storeDocs, storeRows, storeReceipts, storeProviders, storeSweep, backupVars, storeLost>>

Insert(r) ==
  /\ storeRows' = [storeRows EXCEPT ![r.file] = r.row]
  /\ storeReceipts' = r.file

\* The commit is done and answered.
CommitUpload(u) ==
  LET r == storeUploads[u] IN
  /\ r.at = "put" /\ Insert(r)
  /\ storeUploads' = [storeUploads EXCEPT ![u] = [at |-> "done", late |-> FALSE]]
  /\ UNCHANGED <<storeDocs, storeObjects, storeProviders, storeSweep, backupVars, storeLost, storeBounds>>

\* The commit is not answered: it is done, it is not, or it is still to come.
LoseCommit(u, done, late) ==
  LET r == storeUploads[u] IN
  /\ r.at = "put" /\ ~(done /\ late)
  /\ IF done THEN Insert(r) ELSE UNCHANGED <<storeRows, storeReceipts>>
  /\ storeUploads' = [storeUploads EXCEPT ![u] = [r EXCEPT !.at = "check", !.late = late]]
  /\ UNCHANGED <<storeDocs, storeObjects, storeProviders, storeSweep, backupVars, storeLost, storeBounds>>

\* Mutant: without an answer the object is removed.
CleansUnseen(r) == TRUE
\* "A lost commit acknowledgement does not prove rollback": the row is looked for.
MayClean(r) == storeRows[r.file] = NoRow

\* The object goes if there is no row; a commit that comes after that names an
\* object that is gone.
CheckUpload(u) ==
  LET r == storeUploads[u] IN
  /\ r.at = "check"
  /\ storeObjects' = IF MayClean(r) THEN Without(Object(r.file, r.row)) ELSE storeObjects
  /\ storeUploads' = [storeUploads EXCEPT ![u] = IF r.late THEN [r EXCEPT !.at = "late"] ELSE NoUpload]
  /\ UNCHANGED <<storeDocs, storeRows, storeReceipts, storeProviders, storeSweep, backupVars, storeLost, storeBounds>>

LateCommit(u) ==
  LET r == storeUploads[u] IN
  /\ r.late /\ Insert(r)
  /\ storeUploads' = [storeUploads EXCEPT ![u] =
       IF r.at = "late" THEN NoUpload ELSE [r EXCEPT !.late = FALSE]]
  /\ storeLost' = IF r.at = "late" THEN storeLost \cup {r.file} ELSE storeLost
  /\ UNCHANGED <<storeDocs, storeObjects, storeProviders, storeSweep, backupVars, storeBounds>>

\* The server stops, or the late transaction is given up after all.
AbandonUpload(u) ==
  /\ storeUploads[u].at \in {"put", "check", "late"}
  /\ storeUploads' = [storeUploads EXCEPT ![u] = NoUpload]
  /\ UNCHANGED <<storeDocs, storeRows, storeReceipts, storeObjects, storeProviders, storeSweep, backupVars, storeLost, storeBounds>>

----------------
(* Old trash.                                                                   *)

\* The documents of a maintenance run: old, not held, and not locked by anyone.
Purgeable(d) == storeDocs[d] = "trash" /\ ~Locked(d)

\* runMaintenance up to its commit; the rows go, the objects are remembered.
Purge(d) ==
  LET files == {f \in Kept(storeRows) : storeRows[f].doc = d} IN
  /\ Unlocked /\ Purgeable(d)
  /\ storeDocs' = [storeDocs EXCEPT ![d] = "gone"]
  /\ storeRows' = [f \in StoreFiles |-> IF f \in files THEN NoRow ELSE storeRows[f]]
  /\ storeReceipts' = IF storeReceipts \in files THEN -1 ELSE storeReceipts
  /\ storeSweep' = storeSweep \cup {Object(f, storeRows[f]) : f \in files}
  /\ UNCHANGED <<storeObjects, storeProviders, storeUploads, backupVars, storeLost, storeBounds>>

\* After the commit, object by object: one that a row names is left alone.
Referenced(o) == \E f \in Kept(storeRows) : Object(f, storeRows[f]) = o
SweepObject(o) ==
  /\ o \in storeSweep /\ storeSweep' = storeSweep \ {o}
  /\ storeObjects' = IF Referenced(o) THEN storeObjects ELSE Without(o)
  /\ UNCHANGED <<storeDocs, storeRows, storeReceipts, storeProviders, storeUploads, backupVars, storeLost, storeBounds>>

\* The server stops: the objects that are left stay in the store.
StopSweeping ==
  /\ storeSweep # {} /\ storeSweep' = {}
  /\ UNCHANGED <<storeDocs, storeRows, storeReceipts, storeObjects, storeProviders, storeUploads, backupVars, storeLost, storeBounds>>

----------------
(* Backups.                                                                     *)

\* createBackupFile: the snapshot of the transaction is taken by the statement
\* that waits for the lock.
StartBackup ==
  /\ storeBackup = NoBackup /\ storeBounds.backups < StoreBackups
  /\ storeBounds' = [storeBounds EXCEPT !.backups = @ + 1]
  /\ storeBackup' = [at |-> "waiting", docs |-> storeDocs, rows |-> storeRows, receipts |-> storeReceipts,
                     objects |-> {Object(f, storeRows[f]) : f \in Kept(storeRows)}]
  /\ UNCHANGED <<fileVars, storeArchive, storeRestore, storeLost>>

LockBackup ==
  /\ storeBackup.at = "waiting" /\ storeBackup' = [storeBackup EXCEPT !.at = "reading"]
  /\ UNCHANGED <<fileVars, storeArchive, storeRestore, storeLost, storeBounds>>

\* Mutant: what is missing is left out.
ReadsWhatThereIs(snapshot) == TRUE
\* An object that is missing fails the backup.
AllThere(snapshot) == snapshot.objects \subseteq storeObjects

ReadBackup ==
  /\ storeBackup.at = "reading" /\ AllThere(storeBackup)
  /\ storeArchive' = [docs |-> storeBackup.docs, rows |-> storeBackup.rows, receipts |-> storeBackup.receipts,
                      files |-> {o.file : o \in storeBackup.objects \cap storeObjects}]
  /\ storeBackup' = NoBackup
  /\ UNCHANGED <<fileVars, storeRestore, storeLost, storeBounds>>

\* An object is missing, the archive is too large, or the server stops.
FailBackup ==
  /\ storeBackup # NoBackup /\ storeBackup' = NoBackup
  /\ UNCHANGED <<fileVars, storeArchive, storeRestore, storeLost, storeBounds>>

----------------
(* Restoring.                                                                   *)

\* Mutant: the objects go where they were.
RestoresInPlace(row) == row
\* restoreBackup: every attachment gets an object of its own, in a directory of
\* its own of the local store, and no provider.
Restored(row) == [row EXCEPT !.provider = 0, !.dir = storeBounds.restores]

\* The files of the archive are staged; one that lacks a file is refused.
StageRestore ==
  LET objects == {[place |-> 0, dir |-> storeBounds.restores + 1, file |-> f] : f \in storeArchive.files} IN
  /\ storeRestore = NoArchive /\ storeArchive # NoArchive /\ storeArchive.files = Kept(storeArchive.rows)
  /\ storeBounds.restores < StoreRestores /\ storeBounds' = [storeBounds EXCEPT !.restores = @ + 1]
  /\ storeObjects' = storeObjects \cup objects
  /\ storeRestore' = [archive |-> storeArchive, done |-> FALSE]
  /\ UNCHANGED <<storeDocs, storeRows, storeReceipts, storeProviders, storeUploads, storeSweep,
                 storeBackup, storeArchive, storeLost>>

\* The transaction waits for the lock and, with TRUNCATE, for every transaction
\* under way; it puts the tables back and takes the providers out of service.
\* Its commit may be done and the answer be lost.
CommitRestore(answered) ==
  LET archive == storeRestore.archive IN
  /\ storeRestore # NoArchive /\ ~storeRestore.done /\ Unlocked /\ Uploading = {}
  /\ storeDocs' = archive.docs /\ storeReceipts' = archive.receipts
  /\ storeRows' = [f \in StoreFiles |->
       IF archive.rows[f] = NoRow THEN NoRow ELSE Restored(archive.rows[f])]
  /\ storeProviders' = [storeProviders EXCEPT !.enabled = {}]
  /\ storeRestore' = IF answered THEN NoArchive ELSE [storeRestore EXCEPT !.done = TRUE]
  /\ UNCHANGED <<storeObjects, storeUploads, storeSweep, storeBackup, storeArchive, storeLost, storeBounds>>

\* It fails, or had no answer, and what was staged is removed: committed is not
\* set before Commit has returned no error, and nobody looks for the rows. A
\* server that stops leaves the files.
FailRestore(stops) ==
  /\ storeRestore # NoArchive /\ storeRestore' = NoArchive
  /\ storeObjects' = IF stops THEN storeObjects
                     ELSE {o \in storeObjects : o.place # 0 \/ o.dir # storeBounds.restores}
  /\ storeLost' = IF storeRestore.done /\ ~stops
                  THEN storeLost \cup Kept(storeRestore.archive.rows) ELSE storeLost
  /\ UNCHANGED <<storeDocs, storeRows, storeReceipts, storeProviders, storeUploads, storeSweep,
                 storeBackup, storeArchive, storeBounds>>

StoreNext ==
  \/ \E d \in StoreDocs : \/ MoveDocument(d, "live", "trash") \/ MoveDocument(d, "trash", "live")
                          \/ MoveDocument(d, "trash", "held") \/ MoveDocument(d, "held", "trash")
                          \/ Purge(d)
  \/ \E p \in Providers : AssignProvider(p) \/ \E place \in Providers, on \in BOOLEAN : ConfigureProvider(p, place, on)
  \/ \E u \in Uploaders : \/ \E d \in StoreDocs, f \in StoreFiles : Upload(u, d, f)
                          \/ CommitUpload(u) \/ CheckUpload(u) \/ LateCommit(u) \/ AbandonUpload(u)
                          \/ \E done, late \in BOOLEAN : LoseCommit(u, done, late)
  \/ \E o \in storeSweep : SweepObject(o)
  \/ StopSweeping
  \/ StartBackup \/ LockBackup \/ ReadBackup \/ FailBackup
  \/ StageRestore \/ \E yes \in BOOLEAN : CommitRestore(yes) \/ FailRestore(yes)

StoreSpec == StoreInit /\ [][StoreNext]_storeVars

----------------
(* Properties.                                                                  *)

\* An attachment can be read: its object is where its row says, whatever was
\* restored, reconfigured or removed meanwhile (uploadAttachment, runMaintenance,
\* restoreBackup).  Two commits without an answer are the exceptions: that of an
\* upload, which takes effect after the check that found no row, and that of a
\* restore, whose staged files are removed although its rows are there
\* (restore.go:411-414 and the deferred cleanup, 213-222).
RowsHaveObjects == \A f \in Kept(storeRows) : Object(f, storeRows[f]) \in storeObjects \/ f \in storeLost

\* A document that is not in the trash, or is held, keeps its attachments; only a
\* restore takes them back (runMaintenance).
RowsAreKept ==
  \A f \in Kept(storeRows) :
    /\ storeDocs[storeRows[f].doc] \in {"live", "held"}
    /\ f \notin {g \in StoreFiles : storeRows'[g] # NoRow}
    => storeRestore # NoArchive /\ storeRestore' # storeRestore

\* A request that is sent again stores its file once: the attempts leave no
\* second row (attachment_receipts).
RequestStoresOnce == Cardinality(Kept(storeRows) \ {1}) <= 1

\* A backup holds every attachment of its tables (createBackupFile).
BackupsAreWhole == storeArchive # NoArchive => storeArchive.files = Kept(storeArchive.rows)

StoreIsKept == RowsHaveObjects' /\ RowsAreKept /\ RequestStoresOnce' /\ BackupsAreWhole'
StoreHolds == [][StoreIsKept]_storeVars
=============================================================================
