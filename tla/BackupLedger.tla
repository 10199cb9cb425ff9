----------------------------- MODULE BackupLedger -----------------------------
(* The backups that are kept (internal/server/backup_jobs.go, restore.go): a job  *)
(* puts the archive into the store, records it and removes the ones beyond the    *)
(* retention, each file before its row.  Jobs overlap, are retried and stop       *)
(* between two steps, the answer to an insertion may be lost, an operator may put *)
(* another file in the place of a backup, and a restore brings an old ledger back. *)
EXTENDS Integers, FiniteSets, SequencesExt

CONSTANTS
  BackupJobs,       \* backup.snapshot jobs
  BackupWorkers,    \* their attempts, which overlap when a lease was lost
  BackupIds,        \* archives, numbered in the order they are made
  BackupRetention,  \* retention_count
  BackupAttempts,   \* bound: attempts at the jobs
  BackupReplaced,   \* bound: files that an operator replaces
  BackupRestores    \* bound: restores

VARIABLES
  backupLedger,    \* backup_artifacts, oldest first
  backupZips,      \* the files in the store
  backupHolds,     \* the ledger that an archive holds
  backupTurns,     \* what each attempt is doing
  backupLost,      \* history: recorded, but never answered
  backupReturned,  \* history: brought back by a restore
  backupBounds     \* bounds

backupsVars == <<backupLedger, backupZips, backupHolds, backupTurns, backupLost, backupReturned, backupBounds>>

Resting == [at |-> "idle"]
Recorded(j)  == \E i \in DOMAIN backupLedger : backupLedger[i].job = j
InLedger(b)  == \E i \in DOMAIN backupLedger : backupLedger[i].id = b
Nothing == [made |-> FALSE, ledger |-> <<>>]

BackupTypeOK ==
  /\ \A i \in DOMAIN backupLedger : backupLedger[i].id \in BackupIds /\ backupLedger[i].job \in BackupJobs
  /\ \A b \in BackupIds : backupZips[b] \in {"none", "ours", "foreign"}
  /\ \A w \in BackupWorkers : backupTurns[w].at \in {"idle", "asked", "put", "recorded", "cleaning"}

BackupInit ==
  /\ backupLedger = <<>> /\ backupZips = [b \in BackupIds |-> "none"]
  /\ backupHolds = [b \in BackupIds |-> Nothing]
  /\ backupTurns = [w \in BackupWorkers |-> Resting] /\ backupLost = {}
  /\ backupBounds = [attempts |-> 0, replaced |-> 0, restores |-> 0]
  /\ backupReturned = {}

Turn(w, record) == backupTurns' = [backupTurns EXCEPT ![w] = record]

----------------
\* executeScheduledBackup: a job that is recorded is done.
ToDo(j) == ~Recorded(j)

\* The attempt begins, and the snapshot is taken.
StartJob(w, j) ==
  /\ backupTurns[w] = Resting /\ ToDo(j)
  /\ backupBounds.attempts < BackupAttempts /\ backupBounds' = [backupBounds EXCEPT !.attempts = @ + 1]
  /\ Turn(w, [at |-> "asked", job |-> j, ledger |-> backupLedger])
  /\ UNCHANGED <<backupLedger, backupZips, backupHolds, backupLost, backupReturned>>

\* The archive is put into the store under a name of its own.
PutZip(w, b) ==
  LET turn == backupTurns[w] IN
  /\ turn.at = "asked"
  /\ backupHolds[b] = Nothing /\ \A c \in BackupIds : c < b => backupHolds[c].made
  /\ backupHolds' = [backupHolds EXCEPT ![b] = [made |-> TRUE, ledger |-> turn.ledger]]
  /\ backupZips' = [backupZips EXCEPT ![b] = "ours"]
  /\ Turn(w, [at |-> "put", job |-> turn.job, zip |-> b])
  /\ UNCHANGED <<backupLedger, backupLost, backupReturned, backupBounds>>

\* Mutant: two attempts at a job record what they have made.
RecordsBoth(j) == TRUE
\* The job's id is unique in the ledger.
MayRecord(j) == ~Recorded(j)

\* The row of the backup; whenever it is not answered that it is there, the file
\* is removed.
RecordZip(w, done, answered) ==
  LET turn == backupTurns[w] IN
  /\ turn.at = "put" /\ (done => MayRecord(turn.job))
  /\ backupLedger' = IF done THEN Append(backupLedger, [id |-> turn.zip, job |-> turn.job, managed |-> TRUE])
                     ELSE backupLedger
  /\ IF done /\ answered
     THEN UNCHANGED backupZips /\ Turn(w, [at |-> "recorded"])
     ELSE backupZips' = [backupZips EXCEPT ![turn.zip] = "none"] /\ Turn(w, Resting)
  /\ backupLost' = IF done /\ ~answered THEN backupLost \cup {turn.zip} ELSE backupLost
  /\ UNCHANGED <<backupHolds, backupReturned, backupBounds>>

\* Mutants of Beyond: one too many; the old ones of before a restore too.
OneTooMany(ledger) ==
  LET ours == SelectSeq(ledger, LAMBDA a : a.managed)
  IN {ours[i].id : i \in {n \in DOMAIN ours : n <= Len(ours) - BackupRetention + 1}}
AllBeyond(ledger) == {ledger[i].id : i \in {n \in DOMAIN ledger : n <= Len(ledger) - BackupRetention}}
\* cleanupBackupArtifacts lists what it manages beyond the newest ones.
Beyond(ledger) ==
  LET ours == SelectSeq(ledger, LAMBDA a : a.managed)
  IN {ours[i].id : i \in {n \in DOMAIN ours : n <= Len(ours) - BackupRetention}}

ListOld(w) ==
  /\ backupTurns[w].at = "recorded"
  /\ Turn(w, [at |-> "cleaning", old |-> Beyond(backupLedger), removed |-> {}, since |-> backupBounds.restores])
  /\ UNCHANGED <<backupLedger, backupZips, backupHolds, backupLost, backupReturned, backupBounds>>

\* Mutant: the bytes are not compared.
RemovesAny(b) == backupZips[b] # "none"
\* "Foreign/replaced files are retained."
Ours(b) == backupZips[b] = "ours"

\* The file goes, then its row; a file that is not ours stays, with its row.
CleanFile(w, b) ==
  LET turn == backupTurns[w] IN
  /\ turn.at = "cleaning" /\ b \in turn.old /\ turn.removed = {}
  /\ Turn(w, [turn EXCEPT !.old = @ \ {b}, !.removed = IF Ours(b) THEN {b} ELSE {}])
  /\ backupZips' = IF Ours(b) THEN [backupZips EXCEPT ![b] = "none"] ELSE backupZips
  /\ UNCHANGED <<backupLedger, backupHolds, backupLost, backupReturned, backupBounds>>

CleanRow(w, b) ==
  LET turn == backupTurns[w] IN
  /\ turn.at = "cleaning" /\ b \in turn.removed
  /\ Turn(w, [turn EXCEPT !.removed = {}])
  /\ backupLedger' = SelectSeq(backupLedger, LAMBDA a : a.id # b)
  /\ UNCHANGED <<backupZips, backupHolds, backupLost, backupReturned, backupBounds>>

\* The attempt ends, fails or the server stops; another may follow.
EndJob(w) ==
  /\ backupTurns[w] # Resting /\ Turn(w, Resting)
  /\ UNCHANGED <<backupLedger, backupZips, backupHolds, backupLost, backupReturned, backupBounds>>

\* An operator puts another file in the place of a backup.
ReplaceZip(b) ==
  /\ backupZips[b] = "ours" /\ InLedger(b)
  /\ backupBounds.replaced < BackupReplaced /\ backupBounds' = [backupBounds EXCEPT !.replaced = @ + 1]
  /\ backupZips' = [backupZips EXCEPT ![b] = "foreign"]
  /\ UNCHANGED <<backupLedger, backupHolds, backupTurns, backupLost, backupReturned>>

\* Mutant: what is restored is cleaned up like what was made here.
StaysManaged(row) == row
\* restoreBackup: "excluded from the retention".
Foreign(row) == [row EXCEPT !.managed = FALSE]

\* An archive that an administrator has at hand is restored, with its ledger.
Restore(b) ==
  /\ backupHolds[b].made
  /\ backupBounds.restores < BackupRestores /\ backupBounds' = [backupBounds EXCEPT !.restores = @ + 1]
  /\ backupLedger' = [i \in DOMAIN backupHolds[b].ledger |-> Foreign(backupHolds[b].ledger[i])]
  /\ backupReturned' = backupReturned \cup {backupHolds[b].ledger[i].id : i \in DOMAIN backupHolds[b].ledger}
  /\ UNCHANGED <<backupZips, backupHolds, backupTurns, backupLost>>

BackupNext ==
  \/ \E w \in BackupWorkers : \/ ListOld(w) \/ EndJob(w)
                              \/ \E j \in BackupJobs : StartJob(w, j)
                              \/ \E done, answered \in BOOLEAN : RecordZip(w, done, answered)
                              \/ \E b \in BackupIds : PutZip(w, b) \/ CleanFile(w, b) \/ CleanRow(w, b)
  \/ \E b \in BackupIds : ReplaceZip(b) \/ Restore(b)

BackupSpec == BackupInit /\ [][BackupNext]_backupsVars

----------------
\* A backup that retention removes is one of its own and not one of the newest:
\* what lies in the place of a backup stays, and so does what a restore brought
\* back, a pass that began before the restore apart (cleanupBackupArtifacts).
RetentionSparesTheNewest ==
  \A b \in BackupIds :
    /\ backupZips[b] = "foreign" => backupZips'[b] = "foreign"
    /\ backupZips[b] # "none" /\ backupZips'[b] = "none" /\ b \notin backupLost' =>
         \A i \in DOMAIN backupLedger : backupLedger[i].id = b =>
            \/ /\ b \notin backupReturned
               /\ Cardinality({n \in DOMAIN backupLedger : n > i /\ backupLedger[n].managed}) >= BackupRetention
            \/ \E w \in BackupWorkers : backupTurns[w].at = "cleaning" /\ backupTurns[w].since < backupBounds.restores

\* A job leaves one backup, however often it is tried (executeScheduledBackup).
OneBackupEach ==
  \A i, k \in DOMAIN backupLedger : backupLedger[i].job = backupLedger[k].job => i = k

\* A backup that is listed can be downloaded, unless its row was never answered,
\* or retention stopped between the file and the row or works from an old list.
ListedIsThere ==
  \A b \in BackupIds :
    backupZips[b] # "none" /\ InLedger(b) /\ b \notin backupLost' =>
      backupZips'[b] # "none" \/ \E w \in BackupWorkers : backupTurns'[w].at = "cleaning" /\ b \in backupTurns'[w].removed

LedgerIsKept == RetentionSparesTheNewest /\ OneBackupEach' /\ ListedIsThere
LedgerHolds == [][LedgerIsKept]_backupsVars
=============================================================================
