------------------------------ MODULE MCDocuments -----------------------------
(* The documents of a workspace under review, the tree they stand in, their     *)
(* attachments, the text of these, the backups that are kept, a database and    *)
(* the rows that are proposed for one. A behaviour is of one of these, its      *)
(* scene; the rows of the others are not used, so that the states of the scenes *)
(* add up instead of multiplying.                                               *)
EXTENDS MCApproval, DocumentTree, AttachmentStore, BackupLedger,
        AttachmentExtraction, DatabaseRows, StructuredDrafts

VARIABLE scene

\* Texts are alike, and so are places and the people and workers of the parts.
Alike == Permutations(Bodies) \cup Permutations(Rests) \cup Permutations(Uploaders)

documentVars == <<scene, vars, treeVars, storeVars, backupsVars, exVars, tabVars,
  draftVars>>

\* The variables of a part that is not on the scene; the document of the reviews
\* is then a draft that nobody touches.
Off == <<>>
NoReview ==
  /\ Init /\ may = [g \in Gates |-> {}]
  /\ doc.body = (CHOOSE b \in Bodies : TRUE) /\ doc.rest = (CHOOSE r \in Rests : TRUE)
NoTree ==
  /\ treeDocs = Off /\ treeBarred = Off /\ treeReqs = Off /\ treeTicket = Off
  /\ treeReceipts = Off /\ treeAsked = Off
NoStore ==
  /\ storeDocs = Off /\ storeRows = Off /\ storeReceipts = Off /\ storeObjects = Off
  /\ storeProviders = Off /\ storeUploads = Off /\ storeSweep = Off /\ storeBackup = Off
  /\ storeArchive = Off /\ storeRestore = Off /\ storeLost = Off /\ storeBounds = Off
NoBackups ==
  /\ backupLedger = Off /\ backupZips = Off /\ backupHolds = Off /\ backupTurns = Off
  /\ backupLost = Off /\ backupReturned = Off /\ backupBounds = Off
NoExtraction ==
  /\ exSource = Off /\ exRuns = Off /\ exJobs = Off /\ exHead = Off
  /\ exTexts = Off /\ exWorkers = Off /\ exReader = Off /\ exBounds = Off
NoTables ==
  /\ tabSchema = Off /\ tabMay = Off /\ tabRows = Off /\ tabTurns = Off
  /\ tabBounds = Off
NoDrafts ==
  /\ draftWorld = Off /\ tickets = Off /\ drafts = Off /\ reviews = Off
  /\ draftRows = Off /\ draftHands = Off /\ discarded = Off /\ draftChanged = Off

DocumentsInit ==
  /\ scene \in {"review", "tree", "files", "backups", "extraction", "tables",
               "drafts"}
  /\ IF scene = "review" THEN Init ELSE NoReview
  /\ IF scene = "tree" THEN TreeInit ELSE NoTree
  /\ IF scene = "files" THEN StoreInit ELSE NoStore
  /\ IF scene = "backups" THEN BackupInit ELSE NoBackups
  /\ IF scene = "extraction" THEN ExtractionInit ELSE NoExtraction
  /\ IF scene = "tables" THEN TableInit ELSE NoTables
  /\ IF scene = "drafts" THEN DraftInit ELSE NoDrafts

DocumentsNext ==
  /\ UNCHANGED scene
  /\ \/ scene = "review" /\ Next
        /\ UNCHANGED <<treeVars, storeVars, backupsVars, exVars, tabVars, draftVars>>
     \/ scene = "tree" /\ TreeNext
        /\ UNCHANGED <<vars, storeVars, backupsVars, exVars, tabVars, draftVars>>
     \/ scene = "files" /\ StoreNext
        /\ UNCHANGED <<vars, treeVars, backupsVars, exVars, tabVars, draftVars>>
     \/ scene = "backups" /\ BackupNext
        /\ UNCHANGED <<vars, treeVars, storeVars, exVars, tabVars, draftVars>>
     \/ scene = "extraction" /\ ExtractionNext
        /\ UNCHANGED <<vars, treeVars, storeVars, backupsVars, tabVars, draftVars>>
     \/ scene = "tables" /\ TableNext
        /\ UNCHANGED <<vars, treeVars, storeVars, backupsVars, exVars, draftVars>>
     \/ scene = "drafts" /\ DraftNext
        /\ UNCHANGED <<vars, treeVars, storeVars, backupsVars, exVars, tabVars>>

DocumentsSpec == DocumentsInit /\ [][DocumentsNext]_documentVars

\* Every row keeps its shape, and what each module says of its part holds:
\* nobody loses a document or a text of it, an attachment and its text stay where they are looked for, the backups that count
\* are kept, a database holds what its properties say and was seen, and a proposal
\* becomes one row, as reviewed.
DocumentsHold ==
  [][/\ scene = "tree" => TreeTypeOK' /\ DocumentsAreKept
     /\ scene = "files" => StoreTypeOK' /\ StoreIsKept
     /\ scene = "backups" => BackupTypeOK' /\ LedgerIsKept
     /\ scene = "extraction" => ExtractionTypeOK' /\ ExtractionsAreKept
     /\ scene = "tables" => TableTypeOK' /\ TablesAreKept
     /\ scene = "drafts" => DraftTypeOK' /\ DraftsBecomeRows]_documentVars
===============================================================================
