---------------------------- MODULE DocumentTree ----------------------------
(* The documents of a workspace as a tree (internal/server/documents.go,       *)
(* document_split*.go, capture.go, spaces.go): saving, moving, classifying,     *)
(* splitting, trashing and restoring.  A save reads the document before its     *)
(* transaction and writes every column in it; what may go wrong between the two *)
(* is caught by the version, by the lock of the tree and by checks made again.  *)
EXTENDS Integers, FiniteSets, SequencesExt

CONSTANTS
  TreeClients,      \* requests under way
  TreeDocs,         \* documents, the ones that are made later included
  TreeRoots,        \* the ones that exist at the start
  MaxTreeDepth,     \* 20 in the code
  TreeRequests      \* bound: requests

VARIABLES
  treeDocs,      \* documents with their document_versions
  treeBarred,    \* documents the user may not write: visibility, shares, space and membership
  treeReqs,      \* what each request has read
  treeTicket,    \* the split that a browser has confirmed
  treeReceipts,  \* document_split_receipts and capture_receipts
  treeAsked      \* bound

treeVars == <<treeDocs, treeBarred, treeReqs, treeTicket, treeReceipts, treeAsked>>

NoDoc    == [version |-> 0, parent |-> 0, deleted |-> FALSE, held |-> FALSE, inbox |-> FALSE, texts |-> <<>>]
AtEase     == [at |-> "idle"]
NoSplit  == [source |-> 0, version |-> 0, child |-> 0, expired |-> FALSE]

\* A text is the set of its paragraphs; a number is a reference to a document.
Block == -1
Note  == -2
Text(d) == Last(treeDocs[d].texts)

Made == {d \in TreeDocs : treeDocs[d].version > 0}

\* The documents from d up to its root; a circle fills the whole sequence.
Climb(d) ==
  LET up[n \in 0 .. Cardinality(TreeDocs)] ==
        IF n = 0 THEN d ELSE IF up[n - 1] = 0 THEN 0 ELSE treeDocs[up[n - 1]].parent
  IN [n \in 1 .. Cardinality(TreeDocs) + 1 |-> up[n - 1]]
Above(d)  == ToSet(Climb(d)) \ {0}
Depth(d)  == Cardinality({n \in DOMAIN Climb(d) : Climb(d)[n] # 0})
Circles(d) == Depth(d) > Cardinality(TreeDocs)
Height(d) == Max({1} \cup {Depth(e) - Depth(d) + 1 : e \in {x \in Made : d \in Above(x)}})

\* madi_document_allowed: a circle or a path that is too long hides a document
\* from everybody.
Allowed(d) == ~Circles(d) /\ Depth(d) <= MaxTreeDepth /\ Above(d) \cap treeBarred = {}

\* treePlacementTx, under the lock of the tree of the workspace.
Placeable(d, parent) ==
  /\ parent # 0 => parent \in Made /\ Allowed(parent) /\ ~Circles(parent) /\ d \notin Above(parent)
  /\ (IF parent = 0 THEN 0 ELSE Depth(parent)) + (IF d \in Made THEN Height(d) ELSE 1) <= MaxTreeDepth

\* validParent, before the transaction.
ValidParent(d, parent) ==
  parent # 0 => parent \in Made /\ Allowed(parent) /\ ~treeDocs[parent].deleted /\ d \notin Above(parent)

TreeTypeOK ==
  /\ \A d \in TreeDocs : LET doc == treeDocs[d] IN
       /\ doc.parent \in TreeDocs \cup {0}
       /\ Len(doc.texts) = doc.version
  /\ treeBarred \subseteq TreeDocs
  /\ \A c \in TreeClients : treeReqs[c].at \in {"idle", "save", "create", "split"}

TreeInit ==
  /\ treeDocs = [d \in TreeDocs |->
       IF d \in TreeRoots THEN [NoDoc EXCEPT !.version = 1, !.texts = <<{Block}>>] ELSE NoDoc]
  /\ treeBarred = {} /\ treeReqs = [c \in TreeClients |-> AtEase]
  /\ treeTicket = NoSplit /\ treeReceipts = [split |-> {}, capture |-> {}] /\ treeAsked = 0

MayAsk == treeAsked < TreeRequests
Asks(c, record) ==
  /\ treeReqs[c] = AtEase
  /\ treeReqs' = [treeReqs EXCEPT ![c] = record] /\ treeAsked' = treeAsked + 1
Answers(c) == treeReqs' = [treeReqs EXCEPT ![c] = AtEase]

\* A mutant: the version is counted and not kept.
NextUnkept(doc, text) == [doc EXCEPT !.version = @ + 1]
\* A new version and its row in document_versions.
NextVersion(doc, text) == [doc EXCEPT !.version = @ + 1, !.texts = Append(@, text)]

----------------
(* Saving.                                                                      *)

\* saveDocument up to its transaction, updateTask and restoreVersion, which save
\* the text that they have read: the version the user has seen, the document as
\* it is, and what is to become of it.
ReadToSave(c, d, expected, parent, text) ==
  LET doc == treeDocs[d] IN
  /\ d \in Made /\ Allowed(d) /\ ~doc.deleted /\ expected \in 1 .. doc.version
  /\ ValidParent(d, parent)
  /\ Asks(c, [at |-> "save", doc |-> d, expected |-> expected, old |-> doc, parent |-> parent, text |-> text])
  /\ UNCHANGED <<treeDocs, treeBarred, treeTicket, treeReceipts>>

\* Mutants of Savable: the place is not checked again; the version is not.
MovesOnTrust(r) ==
  /\ Allowed(r.doc) /\ ~treeDocs[r.doc].deleted /\ treeDocs[r.doc].version = r.expected
  /\ r.parent # 0 => ~treeDocs[r.parent].deleted /\ Allowed(r.parent)
SavesAnyVersion(r) ==
  /\ r.parent # r.old.parent => Placeable(r.doc, r.parent)
  /\ Allowed(r.doc) /\ ~treeDocs[r.doc].deleted
  /\ r.parent # 0 => ~treeDocs[r.parent].deleted /\ Allowed(r.parent)

\* The transaction: a new place is checked under the tree's lock, then the row is
\* locked and must be the version that was seen, and the target is checked again.
Savable(r) ==
  /\ r.parent # r.old.parent => Placeable(r.doc, r.parent)
  /\ Allowed(r.doc) /\ ~treeDocs[r.doc].deleted /\ treeDocs[r.doc].version = r.expected
  /\ r.parent # 0 => ~treeDocs[r.parent].deleted /\ Allowed(r.parent)

\* UPDATE documents writes the columns that were read, the changed ones apart.
Saved(r) == [NextVersion(treeDocs[r.doc], r.text) EXCEPT !.parent = r.parent]

Save(c) ==
  LET r == treeReqs[c] IN
  /\ r.at = "save" /\ Answers(c)
  /\ treeDocs' = IF Savable(r) THEN [treeDocs EXCEPT ![r.doc] = Saved(r)] ELSE treeDocs
  /\ UNCHANGED <<treeBarred, treeTicket, treeReceipts, treeAsked>>

\* What an owner asks for: another text, an older one, or another place.
StartSave(c) ==
  \E d \in Made : \E expected \in 1 .. treeDocs[d].version :
    \/ \E text \in {Text(d) \cup {Note}} \cup ToSet(treeDocs[d].texts) :
         ReadToSave(c, d, expected, treeDocs[d].parent, text)
    \/ \E parent \in (Made \cup {0}) \ {treeDocs[d].parent} : ReadToSave(c, d, expected, parent, Text(d))

----------------
(* Making documents.                                                            *)

\* createDocument up to its transaction; a capture brings a request of its own.
ReadToCreate(c, parent, capture) ==
  /\ ValidParent(0, parent) /\ (capture => parent = 0)
  /\ Asks(c, [at |-> "create", parent |-> parent, capture |-> capture])
  /\ UNCHANGED <<treeDocs, treeBarred, treeTicket, treeReceipts>>

\* A capture that was made is answered with the document it made.
Create(c, d) ==
  LET r == treeReqs[c]
      again == r.capture /\ treeReceipts.capture # {}
  IN
  /\ r.at = "create" /\ d \notin Made /\ d # treeTicket.child /\ Answers(c)
  /\ IF again \/ ~Placeable(d, r.parent)
     THEN UNCHANGED <<treeDocs, treeReceipts>>
     ELSE /\ treeDocs' = [treeDocs EXCEPT ![d] =
               [NoDoc EXCEPT !.version = 1, !.parent = r.parent, !.inbox = r.capture, !.texts = <<{Note}>>]]
          /\ treeReceipts' = IF r.capture THEN [treeReceipts EXCEPT !.capture = @ \cup {d}] ELSE treeReceipts
  /\ UNCHANGED <<treeBarred, treeTicket, treeAsked>>

\* classifyCapture: one transaction, in the same order of locks.
Classify(d, parent, expected) ==
  LET doc == treeDocs[d] IN
  /\ d \in Made /\ doc.inbox /\ ~doc.deleted /\ Allowed(d) /\ doc.version = expected
  /\ Placeable(d, parent)
  /\ treeDocs' = [treeDocs EXCEPT ![d] = [NextVersion(doc, Text(d)) EXCEPT !.parent = parent, !.inbox = FALSE]]
  /\ UNCHANGED <<treeBarred, treeReqs, treeTicket, treeReceipts, treeAsked>>

\* importVaultInput makes a tree of its own, whose depth it has checked, in one
\* transaction that nobody sees before it ends.
Import(a, b) ==
  /\ a \notin Made /\ b \notin Made /\ a # b /\ {a, b} \cap {treeTicket.child} = {} /\ MaxTreeDepth >= 2
  /\ treeAsked' = treeAsked + 1
  /\ treeDocs' = [treeDocs EXCEPT ![a] = [NoDoc EXCEPT !.version = 1, !.texts = <<{}>>],
                                  ![b] = [NoDoc EXCEPT !.version = 1, !.texts = <<{Note}>>, !.parent = a]]
  /\ UNCHANGED <<treeBarred, treeReqs, treeTicket, treeReceipts>>

----------------
(* Splitting.                                                                   *)

\* previewDocumentSplit seals the version, the hash and the name of the child.
PreviewSplit(d, child) ==
  /\ treeTicket = NoSplit /\ d \in Made /\ Allowed(d) /\ ~treeDocs[d].deleted
  /\ Block \in Text(d) /\ child \notin Made
  /\ treeTicket' = [NoSplit EXCEPT !.source = d, !.version = treeDocs[d].version, !.child = child]
  /\ UNCHANGED <<treeDocs, treeBarred, treeReqs, treeReceipts, treeAsked>>

\* Ten minutes.
TicketExpires ==
  /\ treeTicket # NoSplit /\ ~treeTicket.expired
  /\ treeTicket' = [treeTicket EXCEPT !.expired = TRUE]
  /\ UNCHANGED <<treeDocs, treeBarred, treeReqs, treeReceipts, treeAsked>>

\* splitDocument up to the transaction of its save.  A request that was carried
\* out is answered from its receipt; a click may be sent twice under one id, and
\* the ticket under two.
ReadToSplit(c, request) ==
  LET d == treeTicket.source IN
  /\ treeTicket # NoSplit /\ ~treeTicket.expired
  /\ \A receipt \in treeReceipts.split : receipt.request # request
  /\ Allowed(d) /\ ~treeDocs[d].deleted /\ treeDocs[d].version = treeTicket.version
  /\ ValidParent(d, treeDocs[d].parent)
  /\ Asks(c, [at |-> "split", request |-> request, doc |-> d, expected |-> treeTicket.version,
              old |-> treeDocs[d], parent |-> treeDocs[d].parent,
              text |-> (Text(d) \ {Block}) \cup {treeTicket.child}])
  /\ UNCHANGED <<treeDocs, treeBarred, treeTicket, treeReceipts>>

\* Mutants of MaySplit: any version; anywhere.
SplitsAnyVersion(r) == SavesAnyVersion(r) /\ ~treeTicket.expired /\ Placeable(treeTicket.child, r.doc)
SplitsAnywhere(r) == Savable(r) /\ ~treeTicket.expired

\* saveDocument with the split: validateDocumentSplitTx and finishDocumentSplitTx.
MaySplit(r) == Savable(r) /\ ~treeTicket.expired /\ Placeable(treeTicket.child, r.doc)

Split(c) ==
  LET r     == treeReqs[c]
      child == treeTicket.child
  IN
  /\ r.at = "split" /\ Answers(c)
  /\ IF MaySplit(r)
     THEN /\ treeDocs' = [treeDocs EXCEPT ![r.doc] = Saved(r),
                            ![child] = [NoDoc EXCEPT !.version = 1, !.parent = r.doc, !.texts = <<{Block}>>]]
          /\ treeReceipts' = [treeReceipts EXCEPT !.split = @ \cup
               {[request |-> r.request, source |-> r.doc, child |-> child, version |-> r.expected + 1]}]
     ELSE UNCHANGED <<treeDocs, treeReceipts>>
  /\ UNCHANGED <<treeBarred, treeTicket, treeAsked>>

----------------
(* The trash, the policy of a document and its readers.                         *)

\* deleteDocument; an old client names no version.
Trash(d, expected) ==
  LET doc == treeDocs[d] IN
  /\ d \in Made /\ Allowed(d) /\ ~doc.deleted /\ expected \in {0, doc.version} /\ ~doc.held
  /\ treeAsked' = treeAsked + 1
  /\ treeDocs' = [treeDocs EXCEPT ![d] = [NextVersion(doc, Text(d)) EXCEPT !.deleted = TRUE]]
  /\ UNCHANGED <<treeBarred, treeReqs, treeTicket, treeReceipts>>

\* restoreDocument leaves the document where it was, even under one in the trash.
Untrash(d, expected) ==
  LET doc == treeDocs[d] IN
  /\ d \in Made /\ Allowed(d) /\ doc.deleted /\ expected \in {0, doc.version}
  /\ treeAsked' = treeAsked + 1
  /\ treeDocs' = [treeDocs EXCEPT ![d] = [NextVersion(doc, Text(d)) EXCEPT !.deleted = FALSE]]
  /\ UNCHANGED <<treeBarred, treeReqs, treeTicket, treeReceipts>>

\* updateKnowledgeDocument: a legal hold or a retention, at the version seen.
Hold(d, expected) ==
  LET doc == treeDocs[d] IN
  /\ d \in Made /\ Allowed(d) /\ ~doc.deleted /\ doc.version = expected
  /\ treeAsked' = treeAsked + 1
  /\ treeDocs' = [treeDocs EXCEPT ![d] = [NextVersion(doc, Text(d)) EXCEPT !.held = ~@]]
  /\ UNCHANGED <<treeBarred, treeReqs, treeTicket, treeReceipts>>

\* setDocumentShare, setSpaceMember, a visibility: no version of the document.
ChangeReaders(d) ==
  /\ d \in Made /\ treeAsked' = treeAsked + 1
  /\ treeBarred' = IF d \in treeBarred THEN treeBarred \ {d} ELSE treeBarred \cup {d}
  /\ UNCHANGED <<treeDocs, treeReqs, treeTicket, treeReceipts>>

Unmade(d) == d \notin Made /\ \A e \in TreeDocs : e < d => e \in Made \/ e = treeTicket.child

TreeNext ==
  \/ \E c \in TreeClients :
       \/ Save(c) \/ Split(c)
       \/ MayAsk /\ treeReqs[c] = AtEase /\ StartSave(c)
       \/ MayAsk /\ \E parent \in Made \cup {0}, capture \in BOOLEAN : ReadToCreate(c, parent, capture)
       \/ \E d \in TreeDocs : Unmade(d) /\ Create(c, d)
       \/ MayAsk /\ \E request \in 1 .. 2 : ReadToSplit(c, request)
  \/ \E d \in TreeDocs :
       \/ \E parent \in Made \cup {0}, expected \in 1 .. treeDocs[d].version : Classify(d, parent, expected)
       \/ \E child \in TreeDocs : Unmade(child) /\ PreviewSplit(d, child)
       \/ MayAsk /\ \E expected \in 0 .. treeDocs[d].version :
            Trash(d, expected) \/ Untrash(d, expected) \/ (expected > 0 /\ Hold(d, expected))
       \/ MayAsk /\ ChangeReaders(d)
  \/ MayAsk /\ \E a, b \in TreeDocs : Unmade(a) /\ Import(a, b)
  \/ TicketExpires

----------------
(* What a tree of documents promises.                                           *)

\* Moves that are checked while another one is under way never close a circle
\* and never grow a path past the limit: nobody could read such a document, its
\* owner included.
TreeIsSound == \A d \in Made : ~Circles(d) /\ Depth(d) <= MaxTreeDepth

\* A document under a legal hold is not in the trash.
HeldIsKept == \A d \in Made : ~(treeDocs[d].held /\ treeDocs[d].deleted)

\* However often a confirmation is sent, one document is made of the paragraph,
\* one version of the source refers to it, and the source has lost it there.
SplitIsOnce ==
  /\ Cardinality(treeReceipts.split) <= 1 /\ Cardinality(treeReceipts.capture) <= 1
  /\ \A receipt \in treeReceipts.split : LET texts == treeDocs[receipt.source].texts IN
       /\ texts[receipt.version] = (texts[receipt.version - 1] \ {Block}) \cup {receipt.child}
       /\ treeDocs[receipt.child].texts[1] = {Block}
  /\ treeTicket # NoSplit =>
       (treeTicket.child \in Made <=> \E receipt \in treeReceipts.split : receipt.child = treeTicket.child)

\* A save writes the place and the text that it has read back: the ones it was
\* not asked to change are as they were, whatever happened meanwhile.
SaveKeepsTheRest ==
  \A c \in TreeClients : LET r == treeReqs[c] IN
    (r.at = "save" /\ treeDocs' # treeDocs /\ treeReqs'[c] = AtEase) =>
      /\ r.parent = r.old.parent => treeDocs'[r.doc].parent = treeDocs[r.doc].parent
      /\ r.text = Last(r.old.texts) => Last(treeDocs'[r.doc].texts) = Text(r.doc)

\* Nobody moves a document out of their own reach.
MovesStayInReach ==
  \A d \in Made : treeDocs'[d].parent # treeDocs[d].parent => Allowed(d)'

DocumentsAreKept ==
  /\ SaveKeepsTheRest
  /\ treeDocs' # treeDocs => MovesStayInReach /\ TreeIsSound' /\ HeldIsKept' /\ SplitIsOnce'
=============================================================================
