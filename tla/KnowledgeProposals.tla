------------------------- MODULE KnowledgeProposals -------------------------
(* Proposed changes of documents (internal/server/knowledge_proposals.go) and   *)
(* the reports on two documents that disagree, from which they may be drawn     *)
(* (knowledge_conflicts*.go).  A proposal is compared with the text that it     *)
(* started from and merged through saveDocument, which reads before its         *)
(* transaction and locks both documents of the report in the order of their ids *)
(* before the one it writes.                                                    *)
EXTENDS Integers, Sequences, FiniteSets

CONSTANTS
  Mergers,       \* requests that merge
  ProposalIds,   \* rows of knowledge_proposals
  PropChanges,   \* bound: edits, rights, policies, reviews
  PropMerges     \* bound: merges that are begun

VARIABLES
  propDocs,      \* the two documents of the report
  propMasking,   \* whether the protection policy masks the secret text
  propReport,    \* knowledge_conflict_runs with its candidate
  proposals,     \* knowledge_proposals with their conflict_origins
  propTxs,       \* the transaction of each merge
  propBounds     \* bounds

propVars == <<propDocs, propMasking, propReport, proposals, propTxs, propBounds>>

\* Texts: the first one, an edit, what proposal p proposes, and the same masked.
Plain == 0
Edit  == -1
Masked == -2
Mask(p) == IF propMasking THEN Masked ELSE p

Pair       == 1 .. 2
NoReport   == [revision |-> 0]
NoProposal == [status |-> "none"]
NoMerge    == [at |-> "idle"]
NoOrigin   == [revision |-> 0]

PropTypeOK ==
  /\ \A d \in Pair : propDocs[d].version \in Nat \ {0} /\ propDocs[d].text \in ProposalIds \cup {Plain, Edit, Masked}
  /\ propMasking \in BOOLEAN /\ propReport.revision \in Nat
  /\ \A p \in ProposalIds : proposals[p].status \in {"none", "open", "merged", "decided"}
  /\ \A c \in Mergers : propTxs[c].at = "merge" => propTxs[c].held \subseteq Pair

PropInit ==
  /\ propDocs = [d \in Pair |-> [version |-> 1, text |-> Plain, open |-> TRUE]]
  /\ propMasking = FALSE /\ propReport = NoReport
  /\ proposals = [p \in ProposalIds |-> NoProposal] /\ propTxs = [c \in Mergers |-> NoMerge]
  /\ propBounds = [changes |-> 0, merges |-> 0]

PropChange == propBounds.changes < PropChanges /\ propBounds' = [propBounds EXCEPT !.changes = @ + 1]

\* Every other transaction waits for the rows that a merge has locked.
Free(docs) == \A c \in Mergers : propTxs[c].at = "merge" => propTxs[c].held \cap docs = {}

Linked == {p \in ProposalIds : proposals[p].status # "none" /\ proposals[p].origin # NoOrigin}
Rows(p) == {proposals[p].doc} \cup (IF p \in Linked THEN Pair ELSE {})
Readable(docs) == \A d \in docs : propDocs[d].open

----------------
(* Documents and policies.                                                      *)

\* saveDocument for an editor.
EditDocument(d) ==
  /\ Free({d}) /\ propDocs[d].open /\ PropChange
  /\ propDocs' = [propDocs EXCEPT ![d].version = @ + 1, ![d].text = Edit]
  /\ UNCHANGED <<propMasking, propReport, proposals, propTxs>>

\* A right is taken or given back.
RightsChange(d) ==
  /\ PropChange /\ propDocs' = [propDocs EXCEPT ![d].open = ~@]
  /\ UNCHANGED <<propMasking, propReport, proposals, propTxs>>

MaskingChanges ==
  /\ PropChange /\ propMasking' = ~propMasking
  /\ UNCHANGED <<propDocs, propReport, proposals, propTxs>>

----------------
(* Reports.                                                                     *)

\* createKnowledgeConflicts compares the versions that the user chose.
Compare ==
  /\ propReport = NoReport /\ Free(Pair) /\ Readable(Pair)
  /\ propReport' = [revision |-> 1, versions |-> [d \in Pair |-> propDocs[d].version]]
  /\ UNCHANGED <<propDocs, propMasking, proposals, propTxs, propBounds>>

\* conflictCandidateViewTx: the texts are still the ones that were compared.
ReportFresh == \A d \in Pair : propReport.versions[d] = propDocs[d].version

\* reviewKnowledgeConflict, by the revision that was seen.
Review(seen) ==
  /\ propReport # NoReport /\ Free(Pair) /\ Readable(Pair) /\ ReportFresh /\ propReport.revision = seen /\ PropChange
  /\ propReport' = [propReport EXCEPT !.revision = @ + 1]
  /\ UNCHANGED <<propDocs, propMasking, proposals, propTxs>>

\* A mutant: the reference from proposals is not declared RESTRICT.
DeletableAlways == propReport # NoReport
Deletable == propReport # NoReport /\ Linked = {}

DeleteReport ==
  /\ Deletable /\ propReport' = NoReport
  /\ UNCHANGED <<propDocs, propMasking, proposals, propTxs, propBounds>>

----------------
(* Proposals.                                                                   *)

\* createKnowledgeProposal, under a lock of its author; the documents are shared
\* from the comparison on.
Propose(p, d, linked) ==
  /\ proposals[p] = NoProposal /\ Free(IF linked THEN Pair ELSE {d})
  /\ Readable(IF linked THEN Pair ELSE {d}) /\ ~propMasking
  /\ linked => propReport # NoReport /\ ReportFresh
  /\ proposals' = [proposals EXCEPT ![p] =
       [status |-> "open", revision |-> 1, doc |-> d, base |-> propDocs[d].version,
        from |-> propDocs[d].text, origin |-> IF linked THEN propReport ELSE NoOrigin]]
  /\ UNCHANGED <<propDocs, propMasking, propReport, propTxs, propBounds>>

\* decideKnowledgeProposal, at the revision that is open: rejected or withdrawn.
DecideProposal(p) ==
  LET q == proposals[p] IN
  /\ q.status = "open" /\ Free(Rows(p)) /\ Readable(Rows(p))
  /\ proposals' = [proposals EXCEPT ![p].status = "decided", ![p].revision = @ + 1]
  /\ UNCHANGED <<propDocs, propMasking, propReport, propTxs, propBounds>>

\* proposalConflictOriginTx: the report and both texts are what they were.
OriginStands(p) == p \in Linked => proposals[p].origin = propReport /\ ReportFresh

\* readKnowledgeProposal in a transaction of its own, and saveDocument up to its
\* transaction; a merged proposal is answered from its row, a decided one refused.
BeginMerge(c, p) ==
  LET q == proposals[p] IN
  /\ propTxs[c] = NoMerge /\ q.status = "open" /\ ~propMasking
  /\ Free(Rows(p)) /\ Readable(Rows(p)) /\ OriginStands(p)
  /\ propBounds.merges < PropMerges /\ propBounds' = [propBounds EXCEPT !.merges = @ + 1]
  /\ propTxs' = [propTxs EXCEPT ![c] =
       [at |-> "merge", id |-> p, seen |-> q.revision, old |-> propDocs[q.doc], held |-> {}]]
  /\ UNCHANGED <<propDocs, propMasking, propReport, proposals>>

\* A mutant: the document that is written is locked first.
TargetFirst(p) == <<proposals[p].doc>> \o (IF p \in Linked THEN <<3 - proposals[p].doc>> ELSE <<>>)
\* prepareProposalConflictMergeTx, then the lock of saveDocument.
LockOrder(p) == IF p \in Linked THEN <<1, 2>> ELSE <<proposals[p].doc>>

Merging == {c \in Mergers : propTxs[c].at = "merge"}
\* The row that a merge asks for next.
Wants(c) ==
  LET order == LockOrder(propTxs[c].id)
      left  == {n \in DOMAIN order : order[n] \notin propTxs[c].held}
  IN IF left = {} THEN {} ELSE {order[CHOOSE n \in left : \A m \in left : n <= m]}

LockRow(c) ==
  /\ c \in Merging /\ Wants(c) # {} /\ Free(Wants(c))
  /\ propTxs' = [propTxs EXCEPT ![c].held = @ \cup Wants(c)]
  /\ UNCHANGED <<propDocs, propMasking, propReport, proposals, propBounds>>

\* Mutants of MayMerge: the origin is not looked at again; whoever comes last
\* merges once more; the text that the policy leaves is merged.
MergesOutdated(c) ==
  LET t == propTxs[c]  q == proposals[t.id] IN
  /\ q.status = "open" /\ q.revision = t.seen
  /\ propDocs[q.doc].version = q.base /\ t.old.text = q.from /\ ~propMasking
MergesAnew(c) ==
  LET t == propTxs[c]  q == proposals[t.id] IN
  /\ OriginStands(t.id) /\ propDocs[q.doc].version = q.base /\ t.old.text = q.from /\ ~propMasking
MergesMasked(c) ==
  LET t == propTxs[c]  q == proposals[t.id] IN
  /\ OriginStands(t.id) /\ q.status = "open" /\ q.revision = t.seen
  /\ propDocs[q.doc].version = q.base /\ t.old.text = q.from

\* saveDocument's version, validateProposalMergeTx with what was read before the
\* transaction, and finishProposalMergeTx with the text that was stored.
MayMerge(c) ==
  LET t == propTxs[c]  q == proposals[t.id] IN
  /\ OriginStands(t.id) /\ q.status = "open" /\ q.revision = t.seen
  /\ propDocs[q.doc].version = q.base /\ t.old.text = q.from /\ ~propMasking

EndMerge(c) ==
  LET p == propTxs[c].id  q == proposals[p]  d == q.doc IN
  /\ c \in Merging /\ Wants(c) = {}
  /\ IF MayMerge(c) /\ Readable(Rows(p))
     THEN /\ propDocs' = [propDocs EXCEPT ![d].version = @ + 1, ![d].text = Mask(p)]
          /\ proposals' = [proposals EXCEPT ![p].status = "merged", ![p].revision = @ + 1]
     ELSE UNCHANGED <<propDocs, proposals>>
  /\ propTxs' = [propTxs EXCEPT ![c] = NoMerge]
  /\ UNCHANGED <<propMasking, propReport, propBounds>>

\* The connection breaks, or the database ends a wait.
GiveUp(c) ==
  /\ c \in Merging /\ propTxs' = [propTxs EXCEPT ![c] = NoMerge]
  /\ UNCHANGED <<propDocs, propMasking, propReport, proposals, propBounds>>

NextId(p) == proposals[p] = NoProposal /\ \A q \in ProposalIds : q < p => proposals[q] # NoProposal

PropNext ==
  \/ \E d \in Pair : EditDocument(d) \/ RightsChange(d)
  \/ MaskingChanges \/ Compare \/ DeleteReport
  \/ \E seen \in 1 .. PropChanges : Review(seen)
  \/ \E p \in ProposalIds :
       \/ \E d \in Pair, linked \in BOOLEAN : NextId(p) /\ Propose(p, d, linked)
       \/ DecideProposal(p)
       \/ \E c \in Mergers : BeginMerge(c, p)
  \/ \E c \in Mergers : LockRow(c) \/ EndMerge(c) \/ GiveUp(c)

----------------
(* What proposals promise.                                                      *)

\* A proposal becomes part of its document exactly as it was compared: on the
\* version and the text it started from, word for word, while the report it was
\* drawn from and both texts of it are what they were and may be read.
MergedAsCompared ==
  \A p \in ProposalIds : (proposals[p] # proposals'[p] /\ proposals'[p].status = "merged") =>
    LET q == proposals[p] IN
    /\ q.status = "open" /\ propDocs[q.doc].version = q.base /\ propDocs[q.doc].text = q.from
    /\ propDocs'[q.doc].version = q.base + 1 /\ propDocs'[q.doc].text = p
    /\ q.origin # NoOrigin =>
         /\ propReport.revision = q.origin.revision
         /\ \A d \in Pair : propDocs[d].version = q.origin.versions[d] /\ propDocs[d].open

\* One answer is final, whatever else was under way: a proposal is merged or
\* decided, once, and the report it refers to stays.
AnsweredOnce ==
  \A p \in ProposalIds :
    /\ proposals[p].status \in {"merged", "decided"} => proposals'[p] = proposals[p]
    /\ p \in Linked => propReport' # NoReport

\* Two merges in opposite directions between the same documents never wait for
\* each other.
NoEmbrace ==
  \A b, c \in Merging : b # c =>
    ~(Wants(b) \cap propTxs[c].held # {} /\ Wants(c) \cap propTxs[b].held # {})

ProposalsAreExact == MergedAsCompared /\ AnsweredOnce /\ NoEmbrace'
=============================================================================
