---------------------------- MODULE StructuredDrafts ----------------------------
(* Rows of a database that a model proposes from a document (internal/server/     *)
(* knowledge_structured*.go). A proposal is a sealed ticket in the browser; its   *)
(* owner may keep it as a draft, review its values against the document, the      *)
(* properties and those who will read the row, and apply it: one row at most.     *)
(* Tickets and reviews expire; a discarded draft leaves a tombstone for a while.  *)
EXTENDS Naturals, Sequences, FiniteSets

CONSTANTS
  DraftHands,     \* requests of the owner
  Proposals,      \* identities of proposals
  ReviewLife,     \* 10 minutes,
  TicketLife,     \* 30 minutes,
  TombstoneLife,  \* an hour
  DraftLife,      \* and a day, in ticks
  DraftTime, DraftChanges, MaxReviews  \* bounds: ticks, changes around, reviews

ASSUME LivesAssumption == TicketLife <= TombstoneLife /\ TicketLife <= DraftLife

VARIABLES
  draftWorld,    \* the document, the database, its readers, the provider, the rights
  tickets,       \* what the browser has of each proposal
  drafts,        \* knowledge_structured_drafts
  reviews,       \* review tickets in the browser
  draftRows,     \* database_rows that were made of proposals
  draftHands,    \* what each request is doing
  discarded,     \* history: proposals that were discarded
  draftChanged   \* bound

draftVars == <<draftWorld, tickets, drafts, reviews, draftRows, draftHands, discarded, draftChanged>>

Proposed  == {"a", "b"}      \* values a person may settle on
NoTicket  == [until |-> 0]
NoDraft   == [state |-> "none", revision |-> 0, until |-> 0, row |-> 0, values |-> "none"]
FreeHand  == [at |-> "idle"]
\* What a ticket and a review are bound to, as it is now.
Terms == [version |-> draftWorld.version, schema |-> draftWorld.schema, readers |-> draftWorld.readers]

DraftTypeOK ==
  /\ draftWorld.clock \in 0 .. DraftTime
  /\ \A id \in Proposals :
       /\ drafts[id].state \in {"none", "draft", "committed", "discarded"}
       /\ drafts[id].row \in 0 .. Len(draftRows)
       /\ drafts[id].state # "none" => tickets[id] # NoTicket
  /\ \A h \in DraftHands : draftHands[h].at \in {"idle", "generates", "saves", "applies", "told"}

DraftInit ==
  /\ draftWorld = [clock |-> 0, version |-> 1, schema |-> 1, readers |-> 1, provider |-> 1,
                   allowed |-> TRUE, held |-> FALSE]
  /\ tickets = [id \in Proposals |-> NoTicket]
  /\ drafts = [id \in Proposals |-> NoDraft]
  /\ reviews = {} /\ draftRows = <<>> /\ discarded = {}
  /\ draftHands = [h \in DraftHands |-> FreeHand] /\ draftChanged = 0

HandDoes(h, turn) == draftHands' = [draftHands EXCEPT ![h] = turn]
\* A transaction that writes fences the document, the spaces and the shares; that
\* of a row has the draft FOR UPDATE.
Fenced       == \E h \in DraftHands : draftHands[h].at \in {"saves", "applies"}
DraftFree(id) == \A h \in DraftHands : draftHands[h].at = "applies" => draftHands[h].review.id # id

Current(until) == draftWorld.clock < until
\* structuredDraftLockTx: the draft is there, and for the writers as the document is.
Usable(id) == drafts[id].state = "committed" \/ (drafts[id].state = "draft" /\ Current(drafts[id].until))

----------------
\* generateStructuredDraft: the ticket's time runs from the request, not the answer.
Generate(h, id) ==
  /\ draftHands[h].at = "idle" /\ tickets[id] = NoTicket /\ draftWorld.allowed
  /\ \A other \in DraftHands : draftHands[other].at = "generates" => draftHands[other].id # id
  /\ HandDoes(h, [at |-> "generates", id |-> id, ticket |-> [until |-> draftWorld.clock + TicketLife,
               terms |-> Terms, provider |-> draftWorld.provider]])
  /\ UNCHANGED <<draftWorld, tickets, drafts, reviews, draftRows, discarded, draftChanged>>

\* The guard of the stream: what was sent is still so when it ends.
SealTicket(h) ==
  LET turn == draftHands[h] IN
  /\ turn.at = "generates" /\ draftWorld.allowed
  /\ turn.ticket.terms = Terms /\ turn.ticket.provider = draftWorld.provider
  /\ tickets' = [tickets EXCEPT ![turn.id] = turn.ticket]
  /\ HandDoes(h, FreeHand)
  /\ UNCHANGED <<draftWorld, drafts, reviews, draftRows, discarded, draftChanged>>

\* saveStructuredDraft, until its INSERT.
BeginSave(h, id) ==
  /\ draftHands[h].at = "idle" /\ tickets[id] # NoTicket /\ Current(tickets[id].until)
  /\ draftWorld.allowed /\ tickets[id].terms = Terms /\ tickets[id].provider = draftWorld.provider
  /\ drafts[id].state # "discarded"
  /\ HandDoes(h, [at |-> "saves", id |-> id])
  /\ UNCHANGED <<draftWorld, tickets, drafts, reviews, draftRows, discarded, draftChanged>>

\* ON CONFLICT DO NOTHING; the ticket must not have expired meanwhile.
CommitSave(h) ==
  LET id == draftHands[h].id IN
  /\ draftHands[h].at = "saves" /\ draftWorld.allowed /\ Current(tickets[id].until)
  /\ drafts' = IF drafts[id].state # "none" THEN drafts
               ELSE [drafts EXCEPT ![id] = [NoDraft EXCEPT !.state = "draft", !.revision = 1,
                                                            !.until = draftWorld.clock + DraftLife]]
  /\ HandDoes(h, FreeHand)
  /\ UNCHANGED <<draftWorld, tickets, reviews, draftRows, discarded, draftChanged>>

\* previewStructuredRow.
Preview(id, values) ==
  /\ Usable(id) /\ drafts[id].state = "draft" /\ DraftFree(id)
  /\ draftWorld.allowed /\ tickets[id].terms = Terms /\ Cardinality(reviews) < MaxReviews
  /\ reviews' = reviews \cup {[id |-> id, revision |-> drafts[id].revision, terms |-> Terms,
                               values |-> values, until |-> draftWorld.clock + ReviewLife]}
  /\ UNCHANGED <<draftWorld, tickets, drafts, draftRows, draftHands, discarded, draftChanged>>

\* applyStructuredRow with prepareStructuredRowTx, or the answer to one that was
\* applied: the row as it was made, if nobody has changed it.
BeginApply(h, review) ==
  LET id == review.id IN
  /\ draftHands[h].at = "idle" /\ Current(review.until) /\ draftWorld.allowed
  /\ Usable(id) /\ DraftFree(id) /\ tickets[id].terms = Terms
  /\ \/ /\ drafts[id].state = "draft" /\ drafts[id].revision = review.revision /\ review.terms = Terms
        /\ HandDoes(h, [at |-> "applies", review |-> review])
     \/ /\ drafts[id].state = "committed" /\ drafts[id].row # 0
        /\ draftRows[drafts[id].row].version = 1 /\ drafts[id].values = review.values
        /\ HandDoes(h, [at |-> "told", review |-> review, row |-> drafts[id].row])
  /\ UNCHANGED <<draftWorld, tickets, drafts, reviews, draftRows, discarded, draftChanged>>

\* Mutant: what was found when the transaction began is enough.
ReviewedThen(review) == TRUE

\* finishStructuredRowTx.
ReviewedStill(review) ==
  /\ Current(review.until) /\ draftWorld.allowed /\ review.terms = Terms
  /\ drafts[review.id].state = "draft" /\ drafts[review.id].revision = review.revision
  /\ Current(drafts[review.id].until)

\* The row and the end of the draft are one commit of createRow.
CommitApply(h) ==
  LET review == draftHands[h].review IN
  /\ draftHands[h].at = "applies" /\ ReviewedStill(review)
  /\ draftRows' = Append(draftRows, [of |-> review.id, values |-> review.values, version |-> 1])
  /\ drafts' = [drafts EXCEPT ![review.id] = [@ EXCEPT !.state = "committed", !.revision = @ + 1,
                                                       !.row = Len(draftRows) + 1, !.values = review.values]]
  /\ HandDoes(h, FreeHand)
  /\ UNCHANGED <<draftWorld, tickets, reviews, discarded, draftChanged>>

\* A request fails, is answered, or is given up.
LeaveDraft(h) ==
  /\ draftHands[h].at # "idle" /\ HandDoes(h, FreeHand)
  /\ UNCHANGED <<draftWorld, tickets, drafts, reviews, draftRows, discarded, draftChanged>>

\* Mutant: the tombstone is gone before the ticket.
ShortTombstone == ReviewLife

Tombstone == TombstoneLife

\* deleteStructuredDraft, at the revision that was seen; the row stays.
DiscardDraft(id) ==
  /\ Usable(id) /\ DraftFree(id) /\ draftWorld.allowed /\ ~draftWorld.held
  /\ drafts' = [drafts EXCEPT ![id] = [NoDraft EXCEPT !.state = "discarded", !.revision = drafts[id].revision + 1,
                                                       !.until = draftWorld.clock + Tombstone]]
  /\ discarded' = discarded \cup {id}
  /\ UNCHANGED <<draftWorld, tickets, reviews, draftRows, draftHands, draftChanged>>

----------------
(* What happens around.                                                       *)

\* runMaintenance; a document on hold keeps what was made of it.
PurgeDraft(id) ==
  /\ drafts[id].state \in {"draft", "discarded"} /\ ~Current(drafts[id].until)
  /\ ~draftWorld.held /\ DraftFree(id)
  /\ drafts' = [drafts EXCEPT ![id] = NoDraft]
  /\ UNCHANGED <<draftWorld, tickets, reviews, draftRows, draftHands, discarded, draftChanged>>

Tick ==
  /\ draftWorld.clock < DraftTime /\ draftWorld' = [draftWorld EXCEPT !.clock = @ + 1]
  /\ UNCHANGED <<tickets, drafts, reviews, draftRows, draftHands, discarded, draftChanged>>

\* A save of the document and a change of the properties wait for the fence; the
\* members of the workspace, the provider and the rights do not.
ChangeAround ==
  /\ draftChanged < DraftChanges /\ draftChanged' = draftChanged + 1
  /\ \/ ~Fenced /\ draftWorld' \in {[draftWorld EXCEPT !.version = @ + 1], [draftWorld EXCEPT !.schema = 3 - @]}
     \/ draftWorld' \in {[draftWorld EXCEPT !.readers = 3 - @], [draftWorld EXCEPT !.provider = 3 - @],
                         [draftWorld EXCEPT !.allowed = ~@], [draftWorld EXCEPT !.held = ~@]}
  /\ UNCHANGED <<tickets, drafts, reviews, draftRows, draftHands, discarded>>

\* updateRow, or deleteRow with its ON DELETE SET NULL.
ChangeMadeRow(n, gone) ==
  /\ draftChanged < DraftChanges /\ draftChanged' = draftChanged + 1
  /\ draftRows[n].version # 0
  /\ draftRows' = [draftRows EXCEPT ![n].version = IF gone THEN 0 ELSE @ + 1]
  /\ drafts' = IF gone THEN [id \in Proposals |-> IF drafts[id].row = n THEN [drafts[id] EXCEPT !.row = 0] ELSE drafts[id]]
               ELSE drafts
  /\ UNCHANGED <<draftWorld, tickets, reviews, draftHands, discarded>>

DraftNext ==
  \/ \E id \in Proposals : DiscardDraft(id) \/ PurgeDraft(id) \/ \E values \in Proposed : Preview(id, values)
  \/ \E h \in DraftHands :
       \/ SealTicket(h) \/ CommitSave(h) \/ CommitApply(h) \/ LeaveDraft(h)
       \/ \E id \in Proposals : Generate(h, id) \/ BeginSave(h, id)
       \/ \E review \in reviews : BeginApply(h, review)
  \/ \E n \in DOMAIN draftRows, gone \in BOOLEAN : ChangeMadeRow(n, gone)
  \/ Tick \/ ChangeAround

DraftSpec == DraftInit /\ [][DraftNext]_draftVars

----------------
(* Properties.                                                                *)

\* However often a proposal is kept, reviewed, applied, discarded and kept again,
\* it becomes one row at most; a draft that says it became a row did, with these
\* values ("Replay never creates another row", knowledge_structured_apply.go).
OneRowEach ==
  \A id \in Proposals : LET made == {n \in DOMAIN draftRows : draftRows[n].of = id} IN
    /\ Cardinality(made) <= 1
    /\ drafts[id].state = "committed" => \E n \in made : draftRows[n].values = drafts[id].values
    /\ drafts[id].state = "draft" => made = {}

\* A row is made from a review that still holds, of the document, the properties
\* and the readers of that moment, and never of a proposal that was discarded
\* ("deleting provenance cannot revive the same proposal").
MadeAsReviewed ==
  \A n \in DOMAIN draftRows' \ DOMAIN draftRows : LET row == draftRows'[n] IN
    /\ row.of \notin discarded /\ draftWorld.allowed
    /\ \E review \in reviews : /\ review.id = row.of /\ review.values = row.values
                               /\ review.terms = Terms /\ Current(review.until)

DraftsBecomeRows == OneRowEach' /\ MadeAsReviewed
=============================================================================
