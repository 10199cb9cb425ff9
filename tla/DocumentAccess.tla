--------------------------- MODULE DocumentAccess ---------------------------
(* Who may read and write a document (internal/server/document_access_*.go,     *)
(* documents.go, spaces.sql): its visibility, its shares, the role of each      *)
(* member and the document above it, which all change by themselves; the        *)
(* requests of those who are shut out, and the preview that an owner confirms   *)
(* before the document is opened.                                               *)
EXTENDS Naturals

CONSTANTS
  Members,        \* members of the workspace besides the owner
  AccessChanges,  \* bound: changes of shares, roles, places and texts
  AccessRequests  \* bound: requests and previews

VARIABLES
  accDoc,       \* the document, its visibility and the document above it
  accShares,    \* document_shares
  accRoles,     \* workspace_members and users
  accRequests,  \* document_access_requests
  accTicket,    \* the preview that the owner has been shown
  accBounds     \* bounds

accVars == <<accDoc, accShares, accRoles, accRequests, accTicket, accBounds>>

Visibilities == {"private", "selected", "workspace"}
Rights       == {"read", "write"}
NoPreview    == [at |-> "none"]

\* madi_document_allowed for a member: the whole path counts, and the role is
\* the most that a share can give.
MayAccess(m, right, doc, shares, roles) ==
  /\ roles[m] = "editor" \/ (roles[m] = "viewer" /\ right = "read")
  /\ doc.above
  /\ \/ doc.visibility = "workspace"
     \/ doc.visibility = "selected" /\ (shares[m] = "write" \/ shares[m] = right)
Access == {k \in Members \X Rights : MayAccess(k[1], k[2], accDoc, accShares, accRoles)}

AccTypeOK ==
  /\ accDoc.visibility \in Visibilities /\ accDoc.version \in Nat \ {0}
  /\ accShares \in [Members -> Rights \cup {"none"}]
  /\ accRoles \in [Members -> {"editor", "viewer", "gone"}]
  /\ \A q \in accRequests : q.status \in {"pending", "granted", "rejected", "cancelled"}

AccInit ==
  /\ \E visibility \in {"private", "selected"} : accDoc = [version |-> 1, visibility |-> visibility, above |-> TRUE, trashed |-> FALSE]
  /\ accShares = [m \in Members |-> "none"] /\ accRoles = [m \in Members |-> "editor"]
  /\ accRequests = {} /\ accTicket = NoPreview /\ accBounds = [changes |-> 0, requests |-> 0]

AccChange  == accBounds.changes < AccessChanges /\ accBounds' = [accBounds EXCEPT !.changes = @ + 1]
AccRequest == accBounds.requests < AccessRequests /\ accBounds' = [accBounds EXCEPT !.requests = @ + 1]

----------------
(* What changes by itself.                                                      *)

\* setDocumentShare: whatever the visibility is, and without a new version.
SetShare(m, right) ==
  /\ accRoles[m] # "gone" /\ right # accShares[m] /\ ~accDoc.trashed /\ AccChange
  /\ accShares' = [accShares EXCEPT ![m] = right]
  /\ UNCHANGED <<accDoc, accRoles, accRequests, accTicket>>

ChangeRole(m, role) ==
  /\ role # accRoles[m] /\ AccChange
  /\ accRoles' = [accRoles EXCEPT ![m] = role]
  /\ UNCHANGED <<accDoc, accShares, accRequests, accTicket>>

\* The document above, or the space, is closed or opened; the document itself is
\* edited, trashed and restored.
DocumentAround ==
  /\ AccChange
  /\ \/ accDoc' = [accDoc EXCEPT !.above = ~@]
     \/ accDoc' = [accDoc EXCEPT !.version = @ + 1]
     \/ accDoc' = [accDoc EXCEPT !.version = @ + 1, !.trashed = ~@]
  /\ UNCHANGED <<accShares, accRoles, accRequests, accTicket>>

----------------
(* Requests.                                                                    *)

Waiting(m) == {q \in accRequests : q.by = m /\ q.status = "pending"}

\* createDocumentAccessRequest, under a lock of the requester: nobody learns
\* whether the document exists or is open to them, the row only names it when it
\* may be asked for.
RequestAccess(m, right) ==
  /\ accRoles[m] = "editor" \/ (accRoles[m] = "viewer" /\ right = "read")
  /\ Waiting(m) = {} /\ AccRequest
  /\ accRequests' = accRequests \cup {[id |-> accBounds'.requests, by |-> m, right |-> right, status |-> "pending",
       named |-> ~accDoc.trashed /\ ~MayAccess(m, right, accDoc, accShares, accRoles)]}
  /\ UNCHANGED <<accDoc, accShares, accRoles, accTicket>>

Resolve(q, status) == accRequests' = (accRequests \ {q}) \cup {[q EXCEPT !.status = status]}

CancelRequest(q) ==
  /\ q.status = "pending" /\ accRoles[q.by] # "gone" /\ Resolve(q, "cancelled")
  /\ UNCHANGED <<accDoc, accShares, accRoles, accTicket, accBounds>>

\* The owner answers what they have seen: the request's revision, which is one as
\* long as it is pending, and the version of the document.
RejectRequest(q) ==
  /\ q.status = "pending" /\ q.named /\ ~accDoc.trashed /\ accDoc.above /\ Resolve(q, "rejected")
  /\ UNCHANGED <<accDoc, accShares, accRoles, accTicket, accBounds>>

\* A private document with shares left over from before: to open it for one is to
\* open it for all of them.
Dormant == accDoc.visibility = "private" /\ \E m \in Members : accShares[m] # "none"

\* A mutant: the shares left over are forgotten.
GrantsOverDormant(q) ==
  /\ accRoles[q.by] = "editor" \/ (accRoles[q.by] = "viewer" /\ q.right = "read")
  /\ accDoc.above
MayGrant(q) ==
  /\ accRoles[q.by] = "editor" \/ (accRoles[q.by] = "viewer" /\ q.right = "read")
  /\ ~Dormant /\ accDoc.above

\* resolveDocumentAccessRequest: the share, the visibility, the version and the
\* request in one transaction, or nothing.
GrantRequest(q, expected) ==
  /\ q.status = "pending" /\ q.named /\ ~accDoc.trashed
  /\ accDoc.version = expected /\ MayGrant(q)
  /\ accShares' = [accShares EXCEPT ![q.by] = q.right]
  /\ accDoc' = [accDoc EXCEPT !.version = @ + 1, !.visibility = IF @ = "private" THEN "selected" ELSE @]
  /\ Resolve(q, "granted")
  /\ UNCHANGED <<accRoles, accTicket, accBounds>>

----------------
(* Opening a document.                                                          *)

\* accessPreviewFingerprint: the documents, spaces, shares and members on the
\* path.  A mutant looks at the version of the document alone.
FingerprintOfVersion == accDoc.version
Fingerprint == <<accDoc, accShares, accRoles>>

\* documentAccessPreview.
PreviewAccess(visibility) ==
  /\ ~accDoc.trashed /\ accDoc.above /\ visibility # accDoc.visibility /\ AccRequest
  /\ accTicket' = [at |-> "shown", version |-> accDoc.version, visibility |-> visibility, fingerprint |-> Fingerprint,
       opens |-> {k \in Members \X Rights :
                    MayAccess(k[1], k[2], [accDoc EXCEPT !.visibility = visibility], accShares, accRoles)}]
  /\ UNCHANGED <<accDoc, accShares, accRoles, accRequests>>

PreviewExpires ==
  /\ accTicket # NoPreview /\ accTicket' = NoPreview
  /\ UNCHANGED <<accDoc, accShares, accRoles, accRequests, accBounds>>

\* saveDocument with the ticket: validateDocumentAccessChangeTx.
Confirm ==
  /\ accTicket # NoPreview /\ ~accDoc.trashed /\ accDoc.above
  /\ accDoc.version = accTicket.version /\ Fingerprint = accTicket.fingerprint
  /\ accDoc' = [accDoc EXCEPT !.version = @ + 1, !.visibility = accTicket.visibility]
  /\ UNCHANGED <<accShares, accRoles, accRequests, accTicket, accBounds>>

\* An old client saves the visibility without a ticket.
SaveVisibility(visibility, expected) ==
  /\ ~accDoc.trashed /\ accDoc.above /\ visibility # accDoc.visibility /\ accDoc.version = expected /\ AccChange
  /\ accDoc' = [accDoc EXCEPT !.version = @ + 1, !.visibility = visibility]
  /\ UNCHANGED <<accShares, accRoles, accRequests, accTicket>>

AccNext ==
  \/ \E m \in Members :
       \/ \E right \in Rights \cup {"none"} : SetShare(m, right)
       \/ \E role \in {"editor", "viewer", "gone"} : ChangeRole(m, role)
       \/ \E right \in Rights : RequestAccess(m, right)
  \/ \E q \in accRequests :
       CancelRequest(q) \/ RejectRequest(q) \/ \E expected \in 1 .. accDoc.version : GrantRequest(q, expected)
  \/ \E visibility \in Visibilities :
       PreviewAccess(visibility) \/ \E expected \in 1 .. accDoc.version : SaveVisibility(visibility, expected)
  \/ DocumentAround \/ PreviewExpires \/ Confirm

----------------
(* What the rights promise.                                                     *)

Grants(q) == [q EXCEPT !.status = "granted"] \in accRequests' /\ q.status = "pending"

\* A request that is granted opens the document to the one who asked, for what
\* they asked, and to nobody else.
GrantIsExact ==
  \A q \in accRequests : Grants(q) =>
    /\ <<q.by, q.right>> \in Access'
    /\ \A k \in Access' \ Access : k[1] = q.by /\ (q.right = "write" \/ k[2] = "read")

\* A change that was confirmed on a preview gives the rights that it was shown to
\* give.
ConfirmedAsShown ==
  (accTicket # NoPreview /\ accTicket' = accTicket /\ accDoc'.version = accTicket.version + 1
     /\ accDoc'.visibility # accDoc.visibility /\ accRequests' = accRequests /\ accBounds' = accBounds)
    => Access' = accTicket.opens

AccessIsAsMeant == GrantIsExact /\ ConfirmedAsShown
=============================================================================
