----------------------------- MODULE PublicShare -----------------------------
(* A link that shows one document to people without an account                  *)
(* (internal/server/public_share.go).  No transaction spans a visit: the share, *)
(* the policy and the document are read one after the other, then the text, and *)
(* everything once more before the answer; a password is exchanged for a grant  *)
(* that is bound to the revision of the share.                                  *)
EXTENDS Naturals

CONSTANTS
  Visitors,       \* visits under way
  PubLevels,      \* classifications, 1 .. PubLevels
  PubChanges,     \* bound: what owners and administrators change
  PubVisits       \* bound: visits

\* There is a classification, and a bound is a number.
ASSUME PublicShareAssumption == PubLevels \in Nat \ {0} /\ PubChanges \in Nat

VARIABLES
  pubDoc,       \* the document, and whether the one who shared it still owns it
  pubPolicy,    \* protection settings
  pubShare,     \* the row of public_shares
  pubGrants,    \* public_share_access: whom each was given to, and for which revision
  pubTabs,      \* the update that a second tab of the owner is making
  pubVisitors,  \* what each visitor has been told and what their visit has read
  pubBounds     \* bounds

pubVars == <<pubDoc, pubPolicy, pubShare, pubGrants, pubTabs, pubVisitors, pubBounds>>

NoTab   == [at |-> "idle"]
NoVisit == [at |-> "idle"]
NoShare == [made |-> FALSE, revision |-> 0, token |-> 0, password |-> 0, expired |-> FALSE, revoked |-> FALSE, download |-> FALSE]

PubTypeOK ==
  /\ pubDoc.level \in 1 .. PubLevels /\ pubPolicy.most \in 1 .. PubLevels
  /\ pubShare.revision \in 0 .. PubChanges + 1 /\ pubShare.token <= pubShare.revision
  /\ \A g \in pubGrants : g.revision \in 1 .. pubShare.revision
  /\ pubTabs.at \in {"idle", "update"}
  /\ \A v \in Visitors : pubVisitors[v].visit.at \in {"idle", "judge", "read", "look", "again", "answer", "stream"}

PubInit ==
  /\ pubDoc = [version |-> 1, level |-> 1, owned |-> TRUE, trashed |-> FALSE]
  /\ pubPolicy = [on |-> TRUE, most |-> 1, password |-> FALSE, download |-> TRUE]
  /\ pubShare = NoShare /\ pubGrants = {} /\ pubTabs = NoTab
  /\ pubVisitors = [v \in Visitors |-> [token |-> 0, password |-> 0, visit |-> NoVisit]]
  /\ pubBounds = [changes |-> 0, visits |-> 0]

PubChange == pubBounds.changes < PubChanges /\ pubBounds' = [pubBounds EXCEPT !.changes = @ + 1]

\* publicShareDocumentAllowed: the one who shared it owns it and may read it, and
\* its classification is not above the policy's.
PubAllowed(policy) == pubDoc.owned /\ ~pubDoc.trashed /\ pubDoc.level <= policy.most

\* publicShareInput: what the policy asks of a share when it is written.
PubAccepts(policy, password, download) ==
  /\ policy.on /\ (download => policy.download) /\ (policy.password => password # 0)

----------------
(* The owner.                                                                   *)

\* createPublicShare; a new password is named by the revision that brings it.
CreateShare(password, download) ==
  LET secret == IF password THEN 1 ELSE 0 IN
  /\ ~pubShare.made /\ PubAccepts(pubPolicy, secret, download) /\ PubAllowed(pubPolicy)
  /\ pubShare' = [NoShare EXCEPT !.made = TRUE, !.revision = 1, !.token = 1, !.password = secret, !.download = download]
  /\ UNCHANGED <<pubDoc, pubPolicy, pubGrants, pubTabs, pubVisitors, pubBounds>>

\* updatePublicShare up to its UPDATE: the row with its password, and the policy.
ReadToUpdate(change, download, seen) ==
  /\ pubShare.made /\ pubTabs = NoTab /\ pubDoc.owned /\ ~pubDoc.trashed
  /\ seen \in 1 .. pubShare.revision
  /\ LET password == CASE change = "keep" -> pubShare.password [] change = "clear" -> 0 [] OTHER -> seen + 1 IN
     /\ PubAccepts(pubPolicy, password, download) /\ PubAllowed(pubPolicy)
     /\ pubTabs' = [at |-> "update", seen |-> seen, password |-> password, download |-> download]
  /\ PubChange
  /\ UNCHANGED <<pubDoc, pubPolicy, pubShare, pubGrants, pubVisitors>>

\* WHERE revision = the one that was seen AND revoked_at IS NULL.
Rewrites(seen) == pubShare.revision = seen /\ ~pubShare.revoked

UpdateShare ==
  /\ pubTabs.at = "update" /\ pubTabs' = NoTab
  /\ pubShare' = IF ~Rewrites(pubTabs.seen) THEN pubShare
       ELSE [pubShare EXCEPT !.revision = @ + 1, !.password = pubTabs.password,
                             !.download = pubTabs.download, !.expired = FALSE]
  /\ UNCHANGED <<pubDoc, pubPolicy, pubGrants, pubVisitors, pubBounds>>

RotateShare(seen) ==
  /\ pubShare.made /\ pubDoc.owned /\ ~pubDoc.trashed /\ Rewrites(seen) /\ PubChange
  /\ pubShare' = [pubShare EXCEPT !.revision = @ + 1, !.token = seen + 1]
  /\ UNCHANGED <<pubDoc, pubPolicy, pubGrants, pubTabs, pubVisitors>>

\* revokePublicShare needs no revision.
RevokeShare ==
  /\ pubShare.made /\ ~pubDoc.trashed /\ ~pubShare.revoked /\ PubChange
  /\ pubShare' = [pubShare EXCEPT !.revision = @ + 1, !.revoked = TRUE]
  /\ UNCHANGED <<pubDoc, pubPolicy, pubGrants, pubTabs, pubVisitors>>

\* expires_at passes, for the share and the grants that end with it.
ShareExpires ==
  /\ pubShare.made /\ ~pubShare.expired /\ PubChange
  /\ pubShare' = [pubShare EXCEPT !.expired = TRUE] /\ pubGrants' = {}
  /\ UNCHANGED <<pubDoc, pubPolicy, pubTabs, pubVisitors>>

\* The document is edited, trashed and restored, which changes its version; its
\* space gets another classification, its owner is disabled, which does not.
DocumentChanges ==
  /\ PubChange
  /\ \/ pubDoc' = [pubDoc EXCEPT !.version = @ + 1]
     \/ pubDoc' = [pubDoc EXCEPT !.version = @ + 1, !.trashed = ~@]
     \/ \E level \in 1 .. PubLevels : level # pubDoc.level /\ pubDoc' = [pubDoc EXCEPT !.level = level]
     \/ pubDoc' = [pubDoc EXCEPT !.owned = ~@]
  /\ UNCHANGED <<pubPolicy, pubShare, pubGrants, pubTabs, pubVisitors>>

\* saveProtectionSettings.
PolicyChanges ==
  /\ PubChange
  /\ \/ pubPolicy' = [pubPolicy EXCEPT !.on = ~@]
     \/ pubPolicy' = [pubPolicy EXCEPT !.password = ~@]
     \/ pubPolicy' = [pubPolicy EXCEPT !.download = ~@]
     \/ \E level \in 1 .. PubLevels : level # pubPolicy.most /\ pubPolicy' = [pubPolicy EXCEPT !.most = level]
  /\ UNCHANGED <<pubDoc, pubShare, pubGrants, pubTabs, pubVisitors>>

\* The owner tells a visitor the link and the password of the day.
Tell(v) ==
  /\ pubShare.made
  /\ pubVisitors' = [pubVisitors EXCEPT ![v].token = pubShare.token, ![v].password = pubShare.password]
  /\ UNCHANGED <<pubDoc, pubPolicy, pubShare, pubGrants, pubTabs, pubBounds>>

----------------
(* A visit.                                                                     *)

\* publicShareAccess reads the share and decides with the policy and the document
\* that it reads afterwards.
OpenTo(v, row) == row.token = pubVisitors[v].token /\ ~row.revoked /\ ~row.expired
\* A grant is a random secret, so that a visitor can show their own only. A
\* mutant: it is good for whatever the share has become.
GrantedForGood(v, row) == row.password = 0 \/ \E g \in pubGrants : g.of = v
Granted(v, row) == row.password = 0 \/ [of |-> v, revision |-> row.revision] \in pubGrants
Judged(row) == pubPolicy.on /\ PubAllowed(pubPolicy) /\ (pubPolicy.password => row.password # 0)

Visits(v, visit) == pubVisitors' = [pubVisitors EXCEPT ![v].visit = visit]
Visit(v) == pubVisitors[v].visit
UnchangedButVisit == UNCHANGED <<pubDoc, pubPolicy, pubShare, pubGrants, pubTabs>>

\* What makes the visit rightful, whatever the code looks at: the visitor knows
\* the link and the password of this moment, and nobody has ended the share.
Meant(v) ==
  /\ pubShare.token = pubVisitors[v].token /\ ~pubShare.revoked /\ ~pubShare.expired
  /\ pubShare.password \in {0, pubVisitors[v].password}

\* readPublicShare and downloadPublicAttachment, the first look.
BeginVisit(v, download) ==
  /\ Visit(v) = NoVisit /\ pubShare.made /\ OpenTo(v, pubShare)
  /\ pubBounds.visits < PubVisits /\ pubBounds' = [pubBounds EXCEPT !.visits = @ + 1]
  /\ Visits(v, [at |-> "judge", row |-> pubShare, download |-> download])
  /\ UnchangedButVisit

JudgeVisit(v) ==
  LET visit == Visit(v) IN
  /\ visit.at = "judge" /\ UnchangedButVisit /\ UNCHANGED pubBounds
  /\ IF Judged(visit.row) /\ Granted(v, visit.row)
        /\ (visit.download => visit.row.download /\ pubPolicy.download)
     THEN Visits(v, [at |-> "read", row |-> visit.row, policy |-> pubPolicy, download |-> visit.download])
     ELSE Visits(v, NoVisit)

\* The text with its version, or the file, which never changes.
ReadShared(v) ==
  LET visit == Visit(v) IN
  /\ visit.at = "read" /\ UnchangedButVisit /\ UNCHANGED pubBounds
  /\ IF visit.download \/ (pubDoc.owned /\ ~pubDoc.trashed)
     THEN Visits(v, [at |-> "look", row |-> visit.row, policy |-> visit.policy, download |-> visit.download,
                     version |-> pubDoc.version])
     ELSE Visits(v, NoVisit)

\* The second look: the same revision, the same policy.
LookAgain(v) ==
  LET visit == Visit(v) IN
  /\ visit.at = "look" /\ UnchangedButVisit /\ UNCHANGED pubBounds
  /\ IF OpenTo(v, pubShare)
     THEN Visits(v, [at |-> "again", row |-> pubShare, policy |-> visit.policy, download |-> visit.download,
                     version |-> visit.version, same |-> pubShare.revision = visit.row.revision, meant |-> Meant(v)])
     ELSE Visits(v, NoVisit)

JudgeAgain(v) ==
  LET visit == Visit(v) IN
  /\ visit.at = "again" /\ UnchangedButVisit /\ UNCHANGED pubBounds
  /\ IF Judged(visit.row) /\ Granted(v, visit.row) /\ visit.same /\ pubPolicy = visit.policy
     THEN Visits(v, [at |-> "answer", row |-> visit.row, policy |-> visit.policy, download |-> visit.download,
                     version |-> visit.version, meant |-> visit.meant, open |-> PubAllowed(pubPolicy), now |-> pubDoc.version])
     ELSE Visits(v, NoVisit)

\* The answer, at the version that was read; a file goes out in pieces, between
\* which the share, the policy and the document are looked at again.
Answer(v) ==
  LET visit == Visit(v) IN
  /\ visit.at = "answer" /\ UnchangedButVisit /\ UNCHANGED pubBounds
  /\ IF visit.download THEN Visits(v, [visit EXCEPT !.at = "stream"]) ELSE Visits(v, NoVisit)

Shown(v) == Visit(v).at = "answer" /\ (Visit(v).download \/ pubDoc.version = Visit(v).version)

Stream(v) ==
  LET visit == Visit(v) IN
  /\ visit.at = "stream" /\ UnchangedButVisit /\ UNCHANGED pubBounds
  /\ IF /\ pubShare.revision = visit.row.revision /\ pubPolicy = visit.policy
        /\ ~pubShare.revoked /\ ~pubShare.expired /\ PubAllowed(pubPolicy)
     THEN Visits(v, [visit EXCEPT !.at = "answer", !.meant = Meant(v), !.open = PubAllowed(pubPolicy)])
     ELSE Visits(v, NoVisit)

\* unlockPublicShare: the password of the row that was loaded buys a grant for
\* that row's revision; the row may have changed meanwhile.
Unlock(v) ==
  LET visit == Visit(v) IN
  /\ visit.at = "judge" /\ Judged(visit.row)
  /\ visit.row.password # 0 /\ visit.row.password = pubVisitors[v].password
  /\ pubGrants' = IF pubShare.expired THEN pubGrants ELSE pubGrants \cup {[of |-> v, revision |-> visit.row.revision]}
  /\ Visits(v, NoVisit)
  /\ UNCHANGED <<pubDoc, pubPolicy, pubShare, pubTabs, pubBounds>>

PubNext ==
  \/ \E password, download \in BOOLEAN : CreateShare(password, download)
  \/ \E change \in {"keep", "clear", "new"}, download \in BOOLEAN, seen \in 1 .. PubChanges :
       ReadToUpdate(change, download, seen)
  \/ UpdateShare \/ RevokeShare \/ ShareExpires \/ DocumentChanges \/ PolicyChanges
  \/ \E seen \in 1 .. PubChanges : RotateShare(seen)
  \/ \E v \in Visitors :
       \/ Tell(v) \/ JudgeVisit(v) \/ ReadShared(v) \/ LookAgain(v) \/ JudgeAgain(v)
       \/ Answer(v) \/ Stream(v) \/ Unlock(v)
       \/ \E download \in BOOLEAN : BeginVisit(v, download)

----------------
(* What a share promises.                                                       *)

\* What a visitor is shown was theirs to see after the reading of it: they knew
\* the link and the password of that moment, the share was neither revoked nor
\* over, and the document, in the version shown, was open to the public.
ShownWasMeant ==
  \A v \in Visitors : (Shown(v) /\ Visit(v)' # Visit(v)) =>
    /\ Visit(v).meant /\ Visit(v).open
    /\ Visit(v).download \/ Visit(v).now = Visit(v).version

\* A revoked share stays revoked and a password never comes back by itself.
RevokedIsRevoked ==
  /\ pubShare.revoked => pubShare'.revoked
  /\ pubShare'.password \in {0, pubShare.password} \/ pubShare'.password = pubShare'.revision

SharesAreKept == ShownWasMeant /\ RevokedIsRevoked
=============================================================================
