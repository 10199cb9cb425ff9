------------------------------- MODULE Approval ------------------------------
(* Review and approval of one document (internal/server/approval_*.go) with   *)
(* everything that changes the document, the settings or the policies under   *)
(* it. A transaction that holds the document's row lock, and the settings row *)
(* lock where it reads them, is one action; updateDocumentKnowledge reads the *)
(* settings before its transaction begins and is two.                         *)
EXTENDS Integers, Sequences, FiniteSets

CONSTANTS
  Users, Author,  \* accounts, and the owner of the new document
  Writers,        \* accounts that a document may be given to
  Reviewers,      \* accounts that may come to pass a gate
  Bodies,         \* title, Markdown, tags and aliases
  Rests,          \* the rest of the snapshot: place, visibility, block metadata
  Elsewhere,      \* those that put the document outside the policy's space
  Gates,          \* who is asked: a user, a team, a role, the document's reviewer
  Roles,          \* the gates that are roles
  Shapes,         \* sequences of stages that an administrator may configure
  NoPatch,        \* no change of operational properties is under way
  MaxVersion,     \* bound: versions of the document
  MaxRequests,    \* bound: review requests
  MaxChanges      \* bound: changes of settings and of policies

Stage == [all : BOOLEAN, gates : (SUBSET Gates) \ {{}}]

ASSUME PeopleAssumption == /\ Author \in Users
                           /\ Writers \subseteq Users
                           /\ Reviewers \subseteq Users
ASSUME PlacesAssumption == Roles \subseteq Gates /\ Elsewhere \subseteq Rests
ASSUME ShapesAssumption == /\ Shapes # {} /\ Shapes \subseteq Seq(Stage)
                           /\ \A shape \in Shapes : Len(shape) > 0
ASSUME BoundsAssumption == /\ MaxVersion \in Nat \ {0}
                           /\ MaxRequests \in Nat
                           /\ MaxChanges \in Nat

VARIABLES
  doc,       \* the row of documents
  policies,  \* approval_policies of the space and of its workspace
  settings,  \* approval_enabled, reviewer_role and approval_policy_clock
  may,       \* who passes each gate now: active, member, able to read the document
  requests,  \* approval_requests with their assignments and decisions
  patch,     \* what updateDocumentKnowledge has read and checked
  sealed     \* history: the request that published the document, unless
             \* approvals were switched off since; 0 if there is none

vars == <<doc, policies, settings, may, requests, patch, sealed>>

Status   == {"draft", "review", "published", "rejected", "stale", "archived"}
ByHand   == {"draft", "published", "stale", "archived"}
Outcomes == {"approved", "rejected", "cancelled", "superseded"}
Scopes   == {"space", "workspace"}                 \* nearest first

Document == [version : 1 .. MaxVersion,
             body    : Bodies,
             rest    : Rests,
             seen    : SUBSET Rests,   \* what readers of this version may have read
             owner   : Users,
             status  : Status,
             deleted : BOOLEAN]
Policy   == [version : Nat, enabled : BOOLEAN, stages : Shapes]   \* version 0: no row
Snapshot == [body : Bodies, rest : Rests, owner : Users]
Decision == [stage : Nat, gate : Gates, user : Users, approved : BOOLEAN]
Frozen   == [scope : Scopes, version : Nat \ {0}, stages : Shapes]
              \cup [scope : {"default"}, version : {0}, stages : Seq(Stage)]
Request  == [status     : Outcomes \cup {"pending"},
             stage      : Nat,
             snapshot   : Snapshot,
             docVersion : 1 .. MaxVersion,
             policy     : Frozen,
             revision   : Nat,
             requester  : Users,
             assigned   : [Gates -> SUBSET Users],
             decisions  : SUBSET Decision]
Patch    == [version : 1 .. MaxVersion, status : Status, owner : Users]

ASSUME NoPatchAssumption == NoPatch \notin Patch

TypeOK == /\ doc \in Document /\ doc.rest \in doc.seen
          /\ policies \in [Scopes -> Policy]
          /\ \A scope \in Scopes : policies[scope].enabled => policies[scope].version > 0
          /\ settings \in [enabled : BOOLEAN, role : Roles, revision : Nat]
          /\ may \in [Gates -> SUBSET Reviewers]
          /\ requests \in Seq(Request)
          /\ patch \in Patch \cup {NoPatch}
          /\ sealed \in 0 .. Len(requests)

AnyShape == CHOOSE shape \in Shapes : TRUE         \* of a row that is not there

Init == /\ \E b \in Bodies, r \in Rests :
             doc = [version |-> 1, body |-> b, rest |-> r, seen |-> {r},
                    owner |-> Author, status |-> "draft", deleted |-> FALSE]
        /\ policies = [scope \in Scopes |->
                         [version |-> 0, enabled |-> FALSE, stages |-> AnyShape]]
        /\ \E role \in Roles :
             settings = [enabled |-> FALSE, role |-> role, revision |-> 1]
        /\ may \in [Gates -> SUBSET Reviewers]
        /\ requests = <<>>
        /\ patch = NoPatch
        /\ sealed = 0
----------------
(* approvalPolicyTx: the nearest enabled policy; if there is none, one other  *)
(* reviewer of the configured role.                                           *)
DefaultStages == <<[all |-> TRUE, gates |-> {settings.role}]>>
CoversSwitchedOff(scope) == scope = "space" => doc.rest \notin Elsewhere      \* mutant
Covers(scope) == policies[scope].enabled /\ (scope = "space" => doc.rest \notin Elsewhere)
Takes(scope)  == [scope   |-> scope,
                  version |-> policies[scope].version,
                  stages  |-> policies[scope].stages]
InForce ==
  IF Covers("space") THEN Takes("space")
  ELSE IF Covers("workspace") THEN Takes("workspace")
  ELSE [scope |-> "default", version |-> 0, stages |-> DefaultStages]

Shot(d)      == [body |-> d.body, rest |-> d.rest, owner |-> d.owner]
Pending      == {i \in DOMAIN requests : requests[i].status = "pending"}
Candidates(g, requester) == may[g] \ {doc.owner, requester}

(* approvalCurrentTx: what was frozen is compared by its identifiers.         *)
Valid(q) == /\ q.revision = settings.revision
            /\ q.policy.scope = InForce.scope
            /\ q.policy.version = InForce.version
            /\ q.docVersion = doc.version
            /\ q.snapshot = Shot(doc)

Open    == ~doc.deleted /\ doc.version < MaxVersion
Revise(d) == doc' = [d EXCEPT !.version = doc.version + 1, !.seen = {d.rest}]
ApprovalUntouched == UNCHANGED <<policies, settings, may, requests, sealed>>
----------------
(* approvalSaveStatusTx: while approvals are on, a save does not publish, and *)
(* one that changes the snapshot makes a draft.                               *)
MaySave(status) == settings.enabled /\ status = "published" => doc.status = "published"
SaveStatusKept(before, after, status) == status                            \* mutant
SaveStatus(before, after, status) ==
  IF settings.enabled /\ Shot(after) # Shot(before) THEN "draft" ELSE status

(* saveDocument. The row it compares with was read before the transaction;    *)
(* the version it checks does not cover metadata edits. Granting access, a    *)
(* connector's update and a resumed migration take the same rule with fewer   *)
(* choices.                                                                   *)
SaveDocument ==
  /\ Open
  /\ \E old \in doc.seen, b \in Bodies, r \in Rests, status \in ByHand \cup {doc.status} :
       LET new == [doc EXCEPT !.body = b, !.rest = r] IN
         /\ MaySave(status)
         /\ Revise([new EXCEPT !.status = SaveStatus([doc EXCEPT !.rest = old], new, status)])
  /\ ApprovalUntouched /\ UNCHANGED patch

(* collaborationStateSince: an accepted edit of the shared Markdown.          *)
CollaborativeEdit ==
  /\ Open
  /\ \E b \in Bodies \ {doc.body}, r \in Rests :
       Revise([doc EXCEPT !.body = b, !.rest = r,
                          !.status = IF settings.enabled THEN "draft" ELSE @])
  /\ ApprovalUntouched /\ UNCHANGED patch

(* The same where only block metadata follows: no new version, no new status. *)
CollaborativeMetadata ==
  /\ ~doc.deleted
  /\ \E r \in Rests \ {doc.rest} : doc' = [doc EXCEPT !.rest = r, !.seen = @ \cup {r}]
  /\ ApprovalUntouched /\ UNCHANGED patch

(* classifyCapture files an inbox document and asks no approval.              *)
ClassifyCapture ==
  /\ Open
  /\ \E r \in Rests : Revise([doc EXCEPT !.rest = r])
  /\ ApprovalUntouched /\ UNCHANGED patch

(* updateDocumentKnowledge: the settings are read outside of any transaction ...        *)
ReadKnowledge ==
  /\ patch = NoPatch /\ Open
  /\ \E status \in ByHand \cup {doc.status}, owner \in Writers \cup {doc.owner} :
       /\ status = "published" /\ status # doc.status => ~settings.enabled
       /\ patch' = [version |-> doc.version, status |-> status, owner |-> owner]
  /\ ApprovalUntouched /\ UNCHANGED doc

(* ... and the row is written if its version is still the one that was read.  *)
WriteKnowledge ==
  /\ patch # NoPatch
  /\ patch' = NoPatch
  /\ IF Open /\ patch.version = doc.version
     THEN Revise([doc EXCEPT !.owner = patch.owner, !.status = patch.status])
     ELSE UNCHANGED doc
  /\ ApprovalUntouched

(* runWorkspaceLifecycle                                                      *)
MarkStale ==
  /\ Open /\ doc.status = "published"
  /\ Revise([doc EXCEPT !.status = "stale"])
  /\ ApprovalUntouched /\ UNCHANGED patch

DeleteDocument ==
  /\ Open
  /\ Revise([doc EXCEPT !.deleted = TRUE])
  /\ ApprovalUntouched /\ UNCHANGED patch

(* restoreDocument: the protection policy of the day may mask the text.       *)
RestoreDocument ==
  /\ doc.deleted /\ doc.version < MaxVersion
  /\ \E b \in Bodies, r \in Rests :
       LET new == [doc EXCEPT !.body = b, !.rest = r, !.deleted = FALSE] IN
         Revise([new EXCEPT !.status = SaveStatus(doc, new, doc.status)])
  /\ ApprovalUntouched /\ UNCHANGED patch
----------------
SupersedeNone(all) == [i \in 1 .. Len(all) |-> all[i]]                      \* mutant
SupersedeAll(all)  ==                                                      \* mutant
  [i \in 1 .. Len(all) |-> [all[i] EXCEPT !.status = "superseded"]]
Supersede(all) ==
  [i \in 1 .. Len(all) |-> IF all[i].status = "pending"
                           THEN [all[i] EXCEPT !.status = "superseded"] ELSE all[i]]

(* StartApprovalTx for a document, with its Submit callback.                  *)
Submit(u) ==
  /\ Open /\ settings.enabled
  /\ Len(requests) < MaxRequests
  /\ doc.status # "archived"
  /\ doc.status = "review" => \A i \in Pending : ~Valid(requests[i])
  /\ \A s \in DOMAIN InForce.stages :
       \A g \in InForce.stages[s].gates : Candidates(g, u) # {}
  /\ Revise([doc EXCEPT !.status = "review"])
  /\ requests' = Append(Supersede(requests),
       [status     |-> "pending",
        stage      |-> 1,
        snapshot   |-> Shot(doc),
        docVersion |-> doc.version + 1,
        policy     |-> InForce,
        revision   |-> settings.revision,
        requester  |-> u,
        assigned   |-> [g \in Gates |-> Candidates(g, u)],
        decisions  |-> {}])
  /\ UNCHANGED <<policies, settings, may, patch, sealed>>

(* approvalEligibleGatesTx                                                    *)
Asked(q) == q.policy.stages[q.stage]
Eligible(q, g, u) ==
  /\ g \in Asked(q).gates
  /\ u \notin {q.snapshot.owner, q.requester}
  /\ u \in q.assigned[g]
  /\ \A d \in q.decisions : ~(d.stage = q.stage /\ d.gate = g)
  /\ u \in Candidates(g, q.requester)

ApprovedGates(q, s) == {d.gate : d \in {e \in q.decisions : e.stage = s /\ e.approved}}
StageDoneAtOnce(q) == TRUE                                                 \* mutant
StageDone(q) == ApprovedGates(q, q.stage) = Asked(q).gates \/ ~Asked(q).all

(* decideApprovalTx: the outcome of a request after one more decision.        *)
Decided(q, d) ==
  LET next == [q EXCEPT !.decisions = @ \cup {d}] IN
    IF ~d.approved THEN [next EXCEPT !.status = "rejected"]
    ELSE IF ~StageDone(next) THEN next
    ELSE IF next.stage = Len(next.policy.stages) THEN [next EXCEPT !.status = "approved"]
    ELSE [next EXCEPT !.stage = @ + 1]

Decide(u, g, approved) ==
  /\ Open /\ settings.enabled
  /\ \E i \in Pending :
       LET q    == requests[i]
           next == Decided(q, [stage |-> q.stage, gate |-> g, user |-> u, approved |-> approved])
       IN  /\ Valid(q)
           /\ Eligible(q, g, u)
           /\ requests' = [requests EXCEPT ![i] = next]
           /\ IF next.status = "pending" THEN UNCHANGED doc
              ELSE Revise([doc EXCEPT !.status = IF approved THEN "published" ELSE "rejected"])
           /\ sealed' = IF next.status = "approved" THEN i ELSE sealed
  /\ UNCHANGED <<policies, settings, may, patch>>

(* cancelApprovalTx: by the requester or the owner; the request may be stale. *)
Cancel(u) ==
  /\ Open /\ settings.enabled
  /\ \E i \in Pending :
       /\ u \in {requests[i].requester, requests[i].snapshot.owner}
       /\ requests' = [requests EXCEPT ![i].status = "cancelled"]
  /\ Revise([doc EXCEPT !.status = "draft"])
  /\ UNCHANGED <<policies, settings, may, patch, sealed>>
----------------
Changes == settings.revision + policies["space"].version + policies["workspace"].version
MayChange == Changes < MaxChanges + 1

(* The trigger that advances approval_policy_clock, and the settings page.    *)
ClockOfSwitch(enabled, role) ==                                            \* mutant
  IF enabled # settings.enabled THEN settings.revision + 1 ELSE settings.revision
Clock(enabled, role) ==
  IF enabled # settings.enabled \/ role # settings.role
  THEN settings.revision + 1 ELSE settings.revision

UpdateSettings ==
  /\ MayChange
  /\ \E enabled \in BOOLEAN, role \in Roles :
       /\ settings' = [enabled |-> enabled, role |-> role, revision |-> Clock(enabled, role)]
       /\ sealed' = IF enabled THEN sealed ELSE 0
  /\ UNCHANGED <<doc, policies, may, requests, patch>>

(* approvalSavePolicy: a new row, or an update of the version it was read at. *)
SavePolicy ==
  /\ MayChange
  /\ \E scope \in Scopes, enabled \in BOOLEAN, shape \in Shapes :
       policies' = [policies EXCEPT ![scope] =
                      [version |-> @.version + 1, enabled |-> enabled, stages |-> shape]]
  /\ UNCHANGED <<doc, settings, may, requests, patch, sealed>>

(* approvalDisablePolicy                                                      *)
DisablePolicy ==
  /\ MayChange
  /\ \E scope \in Scopes :
       /\ policies[scope].version > 0
       /\ policies' = [policies EXCEPT ![scope].version = @ + 1, ![scope].enabled = FALSE]
  /\ UNCHANGED <<doc, settings, may, requests, patch, sealed>>

(* Accounts, memberships, teams, shares and the document's reviewer change.   *)
ChangeRights ==
  /\ \E g \in Gates, u \in Reviewers :
       may' = [may EXCEPT ![g] = IF u \in @ THEN @ \ {u} ELSE @ \cup {u}]
  /\ UNCHANGED <<doc, policies, settings, requests, patch, sealed>>

(* A restored backup: what was pending in it is void.                         *)
Quarantine ==
  /\ MayChange
  /\ requests' = Supersede(requests)
  /\ settings' = [settings EXCEPT !.revision = @ + 1]
  /\ UNCHANGED <<doc, policies, may, patch, sealed>>

Next ==
  \/ SaveDocument \/ CollaborativeEdit \/ CollaborativeMetadata \/ ClassifyCapture
  \/ ReadKnowledge \/ WriteKnowledge \/ MarkStale \/ DeleteDocument \/ RestoreDocument
  \/ \E u \in Users : Submit(u)
  \/ \E u \in Users, g \in Gates, approved \in BOOLEAN : Decide(u, g, approved)
  \/ \E u \in Users : Cancel(u)
  \/ UpdateSettings \/ SavePolicy \/ DisablePolicy
  \/ ChangeRights \/ Quarantine

Spec == Init /\ [][Next]_vars
----------------
(* What was decided follows the frozen policy stage by stage: each stage that *)
(* was passed has the approvals its mode asks for, nothing is decided ahead   *)
(* of its stage or twice, nobody decided who was not assigned, who owned the  *)
(* document or asked for the review, and only a rejected request holds a      *)
(* rejection. decideApprovalTx counts rows; this reads them all again.        *)
Passed(q, s) == LET asked == q.policy.stages[s] IN
  IF asked.all THEN ApprovedGates(q, s) = asked.gates ELSE ApprovedGates(q, s) # {}
WellDecided(q) ==
  /\ q.stage \in DOMAIN q.policy.stages
  /\ \A s \in 1 .. q.stage - 1 : Passed(q, s)
  /\ q.status = "approved" => q.stage = Len(q.policy.stages) /\ Passed(q, q.stage)
  /\ \A d \in q.decisions :
       /\ d.stage \in 1 .. q.stage
       /\ d.gate \in q.policy.stages[d.stage].gates
       /\ d.user \in q.assigned[d.gate] \ {q.requester, q.snapshot.owner}
       /\ ~d.approved => q.status = "rejected"
       /\ \A e \in q.decisions : e.stage = d.stage /\ e.gate = d.gate => e = d
DecisionsFollowPolicy == \A i \in DOMAIN requests : WellDecided(requests[i])

(* A published document whose last publication was an approval shows the text *)
(* that was approved, however it was saved, edited together, marked stale,    *)
(* deleted or restored since, for as long as approvals stayed on.             *)
PublishedAsApproved ==
  doc.status = "published" /\ sealed # 0 => doc.body = requests[sealed].snapshot.body

(* A request that can still be decided is the only pending one and stands for *)
(* the document as it is, in review: it was not deleted, archived, edited or  *)
(* given to another owner since.                                              *)
OneLiveRequest ==
  \A i \in Pending :
    /\ Pending = {i}
    /\ requests[i].docVersion = doc.version =>
         /\ doc.status = "review" /\ ~doc.deleted
         /\ doc.body = requests[i].snapshot.body
         /\ doc.owner = requests[i].snapshot.owner

(* What readers see and what reviewers decide on are the document as it is    *)
(* (approvalSaveStatusTx, StartApprovalTx).                                   *)
AsReviewed == PublishedAsApproved /\ OneLiveRequest

(* What the identifiers of a frozen policy stand for: an equal clock means the *)
(* same default stages, an equal version of a row the same stages.            *)
FrozenKnown ==
  \A i \in DOMAIN requests : LET q == requests[i] IN
    /\ q.docVersion <= doc.version
    /\ q.revision <= settings.revision
    /\ q.policy.scope = "default" /\ q.revision = settings.revision
         => q.policy.stages = DefaultStages
    /\ \A scope \in Scopes : q.policy.scope = scope =>
         /\ q.policy.version <= policies[scope].version
         /\ q.policy.version = policies[scope].version
              => q.policy.stages = policies[scope].stages

(* A publication that updateDocumentKnowledge still has in hand is void once  *)
(* the document has another version, so it never meets an approved one.       *)
PatchKnown ==
  patch # NoPatch =>
    /\ patch.version <= doc.version
    /\ patch.version = doc.version /\ patch.status = "published" /\ sealed # 0
         => doc.status = "published"

SealKnown == sealed # 0 => settings.enabled /\ requests[sealed].status = "approved"

(* The inductive invariant: what the other properties rest on.                *)
ApprovalInv == /\ TypeOK
               /\ FrozenKnown
               /\ PatchKnown
               /\ SealKnown
               /\ DecisionsFollowPolicy
               /\ PublishedAsApproved
               /\ OneLiveRequest

(* A request is approved only while approvals are on, by the very stages that *)
(* are in force at that moment, of the very snapshot the document has before  *)
(* and after: the code compares ids, versions and the clock, this compares    *)
(* what they stand for (docs/approval-guide.md: a request cannot be approved  *)
(* once the original or the policy has changed).                              *)
Approves(i) == i \in Pending /\ requests'[i].status = "approved"
ApprovedAsFrozen ==
  [][\A i \in DOMAIN requests : Approves(i) =>
       /\ settings.enabled
       /\ requests[i].policy.stages = InForce.stages
       /\ requests[i].snapshot = Shot(doc) /\ Shot(doc') = Shot(doc)
       /\ doc.status = "review" /\ doc'.status = "published"]_vars

(* History stands: no request disappears, one that has an outcome never       *)
(* changes again, and decisions of a pending one are only added to.           *)
OutcomesStand ==
  [][\A i \in DOMAIN requests :
       /\ i \in DOMAIN requests'
       /\ i \notin Pending => requests'[i] = requests[i]
       /\ requests[i].decisions \subseteq requests'[i].decisions]_vars

(* What approval_document.go:11-13 says of the lock order: nobody can switch  *)
(* approvals on between the check of a status and a direct publication, so    *)
(* that while they are on only an approval publishes.                         *)
OnlyApprovalsPublish ==
  [][settings.enabled /\ doc.status # "published" /\ doc'.status = "published"
       => \E i \in DOMAIN requests : Approves(i)]_vars
==============================================================================
