---------------------------- MODULE ApprovalProofs ---------------------------
(* Proofs about Approval: the inductive invariant, what decisions follow, and *)
(* what an approval approves, for any accounts, gates, policies and bounds.   *)
EXTENDS Approval, TLAPS

USE PeopleAssumption, PlacesAssumption, ShapesAssumption, BoundsAssumption, NoPatchAssumption
----------------
(* A nonempty choice of stages is in force, whatever the policies are.        *)
LEMMA ShapesExist == AnyShape \in Shapes
  BY DEF AnyShape

LEMMA RolesAsk == ASSUME NEW r \in Roles
                  PROVE  [all |-> TRUE, gates |-> {r}] \in Stage
<1>1. {r} \in (SUBSET Gates) \ {{}}
  OBVIOUS
<1> QED BY <1>1 DEF Stage

LEMMA DefaultAsks == ASSUME settings.role \in Roles
                     PROVE  DefaultStages \in Seq(Stage) /\ Len(DefaultStages) = 1
  BY RolesAsk DEF DefaultStages

LEMMA InForceType == ASSUME TypeOK
                     PROVE  /\ InForce \in Frozen
                            /\ InForce.stages \in Seq(Stage)
                            /\ Len(InForce.stages) > 0
<1>1. settings.role \in Roles BY DEF TypeOK
<1>2. CASE Covers("space")
  <2>1. InForce = Takes("space") BY <1>2 DEF InForce
  <2>2. /\ policies["space"].version \in Nat \ {0}
        /\ policies["space"].stages \in Shapes
    BY <1>2 DEF TypeOK, Covers, Policy, Scopes
  <2> QED BY <2>1, <2>2 DEF Takes, Frozen, Scopes
<1>3. CASE ~Covers("space") /\ Covers("workspace")
  <2>1. InForce = Takes("workspace") BY <1>3 DEF InForce
  <2>2. /\ policies["workspace"].version \in Nat \ {0}
        /\ policies["workspace"].stages \in Shapes
    BY <1>3 DEF TypeOK, Covers, Policy, Scopes
  <2> QED BY <2>1, <2>2 DEF Takes, Frozen, Scopes
<1>4. CASE ~Covers("space") /\ ~Covers("workspace")
  <2>1. InForce = [scope |-> "default", version |-> 0, stages |-> DefaultStages] BY <1>4 DEF InForce
  <2>2. DefaultStages \in Seq(Stage) /\ Len(DefaultStages) = 1 BY <1>1, DefaultAsks
  <2>3. InForce.stages = DefaultStages BY <2>1
  <2>4. InForce \in [scope : {"default"}, version : {0}, stages : Seq(Stage)] BY <2>1, <2>2
  <2>5. InForce \in Frozen BY <2>4 DEF Frozen
  <2>6. Len(InForce.stages) = 1 /\ InForce.stages \in Seq(Stage) BY <2>2, <2>3, Zenon
  <2> HIDE DEF InForce
  <2> QED BY <2>5, <2>6
<1> QED BY <1>2, <1>3, <1>4

LEMMA ShotType == ASSUME NEW d \in Document PROVE Shot(d) \in Snapshot
  BY DEF Shot, Document, Snapshot
----------------
(* Superseding keeps everything of a request but a pending status.            *)
LEMMA SupersedeKeeps ==
  ASSUME NEW all \in Seq(Request)
  PROVE  /\ Supersede(all) \in Seq(Request)
         /\ Len(Supersede(all)) = Len(all)
         /\ \A i \in 1 .. Len(all) :
              /\ Supersede(all)[i] = IF all[i].status = "pending"
                                     THEN [all[i] EXCEPT !.status = "superseded"] ELSE all[i]
              /\ Supersede(all)[i].status # "pending"
<1>1. ASSUME NEW q \in Request
      PROVE  [q EXCEPT !.status = "superseded"] \in Request
  BY <1>1 DEF Request, Outcomes
<1>2. ASSUME NEW q \in Request
      PROVE  [q EXCEPT !.status = "superseded"].status = "superseded"
  BY <1>2 DEF Request
<1> QED BY <1>1, <1>2 DEF Supersede

(* The fields that superseding, cancelling and deciding leave alone.          *)
Same(p, q) == /\ p.snapshot = q.snapshot /\ p.docVersion = q.docVersion
              /\ p.policy = q.policy /\ p.revision = q.revision
              /\ p.requester = q.requester /\ p.assigned = q.assigned

LEMMA ClosedIsSame ==
  ASSUME NEW q \in Request, NEW status \in Outcomes
  PROVE  LET p == [q EXCEPT !.status = status] IN
           /\ p \in Request /\ p.status = status
           /\ Same(p, q) /\ p.decisions = q.decisions /\ p.stage = q.stage
  BY DEF Request, Same

LEMMA ClosedIsWellDecided ==
  ASSUME NEW q \in Request, WellDecided(q), q.status = "pending",
         NEW status \in {"cancelled", "superseded"}
  PROVE  WellDecided([q EXCEPT !.status = status])
<1> DEFINE p == [q EXCEPT !.status = status]
<1>1. /\ p.status = status /\ p.stage = q.stage /\ p.decisions = q.decisions
      /\ Same(p, q)
  <2>1. status \in Outcomes BY DEF Outcomes
  <2> QED BY <2>1, ClosedIsSame
<1>2. \A s : Passed(p, s) <=> Passed(q, s) BY <1>1 DEF Passed, ApprovedGates, Same
<1> HIDE DEF p
<1>3. WellDecided(p) BY <1>1, <1>2 DEF WellDecided, Same
<1> QED BY <1>3 DEF p
----------------
(* One more decision: what it keeps, and when it ends the request.            *)
LEMMA DecidedKeeps ==
  ASSUME NEW q \in Request, NEW d \in Decision, q.status = "pending"
  PROVE  /\ Decided(q, d) \in Request
         /\ Same(Decided(q, d), q)
         /\ Decided(q, d).decisions = q.decisions \cup {d}
         /\ Decided(q, d).status \in {"pending", "approved", "rejected"}
         /\ Decided(q, d).status = "rejected" <=> ~d.approved
<1> DEFINE more == [q EXCEPT !.decisions = @ \cup {d}]
<1>1. /\ more \in Request /\ Same(more, q) /\ more.status = "pending"
      /\ more.decisions = q.decisions \cup {d}
      /\ more.stage \in Nat
  BY DEF Request, Same
<1>2. Decided(q, d) = IF ~d.approved THEN [more EXCEPT !.status = "rejected"]
                      ELSE IF ~StageDone(more) THEN more
                      ELSE IF more.stage = Len(more.policy.stages)
                           THEN [more EXCEPT !.status = "approved"]
                      ELSE [more EXCEPT !.stage = @ + 1]
  BY Zenon DEF Decided
<1> HIDE DEF more
<1>3. /\ [more EXCEPT !.stage = @ + 1] \in Request
      /\ Same([more EXCEPT !.stage = @ + 1], more)
      /\ [more EXCEPT !.stage = @ + 1].status = "pending"
      /\ [more EXCEPT !.stage = @ + 1].decisions = more.decisions
  <2>1. \A n \in Nat : [more EXCEPT !.stage = n] \in Request BY <1>1 DEF Request
  <2>2. /\ Same([more EXCEPT !.stage = @ + 1], more)
        /\ [more EXCEPT !.stage = @ + 1].status = more.status
        /\ [more EXCEPT !.stage = @ + 1].decisions = more.decisions
    BY <1>1 DEF Request, Same
  <2>3. more.stage + 1 \in Nat BY <1>1
  <2>4. [more EXCEPT !.stage = @ + 1] \in Request BY <2>1, <2>3, Zenon
  <2> QED BY <1>1, <2>2, <2>4
<1>4. \A status \in {"approved", "rejected"} :
        /\ [more EXCEPT !.status = status] \in Request
        /\ Same([more EXCEPT !.status = status], more)
        /\ [more EXCEPT !.status = status].status = status
        /\ [more EXCEPT !.status = status].decisions = more.decisions
  BY <1>1 DEF Request, Same, Outcomes
<1>5. CASE ~d.approved BY <1>1, <1>2, <1>4, <1>5 DEF Same
<1>6. CASE d.approved BY <1>1, <1>2, <1>3, <1>4, <1>6 DEF Same
<1> QED BY <1>5, <1>6

LEMMA EarlierStages ==
  ASSUME NEW q \in Request, NEW d \in Decision, d.stage = q.stage,
         NEW p \in Request, p.policy = q.policy, p.decisions = q.decisions \cup {d},
         NEW s, s # q.stage
  PROVE  Passed(p, s) <=> Passed(q, s)
  BY DEF Passed, ApprovedGates

LEMMA DecidedFollows ==
  ASSUME NEW q \in Request, NEW u \in Users, NEW g \in Gates, NEW approved \in BOOLEAN,
         WellDecided(q), q.status = "pending", Eligible(q, g, u)
  PROVE  WellDecided(Decided(q, [stage |-> q.stage, gate |-> g, user |-> u, approved |-> approved]))
<1> DEFINE d    == [stage |-> q.stage, gate |-> g, user |-> u, approved |-> approved]
           p    == Decided(q, d)
           more == [q EXCEPT !.decisions = @ \cup {d}]
<1>1. /\ d \in Decision /\ d.stage = q.stage /\ d.gate = g /\ d.user = u
      /\ q.stage \in Nat
  BY DEF Decision, Request
<1>2. d.approved <=> approved BY ZenonT(30)
<1>3. /\ p \in Request /\ Same(p, q) /\ p.decisions = q.decisions \cup {d}
      /\ p.status \in {"pending", "approved", "rejected"}
      /\ p.status = "rejected" <=> ~d.approved
  BY <1>1, DecidedKeeps
<1>4. /\ more \in Request /\ more.policy = q.policy /\ more.stage = q.stage
      /\ more.decisions = q.decisions \cup {d}
  BY <1>1 DEF Request
<1>5. \A s : s # q.stage => (Passed(p, s) <=> Passed(q, s)) BY <1>1, <1>3, EarlierStages DEF Same
<1>6. \A s : ApprovedGates(p, s) = ApprovedGates(more, s) BY <1>3, <1>4 DEF ApprovedGates
<1>7. ASSUME d.approved, StageDone(more)
      PROVE  Passed(p, q.stage)
  <2>1. g \in ApprovedGates(p, q.stage) BY <1>1, <1>3, <1>7 DEF ApprovedGates
  <2>2. ApprovedGates(p, q.stage) = q.policy.stages[q.stage].gates
          \/ ~q.policy.stages[q.stage].all
    BY <1>4, <1>6, <1>7 DEF StageDone, Asked
  <2> QED BY <1>3, <2>1, <2>2 DEF Passed, Same
<1>8. \/ p.stage = q.stage /\ p.status # "approved"
      \/ /\ d.approved /\ StageDone(more)
         /\ p.stage = q.stage /\ q.stage = Len(q.policy.stages) /\ p.status = "approved"
      \/ /\ d.approved /\ StageDone(more)
         /\ p.stage = q.stage + 1 /\ q.stage # Len(q.policy.stages) /\ p.status = "pending"
  BY <1>1, <1>4 DEF Decided, Request
<1>9. q.stage \in DOMAIN q.policy.stages /\ q.policy.stages \in Seq(Stage)
  BY DEF WellDecided, Request, Frozen
<1>10. p.policy = q.policy /\ p.assigned = q.assigned /\ p.requester = q.requester
         /\ p.snapshot = q.snapshot
  BY <1>3 DEF Same
<1> HIDE DEF d, p, more
<1>11. p.stage \in DOMAIN p.policy.stages BY <1>8, <1>9, <1>10
<1>12. \A s \in 1 .. p.stage - 1 : Passed(p, s) BY <1>1, <1>5, <1>7, <1>8 DEF WellDecided
<1>13. p.status = "approved" => p.stage = Len(p.policy.stages) /\ Passed(p, p.stage)
  BY <1>7, <1>8, <1>10
<1>14. /\ g \in q.policy.stages[q.stage].gates
       /\ u \in q.assigned[g] \ {q.requester, q.snapshot.owner}
       /\ \A e \in q.decisions : ~(e.stage = q.stage /\ e.gate = g)
  BY DEF Eligible, Asked
<1>15. ASSUME NEW e \in p.decisions
       PROVE  /\ e.stage \in 1 .. p.stage
              /\ e.gate \in p.policy.stages[e.stage].gates
              /\ e.user \in p.assigned[e.gate] \ {p.requester, p.snapshot.owner}
              /\ ~e.approved => p.status = "rejected"
              /\ \A f \in p.decisions : f.stage = e.stage /\ f.gate = e.gate => f = e
  <2>1. e \in q.decisions \/ e = d BY <1>3, <1>15
  <2>2. p.stage \in Nat /\ q.stage <= p.stage /\ q.stage >= 1 BY <1>1, <1>8, <1>9
  <2>3. /\ e.stage \in 1 .. q.stage
        /\ e.gate \in q.policy.stages[e.stage].gates
        /\ e.user \in q.assigned[e.gate] \ {q.requester, q.snapshot.owner}
    <3>1. CASE e \in q.decisions BY <3>1 DEF WellDecided
    <3>2. CASE e = d BY <1>1, <1>14, <1>9, <2>2, <3>2
    <3> QED BY <2>1, <3>1, <3>2
  <2>4. ~e.approved => p.status = "rejected"
    <3>1. CASE e \in q.decisions BY <3>1 DEF WellDecided
    <3>2. CASE e = d BY <1>3, <3>2
    <3> QED BY <2>1, <3>1, <3>2
  <2>5. \A f \in p.decisions : f.stage = e.stage /\ f.gate = e.gate => f = e
    <3>1. \A f \in q.decisions : \A h \in q.decisions :
            f.stage = h.stage /\ f.gate = h.gate => f = h
      BY DEF WellDecided
    <3> QED BY <1>1, <1>3, <1>14, <2>1, <3>1
  <2>6. /\ e.stage \in 1 .. p.stage
        /\ e.gate \in p.policy.stages[e.stage].gates
        /\ e.user \in p.assigned[e.gate] \ {p.requester, p.snapshot.owner}
    <3>1. e.stage \in 1 .. p.stage BY <1>1, <2>2, <2>3
    <3>2. e.gate \in p.policy.stages[e.stage].gates BY <1>10, <2>3, Zenon
    <3>3. e.user \in p.assigned[e.gate] \ {p.requester, p.snapshot.owner} BY <1>10, <2>3, Zenon
    <3> QED BY <3>1, <3>2, <3>3
  <2> QED BY <2>4, <2>5, <2>6, ZenonT(30)
<1>16. WellDecided(p) BY <1>11, <1>12, <1>13, <1>15 DEF WellDecided
<1> QED BY <1>16 DEF p, d
----------------
(* What the operations on the document have in common: nothing of approval    *)
(* changes, the version advances unless only metadata moved, and a document   *)
(* that shows an approved text goes on showing it or stops being published.   *)
DocStep ==
  /\ ApprovalUntouched
  /\ doc' \in Document /\ doc'.rest \in doc'.seen
  /\ \/ doc'.version = doc.version + 1
     \/ /\ doc'.version = doc.version /\ doc'.body = doc.body /\ doc'.owner = doc.owner
        /\ doc'.status = doc.status /\ doc'.deleted = doc.deleted
  /\ doc'.status = "published" /\ sealed # 0
       => doc.status = "published" /\ doc'.body = doc.body
  /\ patch' = patch \/ patch' = NoPatch

LEMMA Revising ==
  ASSUME doc \in Document, doc.version < MaxVersion,
         NEW d \in Document, Revise(d)
  PROVE  /\ doc' \in Document /\ doc'.rest \in doc'.seen
         /\ doc'.version = doc.version + 1
         /\ doc'.body = d.body /\ doc'.owner = d.owner /\ doc'.rest = d.rest
         /\ doc'.status = d.status /\ doc'.deleted = d.deleted
<1>1. doc.version + 1 \in 1 .. MaxVersion /\ d.rest \in Rests BY DEF Document
<1>2. doc' = [d EXCEPT !.version = doc.version + 1, !.seen = {d.rest}] BY DEF Revise
<1> QED BY <1>1, <1>2 DEF Document

LEMMA SaveDocumentStep == ApprovalInv /\ SaveDocument => DocStep
<1> SUFFICES ASSUME ApprovalInv, SaveDocument PROVE DocStep
  OBVIOUS
<1>1. doc \in Document /\ doc.version < MaxVersion /\ doc.status \in Status
  BY DEF SaveDocument, Open, ApprovalInv, TypeOK, Document
<1>2. PICK old \in doc.seen, b \in Bodies, r \in Rests, status \in ByHand \cup {doc.status} :
        LET new == [doc EXCEPT !.body = b, !.rest = r] IN
          /\ MaySave(status)
          /\ Revise([new EXCEPT !.status = SaveStatus([doc EXCEPT !.rest = old], new, status)])
  BY Zenon DEF SaveDocument
<1> DEFINE new    == [doc EXCEPT !.body = b, !.rest = r]
           before == [doc EXCEPT !.rest = old]
           chosen == SaveStatus(before, new, status)
           d      == [new EXCEPT !.status = chosen]
<1>3. Revise(d) /\ MaySave(status) BY <1>2
<1>4. old \in Rests /\ status \in Status BY <1>1 DEF Document, ByHand, Status
<1>5. new \in Document /\ new.body = b /\ before.body = doc.body BY <1>1, <1>4 DEF Document
<1>6. chosen \in Status BY <1>4 DEF SaveStatus, Status
<1>7. d \in Document /\ d.body = b /\ d.status = chosen BY <1>5, <1>6 DEF Document
<1>8. Shot(new) = Shot(before) => b = doc.body BY <1>5 DEF Shot
<1>9. sealed # 0 => settings.enabled BY DEF ApprovalInv, SealKnown
<1>10. chosen = "published" /\ sealed # 0 => doc.status = "published" /\ b = doc.body
  BY <1>3, <1>8, <1>9 DEF SaveStatus, MaySave
<1> HIDE DEF d, chosen, new, before
<1>11. /\ doc' \in Document /\ doc'.rest \in doc'.seen
       /\ doc'.version = doc.version + 1 /\ doc'.body = b /\ doc'.status = chosen
  BY <1>1, <1>3, <1>7, Revising
<1> QED BY <1>10, <1>11 DEF DocStep, SaveDocument

LEMMA CollaborationSteps ==
  ApprovalInv /\ (CollaborativeEdit \/ CollaborativeMetadata) => DocStep
<1> SUFFICES ASSUME ApprovalInv PROVE CollaborativeEdit \/ CollaborativeMetadata => DocStep
  OBVIOUS
<1>1. doc \in Document /\ doc.status \in Status /\ doc.rest \in doc.seen
  BY DEF ApprovalInv, TypeOK, Document
<1>2. sealed # 0 => settings.enabled BY DEF ApprovalInv, SealKnown
<1>3. CASE CollaborativeEdit
  <2>1. doc.version < MaxVersion BY <1>3 DEF CollaborativeEdit, Open
  <2>2. PICK b \in Bodies \ {doc.body}, r \in Rests :
          Revise([doc EXCEPT !.body = b, !.rest = r,
                             !.status = IF settings.enabled THEN "draft" ELSE @])
    BY <1>3 DEF CollaborativeEdit
  <2> DEFINE s == IF settings.enabled THEN "draft" ELSE doc.status
             d == [doc EXCEPT !.body = b, !.rest = r, !.status = s]
  <2>3. s \in Status /\ (s = "published" => ~settings.enabled) BY <1>1 DEF Status
  <2>4. Revise(d) BY <2>2
  <2> HIDE DEF s
  <2>5. d \in Document /\ d.status = s BY <1>1, <2>3 DEF Document
  <2> HIDE DEF d
  <2>6. /\ doc' \in Document /\ doc'.rest \in doc'.seen
        /\ doc'.version = doc.version + 1 /\ doc'.status = s
    BY <1>1, <2>1, <2>4, <2>5, Revising
  <2> QED BY <1>2, <1>3, <2>3, <2>6 DEF DocStep, CollaborativeEdit
<1>4. CASE CollaborativeMetadata
  <2>1. PICK r \in Rests \ {doc.rest} : doc' = [doc EXCEPT !.rest = r, !.seen = @ \cup {r}]
    BY <1>4 DEF CollaborativeMetadata
  <2>2. /\ doc' \in Document /\ doc'.rest \in doc'.seen
        /\ doc'.version = doc.version /\ doc'.body = doc.body /\ doc'.owner = doc.owner
        /\ doc'.status = doc.status /\ doc'.deleted = doc.deleted
    BY <1>1, <2>1 DEF Document
  <2> QED BY <1>4, <2>2 DEF DocStep, CollaborativeMetadata
<1> QED BY <1>3, <1>4

LEMMA FilingSteps ==
  ApprovalInv /\ (ClassifyCapture \/ MarkStale \/ DeleteDocument) => DocStep
<1> SUFFICES ASSUME ApprovalInv
             PROVE  ClassifyCapture \/ MarkStale \/ DeleteDocument => DocStep
  OBVIOUS
<1>1. doc \in Document /\ doc.status \in Status BY DEF ApprovalInv, TypeOK, Document
<1>2. CASE ClassifyCapture
  <2>1. doc.version < MaxVersion BY <1>2 DEF ClassifyCapture, Open
  <2>2. PICK r \in Rests : Revise([doc EXCEPT !.rest = r]) BY <1>2 DEF ClassifyCapture
  <2> DEFINE d == [doc EXCEPT !.rest = r]
  <2>3. Revise(d) /\ d \in Document /\ d.status = doc.status /\ d.body = doc.body
    BY <1>1, <2>2 DEF Document
  <2> HIDE DEF d
  <2>4. /\ doc' \in Document /\ doc'.rest \in doc'.seen /\ doc'.version = doc.version + 1
        /\ doc'.status = doc.status /\ doc'.body = doc.body
    BY <1>1, <2>1, <2>3, Revising
  <2> QED BY <1>2, <2>4 DEF DocStep, ClassifyCapture
<1>3. CASE MarkStale
  <2>1. doc.version < MaxVersion BY <1>3 DEF MarkStale, Open
  <2> DEFINE d == [doc EXCEPT !.status = "stale"]
  <2>2. Revise(d) /\ d \in Document /\ d.status = "stale"
    BY <1>1, <1>3 DEF MarkStale, Document, Status
  <2> HIDE DEF d
  <2>3. /\ doc' \in Document /\ doc'.rest \in doc'.seen /\ doc'.version = doc.version + 1
        /\ doc'.status = "stale"
    BY <1>1, <2>1, <2>2, Revising
  <2> QED BY <1>3, <2>3 DEF DocStep, MarkStale
<1>4. CASE DeleteDocument
  <2>1. doc.version < MaxVersion BY <1>4 DEF DeleteDocument, Open
  <2> DEFINE d == [doc EXCEPT !.deleted = TRUE]
  <2>2. Revise(d) /\ d \in Document /\ d.status = doc.status /\ d.body = doc.body
    BY <1>1, <1>4 DEF DeleteDocument, Document
  <2> HIDE DEF d
  <2>3. /\ doc' \in Document /\ doc'.rest \in doc'.seen /\ doc'.version = doc.version + 1
        /\ doc'.status = doc.status /\ doc'.body = doc.body
    BY <1>1, <2>1, <2>2, Revising
  <2> QED BY <1>4, <2>3 DEF DocStep, DeleteDocument
<1> QED BY <1>2, <1>3, <1>4

LEMMA RestoreStep == ApprovalInv /\ RestoreDocument => DocStep
<1> SUFFICES ASSUME ApprovalInv, RestoreDocument PROVE DocStep
  OBVIOUS
<1>1. doc \in Document /\ doc.version < MaxVersion /\ doc.status \in Status
  BY DEF RestoreDocument, ApprovalInv, TypeOK, Document
<1>2. PICK b \in Bodies, r \in Rests :
        LET new == [doc EXCEPT !.body = b, !.rest = r, !.deleted = FALSE] IN
          Revise([new EXCEPT !.status = SaveStatus(doc, new, doc.status)])
  BY DEF RestoreDocument
<1> DEFINE new    == [doc EXCEPT !.body = b, !.rest = r, !.deleted = FALSE]
           chosen == SaveStatus(doc, new, doc.status)
           d      == [new EXCEPT !.status = chosen]
<1>3. Revise(d) BY <1>2
<1>4. new \in Document /\ new.body = b BY <1>1 DEF Document
<1>5. chosen \in Status BY <1>1 DEF SaveStatus, Status
<1>6. d \in Document /\ d.body = b /\ d.status = chosen BY <1>4, <1>5 DEF Document
<1>7. Shot(new) = Shot(doc) => b = doc.body BY <1>4 DEF Shot
<1>8. sealed # 0 => settings.enabled BY DEF ApprovalInv, SealKnown
<1>9. chosen = "published" /\ sealed # 0 => doc.status = "published" /\ b = doc.body
  BY <1>7, <1>8 DEF SaveStatus
<1> HIDE DEF d, chosen, new
<1>10. /\ doc' \in Document /\ doc'.rest \in doc'.seen
       /\ doc'.version = doc.version + 1 /\ doc'.body = b /\ doc'.status = chosen
  BY <1>1, <1>3, <1>6, Revising
<1> QED BY <1>9, <1>10 DEF DocStep, RestoreDocument

LEMMA WriteKnowledgeStep == ApprovalInv /\ WriteKnowledge => DocStep
<1> SUFFICES ASSUME ApprovalInv, WriteKnowledge PROVE DocStep
  OBVIOUS
<1>1. doc \in Document /\ doc.rest \in doc.seen /\ patch \in Patch
  BY DEF WriteKnowledge, ApprovalInv, TypeOK
<1>2. CASE Open /\ patch.version = doc.version
  <2> DEFINE d == [doc EXCEPT !.owner = patch.owner, !.status = patch.status]
  <2>1. d \in Document /\ d.status = patch.status /\ d.body = doc.body BY <1>1 DEF Document, Patch
  <2>2. Revise(d) /\ doc.version < MaxVersion BY <1>2 DEF WriteKnowledge, Open
  <2> HIDE DEF d
  <2>3. /\ doc' \in Document /\ doc'.rest \in doc'.seen /\ doc'.version = doc.version + 1
        /\ doc'.status = patch.status /\ doc'.body = doc.body
    BY <1>1, <2>1, <2>2, Revising
  <2>4. patch.status = "published" /\ sealed # 0 => doc.status = "published"
    BY <1>2 DEF ApprovalInv, PatchKnown, WriteKnowledge
  <2> QED BY <2>3, <2>4 DEF DocStep, WriteKnowledge
<1>3. CASE ~(Open /\ patch.version = doc.version) BY <1>1, <1>3 DEF DocStep, WriteKnowledge
<1> QED BY <1>2, <1>3
----------------
LEMMA RequestsTyped == TypeOK => \A i \in DOMAIN requests :
                         /\ requests[i] \in Request
                         /\ requests[i].docVersion \in Nat /\ requests[i].revision \in Nat
<1> SUFFICES ASSUME TypeOK, NEW i \in DOMAIN requests
             PROVE  /\ requests[i] \in Request
                    /\ requests[i].docVersion \in Nat /\ requests[i].revision \in Nat
  OBVIOUS
<1>1. requests[i] \in Request BY DEF TypeOK
<1>2. \A q \in Request : q.docVersion \in Nat /\ q.revision \in Nat BY DEF Request
<1> QED BY <1>1, <1>2

LEMMA DocStepKeeps == ApprovalInv /\ DocStep => ApprovalInv'
<1> SUFFICES ASSUME ApprovalInv, DocStep PROVE ApprovalInv'
  OBVIOUS
<1>1. /\ policies' = policies /\ settings' = settings /\ may' = may
      /\ requests' = requests /\ sealed' = sealed
  BY DEF DocStep, ApprovalUntouched
<1>2. /\ doc.version \in Nat /\ doc'.version \in Nat /\ doc'.version >= doc.version
  BY DEF DocStep, ApprovalInv, TypeOK, Document
<1>3. \A i \in DOMAIN requests : requests[i] \in Request /\ requests[i].docVersion \in Nat
  BY RequestsTyped DEF ApprovalInv
<1>4. TypeOK' BY <1>1 DEF DocStep, ApprovalInv, TypeOK
<1>5. FrozenKnown'
  <2>1. DefaultStages' = DefaultStages BY <1>1 DEF DefaultStages
  <2> QED BY <1>1, <1>2, <1>3, <2>1 DEF ApprovalInv, FrozenKnown
<1>6. PatchKnown'
  <2>1. CASE patch' = NoPatch BY <2>1 DEF PatchKnown
  <2>2. CASE patch' = patch /\ patch # NoPatch
    <3>1. patch.version \in Nat BY <2>2 DEF ApprovalInv, TypeOK, Patch
    <3> QED BY <1>1, <1>2, <2>2, <3>1 DEF DocStep, ApprovalInv, PatchKnown
  <2> QED BY <2>1, <2>2 DEF DocStep
<1>7. SealKnown' /\ DecisionsFollowPolicy' BY <1>1 DEF ApprovalInv, SealKnown, DecisionsFollowPolicy
<1>8. PublishedAsApproved' BY <1>1 DEF DocStep, ApprovalInv, PublishedAsApproved
<1>9. OneLiveRequest'
  <2>1. Pending' = Pending BY <1>1 DEF Pending
  <2>2. \A i \in Pending : i \in DOMAIN requests /\ requests[i].docVersion <= doc.version
    BY DEF Pending, ApprovalInv, FrozenKnown
  <2> QED BY <1>1, <1>2, <1>3, <2>1, <2>2 DEF DocStep, ApprovalInv, OneLiveRequest
<1> QED BY <1>4, <1>5, <1>6, <1>7, <1>8, <1>9 DEF ApprovalInv

LEMMA ReadKnowledgeKeeps == ApprovalInv /\ ReadKnowledge => ApprovalInv'
<1> SUFFICES ASSUME ApprovalInv, ReadKnowledge PROVE ApprovalInv'
  OBVIOUS
<1>1. /\ policies' = policies /\ settings' = settings /\ may' = may
      /\ requests' = requests /\ sealed' = sealed /\ doc' = doc
  BY DEF ReadKnowledge, ApprovalUntouched
<1>2. PICK status \in ByHand \cup {doc.status}, owner \in Writers \cup {doc.owner} :
        /\ status = "published" /\ status # doc.status => ~settings.enabled
        /\ patch' = [version |-> doc.version, status |-> status, owner |-> owner]
  BY DEF ReadKnowledge
<1>3. patch' \in Patch BY <1>2 DEF ApprovalInv, TypeOK, Document, Patch, ByHand, Status
<1>4. TypeOK' BY <1>1, <1>3 DEF ApprovalInv, TypeOK
<1>5. FrozenKnown' /\ SealKnown' /\ DecisionsFollowPolicy' /\ PublishedAsApproved'
  BY <1>1 DEF ApprovalInv, FrozenKnown, SealKnown, DecisionsFollowPolicy, PublishedAsApproved,
              DefaultStages
<1>6. OneLiveRequest' BY <1>1 DEF ApprovalInv, OneLiveRequest, Pending
<1>7. PatchKnown'
  <2>1. doc.version \in Nat BY DEF ApprovalInv, TypeOK, Document
  <2>2. sealed # 0 => settings.enabled BY DEF ApprovalInv, SealKnown
  <2> QED BY <1>1, <1>2, <2>1, <2>2 DEF PatchKnown
<1> QED BY <1>4, <1>5, <1>6, <1>7 DEF ApprovalInv

(* Settings, policies and rights: documents and requests are left alone, and  *)
(* what a frozen policy is compared with moves on or stays as it is.          *)
LEMMA UpdateSettingsKeeps == ApprovalInv /\ UpdateSettings => ApprovalInv'
<1> SUFFICES ASSUME ApprovalInv, UpdateSettings PROVE ApprovalInv'
  OBVIOUS
<1>1. /\ policies' = policies /\ may' = may /\ requests' = requests /\ doc' = doc
      /\ patch' = patch
  BY DEF UpdateSettings
<1>2. PICK enabled \in BOOLEAN, role \in Roles :
        /\ settings' = [enabled |-> enabled, role |-> role, revision |-> Clock(enabled, role)]
        /\ sealed' = IF enabled THEN sealed ELSE 0
  BY DEF UpdateSettings
<1>3. settings \in [enabled : BOOLEAN, role : Roles, revision : Nat] BY DEF ApprovalInv, TypeOK
<1>4. Clock(enabled, role) \in Nat /\ Clock(enabled, role) >= settings.revision BY <1>3 DEF Clock
<1>5. /\ settings' \in [enabled : BOOLEAN, role : Roles, revision : Nat]
      /\ settings'.revision = Clock(enabled, role) /\ settings'.role = role
  BY <1>2, <1>4
<1>6. Clock(enabled, role) = settings.revision => role = settings.role BY <1>3 DEF Clock
<1>7. sealed' \in {0, sealed} BY <1>2
<1>8. TypeOK' BY <1>1, <1>5, <1>7 DEF ApprovalInv, TypeOK
<1>9. FrozenKnown'
  <2>1. settings'.revision = settings.revision => DefaultStages' = DefaultStages
    BY <1>5, <1>6 DEF DefaultStages
  <2>2. settings'.revision >= settings.revision /\ settings'.revision \in Nat
          /\ settings.revision \in Nat
    BY <1>3, <1>4, <1>5
  <2>3. \A i \in DOMAIN requests : requests[i].revision \in Nat BY RequestsTyped DEF ApprovalInv
  <2> QED BY <1>1, <2>1, <2>2, <2>3 DEF ApprovalInv, FrozenKnown
<1>10. PatchKnown' /\ DecisionsFollowPolicy' /\ PublishedAsApproved'
  BY <1>1, <1>7 DEF ApprovalInv, PatchKnown, DecisionsFollowPolicy, PublishedAsApproved
<1>11. SealKnown'
  <2>1. CASE enabled
    <3>1. settings'.enabled BY <1>2, <2>1
    <3> QED BY <1>1, <1>2, <2>1, <3>1 DEF ApprovalInv, SealKnown
  <2>2. CASE ~enabled BY <1>2, <2>2 DEF SealKnown
  <2> QED BY <2>1, <2>2
<1>12. OneLiveRequest' BY <1>1 DEF ApprovalInv, OneLiveRequest, Pending
<1> QED BY <1>8, <1>9, <1>10, <1>11, <1>12 DEF ApprovalInv

LEMMA PolicyKeeps == ApprovalInv /\ (SavePolicy \/ DisablePolicy) => ApprovalInv'
<1> SUFFICES ASSUME ApprovalInv, SavePolicy \/ DisablePolicy PROVE ApprovalInv'
  OBVIOUS
<1>1. /\ settings' = settings /\ may' = may /\ requests' = requests /\ doc' = doc
      /\ patch' = patch /\ sealed' = sealed
  BY DEF SavePolicy, DisablePolicy
<1>2. policies \in [Scopes -> Policy] BY DEF ApprovalInv, TypeOK
<1>3. /\ policies' \in [Scopes -> Policy]
      /\ \A scope \in Scopes : policies'[scope].enabled => policies'[scope].version > 0
      /\ \A scope \in Scopes :
           policies'[scope] = policies[scope]
             \/ policies'[scope].version = policies[scope].version + 1
  <2>1. CASE SavePolicy
    <3>1. PICK scope \in Scopes, enabled \in BOOLEAN, shape \in Shapes :
            policies' = [policies EXCEPT ![scope] =
                           [version |-> @.version + 1, enabled |-> enabled, stages |-> shape]]
      BY <2>1 DEF SavePolicy
    <3> DEFINE row == [version |-> policies[scope].version + 1,
                       enabled |-> enabled, stages |-> shape]
    <3>2. row \in Policy /\ row.version = policies[scope].version + 1 /\ row.version > 0
      BY <1>2 DEF Policy
    <3>3. policies' = [policies EXCEPT ![scope] = row] BY <3>1
    <3> HIDE DEF row
    <3> QED BY <1>2, <3>2, <3>3 DEF ApprovalInv, TypeOK
  <2>2. CASE DisablePolicy
    <3>1. PICK scope \in Scopes :
            policies' = [policies EXCEPT ![scope].version = @ + 1, ![scope].enabled = FALSE]
      BY <2>2 DEF DisablePolicy
    <3> DEFINE old == policies[scope]
               row == [old EXCEPT !.version = @ + 1, !.enabled = FALSE]
    <3>2. row \in Policy /\ row.version = old.version + 1 /\ row.version > 0
      <4>1. old \in Policy BY <1>2
      <4> HIDE DEF old
      <4>2. old.version + 1 \in Nat /\ old.version + 1 > 0 BY <4>1 DEF Policy
      <4>3. \A n \in Nat : LET p == [old EXCEPT !.version = n, !.enabled = FALSE] IN
              p \in Policy /\ p.version = n
        BY <4>1 DEF Policy
      <4> QED BY <4>2, <4>3
    <3>3. policies' = [policies EXCEPT ![scope] = row] BY <1>2, <3>1
    <3> HIDE DEF row
    <3> QED BY <1>2, <3>2, <3>3 DEF ApprovalInv, TypeOK
  <2> QED BY <2>1, <2>2
<1>4. TypeOK' BY <1>1, <1>3 DEF ApprovalInv, TypeOK
<1>5. FrozenKnown'
  <2>1. DefaultStages' = DefaultStages BY <1>1 DEF DefaultStages
  <2>2. \A i \in DOMAIN requests : requests[i].policy.version \in Nat
    <3>1. \A q \in Request : q.policy \in Frozen BY DEF Request
    <3>2. \A f \in Frozen : f.version \in Nat BY DEF Frozen
    <3> QED BY <3>1, <3>2, RequestsTyped DEF ApprovalInv
  <2>3. \A scope \in Scopes : policies[scope].version \in Nat BY <1>2 DEF Policy
  <2>4. \A i \in DOMAIN requests : \A scope \in Scopes : requests[i].policy.scope = scope =>
          /\ requests[i].policy.version <= policies'[scope].version
          /\ requests[i].policy.version = policies'[scope].version
               => requests[i].policy.stages = policies'[scope].stages
    BY <1>3, <2>2, <2>3 DEF ApprovalInv, FrozenKnown
  <2> QED BY <1>1, <2>1, <2>4 DEF ApprovalInv, FrozenKnown
<1>6. PatchKnown' /\ SealKnown' /\ DecisionsFollowPolicy' /\ PublishedAsApproved'
  BY <1>1 DEF ApprovalInv, PatchKnown, SealKnown, DecisionsFollowPolicy, PublishedAsApproved
<1>7. OneLiveRequest' BY <1>1 DEF ApprovalInv, OneLiveRequest, Pending
<1> QED BY <1>4, <1>5, <1>6, <1>7 DEF ApprovalInv

LEMMA RightsKeep == ApprovalInv /\ (ChangeRights \/ UNCHANGED vars) => ApprovalInv'
<1> SUFFICES ASSUME ApprovalInv, ChangeRights \/ UNCHANGED vars PROVE ApprovalInv'
  OBVIOUS
<1>1. /\ policies' = policies /\ settings' = settings /\ requests' = requests
      /\ doc' = doc /\ patch' = patch /\ sealed' = sealed
  BY DEF ChangeRights, vars
<1>2. may' \in [Gates -> SUBSET Reviewers] BY DEF ChangeRights, vars, ApprovalInv, TypeOK
<1>3. TypeOK' BY <1>1, <1>2 DEF ApprovalInv, TypeOK
<1>4. FrozenKnown' /\ PatchKnown' /\ SealKnown' /\ DecisionsFollowPolicy' /\ PublishedAsApproved'
  BY <1>1 DEF ApprovalInv, FrozenKnown, PatchKnown, SealKnown, DecisionsFollowPolicy,
              PublishedAsApproved, DefaultStages
<1>5. OneLiveRequest' BY <1>1 DEF ApprovalInv, OneLiveRequest, Pending
<1> QED BY <1>3, <1>4, <1>5 DEF ApprovalInv
----------------
(* Requests: superseding keeps what was decided and leaves none pending; so   *)
(* does cancelling, and a decision changes one request as DecidedFollows says.*)
LEMMA SupersedeFollows ==
  ASSUME requests \in Seq(Request), DecisionsFollowPolicy
  PROVE  /\ Supersede(requests) \in Seq(Request)
         /\ DOMAIN Supersede(requests) = DOMAIN requests
         /\ Len(Supersede(requests)) = Len(requests)
         /\ \A i \in DOMAIN requests :
              /\ Same(Supersede(requests)[i], requests[i])
              /\ Supersede(requests)[i].status # "pending"
              /\ requests[i].status # "pending" => Supersede(requests)[i] = requests[i]
              /\ Supersede(requests)[i].decisions = requests[i].decisions
              /\ WellDecided(Supersede(requests)[i])
<1>1. /\ Supersede(requests) \in Seq(Request)
      /\ Len(Supersede(requests)) = Len(requests)
      /\ \A i \in 1 .. Len(requests) :
           /\ Supersede(requests)[i] =
                IF requests[i].status = "pending"
                THEN [requests[i] EXCEPT !.status = "superseded"] ELSE requests[i]
           /\ Supersede(requests)[i].status # "pending"
  BY SupersedeKeeps
<1>2. ASSUME NEW i \in DOMAIN requests
      PROVE  /\ Same(Supersede(requests)[i], requests[i])
             /\ requests[i].status # "pending" => Supersede(requests)[i] = requests[i]
             /\ Supersede(requests)[i].decisions = requests[i].decisions
             /\ WellDecided(Supersede(requests)[i])
  <2>1. i \in 1 .. Len(requests) /\ requests[i] \in Request /\ WellDecided(requests[i])
    BY DEF DecisionsFollowPolicy
  <2>2. CASE requests[i].status = "pending"
    <3> DEFINE p == [requests[i] EXCEPT !.status = "superseded"]
    <3>1. Supersede(requests)[i] = p BY <1>1, <2>1, <2>2
    <3>2. "superseded" \in Outcomes BY DEF Outcomes
    <3>3. Same(p, requests[i]) /\ p.decisions = requests[i].decisions BY <2>1, <3>2, ClosedIsSame
    <3>4. WellDecided(p) BY <2>1, <2>2, ClosedIsWellDecided
    <3> HIDE DEF p
    <3> QED BY <2>2, <3>1, <3>3, <3>4
  <2>3. CASE requests[i].status # "pending" BY <1>1, <2>1, <2>3 DEF Same
  <2> QED BY <2>2, <2>3
<1>3. DOMAIN Supersede(requests) = DOMAIN requests BY <1>1
<1>4. \A i \in DOMAIN requests : Supersede(requests)[i].status # "pending"
  <2>1. DOMAIN requests = 1 .. Len(requests)
    OBVIOUS
  <2> QED BY <1>1, <2>1, Zenon
<1> QED BY <1>1, <1>2, <1>3, <1>4, Zenon

LEMMA QuarantineKeeps == ApprovalInv /\ Quarantine => ApprovalInv'
<1> SUFFICES ASSUME ApprovalInv, Quarantine PROVE ApprovalInv'
  OBVIOUS
<1>1. /\ policies' = policies /\ may' = may /\ doc' = doc /\ patch' = patch
      /\ sealed' = sealed /\ requests' = Supersede(requests)
      /\ settings' = [settings EXCEPT !.revision = @ + 1]
  BY DEF Quarantine
<1>2. settings \in [enabled : BOOLEAN, role : Roles, revision : Nat] /\ requests \in Seq(Request)
  BY DEF ApprovalInv, TypeOK
<1>3. /\ settings' \in [enabled : BOOLEAN, role : Roles, revision : Nat]
      /\ settings'.revision = settings.revision + 1
      /\ settings'.role = settings.role
  BY <1>1, <1>2
<1>4. settings'.enabled = settings.enabled BY <1>1, <1>2, Zenon
<1>5. /\ requests' \in Seq(Request) /\ DOMAIN requests' = DOMAIN requests
      /\ Len(requests') = Len(requests)
      /\ \A i \in DOMAIN requests :
           /\ Same(requests'[i], requests[i])
           /\ requests'[i].status # "pending"
           /\ requests[i].status # "pending" => requests'[i] = requests[i]
           /\ WellDecided(requests'[i])
  BY <1>1, <1>2, SupersedeFollows DEF ApprovalInv
<1>6. TypeOK' BY <1>1, <1>3, <1>5 DEF ApprovalInv, TypeOK
<1>7. FrozenKnown'
  <2>1. \A i \in DOMAIN requests : requests[i].revision \in Nat BY RequestsTyped DEF ApprovalInv
  <2>2. \A i \in DOMAIN requests : requests[i].revision <= settings.revision
    BY DEF ApprovalInv, FrozenKnown
  <2>3. \A i \in DOMAIN requests : requests'[i].revision < settings'.revision
    BY <1>2, <1>3, <1>5, <2>1, <2>2 DEF Same
  <2>4. \A i \in DOMAIN requests : requests'[i].revision \in Nat /\ settings'.revision \in Nat
    BY <1>3, <1>5, <2>1 DEF Same
  <2>5. ASSUME NEW i \in DOMAIN requests
        PROVE  /\ requests'[i].docVersion <= doc.version
               /\ requests'[i].revision <= settings'.revision
               /\ requests'[i].revision # settings'.revision
               /\ requests'[i].policy = requests[i].policy
    BY <1>5, <2>3, <2>4 DEF ApprovalInv, FrozenKnown, Same
  <2> QED BY <1>1, <1>5, <2>5 DEF ApprovalInv, FrozenKnown
<1>8. PatchKnown' /\ DecisionsFollowPolicy'
  BY <1>1, <1>5 DEF ApprovalInv, PatchKnown, DecisionsFollowPolicy
<1>9. SealKnown' /\ PublishedAsApproved'
  <2>1. sealed # 0 => /\ sealed \in DOMAIN requests /\ requests[sealed].status = "approved"
                      /\ settings.enabled
    BY <1>2 DEF ApprovalInv, TypeOK, SealKnown
  <2>2. sealed # 0 => requests'[sealed] = requests[sealed] BY <1>5, <2>1
  <2> QED BY <1>1, <1>4, <2>1, <2>2 DEF ApprovalInv, SealKnown, PublishedAsApproved
<1>10. OneLiveRequest' BY <1>5 DEF OneLiveRequest, Pending
<1> QED BY <1>6, <1>7, <1>8, <1>9, <1>10 DEF ApprovalInv

LEMMA CancelKeeps == ASSUME NEW u \in Users PROVE ApprovalInv /\ Cancel(u) => ApprovalInv'
<1> SUFFICES ASSUME ApprovalInv, Cancel(u) PROVE ApprovalInv'
  OBVIOUS
<1>1. /\ policies' = policies /\ settings' = settings /\ may' = may /\ patch' = patch
      /\ sealed' = sealed
  BY DEF Cancel
<1>2. PICK c \in Pending : requests' = [requests EXCEPT ![c].status = "cancelled"] BY DEF Cancel
<1>3. /\ doc \in Document /\ doc.version < MaxVersion /\ requests \in Seq(Request)
      /\ c \in DOMAIN requests /\ requests[c].status = "pending"
  BY DEF Cancel, Open, ApprovalInv, TypeOK, Pending
<1> DEFINE closed == [requests[c] EXCEPT !.status = "cancelled"]
           d      == [doc EXCEPT !.status = "draft"]
<1>4. /\ closed \in Request /\ closed.status = "cancelled" /\ Same(closed, requests[c])
      /\ WellDecided(closed)
  <2>1. "cancelled" \in Outcomes BY DEF Outcomes
  <2>2. requests[c] \in Request /\ WellDecided(requests[c])
    BY <1>3 DEF ApprovalInv, DecisionsFollowPolicy
  <2> QED BY <1>3, <2>1, <2>2, ClosedIsSame, ClosedIsWellDecided
<1>5. requests' = [requests EXCEPT ![c] = closed] BY <1>2, <1>3
<1>6. Revise(d) /\ d \in Document /\ d.status = "draft" BY <1>3 DEF Cancel, Document, Status
<1> HIDE DEF closed, d
<1>7. /\ doc' \in Document /\ doc'.rest \in doc'.seen /\ doc'.version = doc.version + 1
      /\ doc'.status = "draft"
  BY <1>3, <1>6, Revising
<1>8. /\ requests' \in Seq(Request) /\ DOMAIN requests' = DOMAIN requests
      /\ Len(requests') = Len(requests)
      /\ requests'[c] = closed
      /\ \A i \in DOMAIN requests : i # c => requests'[i] = requests[i]
  BY <1>3, <1>4, <1>5
<1>9. \A i \in DOMAIN requests : Same(requests'[i], requests[i]) BY <1>4, <1>8 DEF Same
<1>10. Pending = {c} /\ Pending' = {}
  <2>1. Pending = {c} BY DEF ApprovalInv, OneLiveRequest
  <2> QED BY <1>4, <1>8, <2>1 DEF Pending
<1>11. TypeOK' BY <1>1, <1>7, <1>8 DEF ApprovalInv, TypeOK
<1>12. FrozenKnown'
  <2>1. DefaultStages' = DefaultStages BY <1>1 DEF DefaultStages
  <2>2. /\ doc.version \in Nat /\ doc'.version >= doc.version /\ doc'.version \in Nat
        /\ \A i \in DOMAIN requests : requests[i].docVersion \in Nat
    BY <1>3, <1>7, RequestsTyped DEF Document, ApprovalInv
  <2> QED BY <1>1, <1>8, <1>9, <2>1, <2>2 DEF ApprovalInv, FrozenKnown, Same
<1>13. PatchKnown'
  <2>1. patch # NoPatch => patch.version \in Nat BY DEF ApprovalInv, TypeOK, Patch
  <2>2. doc.version \in Nat BY <1>3 DEF Document
  <2> QED BY <1>1, <1>7, <2>1, <2>2 DEF ApprovalInv, PatchKnown
<1>14. SealKnown' /\ PublishedAsApproved'
  <2>1. sealed # 0 => sealed # c /\ sealed \in DOMAIN requests
    BY <1>3 DEF ApprovalInv, TypeOK, SealKnown
  <2> QED BY <1>1, <1>7, <1>8, <2>1 DEF ApprovalInv, SealKnown, PublishedAsApproved
<1>15. DecisionsFollowPolicy' BY <1>4, <1>8 DEF ApprovalInv, DecisionsFollowPolicy
<1>16. OneLiveRequest' BY <1>10 DEF OneLiveRequest
<1> QED BY <1>11, <1>12, <1>13, <1>14, <1>15, <1>16 DEF ApprovalInv

LEMMA InForceMeans ==
  /\ InForce.scope = "default" => InForce.stages = DefaultStages
  /\ \A scope \in Scopes : InForce.scope = scope =>
       /\ InForce.version = policies[scope].version
       /\ InForce.stages = policies[scope].stages
<1>1. CASE Covers("space") BY <1>1 DEF InForce, Takes, Scopes
<1>2. CASE ~Covers("space") /\ Covers("workspace") BY <1>2 DEF InForce, Takes, Scopes
<1>3. CASE ~Covers("space") /\ ~Covers("workspace")
  <2>1. InForce = [scope |-> "default", version |-> 0, stages |-> DefaultStages] BY <1>3 DEF InForce
  <2> HIDE DEF DefaultStages, InForce
  <2> QED BY <2>1 DEF Scopes
<1> QED BY <1>1, <1>2, <1>3

LEMMA SubmitKeeps == ASSUME NEW u \in Users PROVE ApprovalInv /\ Submit(u) => ApprovalInv'
<1> SUFFICES ASSUME ApprovalInv, Submit(u) PROVE ApprovalInv'
  OBVIOUS
<1> DEFINE new == [status     |-> "pending",
                   stage      |-> 1,
                   snapshot   |-> Shot(doc),
                   docVersion |-> doc.version + 1,
                   policy     |-> InForce,
                   revision   |-> settings.revision,
                   requester  |-> u,
                   assigned   |-> [g \in Gates |-> Candidates(g, u)],
                   decisions  |-> {}]
           old == Supersede(requests)
           d   == [doc EXCEPT !.status = "review"]
           n   == Len(requests) + 1
<1>1. /\ policies' = policies /\ settings' = settings /\ may' = may /\ patch' = patch
      /\ sealed' = sealed
  BY DEF Submit
<1>2. requests' = Append(old, new) /\ Revise(d) BY DEF Submit
<1>3. /\ doc \in Document /\ doc.version < MaxVersion /\ ~doc.deleted
      /\ requests \in Seq(Request)
      /\ settings.revision \in Nat
      /\ may \in [Gates -> SUBSET Reviewers]
  BY DEF Submit, Open, ApprovalInv, TypeOK
<1>4. d \in Document /\ d.status = "review" /\ d.body = doc.body /\ d.owner = doc.owner
        /\ d.deleted = doc.deleted
  BY <1>3 DEF Document, Status
<1> HIDE DEF d
<1>5. /\ doc' \in Document /\ doc'.rest \in doc'.seen /\ doc'.version = doc.version + 1
      /\ doc'.status = "review" /\ doc'.body = doc.body /\ doc'.owner = doc.owner
      /\ doc'.deleted = doc.deleted
  BY <1>2, <1>3, <1>4, Revising
<1>6. InForce \in Frozen /\ InForce.stages \in Seq(Stage) /\ Len(InForce.stages) > 0
  BY InForceType DEF ApprovalInv
<1>7. Shot(doc) \in Snapshot BY <1>3, ShotType
<1>8. new \in Request
  <2>1. doc.version + 1 \in 1 .. MaxVersion BY <1>3 DEF Document
  <2>2. [g \in Gates |-> Candidates(g, u)] \in [Gates -> SUBSET Users] BY <1>3 DEF Candidates
  <2> HIDE DEF InForce
  <2> QED BY <1>3, <1>6, <1>7, <2>1, <2>2 DEF Request
<1>9. /\ new.status = "pending" /\ new.stage = 1 /\ new.snapshot = Shot(doc)
      /\ new.docVersion = doc.version + 1 /\ new.policy = InForce
      /\ new.revision = settings.revision /\ new.decisions = {}
  OBVIOUS
<1> HIDE DEF new
<1>10. /\ old \in Seq(Request) /\ Len(old) = Len(requests) /\ DOMAIN old = DOMAIN requests
       /\ \A i \in DOMAIN requests :
            /\ Same(old[i], requests[i])
            /\ old[i].status # "pending"
            /\ requests[i].status # "pending" => old[i] = requests[i]
            /\ WellDecided(old[i])
  BY <1>3, SupersedeFollows DEF ApprovalInv
<1> HIDE DEF old
<1>11. /\ requests' \in Seq(Request) /\ Len(requests') = n
       /\ DOMAIN requests' = 1 .. n /\ DOMAIN requests = 1 .. n - 1 /\ n \in Nat \ {0}
       /\ requests'[n] = new
       /\ \A i \in DOMAIN requests : requests'[i] = old[i]
  BY <1>2, <1>3, <1>8, <1>10
<1> HIDE DEF n
<1>12. \A i \in DOMAIN requests' : i = n \/ i \in DOMAIN requests BY <1>11
<1>13. TypeOK'
  <2>1. sealed \in 0 .. Len(requests') BY <1>3, <1>11 DEF ApprovalInv, TypeOK
  <2> QED BY <1>1, <1>5, <1>11, <2>1 DEF ApprovalInv, TypeOK
<1>14. FrozenKnown'
  <2>1. DefaultStages' = DefaultStages BY <1>1 DEF DefaultStages
  <2>2. /\ doc.version \in Nat /\ doc'.version >= doc.version /\ doc'.version \in Nat
        /\ \A i \in DOMAIN requests : requests[i].docVersion \in Nat
    BY <1>3, <1>5, RequestsTyped DEF Document, ApprovalInv
  <2>3. \A f \in Frozen : f.version \in Nat BY DEF Frozen
  <2> DEFINE Known(q) ==
         /\ q.docVersion <= doc'.version
         /\ q.revision <= settings.revision
         /\ q.policy.scope = "default" /\ q.revision = settings.revision
              => q.policy.stages = DefaultStages
         /\ \A scope \in Scopes : q.policy.scope = scope =>
              /\ q.policy.version <= policies[scope].version
              /\ q.policy.version = policies[scope].version
                   => q.policy.stages = policies[scope].stages
  <2>4. Known(new)
    <3> HIDE DEF InForce, DefaultStages
    <3> QED BY <1>3, <1>5, <1>6, <1>9, <2>2, <2>3, InForceMeans
  <2>5. ASSUME NEW i \in DOMAIN requests PROVE Known(requests'[i])
    BY <1>10, <1>11, <2>2, <2>5 DEF ApprovalInv, FrozenKnown, Same
  <2>6. \A i \in DOMAIN requests' : Known(requests'[i]) BY <1>11, <1>12, <2>4, <2>5
  <2> QED BY <1>1, <2>1, <2>6 DEF FrozenKnown
<1>15. PatchKnown'
  <2>1. patch # NoPatch => patch.version \in Nat BY DEF ApprovalInv, TypeOK, Patch
  <2>2. doc.version \in Nat BY <1>3 DEF Document
  <2> QED BY <1>1, <1>5, <2>1, <2>2 DEF ApprovalInv, PatchKnown
<1>16. SealKnown' /\ PublishedAsApproved'
  <2>1. sealed # 0 => sealed \in DOMAIN requests /\ requests[sealed].status = "approved"
    BY <1>3 DEF ApprovalInv, TypeOK, SealKnown
  <2>2. sealed # 0 => requests'[sealed] = requests[sealed] BY <1>10, <1>11, <2>1
  <2> QED BY <1>1, <1>5, <2>1, <2>2 DEF ApprovalInv, SealKnown, PublishedAsApproved
<1>17. DecisionsFollowPolicy'
  <2>1. WellDecided(new)
    <3>1. /\ new.stage \in DOMAIN new.policy.stages BY <1>6, <1>9
    <3> QED BY <1>9, <3>1 DEF WellDecided
  <2> QED BY <1>10, <1>11, <1>12, <2>1 DEF DecisionsFollowPolicy
<1>18. OneLiveRequest'
  <2>1. requests'[n].status = "pending" /\ n \in DOMAIN requests' BY <1>9, <1>11
  <2>2. \A i \in DOMAIN requests : requests'[i].status # "pending" BY <1>10, <1>11
  <2>3. Pending' = {n} BY <1>12, <2>1, <2>2 DEF Pending
  <2>4. new.snapshot.body = doc.body /\ new.snapshot.owner = doc.owner BY <1>9 DEF Shot
  <2> QED BY <1>3, <1>5, <1>11, <2>3, <2>4 DEF OneLiveRequest
<1> QED BY <1>13, <1>14, <1>15, <1>16, <1>17, <1>18 DEF ApprovalInv

LEMMA DecideKeeps ==
  ASSUME NEW u \in Users, NEW g \in Gates, NEW approved \in BOOLEAN
  PROVE  ApprovalInv /\ Decide(u, g, approved) => ApprovalInv'
<1> SUFFICES ASSUME ApprovalInv, Decide(u, g, approved) PROVE ApprovalInv'
  OBVIOUS
<1> DEFINE Step(i) == Decided(requests[i], [stage |-> requests[i].stage, gate |-> g, user |-> u,
                                            approved |-> approved])
<1>1. /\ policies' = policies /\ settings' = settings /\ may' = may /\ patch' = patch
      /\ Open /\ settings.enabled
  BY DEF Decide
<1>2. PICK c \in Pending :
        /\ Valid(requests[c]) /\ Eligible(requests[c], g, u)
        /\ requests' = [requests EXCEPT ![c] = Step(c)]
        /\ IF Step(c).status = "pending" THEN UNCHANGED doc
           ELSE Revise([doc EXCEPT !.status = IF approved THEN "published" ELSE "rejected"])
        /\ sealed' = IF Step(c).status = "approved" THEN c ELSE sealed
  BY Zenon DEF Decide
<1> DEFINE q    == requests[c]
           next == Step(c)
           s    == IF approved THEN "published" ELSE "rejected"
           d    == [doc EXCEPT !.status = s]
<1>3. /\ doc \in Document /\ doc.version < MaxVersion /\ requests \in Seq(Request)
      /\ c \in DOMAIN requests /\ q.status = "pending" /\ q \in Request
      /\ doc.version \in Nat
  BY <1>1 DEF Open, ApprovalInv, TypeOK, Pending, Document
<1>4. /\ next \in Request /\ Same(next, q)
      /\ next.status \in {"pending", "approved", "rejected"}
      /\ WellDecided(next)
  <2>1. [stage |-> q.stage, gate |-> g, user |-> u, approved |-> approved] \in Decision
    BY <1>3 DEF Decision, Request
  <2>2. WellDecided(q) BY <1>3 DEF ApprovalInv, DecisionsFollowPolicy
  <2> QED BY <1>2, <1>3, <2>1, <2>2, DecidedKeeps, DecidedFollows
<1>5. next.status = "approved" => approved
  <2> DEFINE e == [stage |-> q.stage, gate |-> g, user |-> u, approved |-> approved]
  <2>1. e \in Decision BY <1>3 DEF Decision, Request
  <2>2. e.approved <=> approved BY ZenonT(30)
  <2> HIDE DEF e
  <2>3. Decided(q, e).status = "rejected" <=> ~e.approved BY <1>3, <2>1, DecidedKeeps
  <2> QED BY <2>2, <2>3 DEF e
<1>6. /\ q.docVersion = doc.version /\ q.snapshot.body = doc.body BY <1>2 DEF Valid, Shot
<1>7. /\ requests' = [requests EXCEPT ![c] = next]
      /\ next.status = "pending" => doc' = doc
      /\ next.status # "pending" => Revise(d)
      /\ sealed' = IF next.status = "approved" THEN c ELSE sealed
  BY <1>2
<1>8. s \in {"published", "rejected"} /\ (next.status = "rejected" \/ s = "published" \/ ~approved)
  OBVIOUS
<1> HIDE DEF s
<1>9. d \in Document /\ d.status = s /\ d.body = doc.body BY <1>3, <1>8 DEF Document, Status
<1> HIDE DEF d
<1>10. /\ doc' \in Document /\ doc'.rest \in doc'.seen /\ doc'.body = doc.body
       /\ doc'.version >= doc.version /\ doc'.version \in Nat
       /\ next.status = "pending" => doc' = doc
       /\ next.status # "pending" => doc'.version = doc.version + 1
  <2>1. CASE next.status = "pending" BY <1>3, <1>7, <2>1 DEF ApprovalInv, TypeOK
  <2>2. CASE next.status # "pending" BY <1>3, <1>7, <1>9, <2>2, Revising
  <2> QED BY <2>1, <2>2
<1> HIDE DEF next, Step
<1>11. /\ requests' \in Seq(Request) /\ DOMAIN requests' = DOMAIN requests
       /\ Len(requests') = Len(requests) /\ requests'[c] = next
       /\ \A i \in DOMAIN requests : i # c => requests'[i] = requests[i]
  BY <1>3, <1>4, <1>7
<1>12. \A i \in DOMAIN requests : Same(requests'[i], requests[i]) BY <1>4, <1>11 DEF Same
<1>13. Pending = {c} /\ Pending' \subseteq {c} /\ (next.status # "pending" => Pending' = {})
  <2>1. Pending = {c} BY DEF ApprovalInv, OneLiveRequest
  <2>2. \A i \in DOMAIN requests' : requests'[i].status = "pending" =>
          i = c /\ next.status = "pending"
    BY <1>11, <2>1 DEF Pending
  <2> QED BY <2>1, <2>2 DEF Pending
<1>14. TypeOK'
  <2>1. sealed' \in 0 .. Len(requests')
    <3>1. sealed \in 0 .. Len(requests) BY DEF ApprovalInv, TypeOK
    <3>2. c \in 1 .. Len(requests) BY <1>3
    <3> QED BY <1>7, <1>11, <3>1, <3>2
  <2> QED BY <1>1, <1>10, <1>11, <2>1 DEF ApprovalInv, TypeOK
<1>15. FrozenKnown'
  <2>1. DefaultStages' = DefaultStages BY <1>1 DEF DefaultStages
  <2>2. \A i \in DOMAIN requests : requests[i].docVersion \in Nat BY RequestsTyped DEF ApprovalInv
  <2> QED BY <1>1, <1>3, <1>10, <1>11, <1>12, <2>1, <2>2 DEF ApprovalInv, FrozenKnown, Same
<1>16. SealKnown'
  <2>1. CASE next.status = "approved" BY <1>1, <1>7, <1>11, <2>1 DEF SealKnown
  <2>2. CASE next.status # "approved"
    <3>1. sealed # 0 => sealed \in DOMAIN requests /\ requests[sealed].status = "approved"
      BY <1>3 DEF ApprovalInv, TypeOK, SealKnown
    <3>2. sealed' = sealed /\ (sealed # 0 => sealed # c) BY <1>3, <1>7, <2>2, <3>1
    <3> QED BY <1>1, <1>11, <3>1, <3>2 DEF SealKnown
  <2> QED BY <2>1, <2>2
<1>17. PatchKnown'
  <2>1. patch # NoPatch => patch.version \in Nat BY DEF ApprovalInv, TypeOK, Patch
  <2>2. CASE next.status = "pending"
    <3>1. sealed' = sealed /\ doc' = doc BY <1>7, <2>2
    <3> QED BY <1>1, <3>1 DEF ApprovalInv, PatchKnown
  <2>3. CASE next.status # "pending" BY <1>1, <1>3, <1>10, <2>1, <2>3 DEF ApprovalInv, PatchKnown
  <2> QED BY <2>2, <2>3
<1>18. PublishedAsApproved'
  <2>1. CASE next.status = "approved"
    <3>1. next.snapshot.body = doc.body BY <1>4, <1>6 DEF Same
    <3> QED BY <1>7, <1>10, <1>11, <2>1, <3>1 DEF PublishedAsApproved
  <2>2. CASE next.status = "pending"
    <3>1. sealed' = sealed /\ doc' = doc BY <1>7, <2>2
    <3>2. sealed # 0 => requests'[sealed].snapshot = requests[sealed].snapshot
      <4>1. sealed # 0 => sealed \in DOMAIN requests BY <1>3 DEF ApprovalInv, TypeOK
      <4> QED BY <1>12, <4>1 DEF Same
    <3> QED BY <3>1, <3>2 DEF ApprovalInv, PublishedAsApproved
  <2>3. CASE next.status = "rejected"
    <3>1. doc'.status # "published"
      <4>1. ~approved
        <5> DEFINE e == [stage |-> q.stage, gate |-> g, user |-> u, approved |-> approved]
        <5>1. e \in Decision BY <1>3 DEF Decision, Request
        <5>2. e.approved <=> approved BY ZenonT(30)
        <5> HIDE DEF e
        <5>3. Decided(q, e).status = "rejected" <=> ~e.approved BY <1>3, <5>1, DecidedKeeps
        <5> QED BY <2>3, <5>2, <5>3 DEF e, next, Step
      <4>2. s = "rejected" BY <4>1 DEF s
      <4> QED BY <1>3, <1>7, <1>9, <2>3, <4>2, Revising
    <3> QED BY <3>1 DEF PublishedAsApproved
  <2> QED BY <1>4, <2>1, <2>2, <2>3
<1>19. DecisionsFollowPolicy' BY <1>4, <1>11 DEF ApprovalInv, DecisionsFollowPolicy
<1>20. OneLiveRequest'
  <2>1. CASE next.status = "pending"
    <3>1. doc' = doc /\ requests'[c].docVersion = requests[c].docVersion
            /\ requests'[c].snapshot = requests[c].snapshot
      BY <1>3, <1>10, <1>12, <2>1 DEF Same
    <3>2. Pending' = {c} BY <1>3, <1>11, <1>13, <2>1 DEF Pending
    <3> QED BY <1>13, <3>1, <3>2 DEF ApprovalInv, OneLiveRequest
  <2>2. CASE next.status # "pending" BY <1>13, <2>2 DEF OneLiveRequest
  <2> QED BY <2>1, <2>2
<1> QED BY <1>14, <1>15, <1>16, <1>17, <1>18, <1>19, <1>20 DEF ApprovalInv
----------------
LEMMA InitInv == Init => ApprovalInv
<1> SUFFICES ASSUME Init PROVE ApprovalInv
  OBVIOUS
<1>1. PICK b \in Bodies, r \in Rests :
        doc = [version |-> 1, body |-> b, rest |-> r, seen |-> {r},
               owner |-> Author, status |-> "draft", deleted |-> FALSE]
  BY DEF Init
<1>2. doc \in Document /\ doc.rest \in doc.seen /\ doc.status = "draft" BY <1>1 DEF Document, Status
<1>3. /\ policies \in [Scopes -> Policy]
      /\ \A scope \in Scopes : policies[scope].enabled => policies[scope].version > 0
  BY ShapesExist DEF Init, Policy
<1>4. settings \in [enabled : BOOLEAN, role : Roles, revision : Nat] BY DEF Init
<1>5. /\ requests = <<>> /\ patch = NoPatch /\ sealed = 0
      /\ may \in [Gates -> SUBSET Reviewers]
  BY DEF Init
<1>6. requests \in Seq(Request) /\ DOMAIN requests = {} /\ sealed \in 0 .. Len(requests) BY <1>5
<1>7. TypeOK BY <1>2, <1>3, <1>4, <1>5, <1>6 DEF TypeOK
<1> QED BY <1>2, <1>5, <1>6, <1>7
        DEF ApprovalInv, FrozenKnown, PatchKnown, SealKnown, DecisionsFollowPolicy,
            PublishedAsApproved, OneLiveRequest, Pending

LEMMA NextInv == ApprovalInv /\ [Next]_vars => ApprovalInv'
<1> SUFFICES ASSUME ApprovalInv, [Next]_vars PROVE ApprovalInv'
  OBVIOUS
<1>1. CASE SaveDocument BY <1>1, SaveDocumentStep, DocStepKeeps
<1>2. CASE CollaborativeEdit \/ CollaborativeMetadata BY <1>2, CollaborationSteps, DocStepKeeps
<1>3. CASE ClassifyCapture \/ MarkStale \/ DeleteDocument BY <1>3, FilingSteps, DocStepKeeps
<1>4. CASE ReadKnowledge BY <1>4, ReadKnowledgeKeeps
<1>5. CASE WriteKnowledge BY <1>5, WriteKnowledgeStep, DocStepKeeps
<1>6. CASE RestoreDocument BY <1>6, RestoreStep, DocStepKeeps
<1>7. CASE \E u \in Users : Submit(u) BY <1>7, SubmitKeeps
<1>8. CASE \E u \in Users, g \in Gates, approved \in BOOLEAN : Decide(u, g, approved)
  BY <1>8, DecideKeeps
<1>9. CASE \E u \in Users : Cancel(u) BY <1>9, CancelKeeps
<1>10. CASE UpdateSettings BY <1>10, UpdateSettingsKeeps
<1>11. CASE SavePolicy \/ DisablePolicy BY <1>11, PolicyKeeps
<1>12. CASE ChangeRights \/ UNCHANGED vars BY <1>12, RightsKeep
<1>13. CASE Quarantine BY <1>13, QuarantineKeeps
<1> QED BY <1>1, <1>2, <1>3, <1>4, <1>5, <1>6, <1>7, <1>8, <1>9, <1>10, <1>11, <1>12, <1>13
        DEF Next

(* The inductive invariant of the approval engine holds for any accounts,     *)
(* gates, configured stages and bounds.                                       *)
THEOREM ApprovalInvariance == Spec => []ApprovalInv
  BY InitInv, NextInv, PTL DEF Spec

(* Every request is decided as its frozen policy asks: approvalEligibleGatesTx *)
(* and the count of rows in decideApprovalTx let nothing else happen.         *)
THEOREM DecisionsAreSound == Spec => []DecisionsFollowPolicy
<1>1. ApprovalInv => DecisionsFollowPolicy BY DEF ApprovalInv
<1> QED BY <1>1, ApprovalInvariance, PTL

(* While approvals stay on, a published document shows what the approval      *)
(* that published it was given for.                                           *)
THEOREM PublicationStands == Spec => []PublishedAsApproved
<1>1. ApprovalInv => PublishedAsApproved BY DEF ApprovalInv
<1> QED BY <1>1, ApprovalInvariance, PTL

(* At most one request is pending, and one that can still be decided stands   *)
(* for a document that is in review, unchanged.                               *)
THEOREM OneRequestLives == Spec => []OneLiveRequest
<1>1. ApprovalInv => OneLiveRequest BY DEF ApprovalInv
<1> QED BY <1>1, ApprovalInvariance, PTL
----------------
(* What a step does to the requests: all but four leave them as they are.     *)
LEMMA RequestSteps ==
  Next => \/ requests' = requests
          \/ \E u \in Users : Submit(u)
          \/ \E u \in Users, g \in Gates, approved \in BOOLEAN : Decide(u, g, approved)
          \/ \E u \in Users : Cancel(u)
          \/ Quarantine
  BY DEF Next, SaveDocument, CollaborativeEdit, CollaborativeMetadata, ClassifyCapture,
         ReadKnowledge, WriteKnowledge, MarkStale, DeleteDocument, RestoreDocument,
         UpdateSettings, SavePolicy, DisablePolicy, ChangeRights, ApprovalUntouched

StandsIn(old, new) ==
  \A i \in DOMAIN old : /\ i \in DOMAIN new
                        /\ old[i].status # "pending" => new[i] = old[i]
                        /\ old[i].decisions \subseteq new[i].decisions

LEMMA Standing == ApprovalInv /\ [Next]_vars => StandsIn(requests, requests')
<1> SUFFICES ASSUME ApprovalInv, [Next]_vars PROVE StandsIn(requests, requests')
  OBVIOUS
<1>1. requests \in Seq(Request) /\ DecisionsFollowPolicy BY DEF ApprovalInv, TypeOK
<1>2. StandsIn(requests, Supersede(requests)) BY <1>1, SupersedeFollows DEF StandsIn
<1>3. CASE requests' = requests BY <1>3 DEF StandsIn
<1>4. ASSUME NEW u \in Users, Submit(u) PROVE StandsIn(requests, requests')
  <2>1. PICK new : requests' = Append(Supersede(requests), new) BY <1>4 DEF Submit
  <2>2. /\ Supersede(requests) \in Seq(Request)
        /\ DOMAIN Supersede(requests) = DOMAIN requests
    BY <1>1, SupersedeFollows
  <2>3. \A i \in DOMAIN requests : /\ i \in DOMAIN requests'
                                   /\ requests'[i] = Supersede(requests)[i]
    BY <2>1, <2>2
  <2> QED BY <1>2, <2>3 DEF StandsIn
<1>5. ASSUME NEW u \in Users, NEW g \in Gates, NEW approved \in BOOLEAN,
             Decide(u, g, approved)
      PROVE  StandsIn(requests, requests')
  <2>1. PICK c \in Pending :
          requests' = [requests EXCEPT ![c] =
            Decided(requests[c], [stage |-> requests[c].stage, gate |-> g, user |-> u,
                                  approved |-> approved])]
    BY <1>5, Zenon DEF Decide
  <2>2. c \in DOMAIN requests /\ requests[c] \in Request /\ requests[c].status = "pending"
    BY <1>1 DEF Pending
  <2> DEFINE d == [stage |-> requests[c].stage, gate |-> g, user |-> u, approved |-> approved]
  <2>3. d \in Decision BY <2>2 DEF Decision, Request
  <2>4. requests' = [requests EXCEPT ![c] = Decided(requests[c], d)] BY <2>1
  <2> HIDE DEF d
  <2>5. Decided(requests[c], d).decisions = requests[c].decisions \cup {d}
    BY <2>2, <2>3, DecidedKeeps
  <2> QED BY <1>1, <2>2, <2>4, <2>5 DEF StandsIn
<1>6. ASSUME NEW u \in Users, Cancel(u) PROVE StandsIn(requests, requests')
  <2>1. PICK c \in Pending : requests' = [requests EXCEPT ![c].status = "cancelled"]
    BY <1>6 DEF Cancel
  <2>2. c \in DOMAIN requests /\ requests[c] \in Request /\ requests[c].status = "pending"
    BY <1>1 DEF Pending
  <2>3. [requests[c] EXCEPT !.status = "cancelled"].decisions = requests[c].decisions
    BY <2>2, ClosedIsSame DEF Outcomes
  <2> QED BY <1>1, <2>1, <2>2, <2>3 DEF StandsIn
<1>7. CASE Quarantine BY <1>2, <1>7 DEF Quarantine
<1>8. CASE UNCHANGED vars BY <1>3, <1>8 DEF vars
<1> QED BY <1>3, <1>4, <1>5, <1>6, <1>7, <1>8, RequestSteps

(* No step of the engine takes back an outcome or a decision, or loses a      *)
(* request: supersede, cancel and quarantine touch pending requests only.     *)
THEOREM OutcomesNeverChange == Spec => OutcomesStand
<1>1. ApprovalInv /\ [Next]_vars =>
        [\A i \in DOMAIN requests :
           /\ i \in DOMAIN requests'
           /\ i \notin Pending => requests'[i] = requests[i]
           /\ requests[i].decisions \subseteq requests'[i].decisions]_vars
  BY Standing DEF StandsIn, Pending
<1> QED BY <1>1, ApprovalInvariance, PTL DEF Spec, OutcomesStand
----------------
LEMMA OnlyDecisionsApprove ==
  ASSUME ApprovalInv, Next, NEW i \in DOMAIN requests, Approves(i)
  PROVE  \E u \in Users, g \in Gates, approved \in BOOLEAN : Decide(u, g, approved)
<1>1. /\ requests \in Seq(Request) /\ DecisionsFollowPolicy
      /\ requests[i].status = "pending" /\ requests'[i].status = "approved"
  BY DEF ApprovalInv, TypeOK, Approves, Pending
<1>2. /\ Supersede(requests) \in Seq(Request)
      /\ DOMAIN Supersede(requests) = DOMAIN requests
  BY <1>1, SupersedeFollows
<1>3. Supersede(requests)[i].status # "approved"
  <2>1. i \in 1 .. Len(requests) /\ requests[i] \in Request BY <1>1
  <2>2. Supersede(requests)[i] = [requests[i] EXCEPT !.status = "superseded"]
    BY <1>1, <2>1, SupersedeKeeps
  <2>3. [requests[i] EXCEPT !.status = "superseded"].status = "superseded" BY <2>1 DEF Request
  <2> QED BY <2>2, <2>3
<1>4. requests' # requests BY <1>1
<1>5. ~Quarantine BY <1>1, <1>3 DEF Quarantine
<1>6. ASSUME NEW u \in Users, Submit(u) PROVE FALSE
  <2>1. PICK new : requests' = Append(Supersede(requests), new) BY <1>6 DEF Submit
  <2>2. requests'[i] = Supersede(requests)[i]
    <3>1. i \in 1 .. Len(Supersede(requests)) /\ Len(Supersede(requests)) \in Nat BY <1>2
    <3> QED BY <1>2, <2>1, <3>1
  <2> QED BY <1>1, <1>3, <2>2
<1>7. ASSUME NEW u \in Users, Cancel(u) PROVE FALSE
  <2>1. PICK c \in Pending : requests' = [requests EXCEPT ![c].status = "cancelled"]
    BY <1>7 DEF Cancel
  <2>2. requests[i] \in Request BY <1>1
  <2>3. [requests[i] EXCEPT !.status = "cancelled"].status = "cancelled" BY <2>2 DEF Request
  <2> QED BY <1>1, <2>1, <2>3
<1> QED BY <1>4, <1>5, <1>6, <1>7, RequestSteps

(* An approval approves what its reviewers were shown, by the stages that are *)
(* in force: the identifiers that approvalCurrentTx compares are enough.      *)
THEOREM ApprovalsAreCurrent == Spec => ApprovedAsFrozen
<1> DEFINE Current(i) == /\ settings.enabled
                         /\ requests[i].policy.stages = InForce.stages
                         /\ requests[i].snapshot = Shot(doc) /\ Shot(doc') = Shot(doc)
                         /\ doc.status = "review" /\ doc'.status = "published"
<1>1. ASSUME ApprovalInv, Next, NEW i \in DOMAIN requests, Approves(i)
      PROVE  Current(i)
  <2>1. PICK u \in Users, g \in Gates, approved \in BOOLEAN : Decide(u, g, approved)
    BY <1>1, OnlyDecisionsApprove
  <2> DEFINE Step(j) == Decided(requests[j], [stage |-> requests[j].stage, gate |-> g,
                                              user |-> u, approved |-> approved])
  <2>2. PICK c \in Pending :
          /\ Valid(requests[c])
          /\ requests' = [requests EXCEPT ![c] = Step(c)]
          /\ IF Step(c).status = "pending" THEN UNCHANGED doc
             ELSE Revise([doc EXCEPT !.status = IF approved THEN "published" ELSE "rejected"])
    BY <2>1, Zenon DEF Decide
  <2>3. /\ doc \in Document /\ doc.version < MaxVersion /\ requests \in Seq(Request)
        /\ settings.enabled /\ i \in Pending
        /\ requests[i].status = "pending" /\ requests'[i].status = "approved"
    BY <1>1, <2>1 DEF Decide, Open, ApprovalInv, TypeOK, Approves, Pending
  <2>4. i = c BY <1>1, <2>3 DEF ApprovalInv, OneLiveRequest
  <2>5. requests[i] \in Request /\ Step(i).status = "approved" BY <2>2, <2>3, <2>4
  <2>6. approved
    <3> DEFINE e == [stage |-> requests[i].stage, gate |-> g, user |-> u,
                     approved |-> approved]
    <3>1. e \in Decision BY <2>5 DEF Decision, Request
    <3>2. e.approved <=> approved BY ZenonT(30)
    <3>3. Decided(requests[i], e).status = "approved" BY <2>5
    <3> HIDE DEF e
    <3>4. Decided(requests[i], e).status = "rejected" <=> ~e.approved
      BY <2>3, <2>5, <3>1, DecidedKeeps
    <3> QED BY <3>2, <3>3, <3>4
  <2> DEFINE s == IF approved THEN "published" ELSE "rejected"
             d == [doc EXCEPT !.status = s]
  <2>7. Revise(d) BY <2>2, <2>4, <2>5
  <2>8. s = "published" BY <2>6
  <2> HIDE DEF s, Step
  <2>9. d \in Document /\ d.status = "published" /\ Shot(d) = Shot(doc)
    BY <2>3, <2>8 DEF Document, Status, Shot
  <2> HIDE DEF d
  <2>10. Shot(doc') = Shot(doc) /\ doc'.status = "published"
    <3>1. /\ doc'.body = d.body /\ doc'.owner = d.owner /\ doc'.rest = d.rest
          /\ doc'.status = d.status
      BY <2>3, <2>7, <2>9, Revising
    <3> QED BY <2>9, <3>1 DEF Shot
  <2>11. doc.status = "review" /\ requests[i].snapshot = Shot(doc)
    BY <1>1, <2>2, <2>3, <2>4 DEF Valid, ApprovalInv, OneLiveRequest
  <2>12. requests[i].policy.stages = InForce.stages
    <3>1. /\ requests[i].policy.scope = InForce.scope
          /\ requests[i].policy.version = InForce.version
          /\ requests[i].revision = settings.revision
      BY <2>2, <2>4 DEF Valid
    <3>2. InForce.scope \in Scopes \cup {"default"}
      <4>1. InForce \in Frozen BY <1>1, InForceType DEF ApprovalInv
      <4> QED BY <4>1 DEF Frozen
    <3>3. FrozenKnown BY <1>1 DEF ApprovalInv
    <3> HIDE DEF InForce, DefaultStages
    <3> QED BY <3>1, <3>2, <3>3, InForceMeans DEF FrozenKnown
  <2> QED BY <2>3, <2>10, <2>11, <2>12
<1>2. ApprovalInv /\ [Next]_vars => [\A i \in DOMAIN requests : Approves(i) => Current(i)]_vars
  BY <1>1
<1> QED BY <1>2, ApprovalInvariance, PTL DEF Spec, ApprovedAsFrozen

\* The document is as its readers and reviewers take it (approvalSaveStatusTx).
THEOREM DocumentIsAsReviewed == Spec => []AsReviewed
BY PublicationStands, OneRequestLives, PTL DEF AsReviewed
==============================================================================
