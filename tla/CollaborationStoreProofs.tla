----------------------- MODULE CollaborationStoreProofs -----------------------
(* Proofs about CollaborationStore: journal, checkpoint and copies always      *)
(* stand for the latest committed state, a delta suffices wherever one is      *)
(* sent, and the store implements SharedDocument, for any operations, any      *)
(* projection, any number of instances and any bounds.                         *)
EXTENDS CollaborationStore, TLAPS

USE HistoryAssumption, StoreAssumption
----------------
(* The history and what the row says of it.                                   *)
LEMMA LatestType == ASSUME StoreTypeOK, Numbered
                    PROVE  /\ LastState \in CrdtState
                           /\ row.sequence = 0 <=> past = <<>>
                           /\ row.sequence = 0 => LastState = None
                           /\ row.sequence > 0 => LastState = past[row.sequence] /\ LastState # None
<1>1. past \in Seq(CrdtState) /\ Len(past) = row.sequence BY DEF StoreTypeOK, Numbered
<1>2. CASE past = <<>> BY <1>1, <1>2 DEF LastState, None, CrdtState
<1>3. CASE past # <<>>
  <2>1. Len(past) \in 1 .. Len(past) BY <1>1, <1>3
  <2> QED BY <1>1, <1>3, <2>1 DEF LastState, Numbered
<1> QED BY <1>2, <1>3

LEMMA ReplayOnto == ASSUME NEW from, NEW n
                    PROVE  Replay(from, n) = from \cup Replay(None, n)
  BY DEF Replay, None

LEMMA OneMore == ASSUME NEW S, NEW e
                 PROVE  UNION {x.update : x \in S \cup {e}} = e.update \cup UNION {x.update : x \in S}
  OBVIOUS

LEMMA StoredIsLatest == ASSUME StoreInv PROVE Stored = LastState
<1> USE DEF StoreInv
<1>1. row.sequence \in Nat /\ row.snapshot \in Nat /\ row.snapshot <= row.sequence
  BY DEF StoreTypeOK, Row, Anchored
<1>2. CASE row.snapshot = 0
  <2>1. row.sequence = 0 /\ row.state = None BY <1>2 DEF Anchored
  <2>2. Unmerged(0) = {} BY <2>1 DEF Unmerged, StoreTypeOK, Entry
  <2>3. Stored = None BY <1>2, <2>1, <2>2 DEF Stored, Replay, None
  <2> QED BY <2>1, <2>3, LatestType
<1>3. CASE row.snapshot # 0
  <2>1. row.state = past[row.snapshot] BY <1>3 DEF Anchored
  <2>2. row.snapshot \in 1 .. row.sequence BY <1>1, <1>3
  <2>3. past[row.snapshot] \cup Replay(None, row.snapshot) = LastState BY <1>1, <2>2 DEF Mergeable
  <2> QED BY <2>1, <2>3, ReplayOnto DEF Stored
<1> QED BY <1>2, <1>3

LEMMA HitIsLatest == ASSUME StoreInv, NEW i \in Instances, Hit(i)
                     PROVE  cache[i].raw = LastState /\ cache[i].doc = LastState
  BY DEF StoreInv, Hit, Numbered, CopiesSound, Sound

LEMMA WorkOnLatest == ASSUME StoreInv, NEW i \in Instances
                      PROVE  Prior(i) = LastState /\ Working(i) = LastState
  BY StoredIsLatest, HitIsLatest DEF Prior, Working
----------------
(* What each kind of change does to the store.                                *)
StoreOnly == Numbered /\ Anchored /\ Journaled /\ Mergeable /\ Growing /\ StateIsText

LEMMA StoreUntouched == ASSUME StoreOnly, UNCHANGED <<row, journal, past>>
                        PROVE  StoreOnly'
  BY DEF StoreOnly, Numbered, Anchored, Journaled, Mergeable, Growing, StateIsText, LastState, Replay, Unmerged

LEMMA ResetStore == ASSUME StoreTypeOK, NEW new \in Text, NewEpoch(new)
                    PROVE  /\ StoreOnly'
                           /\ row' \in Row /\ journal' \subseteq Entry /\ past' \in Seq(CrdtState)
<1>1. row' = Fresh(row.epoch + 1, new) /\ journal' = {} /\ past' = <<>> BY DEF NewEpoch
<1>2. row.epoch + 1 \in Nat BY DEF StoreTypeOK, Row
<1>3. row' \in Row BY <1>1, <1>2 DEF Fresh, Row, CrdtState, None
<1>4. row'.sequence = 0 /\ row'.snapshot = 0 /\ row'.state = None /\ row'.hash = None
  BY <1>1 DEF Fresh
<1>5. Numbered' BY <1>1, <1>4 DEF Numbered, LastState
<1>6. Anchored' BY <1>4 DEF Anchored
<1>7. Journaled' BY <1>1, <1>4 DEF Journaled
<1>8. Mergeable' BY <1>4 DEF Mergeable
<1>9. StateIsText' /\ Growing' BY <1>1 DEF StateIsText, Growing
<1> QED BY <1>1, <1>3, <1>5, <1>6, <1>7, <1>8, <1>9 DEF StoreOnly

\* A text projected from a new state shows that state.
LEMMA ProjectedShows ==
  ASSUME NEW old \in Text, NEW prior \in CrdtState, NEW state \in CrdtState,
         IF prior = None THEN Body[state] = old.body ELSE Body[prior] = old.body
  PROVE  Projected(old, prior, state) \in Text /\ Projected(old, prior, state).body = Body[state]
  BY DEF Projected, Serialized, Text

LEMMA PersistStore ==
  ASSUME StoreInv, NEW state \in CrdtState, NEW new \in Text, new.body = Body[state],
         LastState \subseteq state, state # None,
         Persist(row.sequence + 1, state \ LastState, state, new),
         past' = Append(past, state)
  PROVE  /\ StoreOnly'
         /\ row' \in Row /\ journal' \subseteq Entry /\ past' \in Seq(CrdtState)
<1> USE DEF StoreInv
<1>0. PICK next \in Nat : next = row.sequence + 1 BY DEF StoreTypeOK, Row
<1>1. /\ row.sequence \in Nat /\ row.snapshot \in Nat /\ row.epoch \in Nat
      /\ row.snapshot <= row.sequence
      /\ past \in Seq(CrdtState) /\ Len(past) = row.sequence /\ next = row.sequence + 1
  BY <1>0 DEF StoreTypeOK, Row, Anchored, Numbered
<1>2. /\ past' \in Seq(CrdtState) /\ Len(past') = next /\ past' # <<>>
      /\ past'[next] = state
      /\ \A n \in 1 .. row.sequence : past'[n] = past[n]
  BY <1>1
<1>3. LastState' = state BY <1>1, <1>2 DEF LastState
<1>4. /\ row' \in Row /\ row'.sequence = next /\ row'.hash = state
      /\ row'.projected = new /\ row'.epoch = row.epoch
  <2>1. Persist(next, state \ LastState, state, new) BY <1>0
  <2>2. row \in Row /\ new \in Text /\ state \in CrdtState BY DEF StoreTypeOK
  <2>3. CASE Checkpoint(next, state, new) BY ONLY <1>0, <2>2, <2>3 DEF Checkpoint, Row
  <2>4. CASE Log(next, state \ LastState, state, new) BY ONLY <1>0, <2>2, <2>4 DEF Log, Row
  <2> QED BY <2>1, <2>3, <2>4 DEF Persist
<1>5. Numbered'
  <2>1. \A n \in 1 .. Len(past') : past'[n] # None BY <1>1, <1>2 DEF Numbered
  <2> QED BY <1>2, <1>3, <1>4, <2>1 DEF Numbered
<1>6. StateIsText' /\ Growing'
  <2>1. \A n \in 1 .. row.sequence : past[n] \subseteq LastState BY <1>1, LatestType DEF Growing
  <2>2. ASSUME NEW m \in 1 .. next, NEW n \in 1 .. next, m <= n
        PROVE  past'[m] \subseteq past'[n]
    <3>1. CASE n \in 1 .. row.sequence BY <1>1, <1>2, <2>2, <3>1 DEF Growing
    <3>2. CASE n = next /\ m \in 1 .. row.sequence BY <1>2, <2>1, <3>2
    <3>3. CASE n = next /\ m = next BY <3>3
    <3> QED BY <1>1, <2>2, <3>1, <3>2, <3>3
  <2> QED BY <1>2, <1>3, <1>4, <2>2 DEF StateIsText, Growing
<1>7. CASE Checkpoint(next, state, new)
  <2>1. row'.state = state /\ row'.snapshot = next BY <1>1, <1>7 DEF Checkpoint, StoreTypeOK, Row
  <2>2. journal' = {} BY <1>1, <1>7 DEF Checkpoint, Journaled, StoreTypeOK, Entry
  <2>3. Anchored' BY <1>1, <1>2, <1>4, <2>1 DEF Anchored
  <2>4. Journaled' BY <1>1, <1>4, <2>1, <2>2 DEF Journaled
  <2>5. \A n \in Nat : Replay(None, n)' = None BY <2>2 DEF Replay, Unmerged, None
  <2>6. Mergeable' BY <1>1, <1>2, <1>3, <1>4, <2>1, <2>5 DEF Mergeable, None
  <2> QED BY <1>2, <1>4, <1>5, <1>6, <2>2, <2>3, <2>4, <2>6 DEF StoreOnly
<1>8. CASE Log(next, state \ LastState, state, new) /\ ~ CheckpointDue(next)
  <2> DEFINE entry == [epoch |-> row.epoch, sequence |-> next, update |-> state \ LastState]
  <2>1. row'.state = row.state /\ row'.snapshot = row.snapshot BY <1>8 DEF Log, StoreTypeOK, Row
  <2>2. journal' = journal \cup {entry} BY <1>8 DEF Log
  <2>3. entry \in Entry BY <1>1 DEF Entry, CrdtState
  <2>4. row.snapshot > 0 /\ next - row.snapshot < CheckpointUpdates BY <1>1, <1>8 DEF CheckpointDue
  <2>5. Anchored' BY <1>1, <1>2, <1>4, <2>1, <2>4 DEF Anchored
  <2>6. Journaled'
    <3>1. \A e \in journal' : e.epoch = row'.epoch /\ e.sequence <= next
      BY <1>1, <1>4, <2>2 DEF Journaled, StoreTypeOK, Entry
    <3>2. \A n \in row.snapshot + 1 .. next : \E e \in journal' : e.sequence = n
      <4>1. TAKE n \in row.snapshot + 1 .. next
      <4>2. CASE n = next
        <5>1. entry \in journal' /\ entry.sequence = next BY <2>2
        <5> QED BY <4>2, <5>1
      <4>3. CASE n # next BY <1>1, <2>2, <4>3 DEF Journaled
      <4> QED BY <4>2, <4>3
    <3> QED BY <1>4, <2>1, <3>1, <3>2 DEF Journaled
  <2>7. \A n \in 0 .. row.sequence : Replay(None, n)' = Replay(None, n) \cup (state \ LastState)
    <3>1. TAKE n \in 0 .. row.sequence
    <3>2. Unmerged(n)' = Unmerged(n) \cup {entry}
      BY <1>1, <1>4, <2>2 DEF Unmerged, Journaled, StoreTypeOK, Entry
    <3>3. entry.update = state \ LastState
      OBVIOUS
    <3>4. Replay(None, n)' = UNION {x.update : x \in Unmerged(n) \cup {entry}}
      BY <3>2 DEF Replay, None
    <3>5. Replay(None, n) = UNION {x.update : x \in Unmerged(n)} BY DEF Replay, None
    <3> HIDE DEF entry
    <3> QED BY <3>3, <3>4, <3>5, OneMore
  <2>8. Replay(None, next)' = None
    <3>1. Unmerged(next)' = {} BY <1>1, <1>4, <2>2, <2>3 DEF Unmerged, StoreTypeOK, Entry
    <3> QED BY <3>1 DEF Replay, None
  <2>9. Mergeable'
    <3>1. ASSUME NEW n \in 1 .. next, n >= row.snapshot
          PROVE  past'[n] \cup Replay(None, n)' = state
      <4>1. CASE n = next
        <5>1. past'[next] = state /\ Replay(None, n)' = None BY <1>2, <2>8, <4>1
        <5> QED BY <4>1, <5>1 DEF None
      <4>2. CASE n # next
        <5>1. n \in 1 .. row.sequence /\ n \in 0 .. row.sequence BY <1>1, <4>2
        <5>2. past[n] \cup Replay(None, n) = LastState BY <3>1, <5>1 DEF Mergeable
        <5> QED BY <1>2, <2>7, <5>1, <5>2
      <4> QED BY <4>1, <4>2
    <3> QED BY <1>3, <1>4, <2>1, <3>1 DEF Mergeable
  <2> QED BY <1>2, <1>4, <1>5, <1>6, <2>2, <2>3, <2>5, <2>6, <2>9 DEF StoreOnly, StoreTypeOK
<1> QED BY <1>0, <1>7, <1>8 DEF Persist

LEMMA PutBackStore ==
  ASSUME StoreInv, NEW n \in 1 .. MaxSequence, NEW new \in Text, PutBack(n, new)
  PROVE  /\ StoreOnly'
         /\ row' \in Row /\ journal' \subseteq Entry /\ past' \in Seq(CrdtState)
<1> USE DEF StoreInv
<1>1. /\ past \in Seq(CrdtState) /\ Len(past) = row.sequence
      /\ n \in 1 .. Len(past) /\ past[n] \in CrdtState /\ past[n] # None
  BY DEF StoreTypeOK, Numbered, PutBack
<1>2. /\ past' = SubSeq(past, 1, n) /\ past' \in Seq(CrdtState) /\ Len(past') = n /\ past' # <<>>
      /\ \A m \in 1 .. n : past'[m] = past[m]
  BY <1>1 DEF PutBack
<1>3. /\ row' \in Row /\ row'.sequence = n /\ row'.snapshot = n
      /\ row'.state = past[n] /\ row'.hash = past[n] /\ row'.projected = new
  <2>1. row' = [row EXCEPT !.sequence = n, !.state = past[n], !.snapshot = n,
                           !.projected = new, !.hash = past[n]]
    BY DEF PutBack
  <2>2. row \in Row /\ n \in Nat BY DEF StoreTypeOK
  <2> QED BY <1>1, <2>1, <2>2 DEF Row
<1>4. journal' = {} BY DEF PutBack
<1>5. LastState' = past[n] BY <1>2 DEF LastState
<1>6. Numbered' BY <1>1, <1>2, <1>3, <1>5 DEF Numbered
<1>7. Anchored' BY <1>2, <1>3 DEF Anchored
<1>8. Journaled' BY <1>3, <1>4 DEF Journaled
<1>9. Mergeable'
  <2>1. \A m \in Nat : Replay(None, m)' = None BY <1>4 DEF Replay, Unmerged, None
  <2> QED BY <1>2, <1>3, <1>5, <2>1 DEF Mergeable, None
<1>10. StateIsText' /\ Growing'
  <2>1. new.body = Body[past[n]] BY DEF PutBack
  <2>2. \A m \in 1 .. n : m \in 1 .. Len(past) BY <1>1
  <2> QED BY <1>2, <1>3, <1>5, <2>1, <2>2 DEF StateIsText, Growing
<1> QED BY <1>2, <1>3, <1>4, <1>6, <1>7, <1>8, <1>9, <1>10 DEF StoreOnly
----------------
(* Requests.                                                                  *)
LEMMA AdmittedUpdate ==
  ASSUME StoreInv, NEW i \in Instances, NEW update \in CrdtState, Admits(i, update)
  PROVE  /\ Working(i) = LastState /\ Prior(i) = LastState /\ row.projected = text
         /\ LastState \in CrdtState /\ LastState \cup update \in CrdtState /\ LastState \cup update # None
         /\ Acceptable(text, LastState, update)
         /\ Projected(text, LastState, LastState \cup update) \in Text
         /\ Projected(text, LastState, LastState \cup update).body = Body[LastState \cup update]
<1>1. Working(i) = LastState /\ Prior(i) = LastState BY WorkOnLatest
<1>2. row.projected = text /\ Acceptable(text, LastState, update) BY <1>1 DEF Admits
<1>3. LastState \in CrdtState /\ (LastState # None => past # <<>>)
  BY LatestType DEF StoreInv, LastState
<1>4. LastState \cup update \in CrdtState /\ LastState \cup update # None
  BY <1>2, <1>3 DEF Acceptable, CrdtState, None
<1>5. IF LastState = None THEN Body[LastState \cup update] = text.body ELSE Body[LastState] = text.body
  <2>1. CASE LastState = None
    <3>1. LastState \cup update = update BY <2>1 DEF None
    <3> QED BY <1>2, <2>1, <3>1 DEF Acceptable
  <2>2. CASE LastState # None BY <1>2, <1>3, <2>2 DEF StoreInv, StateIsText
  <2> QED BY <2>1, <2>2
<1>6. text \in Text BY DEF StoreInv, StoreTypeOK
<1> QED BY <1>1, <1>2, <1>3, <1>4, <1>5, <1>6, ProjectedShows

Copied(sequence, state) == [epoch |-> row.epoch, sequence |-> sequence, hash |-> state,
                            raw |-> state, doc |-> state]

LEMMA CopyType == ASSUME StoreTypeOK, NEW n \in Nat, NEW state \in CrdtState
                  PROVE  Copied(n, state) \in Copy /\ Sound(Copied(n, state))
  BY DEF Copied, Copy, Sound, StoreTypeOK, Row

LEMMA BlankType == Blank \in Copy /\ Sound(Blank)
  BY DEF Blank, Copy, Sound, CrdtState, None

CopyTypes == cache \in [Instances -> Copy] /\ held \in [Instances -> Copy]

\* Whatever becomes of the copy of one instance, all copies stay sound.
LEMMA CopiesStay ==
  ASSUME CopyTypes, CopiesSound, NEW i \in Instances, NEW c \in Copy, NEW h \in Copy,
         Sound(c), Sound(h),
         cache' \in {cache, [cache EXCEPT ![i] = c]}, held' \in {held, [held EXCEPT ![i] = h]}
  PROVE  CopyTypes' /\ CopiesSound'
  BY DEF CopyTypes, CopiesSound, Sound

LEMMA Assemble == StoreInv <=> /\ StoreOnly /\ CopyTypes /\ CopiesSound
                               /\ text \in Text /\ row \in Row /\ journal \subseteq Entry
                               /\ past \in Seq(CrdtState)
  BY DEF StoreInv, StoreOnly, CopyTypes, StoreTypeOK

LEMMA AssembleNext == ASSUME StoreOnly', CopyTypes', CopiesSound', text' \in Text, row' \in Row,
                             journal' \subseteq Entry, past' \in Seq(CrdtState)
                      PROVE  StoreInv'
  BY DEF StoreInv, StoreOnly, CopyTypes, StoreTypeOK

LEMMA AcceptKeeps == ASSUME StoreInv, NEW i \in Instances, NEW update \in CrdtState, Accept(i, update)
                     PROVE  StoreInv'
<1>1. Admits(i, update) BY DEF Accept
<1> DEFINE state == LastState \cup update
           new   == Projected(text, LastState, state)
<1>2. /\ Working(i) = LastState /\ Prior(i) = LastState
      /\ state \in CrdtState /\ state # None /\ new \in Text /\ new.body = Body[state]
  BY <1>1, AdmittedUpdate
<1>3. /\ text' = new
      /\ Persist(row.sequence + 1, state \ LastState, state, new)
      /\ past' = Append(past, state)
      /\ LetGo(i) /\ Hold(i, row.sequence + 1, state)
  BY <1>2 DEF Accept
<1>4. row.sequence + 1 \in Nat BY DEF StoreInv, StoreTypeOK, Row
<1>5. Copied(row.sequence + 1, state) \in Copy /\ Sound(Copied(row.sequence + 1, state))
  BY <1>2, <1>4, CopyType DEF StoreInv
<1>6. CopyTypes' /\ CopiesSound'
  BY <1>3, <1>5, BlankType, CopiesStay, Assemble DEF LetGo, Hold, Copied
<1>7. LastState \subseteq state
  OBVIOUS
<1> HIDE DEF state, new
<1>8. StoreOnly' /\ row' \in Row /\ journal' \subseteq Entry /\ past' \in Seq(CrdtState)
  BY <1>2, <1>3, <1>7, PersistStore
<1> QED BY <1>2, <1>3, <1>6, <1>8, AssembleNext

LEMMA CompactKeeps ==
  ASSUME StoreInv, NEW i \in Instances, NEW update \in CrdtState, AcceptAndCompact(i, update)
  PROVE  StoreInv'
<1>1. Admits(i, update) BY DEF AcceptAndCompact
<1> DEFINE new == Projected(text, LastState, LastState \cup update)
<1>2. Working(i) = LastState /\ Prior(i) = LastState /\ new \in Text BY <1>1, AdmittedUpdate
<1>3. text' = new /\ NewEpoch(new) /\ LetGo(i) /\ UNCHANGED held BY <1>2 DEF AcceptAndCompact
<1>4. CopyTypes' /\ CopiesSound' BY <1>3, BlankType, CopiesStay, Assemble DEF LetGo
<1>5. StoreOnly' /\ row' \in Row /\ journal' \subseteq Entry /\ past' \in Seq(CrdtState)
  BY <1>2, <1>3, ResetStore DEF StoreInv
<1> QED BY <1>2, <1>3, <1>4, <1>5, AssembleNext

LEMMA CopyStepKeeps ==
  ASSUME StoreInv, NEW i \in Instances, NEW update \in CrdtState,
         Repeat(i) \/ Refuse(i, update) \/ Keep(i) \/ Forget(i)
  PROVE  StoreInv'
<1>1. UNCHANGED <<text, row, journal, past>> BY DEF Repeat, Refuse, Keep, Forget
<1>2. StoreOnly' BY <1>1, StoreUntouched, Assemble
<1>3. CopyTypes' /\ CopiesSound'
  <2>1. CASE Repeat(i)
    <3>1. Working(i) = LastState /\ LastState \in CrdtState /\ row.sequence \in Nat
      BY WorkOnLatest, LatestType DEF StoreInv, StoreTypeOK, Row
    <3>2. Copied(row.sequence, LastState) \in Copy /\ Sound(Copied(row.sequence, LastState))
      BY <3>1, CopyType DEF StoreInv
    <3> QED BY <2>1, <3>1, <3>2, BlankType, CopiesStay, Assemble DEF Repeat, LetGo, Hold, Copied
  <2>2. CASE Refuse(i, update) BY <2>2, BlankType, CopiesStay, Assemble DEF Refuse, Discarded
  <2>3. CASE Keep(i)
    <3>1. held[i] \in Copy /\ Sound(held[i]) BY DEF StoreInv, StoreTypeOK, CopiesSound
    <3> QED BY <2>3, <3>1, BlankType, CopiesStay, Assemble DEF Keep
  <2>4. CASE Forget(i) BY <2>4, BlankType, CopiesStay, Assemble DEF Forget
  <2> QED BY <2>1, <2>2, <2>3, <2>4
<1> QED BY <1>1, <1>2, <1>3, Assemble, AssembleNext

\* A new epoch for any text.
LEMMA ResetKeeps == ASSUME StoreInv, NEW new \in Text, NewEpoch(new), text' = new,
                           UNCHANGED held, UNCHANGED cache \/ \E i \in Instances : LetGo(i)
                    PROVE  StoreInv'
<1>1. CopyTypes' /\ CopiesSound'
  <2>1. CASE UNCHANGED cache BY <2>1, Assemble DEF CopyTypes, CopiesSound, Sound
  <2>2. CASE \E i \in Instances : LetGo(i) BY <2>2, BlankType, CopiesStay, Assemble DEF LetGo
  <2> QED BY <2>1, <2>2
<1>2. StoreOnly' /\ row' \in Row /\ journal' \subseteq Entry /\ past' \in Seq(CrdtState)
  BY ResetStore DEF StoreInv
<1> QED BY <1>1, <1>2, AssembleNext

LEMMA UnseenKeeps ==
  ASSUME StoreInv, NEW new \in Text,
         Rewrite(new) \/ \E n \in 1 .. MaxSequence : PutBack(n, new)
  PROVE  StoreInv'
<1>1. CopyTypes' /\ CopiesSound' /\ text' = new
  BY Assemble DEF Rewrite, PutBack, CopyTypes, CopiesSound, Sound
<1>2. CASE Rewrite(new)
  <2>1. StoreOnly' BY <1>2, StoreUntouched, Assemble DEF Rewrite
  <2> QED BY <1>1, <1>2, <2>1, Assemble, AssembleNext DEF Rewrite
<1>3. CASE \E n \in 1 .. MaxSequence : PutBack(n, new)
  <2>1. StoreOnly' /\ row' \in Row /\ journal' \subseteq Entry /\ past' \in Seq(CrdtState)
    BY <1>3, PutBackStore
  <2> QED BY <1>1, <2>1, AssembleNext
<1> QED BY <1>2, <1>3

LEMMA NextKeeps == ASSUME StoreInv, StoreNext PROVE StoreInv'
<1>0. text \in Text BY DEF StoreInv, StoreTypeOK
<1>1. ASSUME NEW i \in Instances, NEW update \in CrdtState, Accept(i, update)
      PROVE  StoreInv'
  BY <1>1, AcceptKeeps
<1>2. ASSUME NEW i \in Instances, NEW update \in CrdtState, AcceptAndCompact(i, update)
      PROVE  StoreInv'
  BY <1>2, CompactKeeps
<1>3. ASSUME NEW i \in Instances, NEW update \in CrdtState, Refuse(i, update)
      PROVE  StoreInv'
  BY <1>3, CopyStepKeeps
<1>4. ASSUME NEW i \in Instances, Repeat(i) \/ Keep(i) \/ Forget(i)
      PROVE  StoreInv'
  <2>1. None \in CrdtState BY DEF None, CrdtState
  <2> QED BY <1>4, <2>1, CopyStepKeeps
<1>5. ASSUME NEW i \in Instances, RebaseByWriter(i)
      PROVE  StoreInv'
  BY <1>0, <1>5, ResetKeeps DEF RebaseByWriter
<1>6. ASSUME NEW new \in Text, ReplaceText(new)
      PROVE  StoreInv'
  BY <1>6, ResetKeeps DEF ReplaceText
<1>7. ASSUME NEW new \in Text, Rewrite(new) \/ \E n \in 1 .. MaxSequence : PutBack(n, new)
      PROVE  StoreInv'
  BY <1>7, UnseenKeeps
<1>8. ASSUME Rebase \/ CompactByHand
      PROVE  StoreInv'
  BY <1>0, <1>8, ResetKeeps DEF Rebase, CompactByHand
<1> QED BY <1>1, <1>2, <1>3, <1>4, <1>5, <1>6, <1>7, <1>8 DEF StoreNext

LEMMA InitHolds == StoreInit => StoreInv
<1> SUFFICES ASSUME StoreInit PROVE StoreInv
  OBVIOUS
<1>1. /\ text \in Text /\ row = Fresh(1, text) /\ journal = {} /\ past = <<>>
      /\ \A i \in Instances : cache[i] = Blank /\ held[i] = Blank
      /\ CopyTypes
  BY BlankType DEF StoreInit, CopyTypes
<1>2. CopiesSound BY <1>1, BlankType DEF CopiesSound
<1>3. row \in Row /\ row.sequence = 0 /\ row.snapshot = 0 /\ row.state = None /\ row.hash = None
  BY <1>1 DEF Fresh, Row, CrdtState, None
<1>4. past \in Seq(CrdtState) /\ Len(past) = 0 /\ LastState = None BY <1>1 DEF LastState
<1>5. StoreOnly
  BY <1>1, <1>3, <1>4 DEF StoreOnly, Numbered, Anchored, Journaled, Mergeable, Growing, StateIsText
<1> QED BY <1>1, <1>2, <1>3, <1>4, <1>5, Assemble

\* collaborationPersistTx, collaborationResetTx and the cache together keep the
\* inductive invariant, whatever is accepted, refused, reset or forgotten.
THEOREM StoreInvariance == StoreSpec => []StoreInv
<1>1. StoreInv /\ [StoreNext]_storeVars => StoreInv'
  <2> SUFFICES ASSUME StoreInv, [StoreNext]_storeVars PROVE StoreInv'
    OBVIOUS
  <2>1. CASE StoreNext BY <2>1, NextKeeps
  <2>2. CASE UNCHANGED storeVars
    <3>1. UNCHANGED <<text, row, journal, past, cache, held>> BY <2>2 DEF storeVars
    <3>2. StoreOnly' BY <3>1, StoreUntouched, Assemble
    <3>3. CopyTypes' /\ CopiesSound' BY <3>1, Assemble DEF CopyTypes, CopiesSound, Sound
    <3> QED BY <3>1, <3>2, <3>3, Assemble, AssembleNext
  <2> QED BY <2>1, <2>2
<1> QED BY <1>1, InitHolds, PTL DEF StoreSpec
----------------
(* What follows for readers, writers and copies.                              *)

\* A request never finds a journal that collaborationReplay refuses.
THEOREM JournalHasNoGap == StoreSpec => []NoGap
<1>1. ASSUME StoreInv PROVE NoGap
  <2>1. /\ row.sequence \in Nat /\ row.snapshot \in Nat /\ row.snapshot <= row.sequence
        /\ row.sequence - row.snapshot <= CheckpointUpdates + 1
    BY <1>1 DEF StoreInv, StoreTypeOK, Row, Anchored
  <2>2. ASSUME NEW n \in row.snapshot + 1 .. row.sequence
        PROVE  \E e \in Unmerged(row.snapshot) : e.sequence = n
    BY <1>1, <2>1, <2>2 DEF StoreInv, Journaled, Unmerged
  <2> QED BY <2>1, <2>2 DEF NoGap, Gapless
<1> QED BY <1>1, StoreInvariance, PTL

\* The delta or the full state that collaborationStateSince sends completes
\* whatever earlier state of the epoch its reader has.
THEOREM ReadersCatchUp == StoreSpec => []CatchUp
<1>1. ASSUME StoreInv PROVE CatchUp
  <2>1. Stored = LastState BY <1>1, StoredIsLatest
  <2>2. row.sequence \in Nat /\ row.snapshot \in Nat BY <1>1 DEF StoreInv, StoreTypeOK, Row
  <2>3. ASSUME NEW n \in 1 .. row.sequence
        PROVE  past[n] \cup Reply(n) = LastState
    <3>1. CASE n >= row.snapshot
      <4>1. past[n] \cup Replay(None, n) = LastState BY <1>1, <3>1 DEF StoreInv, Mergeable
      <4>2. row.state # None
        <5>1. row.snapshot # 0 /\ row.snapshot \in 1 .. Len(past)
          BY <1>1, <2>2 DEF StoreInv, Anchored, Numbered
        <5> QED BY <1>1, <5>1 DEF StoreInv, Anchored, Numbered
      <4> QED BY <3>1, <4>1, <4>2 DEF Reply
    <3>2. CASE ~ n >= row.snapshot
      <4>1. past[n] \subseteq LastState BY <1>1, <2>2, LatestType DEF StoreInv, Numbered, Growing
      <4>2. Reply(n) = LastState BY <2>1, <3>2 DEF Reply
      <4> QED BY <4>1, <4>2
    <3> QED BY <3>1, <3>2
  <2> QED BY <2>1, <2>3 DEF CatchUp
<1> QED BY <1>1, StoreInvariance, PTL

\* A copy that passes the comparison with the row is the latest state.
THEOREM CopiesAreCurrent == StoreSpec => []CopyIsLatest
<1>1. StoreInv => CopyIsLatest BY HitIsLatest DEF CopyIsLatest
<1> QED BY <1>1, StoreInvariance, PTL
----------------
(* The store implements the shared document.                                  *)
LEMMA LatestMeets == LastState = Document!Latest
  BY DEF LastState, Document!Latest, None, Document!None

LEMMA ResetMeets == ASSUME NEW new, NewEpoch(new), text' = new
                    PROVE  Document!StartAgain(new)
  BY DEF NewEpoch, Fresh, Document!StartAgain

LEMMA AcceptMeets == ASSUME StoreInv, NEW i \in Instances, NEW update \in CrdtState, Accept(i, update)
                     PROVE  Document!Accept(update)
<1>1. Admits(i, update) BY DEF Accept
<1>2. /\ Working(i) = LastState /\ Prior(i) = LastState
      /\ row.projected = text /\ Acceptable(text, LastState, update)
  BY <1>1, AdmittedUpdate
<1> DEFINE state == LastState \cup update
           new   == Projected(text, LastState, state)
<1>3. /\ text' = new
      /\ past' = Append(past, state)
      /\ Persist(row.sequence + 1, state \ LastState, state, new)
  BY <1>2 DEF Accept
<1> HIDE DEF state, new
<1>4. row'.projected = new /\ row'.epoch = row.epoch
  BY <1>3 DEF Persist, Checkpoint, Log, StoreInv, StoreTypeOK, Row
<1> USE DEF state, new
<1>5. /\ Document!Acceptable(text, LastState, update)
      /\ Document!Projected(text, LastState, state) = new
  BY <1>2 DEF Acceptable, Projected, Serialized, Applicable, None, Document!Acceptable,
              Document!Projected, Document!Serialized, Document!Applicable, Document!None
<1> QED BY <1>2, <1>3, <1>4, <1>5, LatestMeets DEF Document!Accept

LEMMA CompactMeets ==
  ASSUME StoreInv, NEW i \in Instances, NEW update \in CrdtState, AcceptAndCompact(i, update)
  PROVE  Document!AcceptLast(update)
<1>1. Admits(i, update) BY DEF AcceptAndCompact
<1>2. /\ Working(i) = LastState /\ Prior(i) = LastState
      /\ row.projected = text /\ Acceptable(text, LastState, update)
  BY <1>1, AdmittedUpdate
<1> DEFINE new == Projected(text, LastState, LastState \cup update)
<1>3. NewEpoch(new) /\ text' = new BY <1>2 DEF AcceptAndCompact
<1>4. Document!StartAgain(new) BY <1>3, ResetMeets
<1>5. /\ Document!Acceptable(text, LastState, update)
      /\ Document!Projected(text, LastState, LastState \cup update) = new
  BY <1>2 DEF Acceptable, Projected, Serialized, Applicable, None, Document!Acceptable,
              Document!Projected, Document!Serialized, Document!Applicable, Document!None
<1> QED BY <1>2, <1>4, <1>5, LatestMeets DEF Document!AcceptLast

LEMMA PutBackMeets == ASSUME StoreInv, NEW n \in 1 .. MaxSequence, NEW new \in Text, PutBack(n, new)
                      PROVE  Document!PutBack
<1>1. past \in Seq(CrdtState) /\ n \in 1 .. Len(past) /\ past' = SubSeq(past, 1, n)
  BY DEF StoreInv, StoreTypeOK, PutBack
<1>2. Len(past') = n /\ past'[n] = past[n] BY <1>1
<1>3. row' = [row EXCEPT !.sequence = n, !.state = past[n], !.snapshot = n,
                         !.projected = new, !.hash = past[n]]
      /\ text' = new /\ new.body = Body[past[n]]
  BY DEF PutBack
<1>4. row'.projected = new /\ row'.epoch = row.epoch BY <1>3 DEF StoreInv, StoreTypeOK, Row
<1>5. new \in Document!Text BY DEF Text, Document!Text
<1> QED BY <1>1, <1>2, <1>3, <1>4, <1>5 DEF Document!PutBack

\* collaborationStateSince, the journal and the copies promise no more and no
\* less than a document whose text and editing state change together.
THEOREM StoreImplements == StoreSpec => SharedDocument
<1>1. StoreInit => Document!Init BY DEF StoreInit, Document!Init, Fresh, Text, Document!Text
<1>2. StoreInv /\ [StoreNext]_storeVars => [Document!Next]_(Document!vars)
  <2> SUFFICES ASSUME StoreInv, [StoreNext]_storeVars PROVE [Document!Next]_(Document!vars)
    OBVIOUS
  <2>1. ASSUME NEW i \in Instances, NEW update \in CrdtState,
               Accept(i, update) \/ AcceptAndCompact(i, update)
        PROVE  Document!Next
    <3>1. Document!Accept(update) \/ Document!AcceptLast(update) BY <2>1, AcceptMeets, CompactMeets
    <3> QED BY <3>1 DEF Document!Next, CrdtState, Document!CrdtState
  <2>2. ASSUME NEW i \in Instances, NEW update \in CrdtState,
               Refuse(i, update) \/ Repeat(i) \/ Keep(i) \/ Forget(i)
        PROVE  UNCHANGED Document!vars
    BY <2>2 DEF Refuse, Repeat, Keep, Forget, Document!vars
  <2>3. ASSUME NEW i \in Instances, RebaseByWriter(i) PROVE Document!Next
    BY <2>3, ResetMeets DEF RebaseByWriter, Document!Next, Document!Restart
  <2>4. ASSUME NEW new \in Text, Rewrite(new) PROVE Document!Next
    BY <2>4 DEF Rewrite, Document!Next, Document!Rewrite, Text, Document!Text
  <2>5. ASSUME NEW new \in Text, ReplaceText(new) PROVE Document!Next
    BY <2>5, ResetMeets DEF ReplaceText, Document!Next, Document!Replace, Text, Document!Text
  <2>6. ASSUME NEW n \in 1 .. MaxSequence, NEW new \in Text, PutBack(n, new)
        PROVE  Document!Next
    BY <2>6, PutBackMeets DEF Document!Next
  <2>7. ASSUME Rebase \/ CompactByHand PROVE Document!Next
    BY <2>7, ResetMeets DEF Rebase, CompactByHand, Document!Next, Document!Restart
  <2>8. CASE UNCHANGED storeVars BY <2>8 DEF storeVars, Document!vars
  <2>9. None \in CrdtState BY DEF None, CrdtState
  <2> QED BY <2>1, <2>2, <2>3, <2>4, <2>5, <2>6, <2>7, <2>8, <2>9 DEF StoreNext
<1> QED BY <1>1, <1>2, StoreInvariance, PTL DEF StoreSpec, SharedDocument, Document!Spec

\* Every reader is brought to the latest state (collaborationStateSince).
THEOREM ReadersStayCurrent == StoreSpec => []ReadersAreCurrent
BY JournalHasNoGap, ReadersCatchUp, CopiesAreCurrent, PTL DEF ReadersAreCurrent
==============================================================================
