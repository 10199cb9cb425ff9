------------------------- MODULE CollaborationStore -------------------------
(* How the servers keep the editing state of one document                     *)
(* (internal/server/collaboration.go and collaboration_journal.go, _cache.go, *)
(* _diagnostics.go): a checkpoint and a journal of updates in PostgreSQL, and *)
(* in each server instance a private copy of the last state it committed. The *)
(* row lock of the document makes the transaction of a request one action;    *)
(* the instance keeps its copy in a later one, after the commit.              *)
EXTENDS EditHistory, Sequences

CONSTANTS
  Instances,          \* server processes
  CheckpointUpdates,  \* updates after which a checkpoint is due
  MaxEpochs,          \* bound: epochs
  MaxSequence         \* bound: updates accepted in an epoch

ASSUME StoreAssumption == /\ CheckpointUpdates \in Nat \ {0}
                          /\ MaxEpochs \in Nat
                          /\ MaxSequence \in Nat

VARIABLES
  text,     \* documents.markdown
  row,      \* the row of document_collaboration
  journal,  \* collaboration_updates
  past,     \* history: the states committed in this epoch
  cache,    \* cache[i]: what instance i remembers of the document
  held      \* held[i]: what a request of i has committed and not kept yet

storeVars == <<text, row, journal, past, cache, held>>

Row   == [epoch     : Nat,
          sequence  : Nat,
          state     : CrdtState,   \* the last checkpoint
          snapshot  : Nat,     \* the sequence it was taken at
          projected : Text,
          hash      : CrdtState]   \* digest of the latest state; None if there is none
Entry == [epoch : Nat, sequence : Nat, update : CrdtState]
Copy  == [epoch    : Nat,
          sequence : Nat,
          hash     : CrdtState,
          raw      : CrdtState,    \* the encoded state
          doc      : CrdtState]    \* the native document, which requests work on
Blank == [epoch |-> 0, sequence |-> 0, hash |-> None, raw |-> None, doc |-> None]

StoreTypeOK == /\ text \in Text
               /\ row \in Row
               /\ journal \subseteq Entry
               /\ past \in Seq(CrdtState)
               /\ cache \in [Instances -> Copy]
               /\ held \in [Instances -> Copy]

\* The first request for a document inserts the row.
Fresh(epoch, new) == [epoch |-> epoch, sequence |-> 0, state |-> None, snapshot |-> 0,
                      projected |-> new, hash |-> None]

StoreInit == /\ text \in Text
             /\ row = Fresh(1, text)
             /\ journal = {}
             /\ past = <<>>
             /\ cache = [i \in Instances |-> Blank]
             /\ held = [i \in Instances |-> Blank]
----------------
(* Reading.                                                                   *)
Unmerged(since) == {e \in journal : e.epoch = row.epoch /\ since < e.sequence /\ e.sequence <= row.sequence}

\* collaborationReplay refuses a journal with a gap or with too long a tail.
Gapless(since) == /\ since <= row.sequence
                  /\ row.sequence - since <= CheckpointUpdates + 1
                  /\ \A n \in since + 1 .. row.sequence : \E e \in Unmerged(since) : e.sequence = n
Replay(from, since) == from \cup UNION {e.update : e \in Unmerged(since)}
Stored == Replay(row.state, row.snapshot)

\* What a reader is sent that has the state of sequence since of this epoch.
AnswerEarly(since) == IF row.state # None THEN Replay(None, since) ELSE Stored   \* mutant
Reply(since) == IF since >= row.snapshot /\ row.state # None
                THEN Replay(None, since)
                ELSE Stored
----------------
(* Writing.                                                                   *)
HitBySequence(i) ==                                                   \* mutant
  /\ row.projected = text /\ cache[i].doc # None
  /\ cache[i].epoch = row.epoch /\ cache[i].sequence = row.sequence
Hit(i) == /\ row.projected = text
          /\ cache[i].doc # None
          /\ cache[i].epoch = row.epoch
          /\ cache[i].sequence = row.sequence
          /\ row.hash # None
          /\ cache[i].hash = row.hash

Prior(i)   == IF Hit(i) THEN cache[i].raw ELSE Stored
Working(i) == IF Hit(i) THEN cache[i].doc ELSE Stored

\* A failed request throws its copy away, which may hold the refused update.
DiscardedNot(copy, update) == [copy EXCEPT !.doc = @ \cup update]    \* mutant
Discarded(copy, update)    == Blank

\* A request owns the copy of its instance from its first look at it until it
\* has kept it or thrown it away.
Owns(i) == held[i] = Blank
LetGo(i) == cache' = [cache EXCEPT ![i] = Blank]
Hold(i, sequence, state) ==
  held' = [held EXCEPT ![i] = [epoch |-> row.epoch, sequence |-> sequence,
                               hash |-> state, raw |-> state, doc |-> state]]

\* collaborationResetTx
NewEpoch(new) == /\ row.epoch < MaxEpochs
                 /\ row' = Fresh(row.epoch + 1, new)
                 /\ journal' = {}
                 /\ past' = <<>>

\* collaborationPersistTx
Checkpoint(sequence, state, new) ==
  /\ row' = [row EXCEPT !.sequence = sequence, !.state = state, !.snapshot = sequence,
                        !.projected = new, !.hash = state]
  /\ journal' = {e \in journal : e.epoch = row.epoch => e.sequence > sequence}
LogBefore(sequence, delta, state, new) ==                             \* mutant
  /\ row' = [row EXCEPT !.sequence = sequence, !.projected = new, !.hash = state]
  /\ journal' = journal \cup {[epoch |-> row.epoch, sequence |-> row.sequence, update |-> delta]}
Log(sequence, delta, state, new) ==
  /\ row' = [row EXCEPT !.sequence = sequence, !.projected = new, !.hash = state]
  /\ journal' = journal \cup {[epoch |-> row.epoch, sequence |-> sequence, update |-> delta]}
CheckpointDue(sequence) == row.snapshot = 0 \/ sequence - row.snapshot >= CheckpointUpdates
Persist(sequence, delta, state, new) ==
  \/ Checkpoint(sequence, state, new)          \* also after a minute or a mebibyte
  \/ ~ CheckpointDue(sequence) /\ Log(sequence, delta, state, new)

AdmitsOverRewrite(i, update) == /\ Owns(i)                              \* mutant
                                /\ Hit(i) \/ Gapless(row.snapshot)
                                /\ Acceptable(text, Prior(i), update)
                                /\ Applicable(Working(i) \cup update)
\* collaborationStateSince up to the point where the update is applied.
Admits(i, update) == /\ Owns(i)
                     /\ row.projected = text
                     /\ Hit(i) \/ Gapless(row.snapshot)
                     /\ Acceptable(text, Prior(i), update)
                     /\ Applicable(Working(i) \cup update)

Accept(i, update) ==
  LET state == Working(i) \cup update
      new   == Projected(text, Prior(i), state)
      next  == row.sequence + 1
  IN  /\ Admits(i, update)
      /\ next <= MaxSequence
      /\ state \notin Heavy
      /\ text' = new
      /\ Persist(next, state \ Working(i), state, new)
      /\ past' = Append(past, state)
      /\ LetGo(i)
      /\ Hold(i, next, state)

AcceptAndCompact(i, update) ==
  LET state == Working(i) \cup update
      new   == Projected(text, Prior(i), state)
  IN  /\ Admits(i, update)
      /\ state \in Heavy
      /\ text' = new
      /\ NewEpoch(new)
      /\ LetGo(i)
      /\ UNCHANGED held

\* The update holds nothing new: it is acknowledged and nothing is written.
Repeat(i) == /\ Owns(i)
             /\ row.projected = text
             /\ Hit(i) \/ Gapless(row.snapshot)
             /\ Prior(i) # None
             /\ LetGo(i)
             /\ Hold(i, row.sequence, Working(i))
             /\ UNCHANGED <<text, row, journal, past>>

\* A stale epoch, a lost right, an update that cannot be applied or is refused by
\* a limit or a policy, a failure of the database.
Refuse(i, update) == /\ Owns(i)
                     /\ cache' = [cache EXCEPT ![i] = Discarded(@, update)]
                     /\ UNCHANGED <<text, row, journal, past, held>>

\* The request keeps the copy after its commit, unless there is no room for it.
Keep(i) == /\ ~ Owns(i)
           /\ cache' = [cache EXCEPT ![i] = held[i]]
           /\ held' = [held EXCEPT ![i] = Blank]
           /\ UNCHANGED <<text, row, journal, past>>

\* The last editor of the instance leaves, the budget is spent, or it restarts.
Forget(i) == /\ cache' = [cache EXCEPT ![i] = Blank]
             /\ held' = [held EXCEPT ![i] = Blank]
             /\ UNCHANGED <<text, row, journal, past>>
----------------
(* Everything else that touches the text or the row.                          *)
Rewrite(new) == /\ text' = new
                /\ UNCHANGED <<row, journal, past, cache, held>>

\* A reader finds that the text is not the one of the editing state.
Rebase == /\ row.projected # text
          /\ NewEpoch(text)
          /\ UNCHANGED <<text, cache, held>>

\* So does a writer, whose update is then of an older epoch.
RebaseByWriter(i) == /\ Owns(i)
                     /\ row.projected # text
                     /\ NewEpoch(text)
                     /\ LetGo(i)
                     /\ UNCHANGED <<text, held>>

\* compactCollaboration: the owner or an administrator starts a new history.
CompactByHand == NewEpoch(text) /\ UNCHANGED <<text, cache, held>>

\* The migration writes a document, or a backup is restored.
ReplaceText(new) == NewEpoch(new) /\ text' = new /\ UNCHANGED <<cache, held>>

\* The database is put back to an earlier moment of the epoch from outside,
\* while the servers run: the hash is there for this.
PutBack(n, new) == /\ n \in 1 .. Len(past)
                   /\ new.body = Body[past[n]]
                   /\ text' = new
                   /\ row' = [row EXCEPT !.sequence = n, !.state = past[n], !.snapshot = n,
                                         !.projected = new, !.hash = past[n]]
                   /\ journal' = {}
                   /\ past' = SubSeq(past, 1, n)
                   /\ UNCHANGED <<cache, held>>

StoreNext == \/ \E i \in Instances, update \in CrdtState :
                  Accept(i, update) \/ AcceptAndCompact(i, update) \/ Refuse(i, update)
             \/ \E i \in Instances : Repeat(i) \/ Keep(i) \/ Forget(i) \/ RebaseByWriter(i)
             \/ \E new \in Text : Rewrite(new) \/ ReplaceText(new)
             \/ \E n \in 1 .. MaxSequence, new \in Text : PutBack(n, new)
             \/ Rebase \/ CompactByHand

StoreSpec == StoreInit /\ [][StoreNext]_storeVars
----------------
LastState == IF past = <<>> THEN None ELSE past[Len(past)]

\* Inductive: what each part of the store knows of the latest state. Journal and
\* checkpoint are of this epoch and leave no gap; merged with what comes after
\* it, every earlier state gives the latest; states only grow; a copy is one
\* state throughout.
Numbered  == /\ Len(past) = row.sequence
             /\ row.hash = LastState
             /\ \A n \in 1 .. Len(past) : past[n] # None
Anchored  == /\ row.snapshot <= row.sequence
             /\ row.sequence - row.snapshot <= CheckpointUpdates
             /\ IF row.snapshot = 0 THEN row.sequence = 0 /\ row.state = None
                ELSE row.state = past[row.snapshot]
Journaled == /\ \A e \in journal : e.epoch = row.epoch /\ e.sequence <= row.sequence
             /\ \A n \in row.snapshot + 1 .. row.sequence : \E e \in journal : e.sequence = n
Mergeable == \A n \in 1 .. row.sequence :
               n >= row.snapshot => past[n] \cup Replay(None, n) = LastState
Growing   == \A m, n \in 1 .. Len(past) : m <= n => past[m] \subseteq past[n]
Sound(copy) == copy.raw = copy.hash /\ copy.doc = copy.hash
CopiesSound == \A i \in Instances : Sound(cache[i]) /\ Sound(held[i])

\* The editing state shows the text it is stored with, however the text was
\* written, so that comparing with it tells an edit from an opened editor.
StateIsText == past # <<>> => Body[LastState] = row.projected.body

StoreInv == /\ StoreTypeOK /\ Numbered /\ Anchored /\ Journaled /\ Mergeable /\ Growing
            /\ CopiesSound /\ StateIsText

\* The journal is never one that collaborationReplay refuses: no update of the
\* tail is missing and the tail is no longer than a reader accepts.
NoGap == Gapless(row.snapshot)

\* A reader that has the state of any earlier moment of the epoch gets, with
\* the delta or with the full state it is sent, the latest state; and so does
\* one that has nothing.
CatchUp == /\ Stored = LastState
           /\ \A n \in 1 .. row.sequence : past[n] \cup Reply(n) = LastState

\* A copy that passes the comparison of collaborationStateSince is the latest
\* committed state, whatever other instances have committed, refused or reset.
CopyIsLatest == \A i \in Instances : Hit(i) => cache[i].raw = LastState /\ cache[i].doc = LastState

\* Whoever asks, from whatever state and by way of a journal or of a copy, is
\* brought to the latest committed state (collaborationStateSince).
ReadersAreCurrent == NoGap /\ CatchUp /\ CopyIsLatest

\* The store keeps the promise of a shared document.
Document == INSTANCE SharedDocument
              WITH basis <- row.projected, epoch <- row.epoch, log <- past
SharedDocument == Document!Spec
==============================================================================
