----------------------------- MODULE EditHistory -----------------------------
(* The data of collaborative editing, as far as the server tells it apart. A  *)
(* CRDT state is the set of the operations it holds (insertions, deletions,   *)
(* block ids); applying or merging updates is union, in any order, any number *)
(* of times. What a state shows (collaborationMarkdown) is Body.              *)
EXTENDS Integers

CONSTANTS
  Ops,     \* operations of editors
  Needs,   \* operations without which an operation cannot be applied
  Fronts,  \* YAML front matter, which the editors never see
  Bodies,  \* Markdown after the front matter, up to its notation
  Body,    \* what a state shows
  Heavy    \* the states whose history is due for compaction (12 MiB)

CrdtState == SUBSET Ops
None  == {}        \* no state: the epoch has not been seeded
Text  == [front : Fronts, body : Bodies, own : BOOLEAN]
         \* own: in the notation of its author, not of the serializer

ASSUME HistoryAssumption == /\ Needs \in [Ops -> SUBSET Ops]
                            /\ Body \in [CrdtState -> Bodies]
                            /\ Heavy \subseteq CrdtState

\* crdt.PendingStats: everything an operation builds on is there.
Applicable(state) == \A op \in state : Needs[op] \subseteq state

\* Opening an editor or moving block ids is not an edit: the text stays to the
\* letter unless the state shows something else than before. An edit keeps the
\* front matter and writes the body in the serializer's notation.
Serialized(text, body) == [text EXCEPT !.body = body, !.own = FALSE]
Projected(text, prior, state) ==
  IF prior = None \/ Body[state] = Body[prior] THEN text
  ELSE Serialized(text, Body[state])

\* The first state of an epoch must show the text it is made from; a later
\* update must bring something new.
Acceptable(text, prior, update) ==
  /\ update # None
  /\ Applicable(prior \cup update)
  /\ ~ update \subseteq prior
  /\ prior = None => Body[update] = text.body
==============================================================================
