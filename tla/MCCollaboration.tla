--------------------------- MODULE MCCollaboration ---------------------------
(* The editors of one document and the servers that keep it. A behaviour is of *)
(* the tabs with their sockets or of the store behind them, its scene; what is *)
(* between the two is SharedDocument, which the store implements. Tabs are     *)
(* alike, and so are instances, which take the same names.                     *)
EXTENDS MCCollaborationSession, CollaborationStore

CONSTANTS front, typed, more, erase, ids  \* insertions, a deletion, block ids

VARIABLE scene

Operations == {typed, more, erase, ids}
Builds     == [op \in Operations |-> IF op = erase THEN {typed} ELSE {}]
Visible    == {{}, {typed}, {more}, {typed, more}}
Shows      == [state \in SUBSET Operations |->
                 (state \cap {typed, more}) \ (IF erase \in state THEN {typed} ELSE {})]
Large      == {Operations}

collaborationVars == <<scene, vars, storeVars>>

\* Nobody edits; nobody asks for the text, which is some text.
NoTabs  == Init /\ rights = {}
NoStore == StoreInit /\ text = CHOOSE new \in Text : TRUE

CollaborationInit ==
  /\ scene \in {"tabs", "store"}
  /\ IF scene = "tabs" THEN Init ELSE NoTabs
  /\ IF scene = "store" THEN StoreInit ELSE NoStore

CollaborationNext ==
  /\ UNCHANGED scene
  /\ \/ scene = "tabs" /\ Next /\ UNCHANGED storeVars
     \/ scene = "store" /\ StoreNext /\ UNCHANGED vars

CollaborationSpec == CollaborationInit /\ [][CollaborationNext]_collaborationVars
==============================================================================
