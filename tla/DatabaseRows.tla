----------------------------- MODULE DatabaseRows -----------------------------
(* A database of a workspace and its rows (internal/server/data.go,               *)
(* database_editing.go, database_advanced_ai.go). The properties may change while *)
(* people write rows, several cells at once after a preview, and while a model    *)
(* composes the value of a cell. A writer's transaction keeps the database row    *)
(* locked FOR SHARE from its validation on; changing the properties needs it      *)
(* FOR UPDATE.                                                                    *)
EXTENDS Integers, FiniteSets

CONSTANTS
  TableEditors,  \* requests of people, and of the model that composes
  TableRows,     \* rows
  TableChanges,  \* bound: changes of rows
  TableSchemas,  \* bound: changes of the properties
  TableGrants    \* bound: changes of the right to write

VARIABLES
  tabSchema,  \* databases: the type of each property, or Dropped
  tabMay,     \* whether its space lets the people write
  tabRows,    \* database_rows
  tabTurns,   \* what each request has read and holds
  tabBounds   \* bounds

tabVars == <<tabSchema, tabMay, tabRows, tabTurns, tabBounds>>

\* The first property is entered; the second is composed or computed.
Titles == {"text", "number"}
Others == {"ai", "formula"}
SchemasOf(t) == {[title |-> t]} \cup {[title |-> t, other |-> o] : o \in Others}
TablesSchemas == UNION {SchemasOf(t) : t \in Titles}
Cells == {"title", "other"}
Written(how) == {IF how = "create" THEN "said" ELSE "edited", "five"}
Dropped == [dropped |-> TRUE]
TableThere == tabSchema # Dropped

NoTableRow == [state |-> "none"]
FirstRow == [state |-> "row", values |-> [title |-> "said"], version |-> 1, touched |-> 1]
NoTurn == [at |-> "idle"]
LiveRows == {r \in TableRows : tabRows[r].state = "row"}

\* validateValuesForProperties
Fits(schema, cell, v) ==
  /\ cell \in DOMAIN schema
  /\ schema[cell] # "formula"
  /\ (schema[cell] = "number") = (v = "five")
RowFits(schema, values) == \A c \in DOMAIN values : Fits(schema, c, values[c])

TableTypeOK ==
  /\ tabSchema \in TablesSchemas \cup {Dropped} /\ tabMay \in BOOLEAN
  /\ \A r \in TableRows : \/ tabRows[r].state \in {"none", "gone"}
                          \/ /\ tabRows[r].state = "row" /\ tabRows[r].version \in 1..(1 + TableChanges + TableSchemas)
                             /\ DOMAIN tabRows[r].values \subseteq Cells
  /\ \A w \in TableEditors : tabTurns[w].at \in {"idle", "looked", "checked", "asked"}

TableInit ==
  /\ tabSchema = [title |-> "text", other |-> "ai"] /\ tabMay = TRUE
  /\ tabRows = [r \in TableRows |-> IF r = 1 THEN FirstRow ELSE NoTableRow]
  /\ tabTurns = [w \in TableEditors |-> NoTurn]
  /\ tabBounds = [changes |-> 0, schemas |-> 0, grants |-> 0]

TableTurn(w, turn) == tabTurns' = [tabTurns EXCEPT ![w] = turn]
LeaveTable(w) == TableTurn(w, NoTurn)
TakeChange == tabBounds.changes < TableChanges /\ tabBounds' = [tabBounds EXCEPT !.changes = @ + 1]

\* Mutant of Counted: what a change of the properties takes away is not counted.
CountedByHand(row, values, byHand) == IF byHand /\ values # row.values THEN row.version + 1 ELSE row.version
\* madi_database_row_revision counts what changes the values, whoever does it.
Counted(row, values, byHand) == IF values # row.values THEN row.version + 1 ELSE row.version

\* UPDATE database_rows SET values = values || ..., updated_at = ...
Merged(row, cells) ==
  LET values == [c \in DOMAIN row.values \cup DOMAIN cells |-> IF c \in DOMAIN cells THEN cells[c] ELSE row.values[c]]
  IN [row EXCEPT !.values = values, !.version = Counted(row, values, TRUE), !.touched = @ + 1]

----------------
\* getDatabase, databaseEditingMetadata and listRows: a person looks at some rows.
Look(w, rs) ==
  /\ tabTurns[w].at = "idle" /\ TableThere /\ tabMay
  /\ TableTurn(w, [at |-> "looked", schema |-> tabSchema, rows |-> [r \in rs |-> tabRows[r]]])
  /\ UNCHANGED <<tabSchema, tabMay, tabRows, tabBounds>>

\* createRow and updateRow ask for the right, then validate what is written under
\* the share lock; updateRow compares the version only when it is given one.
BeginPut(w, r, cells, how) ==
  LET turn == tabTurns[w] IN
  /\ turn.at = "looked" /\ DOMAIN turn.rows = {r} /\ tabMay /\ TableThere
  /\ how \in {"create", "update", "compared"}
  /\ (how = "create") = (turn.rows[r] = NoTableRow) /\ turn.rows[r].state # "gone"
  /\ RowFits(tabSchema, cells)
  /\ TableTurn(w, [at |-> "checked", how |-> how, changes |-> [x \in {r} |-> cells],
                   schema |-> turn.schema, rows |-> turn.rows])
  /\ UNCHANGED <<tabSchema, tabMay, tabRows, tabBounds>>

\* Mutant: the cells are written whatever the properties have become.
AnySchema(turn) == TRUE
\* editDatabaseCells: the fingerprint of the preview is the one of now.
SameSchema(turn) == turn.schema = tabSchema

\* databaseEditingScopeTx takes the share lock and asks for the right again.
BeginCells(w, c, v) ==
  LET turn == tabTurns[w]  rs == DOMAIN turn.rows IN
  /\ turn.at = "looked" /\ tabMay /\ TableThere /\ SameSchema(turn)
  /\ \A r \in rs : turn.rows[r].state = "row"
  /\ Fits(tabSchema, c, v)
  /\ TableTurn(w, [at |-> "checked", how |-> "cells", changes |-> [r \in rs |-> [x \in {c} |-> v]],
                   schema |-> turn.schema, rows |-> turn.rows])
  /\ UNCHANGED <<tabSchema, tabMay, tabRows, tabBounds>>

\* Mutant: nothing is compared.
Unseen(turn, r) == tabRows[r].state = "row"
\* The version that the person has seen.
AsLookedAt(turn, r) == tabRows[r].state = "row" /\ tabRows[r].version = turn.rows[r].version

\* Mutant of Writable: the rows that can be written are.
SomeOf(turn) == {r \in DOMAIN turn.changes : AsLookedAt(turn, r)}
\* Every row of the cells is locked and compared before one is written.
Writable(turn) == IF \A r \in DOMAIN turn.changes : AsLookedAt(turn, r) THEN DOMAIN turn.changes ELSE {}

\* The rows are locked, compared and written, or nothing is; editDatabaseCells asks
\* for the right once more.
CommitPut(w) ==
  LET turn == tabTurns[w]
      rs   == CASE turn.how = "create" -> {r \in DOMAIN turn.changes : tabRows[r] = NoTableRow}
                [] turn.how = "update" -> DOMAIN turn.changes \cap LiveRows
                [] turn.how = "compared" -> {r \in DOMAIN turn.changes : AsLookedAt(turn, r)}
                [] turn.how = "cells" -> IF tabMay THEN Writable(turn) ELSE {}
  IN
  /\ turn.at = "checked"
  /\ IF rs = {} THEN UNCHANGED <<tabRows, tabBounds>>
     ELSE /\ TakeChange
          /\ tabRows' = [r \in TableRows |->
               CASE r \notin rs -> tabRows[r]
                 [] turn.how = "create" -> [state |-> "row", values |-> turn.changes[r], version |-> 1, touched |-> 1]
                 [] OTHER -> Merged(tabRows[r], turn.changes[r])]
  /\ LeaveTable(w)
  /\ UNCHANGED <<tabSchema, tabMay>>

\* deleteRow holds no lock on the database.
DeleteRow(w, r, compared) ==
  LET turn == tabTurns[w] IN
  /\ turn.at = "looked" /\ DOMAIN turn.rows = {r} /\ tabMay /\ r \in LiveRows /\ turn.rows[r].state = "row"
  /\ compared => AsLookedAt(turn, r)
  /\ TakeChange
  /\ tabRows' = [tabRows EXCEPT ![r] = [state |-> "gone"]]
  /\ LeaveTable(w)
  /\ UNCHANGED <<tabSchema, tabMay>>

\* generateDatabaseAIProperty reads the property and the row, and asks the model.
AskModel(w, r) ==
  /\ tabTurns[w].at = "idle" /\ tabMay /\ TableThere /\ r \in LiveRows
  /\ "other" \in DOMAIN tabSchema /\ tabSchema.other = "ai"
  /\ TableTurn(w, [at |-> "asked", row |-> r, touched |-> tabRows[r].touched, values |-> tabRows[r].values])
  /\ UNCHANGED <<tabSchema, tabMay, tabRows, tabBounds>>

\* Mutant: the answer is written whatever the row has become.
AnyTime(turn) == tabRows[turn.row].state = "row"
\* "so a slow model cannot overwrite concurrent edits"
Untouched(turn) == tabRows[turn.row].state = "row" /\ tabRows[turn.row].touched = turn.touched

\* The answer is written in a transaction that finds the property and the row as
\* they were, and the right; else it is only shown.
SaveAnswer(w) ==
  LET turn == tabTurns[w] IN
  /\ turn.at = "asked"
  /\ IF /\ TableThere /\ tabMay /\ "other" \in DOMAIN tabSchema /\ tabSchema.other = "ai"
        /\ Untouched(turn)
     THEN /\ TakeChange
          /\ tabRows' = [tabRows EXCEPT ![turn.row] = Merged(@, [other |-> "composed"])]
     ELSE UNCHANGED <<tabRows, tabBounds>>
  /\ LeaveTable(w)
  /\ UNCHANGED <<tabSchema, tabMay>>

\* The request fails or is given up, and its transaction is rolled back.
GiveItUp(w) ==
  /\ tabTurns[w].at # "idle" /\ LeaveTable(w)
  /\ UNCHANGED <<tabSchema, tabMay, tabRows, tabBounds>>

----------------
\* Mutant: a writer has validated before its transaction, as validateValues does.
FreeAlways == TRUE
\* No writer holds the database row FOR SHARE.
TableFree == \A w \in TableEditors : tabTurns[w].at # "checked"

\* updateDatabase: what is of no property any more is removed from the rows, and
\* the rest must fit.
ChangeSchema(schema) ==
  LET kept(r) == [c \in DOMAIN tabRows[r].values \cap DOMAIN schema |-> tabRows[r].values[c]] IN
  /\ TableThere /\ tabMay /\ TableFree /\ schema # tabSchema
  /\ tabBounds.schemas < TableSchemas /\ tabBounds' = [tabBounds EXCEPT !.schemas = @ + 1]
  /\ \A r \in LiveRows : RowFits(schema, kept(r))
  /\ tabSchema' = schema
  /\ tabRows' = [r \in TableRows |->
       IF r \in LiveRows THEN [tabRows[r] EXCEPT !.values = kept(r), !.version = Counted(tabRows[r], kept(r), FALSE)]
       ELSE tabRows[r]]
  /\ UNCHANGED <<tabMay, tabTurns>>

\* deleteDatabase: the rows go with it.
DropDatabase ==
  /\ TableThere /\ tabMay /\ TableFree
  /\ tabSchema' = Dropped
  /\ tabRows' = [r \in TableRows |-> IF r \in LiveRows THEN [state |-> "gone"] ELSE tabRows[r]]
  /\ UNCHANGED <<tabMay, tabTurns, tabBounds>>

\* canDatabase: the right to write is taken and given.
ChangeRight ==
  /\ tabBounds.grants < TableGrants /\ tabBounds' = [tabBounds EXCEPT !.grants = @ + 1]
  /\ tabMay' = ~tabMay
  /\ UNCHANGED <<tabSchema, tabRows, tabTurns>>

TableNext ==
  \/ \E w \in TableEditors :
       \/ CommitPut(w) \/ SaveAnswer(w) \/ GiveItUp(w)
       \/ \E rs \in (SUBSET TableRows) \ {{}} : Look(w, rs)
       \/ \E r \in TableRows :
            \/ AskModel(w, r)
            \/ \E compared \in BOOLEAN : DeleteRow(w, r, compared)
            \/ \E c \in Cells, how \in {"create", "update", "compared"} :
                 \E v \in Written(how) : BeginPut(w, r, [x \in {c} |-> v], how)
       \/ \E c \in Cells, v \in Written("cells") : BeginCells(w, c, v)
  \/ \E schema \in TablesSchemas : ChangeSchema(schema)
  \/ DropDatabase \/ ChangeRight

TableSpec == TableInit /\ [][TableNext]_tabVars

----------------
\* Every value of every row is one that its property takes, though a row is
\* validated in one step and written in another (data.go validateValuesTx).
RowsFitTheSchema == TableThere => \A r \in LiveRows : RowFits(tabSchema, tabRows[r].values)

\* Rows that have the same version have the same values: whoever compares the
\* version of a row compares all of it (madi_database_row_revision).
VersionTellsTheValues ==
  \A w \in TableEditors :
    tabTurns[w].at \in {"looked", "checked"} =>
      \A r \in LiveRows \cap DOMAIN tabTurns[w].rows : tabTurns[w].rows[r].state = "row" /\ tabTurns[w].rows[r].version = tabRows[r].version =>
        tabTurns[w].rows[r].values = tabRows[r].values

\* What the writer w has done in this step.
Wrote(w) == tabTurns[w].at \in {"checked", "asked"} /\ tabTurns'[w].at = "idle" /\ tabRows' # tabRows
\* Nobody who compares writes over what they have not seen: a person who gives the
\* version, or edits cells, finds the whole row as it was looked at, and cells the
\* properties too; the model finds the row as it read it, or without what a change
\* of the properties has taken away since.
NothingUnseenIsWrittenOver ==
  \A w \in TableEditors : Wrote(w) => LET turn == tabTurns[w] IN
    /\ turn.at = "checked" /\ turn.how \in {"compared", "cells"} =>
         \A r \in DOMAIN turn.changes : tabRows[r].state = "row" /\ tabRows[r].values = turn.rows[r].values
    /\ turn.at = "checked" /\ turn.how = "cells" => turn.schema = tabSchema
    /\ turn.at = "asked" =>
         \A c \in DOMAIN tabRows[turn.row].values : c \in DOMAIN turn.values /\ tabRows[turn.row].values[c] = turn.values[c]

\* The cells of a preview are written in all their rows or in none (editDatabaseCells).
CellsTogether ==
  \A w \in TableEditors : Wrote(w) /\ tabTurns[w].at = "checked" =>
    \A r \in DOMAIN tabTurns[w].changes : \A c \in DOMAIN tabTurns[w].changes[r] :
      tabRows'[r].state = "row" /\ tabRows'[r].values[c] = tabTurns[w].changes[r][c]

TablesAreKept == RowsFitTheSchema' /\ VersionTellsTheValues' /\ NothingUnseenIsWrittenOver /\ CellsTogether
=============================================================================
