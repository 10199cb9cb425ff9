----------------------------- MODULE AccessKeys -----------------------------
(* One API key (internal/server/integrations_keys.go): requests authenticate   *)
(* with its secret and are counted per minute, while its owner and             *)
(* administrators edit, rotate and revoke it.  Neither holds a transaction:    *)
(* each reads the row first and writes it in a second statement.               *)
EXTENDS Naturals

CONSTANTS
  KeyCalls,       \* requests that present a secret
  KeyEditors,     \* requests that edit the key
  KeyMinutes      \* bound on the minutes that begin

VARIABLES
  keyRow,      \* the row of api_keys, and its user
  keyCalls,    \* what each request has read, and how it ended
  keyEdits,    \* what each editor has read and will write
  keyWindow    \* requests let through since the minute began or the secret was rotated

keyVars == <<keyRow, keyCalls, keyEdits, keyWindow>>

Limits == {1, 2}
Terms  == {1, 2}          \* the expiry that the key was made with, and a later one

KeyTypeOK ==
  /\ keyRow.count \in Nat /\ keyRow.limit \in Limits
  /\ \A c \in KeyCalls : keyCalls[c].at \in {"none", "read", "let", "refused"}
  /\ \A e \in KeyEditors : keyEdits[e].at \in {"none", "read", "done", "refused"}

KeyInit ==
  /\ keyRow = [secret |-> 1, revoked |-> FALSE, disabled |-> FALSE, limit |-> 1, count |-> 0,
               term |-> 1, passed |-> {}]
  /\ keyCalls = [c \in KeyCalls |-> [at |-> "none", count |-> 0]]
  /\ keyEdits = [e \in KeyEditors |-> [at |-> "none"]]
  /\ keyWindow = [minute |-> 1, through |-> 0, limit |-> 1]

Expired == keyRow.term \in keyRow.passed

----------------
(* tokenPrincipal.                                                            *)

\* The row is found by the secret; an old one finds nothing.
PresentKey(c, secret) ==
  LET valid == secret = keyRow.secret /\ ~keyRow.disabled /\ ~keyRow.revoked /\ ~Expired IN
  /\ keyCalls[c].at = "none"
  /\ keyCalls' = [keyCalls EXCEPT ![c] = [at |-> IF valid THEN "read" ELSE "refused", count |-> keyRow.count]]
  /\ UNCHANGED <<keyRow, keyEdits, keyWindow>>

\* Mutant: the counter that was read with the row is asked.
CountThen(c) == keyCalls[c].count < keyRow.limit

CountNow(c) == keyRow.count < keyRow.limit

\* The UPDATE that counts, on the key as it is by now.
CountCall(c) ==
  LET lets == ~keyRow.revoked /\ ~Expired /\ CountNow(c) IN
  /\ keyCalls[c].at = "read"
  /\ keyCalls' = [keyCalls EXCEPT ![c].at = IF lets THEN "let" ELSE "refused"]
  /\ keyRow' = IF lets THEN [keyRow EXCEPT !.count = @ + 1] ELSE keyRow
  /\ keyWindow' = IF lets THEN [keyWindow EXCEPT !.through = @ + 1] ELSE keyWindow
  /\ UNCHANGED keyEdits

\* date_trunc: the counter begins again with the first request of a minute.
NextMinute ==
  /\ keyWindow.minute < KeyMinutes
  /\ keyRow' = [keyRow EXCEPT !.count = 0]
  /\ keyWindow' = [minute |-> keyWindow.minute + 1, through |-> 0, limit |-> keyRow.limit]
  /\ UNCHANGED <<keyCalls, keyEdits>>

----------------
(* Owners and administrators.                                                 *)

\* ownedKey: updateKey refuses a revoked key, rotateKey an expired one as well.
ReadKey(e, edit, limit, term) ==
  /\ keyEdits[e].at = "none"
  /\ edit = "revoke" \/ ~keyRow.revoked
  /\ edit = "rotate" => ~Expired
  /\ edit # "update" => limit = 1
  /\ term = keyRow.term \/ (edit = "update" /\ term = 2 /\ 2 \notin keyRow.passed)
  /\ keyEdits' = [keyEdits EXCEPT ![e] = [at |-> "read", edit |-> edit, limit |-> limit, term |-> term]]
  /\ UNCHANGED <<keyRow, keyCalls, keyWindow>>

\* Mutant: what was read of the key is enough to write it.
WritableThen(edit) == TRUE

WritableNow(edit) ==
  /\ edit = "revoke" \/ ~keyRow.revoked
  /\ edit = "rotate" => ~Expired

\* updateKey writes every column, as it was read or with what is new; it may set
\* another expiry, also of a key that has expired.
WriteKey(e) ==
  LET edit == keyEdits[e] IN
  /\ edit.at = "read"
  /\ keyEdits' = [keyEdits EXCEPT ![e].at = IF WritableNow(edit.edit) THEN "done" ELSE "refused"]
  /\ IF ~WritableNow(edit.edit) THEN UNCHANGED <<keyRow, keyWindow>>
     ELSE CASE edit.edit = "update" ->
                 /\ keyRow' = [keyRow EXCEPT !.limit = edit.limit, !.term = edit.term]
                 /\ keyWindow' = [keyWindow EXCEPT !.limit = IF edit.limit > @ THEN edit.limit ELSE @]
            [] edit.edit = "rotate" ->
                 /\ keyRow' = [keyRow EXCEPT !.secret = @ + 1, !.count = 0]
                 /\ keyWindow' = [keyWindow EXCEPT !.through = 0, !.limit = keyRow.limit]
            [] edit.edit = "revoke" ->
                 keyRow' = [keyRow EXCEPT !.revoked = TRUE] /\ UNCHANGED keyWindow
  /\ UNCHANGED keyCalls

\* The expiry passes; updateUser disables the account or not.
ExpireKey ==
  /\ ~Expired /\ keyRow' = [keyRow EXCEPT !.passed = 1 .. keyRow.term]
  /\ UNCHANGED <<keyCalls, keyEdits, keyWindow>>

DisableOwner ==
  /\ keyRow' = [keyRow EXCEPT !.disabled = ~@]
  /\ UNCHANGED <<keyCalls, keyEdits, keyWindow>>

KeyNext ==
  \/ \E c \in KeyCalls : CountCall(c) \/ \E secret \in 1 .. keyRow.secret : PresentKey(c, secret)
  \/ \E e \in KeyEditors :
       \/ WriteKey(e)
       \/ \E edit \in {"update", "rotate", "revoke"}, limit \in Limits, term \in Terms :
            ReadKey(e, edit, limit, term)
  \/ NextMinute \/ ExpireKey \/ DisableOwner

KeySpec == KeyInit /\ [][KeyNext]_keyVars

----------------
(* Properties.                                                                *)

\* However its requests interleave, a key lets no more of them through in a
\* minute than its limit was, unless its secret is rotated meanwhile.
RateIsKept == keyWindow.through <= keyWindow.limit

\* A revoked key stays as it was, whoever read it before.
RevokedForGood ==
  keyRow.revoked => /\ keyRow'.revoked /\ keyRow'.secret = keyRow.secret
                    /\ keyRow'.limit = keyRow.limit /\ keyWindow'.through <= keyWindow.through

KeysHold == RateIsKept' /\ RevokedForGood
=============================================================================
