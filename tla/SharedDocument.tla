--------------------------- MODULE SharedDocument ---------------------------
(* What collaborative editing promises for one document, without journal,     *)
(* checkpoints, caches or sockets: the text and the editing state change      *)
(* together, every accepted update stays in the state for as long as the      *)
(* epoch lasts, and a text that came from elsewhere ends the epoch before     *)
(* another update is accepted.                                                *)
EXTENDS EditHistory, Sequences

VARIABLES text,   \* the Markdown of the document
          basis,  \* the text that the editing state stands for
          epoch,  \* the line of editing states in force
          log     \* the states of this epoch, one for each accepted update

vars == <<text, basis, epoch, log>>

Latest == IF log = <<>> THEN None ELSE log[Len(log)]

Init == /\ text \in Text
        /\ basis = text
        /\ epoch = 1
        /\ log = <<>>

\* Edits through REST, agents, imports: they know nothing of the editing state.
Rewrite == text' \in Text /\ UNCHANGED <<basis, epoch, log>>

StartAgain(new) == /\ text' = new
                   /\ basis' = new
                   /\ epoch' = epoch + 1
                   /\ log' = <<>>

\* A new epoch for the text as it is, or with a text that replaces it.
Restart == StartAgain(text)
Replace == \E new \in Text : StartAgain(new)

Accept(update) == /\ basis = text
                  /\ Acceptable(text, Latest, update)
                  /\ text' = Projected(text, Latest, Latest \cup update)
                  /\ basis' = text'
                  /\ log' = Append(log, Latest \cup update)
                  /\ UNCHANGED epoch

AcceptLast(update) == /\ basis = text
                      /\ Acceptable(text, Latest, update)
                      /\ StartAgain(Projected(text, Latest, Latest \cup update))

\* The database is put back, under the running servers, to an earlier moment of
\* the epoch with the text of that moment.
PutBack == /\ \E n \in 1 .. Len(log) : log' = SubSeq(log, 1, n)
           /\ text' \in Text
           /\ text'.body = Body[log'[Len(log')]]
           /\ basis' = text'
           /\ UNCHANGED epoch

Next == \/ Rewrite \/ Restart \/ Replace \/ PutBack
        \/ \E update \in CrdtState : Accept(update) \/ AcceptLast(update)

Spec == Init /\ [][Next]_vars
==============================================================================
