------------------------- MODULE NotificationDelivery -------------------------
(* Notifications outside the application (internal/server/                      *)
(* notification_delivery_*.go): a trigger notes every notification in an outbox *)
(* with its own transaction, a dispatcher turns it into a delivery and a job    *)
(* per channel the user has chosen, and the job sends it.  No transaction       *)
(* covers the mail or webhook server, whose answer may be lost.                 *)
EXTENDS Naturals, FiniteSets, LeasedJob

CONSTANTS
  Senders,          \* goroutines of the queue
  Notes,            \* notifications of one user
  NoteChannels,     \* channels
  NoteAttempts, NoteChanges, NoteTroubles   \* bounds

ASSUME NoteAssumption == IsFiniteSet(Senders) /\ NoteAttempts \in Nat \ {0}

VARIABLES
  noteInbox,     \* notifications and notification_outbox
  noteWishes,    \* settings, channels and the user's preferences
  noteRows,      \* notification_deliveries with their jobs, and what has arrived outside
  noteSenders,   \* what each goroutine is doing
  noteTroubled   \* bounds

noteVars == <<noteInbox, noteWishes, noteRows, noteSenders, noteTroubled>>

NoteKeys   == Notes \X NoteChannels
NoDelivery == [status |-> "none", revision |-> 0, job |-> Unqueued, arrived |-> 0, unsure |-> 0]
NotSending == [at |-> "idle", row |-> <<>>, wanted |-> FALSE]

NoteTypeOK ==
  /\ \A n \in Notes : noteInbox[n] \in {"none", "new", "dispatched", "new, read", "dispatched, read"}
  /\ \A k \in NoteKeys : LET row == noteRows[k] IN
       /\ row.status \in {"none", "pending", "sending", "sent", "failed", "skipped"}
       /\ row.job.attempts \in 0 .. NoteAttempts
       /\ row.status = "none" <=> row.job.status = "none"
       /\ row.status # "none" => noteInbox[k[1]] \in {"dispatched", "dispatched, read"}
  /\ \A w \in Senders : noteSenders[w].at \in {"idle", "check", "channel", "send", "sent", "failed", "refused", "settle"}

NoteInit ==
  /\ noteInbox = [n \in Notes |-> "none"]
  /\ noteWishes = [enabled |-> TRUE, may |-> TRUE, revision |-> [c \in NoteChannels |-> 1],
                   chosen |-> NoteChannels, on |-> NoteChannels]
  /\ noteRows = [k \in NoteKeys |-> NoDelivery]
  /\ noteSenders = [w \in Senders |-> NotSending]
  /\ noteTroubled = [changes |-> 0, troubles |-> 0]

NoteTrouble == noteTroubled.troubles < NoteTroubles /\ noteTroubled' = [noteTroubled EXCEPT !.troubles = @ + 1]
NoteChange  == noteTroubled.changes < NoteChanges /\ noteTroubled' = [noteTroubled EXCEPT !.changes = @ + 1]
Sends(w, record) == noteSenders' = [noteSenders EXCEPT ![w] = record]
Unread(n) == noteInbox[n] \in {"new", "dispatched"}

----------------
(* Users and administrators.                                                  *)

\* madi_notification_outbox, the trigger.
Notify(n) ==
  /\ noteInbox[n] = "none"
  /\ noteInbox' = [noteInbox EXCEPT ![n] = "new"]
  /\ UNCHANGED <<noteWishes, noteRows, noteSenders, noteTroubled>>

ReadNote(n) ==
  /\ noteInbox[n] \in {"new", "dispatched"} /\ NoteChange
  /\ noteInbox' = [noteInbox EXCEPT ![n] = IF @ = "new" THEN "new, read" ELSE "dispatched, read"]
  /\ UNCHANGED <<noteWishes, noteRows, noteSenders>>

\* saveNotificationChannel, at the revision that was read.
SaveNoteChannel(c, on) ==
  /\ NoteChange
  /\ noteWishes' = [noteWishes EXCEPT !.revision[c] = @ + 1, !.on = IF on THEN @ \cup {c} ELSE @ \ {c}]
  /\ UNCHANGED <<noteInbox, noteRows, noteSenders>>

\* saveNotificationPreference; the settings; the account and the document's readers.
ChangeWishes ==
  /\ NoteChange
  /\ \/ \E c \in NoteChannels :
          noteWishes' = [noteWishes EXCEPT !.chosen = IF c \in @ THEN @ \ {c} ELSE @ \cup {c}]
     \/ noteWishes' = [noteWishes EXCEPT !.enabled = ~@]
     \/ noteWishes' = [noteWishes EXCEPT !.may = ~@]
  /\ UNCHANGED <<noteInbox, noteRows, noteSenders>>

----------------
(* The dispatcher; SKIP LOCKED keeps two of them apart.                       *)

\* dispatchNotifications: what is not wanted now is never sent.
Delivers(k) ==
  /\ noteWishes.enabled /\ noteWishes.may /\ Unread(k[1])
  /\ k[2] \in noteWishes.on \cap noteWishes.chosen /\ noteRows[k].status = "none"

DispatchNote(n) ==
  /\ noteInbox[n] \in {"new", "new, read"}
  /\ noteInbox' = [noteInbox EXCEPT ![n] = IF @ = "new" THEN "dispatched" ELSE "dispatched, read"]
  /\ noteRows' = [k \in NoteKeys |-> IF k[1] # n \/ ~Delivers(k) THEN noteRows[k]
       ELSE [NoDelivery EXCEPT !.status = "pending", !.revision = noteWishes.revision[k[2]], !.job = NewJob]]
  /\ UNCHANGED <<noteWishes, noteSenders, noteTroubled>>

----------------
(* A delivery.                                                                *)

\* What a person has taken back for good: the text was read, the channel is
\* another one.
StillMeant(k) == Unread(k[1]) /\ noteWishes.revision[k[2]] = noteRows[k].revision

ClaimNote(w, k) ==
  /\ noteSenders[w].at = "idle" /\ MayClaim(noteRows[k].job)
  /\ noteRows' = [noteRows EXCEPT ![k].job = ClaimedBy(@, w)]
  /\ Sends(w, [at |-> "check", row |-> k, wanted |-> StillMeant(k)])
  /\ UNCHANGED <<noteInbox, noteWishes, noteTroubled>>

\* The lease is lost; the goroutine died, or goes on.  Unless the row says that
\* it was sent, and nobody is about to send it again or to write something else,
\* nobody knows whether it was, or will be.
LoseNote(k) ==
  LET row  == noteRows[k]
      sure == row.status = "sent" /\ \A w \in Senders : noteSenders[w].row = k => noteSenders[w].at \in {"check", "settle"}
  IN
  /\ row.job.status = "running" /\ NoteTrouble
  /\ noteRows' = [noteRows EXCEPT ![k].job = JobLapsed(@, NoteAttempts),
                                  ![k].unsure = IF sure THEN @ ELSE @ + 1]
  /\ UNCHANGED noteSenders \/ Sends(row.job.holder, NotSending)
  /\ UNCHANGED <<noteInbox, noteWishes>>

\* The end of an attempt: what the row says and what becomes of the job.  An
\* attempt whose context has ended does not get to say anything.
EndNote(w, status, result) ==
  LET k == noteSenders[w].row
      ended == [noteRows[k] EXCEPT !.job = JobSettled(@, w, result, NoteAttempts)]
  IN
  /\ \/ noteRows' = [noteRows EXCEPT ![k] = [ended EXCEPT !.status = status]]
     \/ ~LeasedBy(noteRows[k].job, w) /\ noteRows' = [noteRows EXCEPT ![k] = ended]
  /\ Sends(w, NotSending)

\* Mutant: an attempt does not look whether another one has sent it.
SentUnseen(k) == FALSE

AlreadySent(k) == noteRows[k].status = "sent"

\* Mutant: the first eligibility, that of the dispatcher, is enough.
EligibleOnce(k) == TRUE

EligibleNote(k) == noteWishes.may /\ Unread(k[1]) /\ k[2] \in noteWishes.chosen

CheckNote(w) ==
  LET k == noteSenders[w].row IN
  /\ noteSenders[w].at = "check"
  /\ IF AlreadySent(k) THEN EndNote(w, "sent", "done")
     ELSE IF ~EligibleNote(k) THEN EndNote(w, "skipped", "done")
     ELSE Sends(w, [noteSenders[w] EXCEPT !.at = "channel"]) /\ UNCHANGED noteRows
  /\ UNCHANGED <<noteInbox, noteWishes, noteTroubled>>

ReadNoteChannel(w) ==
  LET k == noteSenders[w].row IN
  /\ noteSenders[w].at = "channel"
  /\ IF k[2] \in noteWishes.on /\ noteWishes.revision[k[2]] = noteRows[k].revision
     THEN /\ Sends(w, [noteSenders[w] EXCEPT !.at = "send"])
          /\ noteRows' = [noteRows EXCEPT ![k].status = "sending"]
     ELSE EndNote(w, "skipped", "done")
  /\ UNCHANGED <<noteInbox, noteWishes, noteTroubled>>

\* notificationNetwork, then sendNotificationEmail or sendNotificationWebhook.
\* The answer may be lost; a server may refuse, for good or not.
SendNote(w) ==
  LET k == noteSenders[w].row  turns(at) == Sends(w, [noteSenders[w] EXCEPT !.at = at]) IN
  /\ noteSenders[w].at = "send"
  /\ IF ~noteWishes.enabled THEN turns("refused") /\ UNCHANGED <<noteRows, noteTroubled>>
     ELSE \/ turns("sent") /\ noteRows' = [noteRows EXCEPT ![k].arrived = @ + 1] /\ UNCHANGED noteTroubled
          \/ turns("failed") /\ NoteTrouble
             /\ noteRows' = [noteRows EXCEPT ![k].arrived = @ + 1, ![k].unsure = @ + 1]
          \/ \E at \in {"failed", "refused"} : turns(at) /\ NoteTrouble /\ UNCHANGED noteRows
  /\ UNCHANGED <<noteInbox, noteWishes>>

\* The row first, then the job.
FinishNote(w) ==
  LET k == noteSenders[w].row IN
  /\ noteSenders[w].at \in {"sent", "failed", "refused"}
  /\ IF noteSenders[w].at = "sent"
     THEN /\ Sends(w, [noteSenders[w] EXCEPT !.at = "settle"])
          /\ noteRows' = [noteRows EXCEPT ![k].status = "sent"]
     ELSE EndNote(w, "failed", IF noteSenders[w].at = "refused" THEN "failed" ELSE "retry")
  /\ UNCHANGED <<noteInbox, noteWishes, noteTroubled>>

SettleNote(w) ==
  /\ noteSenders[w].at = "settle" /\ EndNote(w, noteRows[noteSenders[w].row].status, "done")
  /\ UNCHANGED <<noteInbox, noteWishes, noteTroubled>>

NoteNext ==
  \/ \E n \in Notes : Notify(n) \/ ReadNote(n) \/ DispatchNote(n)
  \/ \E c \in NoteChannels, on \in BOOLEAN : SaveNoteChannel(c, on)
  \/ ChangeWishes
  \/ \E k \in NoteKeys : LoseNote(k) \/ \E w \in Senders : ClaimNote(w, k)
  \/ \E w \in Senders :
       CheckNote(w) \/ ReadNoteChannel(w) \/ SendNote(w) \/ FinishNote(w) \/ SettleNote(w)

NoteSpec == NoteInit /\ [][NoteNext]_noteVars

----------------
(* Properties.                                                                *)

\* A notification arrives once, and once more for each attempt of which nobody
\* knows what became of it; what is called sent has arrived.
ToldOnce ==
  \A k \in NoteKeys : LET row == noteRows[k] IN
    row.arrived <= 1 + row.unsure /\ (row.status = "sent" => row.arrived > 0)

\* Only what was dispatched for the user is sent, and never by an attempt that
\* began after the notification was read or its channel was saved again.
AsWished ==
  \A k \in NoteKeys : noteRows'[k].arrived > noteRows[k].arrived =>
    \E w \in Senders : noteSenders[w].row = k /\ noteSenders[w].at = "send" /\ noteSenders[w].wanted

\* Who asked for notifications gets each of them, once, while asking.
NotesAreTold == ToldOnce' /\ AsWished
=============================================================================
