---------------------------- MODULE InboundCapture ----------------------------
(* Inbound capture (internal/server/inbound_capture_*.go): mails of an IMAP     *)
(* folder, or deliveries to a signed webhook, are staged as messages, and a job *)
(* per message turns it into a private document with its attachments.  The      *)
(* folder is only read; how far it has been read is the channel's checkpoint.   *)
EXTENDS Naturals, Sequences, FiniteSets, LeasedJob

CONSTANTS
  InWorkers,             \* goroutines of the queue
  InMails,               \* what may arrive: pairs of a Message-ID and a content
  MaxMails,              \* bound: mails of the folder, or deliveries
  MailBatch, MailRange,  \* messages and UIDs of one poll (20 and 100 in the code)
  MaxPending,            \* quota of pending messages of a user (100)
  InAttempts, InPolls, InTroubles   \* bounds

ASSUME InAssumption ==
  /\ InMails \subseteq (Nat \X Nat) \ {<<0, 0>>}
  /\ {MaxMails, MailBatch, MailRange} \subseteq Nat /\ InAttempts \in Nat \ {0} /\ InTroubles \in Nat

VARIABLES
  inFolder,   \* the IMAP folder: its UIDVALIDITY and the mails by UID
  inChannel,  \* inbound_capture_channels, with the rights of its owner and the switch
  inRows,     \* inbound_capture_messages by message_key, each with its job, documents and objects
  inPoll,     \* the capture.imap job and its payload
  inWorkers,  \* what each goroutine is doing
  inTroubled  \* bounds

inVars == <<inFolder, inChannel, inRows, inPoll, inWorkers, inTroubled>>

Gone   == <<0, 0>>   \* no mail, or one that cannot be read
InKeys == (0 .. InTroubles + 1) \X (1 .. MaxMails)   \* imap:validity:uid; deliveries have 0
NoMessage == [status |-> "none", mail |-> Gone, revision |-> 0, job |-> Unqueued, docs |-> {}, stored |-> {}]
InIdle == [at |-> "idle", key |-> <<0, 0>>, revision |-> 0, attempt |-> 0, epoch |-> 0, old |-> 0,
           last |-> 0, skipped |-> 0, left |-> {}, mail |-> Gone]

InTypeOK ==
  /\ \A k \in InKeys : LET row == inRows[k] IN
       /\ row.status \in {"none", "pending", "completed", "rejected", "cancelled"}
       /\ row.docs \cup row.stored \subseteq 1 .. InAttempts
       /\ row.status = "none" => row = NoMessage
       /\ row.status = "rejected" => row.job = Unqueued
  /\ inChannel.last <= Len(inFolder.mails) \/ inChannel.epoch # inFolder.epoch
  /\ \A w \in InWorkers : inWorkers[w].at \in {"idle", "open", "mail", "stage", "advance", "ingest", "clean", "settle"}

InInit ==
  /\ inFolder = [epoch |-> 1, mails |-> <<>>]
  /\ \E kind \in {"imap", "hmac"}, now \in BOOLEAN :
       inChannel = [kind |-> kind, fromNow |-> now /\ kind = "imap", revision |-> 1, on |-> TRUE, rights |-> TRUE,
                    epoch |-> 0, last |-> 0, skipped |-> 0]
  /\ inRows = [k \in InKeys |-> NoMessage]
  /\ inPoll = [job |-> Unqueued, revision |-> 0]
  /\ inWorkers = [w \in InWorkers |-> InIdle]
  /\ inTroubled = [polls |-> 0, troubles |-> 0]

InTrouble == inTroubled.troubles < InTroubles /\ inTroubled' = [inTroubled EXCEPT !.troubles = @ + 1]
InTurns(w, record) == inWorkers' = [inWorkers EXCEPT ![w] = record]

\* inboundCurrentTx: the channel is as it was read, and its owner may still write.
CurrentPoll(revision) == inChannel.on /\ inChannel.rights /\ inChannel.revision = revision

----------------
(* Staging, for both kinds of channels, in one transaction per user.          *)

\* Mutant: a mail is known by its UID only.
KnownByKey(key, mail) == {k \in {key} : inRows[k].status # "none"}

\* A Message-ID is taken once per channel; a message that was rejected has none.
Known(key, mail) ==
  {k \in InKeys : inRows[k].status # "none" /\ (k = key \/ (inRows[k].mail # Gone /\ inRows[k].mail[1] = mail[1]))}

\* The same identifier with another content is an error, and so is a full quota.
Acceptable(key, mail) ==
  IF Known(key, mail) # {} THEN \E k \in Known(key, mail) : inRows[k].mail = mail
  ELSE Cardinality({k \in InKeys : inRows[k].status = "pending"}) < MaxPending

\* stageInboundContent, when it is acceptable.
StagedMessage(key, mail, revision) ==
  inRows' = IF Known(key, mail) # {} THEN inRows
            ELSE [inRows EXCEPT ![key] = [NoMessage EXCEPT !.status = "pending", !.mail = mail,
                    !.revision = revision, !.job = NewJob]]

\* receiveCaptureHook: what is refused is left to the sender, who may send it
\* again, with the same identifier or not.
ReceiveHook(d, mail) ==
  /\ inChannel.kind = "hmac" /\ CurrentPoll(inChannel.revision) /\ Acceptable(<<0, d>>, mail)
  /\ StagedMessage(<<0, d>>, mail, inChannel.revision)
  /\ UNCHANGED <<inFolder, inChannel, inPoll, inWorkers, inTroubled>>

----------------
(* A poll of the folder.                                                      *)

\* scheduleInboundCaptures and queueInboundPoll: one job of the channel at a time.
QueuePoll ==
  /\ inChannel.kind = "imap" /\ inChannel.on /\ inChannel.rights /\ ~JobIsOpen(inPoll.job)
  /\ inTroubled.polls < InPolls
  /\ inTroubled' = [inTroubled EXCEPT !.polls = @ + 1]
  /\ inPoll' = [job |-> NewJob, revision |-> inChannel.revision]
  /\ UNCHANGED <<inFolder, inChannel, inRows, inWorkers>>

EndPoll(w, result) ==
  /\ inPoll' = [inPoll EXCEPT !.job = JobSettled(@, w, result, InAttempts)]
  /\ InTurns(w, InIdle)

\* pollInboundIMAP reads the channel; one that has changed ends the job.
ClaimPoll(w) ==
  LET job == ClaimedBy(inPoll.job, w) IN
  /\ inWorkers[w].at = "idle" /\ MayClaim(inPoll.job)
  /\ IF CurrentPoll(inPoll.revision)
     THEN /\ inPoll' = [inPoll EXCEPT !.job = job]
          /\ InTurns(w, [InIdle EXCEPT !.at = "open", !.revision = inPoll.revision,
                           !.last = inChannel.last, !.old = inChannel.epoch])
     ELSE inPoll' = [inPoll EXCEPT !.job = JobSettled(job, w, "failed", InAttempts)] /\ UNCHANGED inWorkers
  /\ UNCHANGED <<inFolder, inChannel, inRows, inTroubled>>

\* The lease of the poll runs out: the goroutine died, or goes on without it.
LosePoll ==
  /\ inPoll.job.status = "running" /\ InTrouble
  /\ inPoll' = [inPoll EXCEPT !.job = JobLapsed(@, InAttempts)]
  /\ UNCHANGED inWorkers \/ InTurns(inPoll.job.holder, InIdle)
  /\ UNCHANGED <<inFolder, inChannel, inRows>>

\* Another UIDVALIDITY starts over; a first poll may start at what is there.
FirstPoll(me) == me.old = 0 /\ inChannel.fromNow
ReadUpTo(me) == IF me.old = inFolder.epoch THEN me.last ELSE IF FirstPoll(me) THEN Len(inFolder.mails) ELSE 0

\* The UIDs after the checkpoint that are listed, and those of them that a poll reads.
RangeEnd(me) ==
  IF ReadUpTo(me) + MailRange < Len(inFolder.mails) THEN ReadUpTo(me) + MailRange ELSE Len(inFolder.mails)
Listed(me) == {u \in ReadUpTo(me) + 1 .. RangeEnd(me) : inFolder.mails[u] # Gone}
FirstOf(listed) == {u \in listed : Cardinality({o \in listed : o <= u}) <= MailBatch}

\* The folder is selected.  A range without a mail is passed at once, a longer
\* list is left to later polls.
OpenFolder(w) ==
  LET me == inWorkers[w]  last == ReadUpTo(me)  listed == Listed(me) IN
  /\ me.at = "open"
  /\ InTurns(w, [me EXCEPT !.epoch = inFolder.epoch, !.at = IF listed = {} THEN "advance" ELSE "mail",
       !.left = FirstOf(listed), !.last = IF listed = {} /\ last < RangeEnd(me) THEN RangeEnd(me) ELSE last,
       !.skipped = IF FirstPoll(me) THEN last ELSE 0])
  /\ UNCHANGED <<inFolder, inChannel, inRows, inPoll, inTroubled>>

\* The UIDs of a poll are read in their order.
NextUid(uids) == CHOOSE u \in uids : \A o \in uids : u <= o

\* One mail: it may have been expunged since, or not be readable; that is
\* written down, unless the row is there, and the poll goes on.
ReadMail(w) ==
  LET me == inWorkers[w]  uid == NextUid(me.left)  key == <<me.epoch, uid>> IN
  /\ me.at = "mail" /\ me.left # {}
  /\ IF inFolder.epoch # me.epoch THEN EndPoll(w, "retry") /\ UNCHANGED inRows
     ELSE IF ~CurrentPoll(me.revision) THEN EndPoll(w, "failed") /\ UNCHANGED inRows
     ELSE /\ UNCHANGED inPoll
          /\ IF inFolder.mails[uid][1] # 0
             THEN InTurns(w, [me EXCEPT !.at = "stage", !.mail = inFolder.mails[uid]]) /\ UNCHANGED inRows
             ELSE /\ InTurns(w, [me EXCEPT !.left = @ \ {uid}, !.last = uid])
                  /\ inRows' = IF inRows[key].status # "none" THEN inRows
                       ELSE [inRows EXCEPT ![key] = [NoMessage EXCEPT !.status = "rejected", !.revision = me.revision]]
  /\ UNCHANGED <<inFolder, inChannel, inTroubled>>

\* What cannot be staged ends the poll where it is: the checkpoint stays.
StageMail(w) ==
  LET me == inWorkers[w]  uid == NextUid(me.left)  key == <<me.epoch, uid>> IN
  /\ me.at = "stage"
  /\ IF CurrentPoll(me.revision) /\ Acceptable(key, me.mail)
     THEN /\ StagedMessage(key, me.mail, me.revision)
          /\ InTurns(w, [me EXCEPT !.at = "mail", !.left = @ \ {uid}, !.last = uid, !.mail = Gone])
          /\ UNCHANGED inPoll
     ELSE EndPoll(w, IF CurrentPoll(me.revision) THEN "retry" ELSE "failed") /\ UNCHANGED inRows
  /\ UNCHANGED <<inFolder, inChannel, inTroubled>>

\* Mutant: the checkpoint is written as the poll has it.
AdvancedBlindly(me) == me.last

\* advanceInboundCheckpoint: never back within an epoch, nor over a newer one.
Advanced(me) == IF inChannel.epoch = me.epoch /\ inChannel.last > me.last THEN inChannel.last ELSE me.last
MayAdvance(me) == inChannel.on /\ inChannel.revision = me.revision /\ inChannel.epoch \in {me.epoch, me.old}

AdvancePoll(w) ==
  LET me == inWorkers[w] IN
  /\ me.at = "advance" \/ (me.at = "mail" /\ me.left = {})
  /\ IF MayAdvance(me)
     THEN /\ inChannel' = [inChannel EXCEPT !.epoch = me.epoch, !.last = Advanced(me),
               !.skipped = IF inChannel.epoch = me.epoch /\ @ > me.skipped THEN @ ELSE me.skipped]
          /\ InTurns(w, [me EXCEPT !.at = "settle"]) /\ UNCHANGED inPoll
     ELSE EndPoll(w, "failed") /\ UNCHANGED inChannel
  /\ UNCHANGED <<inFolder, inRows, inTroubled>>

SettlePoll(w) ==
  /\ inWorkers[w].at = "settle" /\ EndPoll(w, "done")
  /\ UNCHANGED <<inFolder, inChannel, inRows, inTroubled>>

----------------
(* A message becomes a document.                                              *)

EndIngest(w, key, row, result) ==
  /\ inRows' = [inRows EXCEPT ![key] = [row EXCEPT !.job = JobSettled(@, w, result, InAttempts)]]
  /\ InTurns(w, InIdle)

\* ingestInboundCapture reads the channel before its transaction; an owner who
\* may not write any more ends the job, and the message stays pending.
ClaimIngest(w, key) ==
  LET row == [inRows[key] EXCEPT !.job = ClaimedBy(@, w)] IN
  /\ inWorkers[w].at = "idle" /\ MayClaim(inRows[key].job)
  /\ IF inChannel.rights
     THEN /\ inRows' = [inRows EXCEPT ![key] = row]
          /\ InTurns(w, [InIdle EXCEPT !.at = "ingest", !.key = key, !.revision = inChannel.revision,
                           !.attempt = row.job.attempts])
     ELSE /\ inRows' = [inRows EXCEPT ![key] = [row EXCEPT !.job = JobSettled(@, w, "failed", InAttempts)]]
          /\ UNCHANGED inWorkers
  /\ UNCHANGED <<inFolder, inChannel, inPoll, inTroubled>>

LoseIngest(key) ==
  LET job == inRows[key].job IN
  /\ job.status = "running" /\ InTrouble
  /\ inRows' = [inRows EXCEPT ![key].job = JobLapsed(@, InAttempts)]
  /\ UNCHANGED inWorkers \/ InTurns(job.holder, InIdle)
  /\ UNCHANGED <<inFolder, inChannel, inPoll>>

\* Mutant: the message is taken although the channel has changed since.
IngestableUnchecked(row, revision) == row.status = "pending"

Ingestable(row, revision) == row.status = "pending" /\ row.revision = revision /\ CurrentPoll(revision)

\* The row is locked from here to the end of the transaction, in which the
\* objects are stored.  It is committed, or it fails, or only its answer does.
IngestMessage(w) ==
  LET me == inWorkers[w]  key == me.key  row == inRows[key]
      stored == [row EXCEPT !.stored = @ \cup {me.attempt}]
      complete == [stored EXCEPT !.status = "completed", !.docs = @ \cup {me.attempt}]
  IN
  /\ me.at = "ingest"
  /\ IF row.status = "completed" THEN EndIngest(w, key, row, "done") /\ UNCHANGED inTroubled
     ELSE IF row.status # "pending" THEN EndIngest(w, key, row, "failed") /\ UNCHANGED inTroubled
     ELSE IF ~Ingestable(row, me.revision)
     THEN EndIngest(w, key, [row EXCEPT !.status = "cancelled"], "done") /\ UNCHANGED inTroubled
     ELSE \/ EndIngest(w, key, complete, "done") /\ UNCHANGED inTroubled
          \/ /\ InTrouble /\ InTurns(w, [me EXCEPT !.at = "clean"])
             /\ \E after \in {stored, complete} : inRows' = [inRows EXCEPT ![key] = after]
  /\ UNCHANGED <<inFolder, inChannel, inPoll>>

\* Mutant: what this attempt stored goes when it fails.
Unattached(row, attempt) == TRUE

\* The deferred cleanup: an object that has no attachment.
Orphaned(row, attempt) == attempt \notin row.docs

CleanIngest(w) ==
  LET me == inWorkers[w]  row == inRows[me.key] IN
  /\ me.at = "clean"
  /\ EndIngest(w, me.key, IF Orphaned(row, me.attempt) THEN [row EXCEPT !.stored = @ \ {me.attempt}] ELSE row, "retry")
  /\ UNCHANGED <<inFolder, inChannel, inPoll, inTroubled>>

\* cancelInboundMessage.
CancelMessage(key) ==
  /\ inRows[key].status = "pending"
  /\ inRows' = [inRows EXCEPT ![key] = [inRows[key] EXCEPT !.status = "cancelled", !.job = JobCancelled(@)]]
  /\ UNCHANGED <<inFolder, inChannel, inPoll, inWorkers, inTroubled>>

----------------
(* The surroundings.                                                          *)

\* saveInboundChannel and rotateInboundSecret, at the revision that was read.
SaveChannel(on) ==
  /\ InTrouble
  /\ inChannel' = [inChannel EXCEPT !.on = on, !.revision = @ + 1]
  /\ UNCHANGED <<inFolder, inRows, inPoll, inWorkers>>

ChangeOwner ==
  /\ InTrouble
  /\ inChannel' = [inChannel EXCEPT !.rights = ~@]
  /\ UNCHANGED <<inFolder, inRows, inPoll, inWorkers>>

MailArrives(mail) ==
  /\ inChannel.kind = "imap" /\ Len(inFolder.mails) < MaxMails
  /\ inFolder' = [inFolder EXCEPT !.mails = Append(@, mail)]
  /\ UNCHANGED <<inChannel, inRows, inPoll, inWorkers, inTroubled>>

Expunge(uid) ==
  /\ inFolder.mails[uid] # Gone /\ InTrouble
  /\ inFolder' = [inFolder EXCEPT !.mails[uid] = Gone]
  /\ UNCHANGED <<inChannel, inRows, inPoll, inWorkers>>

\* The folder gets another UIDVALIDITY, its mails other UIDs, in any order.
RebuildFolder ==
  LET there == {uid \in DOMAIN inFolder.mails : inFolder.mails[uid] # Gone}
      numbers == 1 .. Cardinality(there)
  IN
  /\ inChannel.kind = "imap" /\ InTrouble
  /\ \E old \in {f \in [numbers -> there] : \A i, j \in numbers : f[i] = f[j] => i = j} :
       inFolder' = [epoch |-> inFolder.epoch + 1, mails |-> [i \in numbers |-> inFolder.mails[old[i]]]]
  /\ UNCHANGED <<inChannel, inRows, inPoll, inWorkers>>

InNext ==
  \/ \E d \in 1 .. MaxMails, mail \in {m \in InMails : m[1] # 0} : ReceiveHook(d, mail)
  \/ QueuePoll \/ LosePoll
  \/ \E w \in InWorkers :
       \/ ClaimPoll(w) \/ OpenFolder(w) \/ ReadMail(w) \/ StageMail(w) \/ AdvancePoll(w) \/ SettlePoll(w)
       \/ IngestMessage(w) \/ CleanIngest(w)
       \/ \E key \in InKeys : ClaimIngest(w, key)
  \/ \E key \in InKeys : LoseIngest(key) \/ CancelMessage(key)
  \/ \E on \in BOOLEAN : SaveChannel(on)
  \/ ChangeOwner \/ RebuildFolder
  \/ \E mail \in InMails : MailArrives(mail)
  \/ \E uid \in DOMAIN inFolder.mails : Expunge(uid)

InSpec == InInit /\ [][InNext]_inVars

----------------
(* Properties.                                                                *)

\* A mail that the checkpoint has passed is among the messages, under its UID
\* or its Message-ID, unless it was there before the channel and was not wanted.
MailIsKept ==
  \A uid \in DOMAIN inFolder.mails : LET mail == inFolder.mails[uid] IN
    inChannel.epoch = inFolder.epoch /\ uid <= inChannel.last /\ mail # Gone /\ uid > inChannel.skipped =>
      inRows[<<inFolder.epoch, uid>>].status # "none" \/ \E k \in InKeys : inRows[k].mail = mail

\* A message is one document with its objects, and no Message-ID is two messages.
OneDocument ==
  \A k \in InKeys : LET row == inRows[k] IN
    /\ Cardinality(row.docs) <= 1 /\ row.docs \subseteq row.stored
    /\ row.docs # {} <=> row.status = "completed"
    /\ \A o \in InKeys \ {k} : row.mail # Gone => row.mail[1] # inRows[o].mail[1]

\* The checkpoint never goes back; a document is made only while its channel is
\* as it was when the message came, and its owner may write.
OnlyForward ==
  /\ inChannel'.epoch >= inChannel.epoch
  /\ inChannel'.epoch = inChannel.epoch => inChannel'.last >= inChannel.last
  /\ \A k \in InKeys : inRows'[k].docs # inRows[k].docs =>
       inRows[k].status = "pending" /\ CurrentPoll(inRows[k].revision)

\* What arrives is captured once and completely, or is still to be read.
CaptureIsWhole == MailIsKept' /\ OneDocument' /\ OnlyForward
=============================================================================
