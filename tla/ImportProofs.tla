---------------------------- MODULE ImportProofs -----------------------------
(* Theorems about what comes in from outside, for any goroutines, bounds and  *)
(* numbers of rows: mail read from a folder (InboundCapture) and documents    *)
(* of another system (MigrationSession).  For each, the inductive invariant,  *)
(* one lemma per action, and what follows; ExchangeProofs puts both into the  *)
(* whole.                                                                     *)
EXTENDS InboundCapture, MigrationSession, GitSync, FiniteSetTheorems, WellFoundedInduction, TLAPS

----------------
(* Inbound capture: the rows, and how the folder, its checkpoint, the messages  *)
(* and the polls belong together.                                               *)

InJob   == [status : {"none", "pending", "running", "done", "failed", "cancelled"}, attempts : 0 .. InAttempts,
            holder : InWorkers \cup {"none"}, cancel : BOOLEAN]
InMail  == InMails \cup {Gone}
InRow   == [status : {"none", "pending", "completed", "rejected", "cancelled"}, mail : InMail, revision : Nat,
            job : InJob, docs : SUBSET (1 .. InAttempts), stored : SUBSET (1 .. InAttempts)]
InPlace == [at : {"idle", "open", "mail", "stage", "advance", "ingest", "clean", "settle"},
            key : InKeys \cup {<<0, 0>>}, revision : Nat, attempt : 0 .. InAttempts, epoch : Nat, old : Nat,
            last : Nat, skipped : Nat, left : SUBSET (1 .. MaxMails), mail : InMail]

\* A job that waits may be tried again.
InJobFits(job) == job \in InJob /\ (job.status = "pending" => job.attempts < InAttempts)

InShape ==
  /\ inFolder \in [epoch : 1 .. 1 + inTroubled.troubles, mails : Seq(InMail)]
  /\ Len(inFolder.mails) <= MaxMails
  /\ inChannel \in [kind : {"imap", "hmac"}, fromNow : BOOLEAN, revision : Nat, on : BOOLEAN, rights : BOOLEAN,
                    epoch : Nat, last : Nat, skipped : Nat]
  /\ inRows \in [InKeys -> InRow]
  /\ inPoll \in [job : InJob, revision : Nat] /\ InJobFits(inPoll.job)
  /\ inWorkers \in [InWorkers -> InPlace]
  /\ inTroubled \in [polls : Nat, troubles : 0 .. InTroubles]

\* A message, its job, its document and its objects.
MessageFits(row) ==
  /\ InJobFits(row.job)
  /\ row.status = "none" => row = NoMessage
  /\ row.status = "rejected" => row.job = Unqueued /\ row.mail = Gone
  /\ row.mail # Gone => row.mail[1] # 0
  /\ row.docs \subseteq row.stored /\ Cardinality(row.docs) <= 1
  /\ row.docs # {} <=> row.status = "completed"

\* A Message-ID is one message.
NoTwice == \A k, o \in InKeys : k # o /\ inRows[k].mail # Gone => inRows[k].mail[1] # inRows[o].mail[1]

\* The mail under a UID of the folder is among the messages.
Taken(uid) ==
  \/ inFolder.mails[uid] = Gone \/ inRows[<<inFolder.epoch, uid>>].status # "none"
  \/ \E k \in InKeys : inRows[k].mail = inFolder.mails[uid]

\* So are the mails up to one, but for the first that were not wanted.
TakenTo(last, skipped) == \A uid \in DOMAIN inFolder.mails : skipped < uid /\ uid <= last => Taken(uid)

Checkpoint ==
  /\ inChannel.epoch <= inFolder.epoch
  /\ inChannel.epoch = inFolder.epoch =>
       inChannel.last <= Len(inFolder.mails) /\ TakenTo(inChannel.last, inChannel.skipped)

\* What a poll may skip when it advances the checkpoint.
MaySkip(me) == IF inChannel.epoch = me.epoch /\ inChannel.skipped > me.skipped THEN inChannel.skipped ELSE me.skipped

\* A poll of the folder as it is has all mails up to its last one, and reads
\* the next ones in their order.
ReadSoFar(me) ==
  /\ me.last <= Len(inFolder.mails) /\ TakenTo(me.last, MaySkip(me))
  /\ me.left \subseteq DOMAIN inFolder.mails /\ \A uid \in me.left : me.last < uid
  /\ \A uid \in DOMAIN inFolder.mails, next \in me.left :
       me.last < uid /\ uid < next /\ uid \notin me.left => inFolder.mails[uid] = Gone
  /\ me.at = "stage" => me.left # {} /\ inFolder.mails[NextUid(me.left)] \in {me.mail, Gone}

PollFits(me) ==
  /\ me.at \in {"open", "mail", "stage", "advance"} => me.old <= inChannel.epoch
  /\ me.at = "open" /\ me.old = inFolder.epoch =>
       me.last <= Len(inFolder.mails) /\ TakenTo(me.last, inChannel.skipped)
  /\ me.at \in {"mail", "stage", "advance"} =>
       /\ me.old <= me.epoch /\ 0 < me.epoch /\ me.epoch <= inFolder.epoch
       /\ me.epoch = inFolder.epoch => ReadSoFar(me)
  /\ me.at = "stage" => me.left # {} /\ me.mail # Gone /\ me.mail[1] # 0

\* A goroutine that makes a document has a message for it.
IngestFits(me) ==
  me.at \in {"ingest", "clean"} => me.key \in InKeys /\ me.attempt > 0
                                   /\ inRows[me.key].status \in {"pending", "completed", "cancelled"}

InIInv ==
  /\ InShape /\ (\A k \in InKeys : MessageFits(inRows[k])) /\ NoTwice /\ Checkpoint
  /\ \A w \in InWorkers : PollFits(inWorkers[w]) /\ IngestFits(inWorkers[w])

\* The next UID of a poll.
LEMMA NextIsThere ==
  ASSUME NEW uids \in SUBSET (1 .. MaxMails), uids # {}
  PROVE  NextUid(uids) \in uids /\ \A o \in uids : NextUid(uids) <= o
<1>1. uids \subseteq Nat BY InAssumption DEF InAssumption
<1> DEFINE less == {pair \in Nat \X Nat : pair[1] < pair[2]}
<1>2. IsWellFoundedOn(less, Nat) BY NatLessThanWellFounded DEF OpToRel
<1>3. PICK u \in uids : \A o \in uids : ~(<<o, u>> \in less)
  <2> HIDE DEF less
  <2> QED BY <1>1, <1>2, WFMin
<1>4. ASSUME NEW o \in uids PROVE u <= o
  <2>1. o \in Nat /\ u \in Nat /\ ~(o < u) BY <1>1, <1>3
  <2> QED BY <2>1
<1> QED BY <1>4 DEF NextUid

----------------
(* What a step leaves standing.                                                 *)

Ingests == {"pending", "completed", "cancelled"}
RowsGo ==
  \A k \in InKeys :
    /\ inRows[k].status # "none" => inRows'[k].status # "none"
    /\ inRows[k].mail # Gone => inRows'[k].mail = inRows[k].mail
    /\ inRows[k].status \in Ingests => inRows'[k].status \in Ingests
FolderGoes ==
  /\ inFolder'.epoch >= inFolder.epoch
  /\ inFolder'.epoch = inFolder.epoch =>
       /\ Len(inFolder.mails) <= Len(inFolder'.mails)
       /\ \A uid \in DOMAIN inFolder.mails : inFolder'.mails[uid] \in {inFolder.mails[uid], Gone}
ChannelGoes ==
  /\ inChannel'.epoch >= inChannel.epoch
  /\ inChannel'.epoch = inChannel.epoch => inChannel'.skipped >= inChannel.skipped
InGoesOn == InShape' /\ RowsGo /\ FolderGoes /\ ChannelGoes

LEMMA FolderFacts ==
  ASSUME NEW troubles \in 0 .. InTroubles, NEW folder \in [epoch : 1 .. 1 + troubles, mails : Seq(InMail)],
         Len(folder.mails) <= MaxMails
  PROVE  /\ DOMAIN folder.mails = 1 .. Len(folder.mails) /\ Len(folder.mails) \in Nat
         /\ \A uid \in DOMAIN folder.mails :
              uid \in 1 .. MaxMails /\ folder.mails[uid] \in InMail /\ <<folder.epoch, uid>> \in InKeys
         /\ folder.epoch \in Nat \ {0} /\ folder.epoch \in 0 .. InTroubles + 1
<1>1. InTroubles \in Nat /\ MaxMails \in Nat BY InAssumption DEF InAssumption
<1>2. folder.mails \in Seq(InMail) /\ folder.epoch \in 1 .. 1 + troubles
  OBVIOUS
<1>3. folder.epoch \in 0 .. InTroubles + 1 /\ folder.epoch \in Nat \ {0} BY <1>1, <1>2
<1>4. \A uid \in DOMAIN folder.mails : uid \in 1 .. MaxMails /\ folder.mails[uid] \in InMail
  BY <1>1, <1>2
<1> QED BY <1>2, <1>3, <1>4 DEF InKeys

LEMMA MailDomain ==
  ASSUME InShape
  PROVE  /\ DOMAIN inFolder.mails = 1 .. Len(inFolder.mails) /\ Len(inFolder.mails) \in Nat
         /\ \A uid \in DOMAIN inFolder.mails :
              uid \in 1 .. MaxMails /\ inFolder.mails[uid] \in InMail /\ <<inFolder.epoch, uid>> \in InKeys
         /\ inFolder.epoch \in Nat \ {0} /\ inFolder.epoch \in 0 .. InTroubles + 1
<1>1. /\ inTroubled.troubles \in 0 .. InTroubles /\ Len(inFolder.mails) <= MaxMails
      /\ inFolder \in [epoch : 1 .. 1 + inTroubled.troubles, mails : Seq(InMail)]
  BY DEF InShape
<1> QED BY ONLY <1>1, FolderFacts

LEMMA LaterDomain ==
  ASSUME InShape'
  PROVE  /\ DOMAIN inFolder'.mails = 1 .. Len(inFolder'.mails) /\ Len(inFolder'.mails) \in Nat
         /\ \A uid \in DOMAIN inFolder'.mails :
              uid \in 1 .. MaxMails /\ inFolder'.mails[uid] \in InMail /\ <<inFolder'.epoch, uid>> \in InKeys
         /\ inFolder'.epoch \in Nat \ {0} /\ inFolder'.epoch \in 0 .. InTroubles + 1
<1>1. /\ inTroubled'.troubles \in 0 .. InTroubles /\ Len(inFolder'.mails) <= MaxMails
      /\ inFolder' \in [epoch : 1 .. 1 + inTroubled'.troubles, mails : Seq(InMail)]
  BY DEF InShape
<1> QED BY ONLY <1>1, FolderFacts

LEMMA ChannelNumbers == ASSUME InShape PROVE inChannel.epoch \in Nat /\ inChannel.last \in Nat /\ inChannel.skipped \in Nat
  BY DEF InShape

LEMMA TakenStays ==
  ASSUME InShape, InGoesOn, inFolder'.epoch = inFolder.epoch,
         NEW uid \in DOMAIN inFolder.mails, Taken(uid)
  PROVE  Taken(uid)'
<1>1. inFolder'.mails[uid] \in {inFolder.mails[uid], Gone} /\ <<inFolder.epoch, uid>> \in InKeys
  BY MailDomain DEF InGoesOn, FolderGoes
<1>2. CASE inRows[<<inFolder.epoch, uid>>].status # "none" BY <1>1, <1>2 DEF Taken, InGoesOn, RowsGo
<1>3. ASSUME NEW k \in InKeys, inRows[k].mail = inFolder.mails[uid], inFolder.mails[uid] # Gone PROVE Taken(uid)'
  BY <1>1, <1>3 DEF Taken, InGoesOn, RowsGo
<1> QED BY <1>1, <1>2, <1>3 DEF Taken

LEMMA TakenToStays ==
  ASSUME InShape, InGoesOn, inFolder'.epoch = inFolder.epoch,
         NEW last \in Nat, NEW skipped \in Nat, NEW more \in Nat,
         last <= Len(inFolder.mails), skipped <= more, TakenTo(last, skipped)
  PROVE  last <= Len(inFolder'.mails) /\ TakenTo(last, more)'
<1>1. Len(inFolder.mails) <= Len(inFolder'.mails) /\ Len(inFolder.mails) \in Nat /\ Len(inFolder'.mails) \in Nat
  BY MailDomain, LaterDomain DEF InGoesOn, FolderGoes
<1>2. ASSUME NEW uid \in DOMAIN inFolder'.mails, more < uid, uid <= last PROVE Taken(uid)'
  <2>1. uid \in 1 .. Len(inFolder'.mails) BY LaterDomain DEF InGoesOn
  <2>2. uid \in DOMAIN inFolder.mails /\ skipped < uid BY <1>1, <1>2, <2>1, MailDomain
  <2> QED BY <1>2, <2>2, TakenStays DEF TakenTo
<1> QED BY <1>1, <1>2 DEF TakenTo

\* The checkpoint stands while nobody moves it.
LEMMA CheckpointStays ==
  ASSUME InShape, Checkpoint, InGoesOn,
         inChannel'.epoch = inChannel.epoch /\ inChannel'.last = inChannel.last /\ inChannel'.skipped = inChannel.skipped
  PROVE  Checkpoint'
<1>1. inChannel'.epoch = inChannel.epoch /\ inChannel'.last = inChannel.last /\ inChannel'.skipped = inChannel.skipped
  OBVIOUS
<1>2. inChannel.epoch \in Nat /\ inChannel.last \in Nat /\ inChannel.skipped \in Nat BY DEF InShape
<1>3. inFolder.epoch \in Nat /\ inFolder'.epoch \in Nat /\ inFolder'.epoch >= inFolder.epoch
  BY MailDomain, LaterDomain DEF InGoesOn, FolderGoes
<1>4. ASSUME inChannel.epoch = inFolder'.epoch
      PROVE  inChannel.last <= Len(inFolder'.mails) /\ TakenTo(inChannel.last, inChannel.skipped)'
  <2>1. inFolder'.epoch = inFolder.epoch BY <1>2, <1>3, <1>4 DEF Checkpoint
  <2>2. PICK last \in Nat, skipped \in Nat : last = inChannel.last /\ skipped = inChannel.skipped
    BY <1>2
  <2>3. last <= Len(inFolder'.mails) /\ TakenTo(last, skipped)'
    BY <1>4, <2>1, <2>2, TakenToStays DEF Checkpoint
  <2>4. last = inChannel'.last /\ skipped = inChannel'.skipped BY <1>1, <2>2
  <2> QED BY <1>1, <2>2, <2>3, <2>4 DEF TakenTo
<1>5. inChannel.epoch <= inFolder'.epoch BY <1>2, <1>3 DEF Checkpoint
<1> QED BY <1>1, <1>4, <1>5 DEF Checkpoint

\* A poll stays right about what it has read.
LEMMA ReadStays ==
  ASSUME InShape, Checkpoint, Checkpoint', InGoesOn, NEW me \in InPlace, me.epoch = inFolder'.epoch,
         inFolder'.epoch = inFolder.epoch, ReadSoFar(me)
  PROVE  ReadSoFar(me)'
<1>1. /\ me.last \in Nat /\ me.skipped \in Nat /\ me.epoch \in Nat /\ MaySkip(me) \in Nat /\ MaySkip(me)' \in Nat
      /\ MaySkip(me) <= MaySkip(me)'
  <2>1. me.last \in Nat /\ me.skipped \in Nat /\ me.epoch \in Nat BY DEF InPlace
  <2>2. /\ inChannel.epoch \in Nat /\ inChannel.skipped \in Nat /\ inChannel'.epoch \in Nat /\ inChannel'.skipped \in Nat
        /\ inChannel.epoch <= me.epoch /\ inChannel'.epoch <= me.epoch /\ inChannel'.epoch >= inChannel.epoch
        /\ inChannel'.epoch = inChannel.epoch => inChannel'.skipped >= inChannel.skipped
    BY DEF InGoesOn, InShape, Checkpoint, ChannelGoes
  <2> QED BY <2>1, <2>2 DEF MaySkip
<1>2. PICK before \in Nat, after \in Nat : before = MaySkip(me) /\ after = MaySkip(me)' BY <1>1
<1>3. me.last <= Len(inFolder'.mails) /\ TakenTo(me.last, after)'
  <2>1. before <= after /\ me.last <= Len(inFolder.mails) /\ TakenTo(me.last, before)
    BY <1>1, <1>2 DEF ReadSoFar
  <2> HIDE DEF InShape, InGoesOn
  <2> QED BY <1>1, <2>1, TakenToStays
<1>4. TakenTo(me.last, MaySkip(me))' BY <1>2, <1>3 DEF TakenTo
<1>5. /\ DOMAIN inFolder.mails = 1 .. Len(inFolder.mails) /\ DOMAIN inFolder'.mails = 1 .. Len(inFolder'.mails)
      /\ Len(inFolder.mails) <= Len(inFolder'.mails) /\ Len(inFolder.mails) \in Nat /\ Len(inFolder'.mails) \in Nat
  BY MailDomain, LaterDomain DEF InGoesOn, FolderGoes
<1>6. me.left \subseteq DOMAIN inFolder'.mails /\ \A uid \in me.left : me.last < uid
  BY <1>5 DEF ReadSoFar
<1>7. ASSUME NEW uid \in DOMAIN inFolder'.mails, NEW next \in me.left, me.last < uid, uid < next, uid \notin me.left
      PROVE  inFolder'.mails[uid] = Gone
  <2>1. uid \in DOMAIN inFolder.mails BY <1>5, <1>7 DEF ReadSoFar
  <2>2. inFolder.mails[uid] = Gone BY <1>7, <2>1 DEF ReadSoFar
  <2> QED BY <2>1, <2>2 DEF InGoesOn, FolderGoes
<1>8. ASSUME me.at = "stage" PROVE me.left # {} /\ inFolder'.mails[NextUid(me.left)] \in {me.mail, Gone}
  <2>1. me.left # {} /\ inFolder.mails[NextUid(me.left)] \in {me.mail, Gone} BY <1>8 DEF ReadSoFar
  <2>2. NextUid(me.left) \in DOMAIN inFolder.mails BY <2>1, NextIsThere DEF ReadSoFar, InPlace
  <2> QED BY <2>1, <2>2 DEF InGoesOn, FolderGoes
<1> QED BY <1>3, <1>4, <1>6, <1>7, <1>8 DEF ReadSoFar

LEMMA PlaceStays ==
  ASSUME InShape, Checkpoint, Checkpoint', InGoesOn, NEW me \in InPlace, PollFits(me), IngestFits(me)
  PROVE  PollFits(me)' /\ IngestFits(me)'
<1>1. /\ me.old \in Nat /\ me.last \in Nat /\ me.epoch \in Nat
      /\ inChannel.epoch \in Nat /\ inChannel'.epoch \in Nat /\ inChannel'.epoch >= inChannel.epoch
      /\ inFolder.epoch \in Nat /\ inFolder'.epoch \in Nat /\ inFolder'.epoch >= inFolder.epoch
  BY MailDomain, LaterDomain DEF InPlace, InGoesOn, InShape, ChannelGoes, FolderGoes
<1>2. me.at \in {"open", "mail", "stage", "advance"} => me.old <= inChannel'.epoch
  BY <1>1 DEF PollFits
<1>3. ASSUME me.at = "open", me.old = inFolder'.epoch
      PROVE  me.last <= Len(inFolder'.mails) /\ TakenTo(me.last, inChannel.skipped)'
  <2>1. inChannel.epoch = me.old /\ inChannel'.epoch = me.old /\ inFolder.epoch = me.old
    BY <1>1, <1>2, <1>3 DEF PollFits, Checkpoint
  <2>2. PICK before \in Nat, after \in Nat : /\ before = inChannel.skipped /\ after = inChannel'.skipped
                                             /\ before <= after
    BY <2>1 DEF InGoesOn, InShape, ChannelGoes
  <2>3. me.last <= Len(inFolder.mails) /\ TakenTo(me.last, before) BY <1>3, <2>1, <2>2 DEF PollFits
  <2>4. me.last <= Len(inFolder'.mails) /\ TakenTo(me.last, after)'
    BY <1>1, <1>3, <2>1, <2>2, <2>3, TakenToStays
  <2> QED BY <2>2, <2>4 DEF TakenTo
<1>4. ASSUME me.at \in {"mail", "stage", "advance"}
      PROVE  /\ me.old <= me.epoch /\ 0 < me.epoch /\ me.epoch <= inFolder'.epoch
             /\ me.epoch = inFolder'.epoch => ReadSoFar(me)'
  <2>1. /\ me.old <= me.epoch /\ 0 < me.epoch /\ me.epoch <= inFolder.epoch
        /\ me.epoch = inFolder.epoch => ReadSoFar(me)
    BY <1>4 DEF PollFits
  <2>2. ASSUME me.epoch = inFolder'.epoch PROVE ReadSoFar(me)'
    <3>1. inFolder'.epoch = inFolder.epoch /\ me.epoch = inFolder.epoch BY <1>1, <2>1, <2>2
    <3> QED BY <2>1, <2>2, <3>1, ReadStays
  <2> QED BY <1>1, <2>1, <2>2
<1>5. me.at = "stage" => me.left # {} /\ me.mail # Gone /\ me.mail[1] # 0 BY DEF PollFits
<1>6. PollFits(me)' BY <1>2, <1>3, <1>4, <1>5 DEF PollFits
<1>7. IngestFits(me)' BY DEF IngestFits, InGoesOn, RowsGo, Ingests
<1> QED BY <1>6, <1>7

\* One goroutine may turn to something else.
InTurned(record) ==
  /\ inWorkers' \in [InWorkers -> InPlace]
  /\ \A v \in InWorkers : inWorkers'[v] = inWorkers[v] \/ inWorkers'[v] = record

LEMMA InTurnsOnly ==
  ASSUME InShape, NEW w, NEW record \in InPlace, InTurns(w, record) \/ UNCHANGED inWorkers
  PROVE  InTurned(record)
  BY DEF InTurns, InTurned, InShape

LEMMA IdleFits ==
  /\ InIdle \in InPlace /\ NoMessage \in InRow /\ MessageFits(NoMessage)
  /\ PollFits(InIdle) /\ IngestFits(InIdle) /\ PollFits(InIdle)' /\ IngestFits(InIdle)'
<1>1. 0 \in 0 .. InAttempts /\ Cardinality({}) = 0 BY InAssumption, FS_EmptySet DEF InAssumption
<1>2. InIdle \in InPlace BY <1>1 DEF InIdle, InPlace, InMail
<1>3. NoMessage \in InRow /\ MessageFits(NoMessage)
  BY <1>1 DEF NoMessage, InRow, MessageFits, InMail, InJobFits, InJob, Unqueued
<1>4. InIdle.at = "idle" BY DEF InIdle
<1> QED BY <1>2, <1>3, <1>4 DEF PollFits, IngestFits

\* A step: what goes on, one goroutine that turns, and what it changes fits.
LEMMA InSteps ==
  ASSUME InIInv, InGoesOn, NEW record \in InPlace, InTurned(record),
         \A k \in InKeys : MessageFits(inRows'[k]),
         NoTwice', Checkpoint', PollFits(record)', IngestFits(record)'
  PROVE  InIInv'
<1>1. InShape /\ Checkpoint /\ InShape' BY DEF InIInv, InGoesOn
<1>2. ASSUME NEW v \in InWorkers PROVE (PollFits(inWorkers[v]) /\ IngestFits(inWorkers[v]))'
  <2>1. PICK me : me = inWorkers'[v]
    OBVIOUS
  <2>2. PollFits(me)' /\ IngestFits(me)'
    <3>1. CASE me = record BY <3>1
    <3>2. CASE me = inWorkers[v]
      <4>1. me \in InPlace /\ PollFits(me) /\ IngestFits(me) BY <3>2 DEF InIInv, InShape
      <4> QED BY <1>1, <4>1, PlaceStays
    <3> QED BY <2>1, <3>1, <3>2 DEF InTurned
  <2> QED BY <2>1, <2>2 DEF PollFits, IngestFits, ReadSoFar, MaySkip, TakenTo
<1>3. (\A k \in InKeys : MessageFits(inRows[k]))'
  OBVIOUS
<1> QED BY <1>1, <1>2, <1>3 DEF InIInv

----------------
(* Jobs and messages.                                                           *)

LEMMA InJobMoves ==
  ASSUME NEW job, InJobFits(job), NEW w \in InWorkers, NEW result \in {"done", "failed", "retry"}
  PROVE  /\ InJobFits(JobSettled(job, w, result, InAttempts)) /\ InJobFits(JobCancelled(job))
         /\ MayClaim(job) => InJobFits(ClaimedBy(job, w)) /\ ClaimedBy(job, w).attempts > 0
         /\ job = Unqueued => JobSettled(job, w, result, InAttempts) = job
<1>1. InAttempts \in Nat \ {0} BY InAssumption DEF InAssumption
<1>2. job \in InJob /\ (job.status = "pending" => job.attempts < InAttempts) BY DEF InJobFits
<1>3. job.attempts \in 0 .. InAttempts BY <1>2 DEF InJob
<1>4. PICK waits : waits = Retried(job, InAttempts)
  OBVIOUS
<1>5. waits \in {"pending", "failed"} /\ (waits = "pending" => job.attempts < InAttempts)
  BY <1>4 DEF Retried
<1>6. InJobFits(JobSettled(job, w, result, InAttempts))
  <2>1. CASE job.status # "running" \/ job.holder # w BY <2>1 DEF JobSettled
  <2>2. CASE job.status = "running" /\ job.holder = w
    <3>1. PICK status : status = IF job.cancel THEN "cancelled" ELSE IF result = "retry" THEN waits ELSE result
      OBVIOUS
    <3>2. JobSettled(job, w, result, InAttempts) = [job EXCEPT !.holder = "none", !.status = status]
      BY <1>4, <2>2, <3>1 DEF JobSettled
    <3> QED BY <1>2, <1>5, <3>1, <3>2 DEF InJobFits, InJob
  <2> QED BY <2>1, <2>2
<1>7. InJobFits(JobCancelled(job)) BY <1>2 DEF JobCancelled, InJobFits, InJob, JobIsOpen
<1>8. ASSUME MayClaim(job) PROVE InJobFits(ClaimedBy(job, w)) /\ ClaimedBy(job, w).attempts > 0
  <2>1. job.attempts + 1 \in 0 .. InAttempts /\ job.attempts + 1 > 0
    BY <1>1, <1>2, <1>3, <1>8 DEF MayClaim
  <2> QED BY <1>2, <2>1 DEF ClaimedBy, InJobFits, InJob
<1>9. job = Unqueued => JobSettled(job, w, result, InAttempts) = job BY DEF JobSettled, Unqueued
<1> QED BY <1>6, <1>7, <1>8, <1>9

LEMMA InJobLapses ==
  ASSUME NEW job, InJobFits(job), job.status = "running"
  PROVE  InJobFits(JobLapsed(job, InAttempts))
<1>1. PICK waits : waits = Retried(job, InAttempts)
  OBVIOUS
<1>2. waits \in {"pending", "failed"} /\ (waits = "pending" => job.attempts < InAttempts)
  BY <1>1 DEF Retried
<1>3. PICK status : status = IF job.cancel THEN "cancelled" ELSE waits
  OBVIOUS
<1>4. JobLapsed(job, InAttempts) = [job EXCEPT !.holder = "none", !.status = status]
  BY <1>1, <1>3 DEF JobLapsed
<1> QED BY <1>2, <1>3, <1>4 DEF InJobFits, InJob

LEMMA NewJobFits == InJobFits(NewJob) /\ InJobFits(Unqueued)
<1>1. 0 \in 0 .. InAttempts /\ 0 < InAttempts BY InAssumption DEF InAssumption
<1>2. Unqueued \in InJob /\ NewJob \in InJob /\ NewJob.attempts = 0 /\ Unqueued.status = "none"
  BY <1>1 DEF NewJob, Unqueued, InJob
<1> QED BY <1>1, <1>2 DEF InJobFits

\* What the messages are after a step.
MessagesFit ==
  /\ inRows' \in [InKeys -> InRow] /\ RowsGo /\ NoTwice'
  /\ \A k \in InKeys : MessageFits(inRows'[k])

LEMMA MessagesStay == ASSUME InIInv, UNCHANGED inRows PROVE MessagesFit
  BY DEF InIInv, InShape, MessagesFit, RowsGo, NoTwice

LEMMA MessageChanges ==
  ASSUME InIInv, NEW key \in InKeys, NEW row \in InRow, MessageFits(row), inRows' = [inRows EXCEPT ![key] = row],
         row.mail = inRows[key].mail, inRows[key].status # "none" => row.status # "none",
         inRows[key].status \in Ingests => row.status \in Ingests
  PROVE  MessagesFit
<1>1. /\ inRows' \in [InKeys -> InRow] /\ inRows'[key] = row
      /\ \A k \in InKeys \ {key} : inRows'[k] = inRows[k]
  BY DEF InIInv, InShape
<1>2. \A k \in InKeys : inRows'[k].mail = inRows[k].mail BY <1>1
<1>3. NoTwice' BY <1>2 DEF NoTwice, InIInv
<1>4. RowsGo BY <1>1, <1>2 DEF RowsGo
<1>5. \A k \in InKeys : MessageFits(inRows'[k]) BY <1>1 DEF InIInv
<1> QED BY <1>1, <1>3, <1>4, <1>5 DEF MessagesFit

LEMMA MessageStaged ==
  ASSUME InIInv, NEW key \in InKeys, NEW mail \in InMails, mail[1] # 0, NEW revision \in Nat,
         Acceptable(key, mail), StagedMessage(key, mail, revision)
  PROVE  MessagesFit /\ \E k \in InKeys : inRows'[k].mail = mail
<1>1. mail # Gone /\ mail \in InMail BY InAssumption DEF InAssumption, Gone, InMail
<1>2. CASE Known(key, mail) # {}
  <2>1. UNCHANGED inRows BY <1>2 DEF StagedMessage
  <2>2. \E k \in InKeys : inRows[k].mail = mail BY <1>2 DEF Acceptable, Known
  <2> QED BY <2>1, <2>2, MessagesStay
<1>3. CASE Known(key, mail) = {}
  <2> DEFINE row == [NoMessage EXCEPT !.status = "pending", !.mail = mail, !.revision = revision, !.job = NewJob]
  <2>1. inRows' = [inRows EXCEPT ![key] = row] BY <1>3 DEF StagedMessage
  <2>2. /\ row \in InRow /\ row.status = "pending" /\ row.mail = mail /\ row.job = NewJob
        /\ row.docs = {} /\ row.stored = {}
    <3>1. NewJob \in InJob BY NewJobFits DEF InJobFits
    <3> QED BY <1>1, <3>1 DEF NoMessage, InRow
  <2> HIDE DEF row
  <2>3. MessageFits(row) BY <2>2, NewJobFits, FS_EmptySet DEF MessageFits
  <2>4. /\ \A k \in InKeys : inRows[k].status = "none" => inRows[k].mail = Gone
        /\ \A k \in InKeys : inRows[k].mail # Gone => inRows[k].mail[1] # mail[1]
        /\ inRows[key].status = "none"
    <3>1. \A k \in InKeys : inRows[k].status = "none" => inRows[k].mail = Gone
      BY DEF InIInv, MessageFits, NoMessage
    <3> QED BY <1>3, <3>1 DEF Known
  <2>5. /\ inRows' \in [InKeys -> InRow] /\ inRows'[key] = row
        /\ \A k \in InKeys \ {key} : inRows'[k] = inRows[k]
    BY <2>1, <2>2 DEF InIInv, InShape
  <2>6. RowsGo BY <2>2, <2>4, <2>5 DEF RowsGo, Ingests
  <2>7. ASSUME NEW k \in InKeys, NEW o \in InKeys, k # o, inRows'[k].mail # Gone
        PROVE  inRows'[k].mail[1] # inRows'[o].mail[1]
    <3>1. Gone[1] = 0 BY DEF Gone
    <3>2. CASE k = key
      <4>1. inRows'[o] = inRows[o] /\ inRows'[k].mail = mail BY <2>2, <2>5, <2>7, <3>2
      <4> QED BY <2>4, <3>1, <4>1
    <3>3. CASE o = key
      <4>1. inRows'[k] = inRows[k] /\ inRows'[o].mail = mail BY <2>2, <2>5, <2>7, <3>3
      <4> QED BY <2>4, <2>7, <4>1
    <3>4. CASE k # key /\ o # key BY <2>5, <2>7, <3>4 DEF InIInv, NoTwice
    <3> QED BY <3>2, <3>3, <3>4
  <2>8. \A k \in InKeys : MessageFits(inRows'[k]) BY <2>3, <2>5 DEF InIInv
  <2>9. MessagesFit BY <2>5, <2>6, <2>7, <2>8 DEF MessagesFit, NoTwice
  <2> QED BY <2>2, <2>5, <2>9
<1> QED BY <1>2, <1>3

\* What a step needs that leaves folder and checkpoint as they are.
LEMMA FolderStays ==
  ASSUME InIInv, MessagesFit, UNCHANGED inFolder,
         UNCHANGED inChannel, inPoll' \in [job : InJob, revision : Nat], InJobFits(inPoll'.job),
         inTroubled' \in [polls : Nat, troubles : 0 .. InTroubles], inTroubled'.troubles >= inTroubled.troubles,
         NEW record \in InPlace, InTurned(record)
  PROVE  InGoesOn /\ Checkpoint'
<1>1. InShape'
  <2>1. inTroubled.troubles \in Nat /\ inTroubled'.troubles \in Nat BY DEF InIInv, InShape
  <2>2. 1 .. 1 + inTroubled.troubles \subseteq 1 .. 1 + inTroubled'.troubles BY <2>1
  <2>3. inFolder' \in [epoch : 1 .. 1 + inTroubled'.troubles, mails : Seq(InMail)]
    BY <2>2 DEF InIInv, InShape
  <2> QED BY <2>3 DEF InIInv, InShape, MessagesFit, InTurned
<1>2. InGoesOn
  <2>1. FolderGoes /\ ChannelGoes BY MailDomain, ChannelNumbers DEF FolderGoes, ChannelGoes, InIInv
  <2> QED BY <1>1, <2>1 DEF InGoesOn, MessagesFit
<1> QED BY <1>2, CheckpointStays DEF InIInv

\* A step of the messages and of one goroutine, which may be judged before it.
LEMMA MessageStep ==
  ASSUME InIInv, MessagesFit, UNCHANGED inFolder,
         UNCHANGED inChannel, inPoll' \in [job : InJob, revision : Nat], InJobFits(inPoll'.job),
         inTroubled' \in [polls : Nat, troubles : 0 .. InTroubles], inTroubled'.troubles >= inTroubled.troubles,
         NEW record \in InPlace, InTurned(record),
         (PollFits(record) /\ IngestFits(record)) \/ (PollFits(record)' /\ IngestFits(record)')
  PROVE  InIInv'
<1>1. InGoesOn /\ Checkpoint' BY FolderStays
<1>2. PollFits(record)' /\ IngestFits(record)' BY <1>1, PlaceStays DEF InIInv
<1> QED BY <1>1, <1>2, InSteps DEF MessagesFit

----------------
(* The steps of inbound capture.                                                *)

\* What stays for MessageStep where a step has no trouble and no poll.
LEMMA InBounds ==
  ASSUME InIInv, InTrouble \/ UNCHANGED inTroubled
  PROVE  inTroubled' \in [polls : Nat, troubles : 0 .. InTroubles] /\ inTroubled'.troubles >= inTroubled.troubles
<1>1. inTroubled \in [polls : Nat, troubles : 0 .. InTroubles] /\ InTroubles \in Nat
  BY InAssumption DEF InIInv, InShape, InAssumption
<1> QED BY <1>1 DEF InTrouble

LEMMA PollRow == ASSUME InIInv PROVE inPoll \in [job : InJob, revision : Nat] /\ InJobFits(inPoll.job)
  BY DEF InIInv, InShape

LEMMA RowFacts ==
  ASSUME InIInv, NEW k \in InKeys PROVE inRows[k] \in InRow /\ MessageFits(inRows[k]) /\ InJobFits(inRows[k].job)
  BY DEF InIInv, InShape, MessageFits

LEMMA MailOf == ASSUME InIInv, NEW k \in InKeys, inRows[k].status = "none" PROVE inRows[k].mail = Gone
  BY DEF InIInv, MessageFits, NoMessage

LEMMA StepReceiveHook ==
  ASSUME InIInv, NEW d \in 1 .. MaxMails, NEW mail \in InMails, mail[1] # 0, ReceiveHook(d, mail)
  PROVE  InIInv'
<1>1. <<0, d>> \in InKeys /\ inChannel.revision \in Nat
  BY InAssumption DEF InAssumption, InKeys, InIInv, InShape
<1>2. MessagesFit BY <1>1, MessageStaged DEF ReceiveHook
<1>3. InTurned(InIdle) BY InTurnsOnly, IdleFits DEF ReceiveHook, InIInv
<1> QED BY <1>2, <1>3, IdleFits, PollRow, InBounds, MessageStep DEF ReceiveHook

LEMMA StepQueuePoll == ASSUME InIInv, QueuePoll PROVE InIInv'
<1>1. inPoll' \in [job : InJob, revision : Nat] /\ InJobFits(inPoll'.job)
  BY NewJobFits DEF QueuePoll, InIInv, InShape, InJobFits
<1>2. MessagesFit /\ InTurned(InIdle) BY MessagesStay, InTurnsOnly, IdleFits DEF QueuePoll, InIInv
<1>3. inTroubled' \in [polls : Nat, troubles : 0 .. InTroubles] /\ inTroubled'.troubles >= inTroubled.troubles
  <2>1. inTroubled \in [polls : Nat, troubles : 0 .. InTroubles] /\ InTroubles \in Nat
    BY InAssumption DEF InIInv, InShape, InAssumption
  <2> QED BY <2>1 DEF QueuePoll
<1>4. UNCHANGED <<inFolder, inChannel>> BY DEF QueuePoll
<1> QED BY <1>1, <1>2, <1>3, <1>4, IdleFits, MessageStep

\* The end of a poll's attempt.
LEMMA PollEnds ==
  ASSUME InIInv, NEW w \in InWorkers, NEW result \in {"done", "failed", "retry"}, EndPoll(w, result)
  PROVE  /\ inPoll' \in [job : InJob, revision : Nat] /\ InJobFits(inPoll'.job)
         /\ InTurned(InIdle)
<1>1. PICK job : job = JobSettled(inPoll.job, w, result, InAttempts)
  OBVIOUS
<1>2. inPoll' = [inPoll EXCEPT !.job = job] BY <1>1 DEF EndPoll
<1>3. InJobFits(job) BY <1>1, PollRow, InJobMoves
<1>4. InTurned(InIdle) BY InTurnsOnly, IdleFits DEF EndPoll, InIInv
<1> QED BY <1>2, <1>3, <1>4, PollRow DEF InJobFits

LEMMA StepSettlePoll == ASSUME InIInv, NEW w \in InWorkers, SettlePoll(w) PROVE InIInv'
<1>1. inPoll' \in [job : InJob, revision : Nat] /\ InJobFits(inPoll'.job) /\ InTurned(InIdle)
  BY PollEnds DEF SettlePoll
<1>2. MessagesFit /\ UNCHANGED <<inFolder, inChannel, inTroubled>> BY MessagesStay DEF SettlePoll
<1> QED BY <1>1, <1>2, IdleFits, InBounds, MessageStep

LEMMA StepLosePoll == ASSUME InIInv, LosePoll PROVE InIInv'
<1>1. PICK job : job = JobLapsed(inPoll.job, InAttempts)
  OBVIOUS
<1>2. inPoll' = [inPoll EXCEPT !.job = job] /\ inPoll.job.status = "running" BY <1>1 DEF LosePoll
<1>3. InJobFits(job) BY <1>1, <1>2, PollRow, InJobLapses
<1>4. inPoll' \in [job : InJob, revision : Nat] /\ InJobFits(inPoll'.job)
  BY <1>2, <1>3, PollRow DEF InJobFits
<1>5. MessagesFit /\ InTurned(InIdle) /\ UNCHANGED <<inFolder, inChannel>> /\ InTrouble
  BY MessagesStay, InTurnsOnly, IdleFits DEF LosePoll, InIInv
<1> QED BY <1>4, <1>5, IdleFits, InBounds, MessageStep

LEMMA StepClaimPoll == ASSUME InIInv, NEW w \in InWorkers, ClaimPoll(w) PROVE InIInv'
<1>1. PICK job : job = ClaimedBy(inPoll.job, w)
  OBVIOUS
<1>2. MayClaim(inPoll.job) /\ InJobFits(job) BY <1>1, PollRow, InJobMoves DEF ClaimPoll
<1>3. MessagesFit /\ UNCHANGED <<inFolder, inChannel, inTroubled>> BY MessagesStay DEF ClaimPoll
<1>4. CASE CurrentPoll(inPoll.revision)
  <2> DEFINE record == [InIdle EXCEPT !.at = "open", !.revision = inPoll.revision,
                         !.last = inChannel.last, !.old = inChannel.epoch]
  <2>1. /\ record \in InPlace /\ record.at = "open" /\ record.last = inChannel.last /\ record.old = inChannel.epoch
    BY PollRow, ChannelNumbers, IdleFits DEF InIInv, InIdle, InPlace
  <2>2. inPoll' = [inPoll EXCEPT !.job = job] /\ InTurns(w, record) BY <1>1, <1>4 DEF ClaimPoll
  <2> HIDE DEF record
  <2>3. inPoll' \in [job : InJob, revision : Nat] /\ InJobFits(inPoll'.job)
    BY <1>2, <2>2, PollRow DEF InJobFits
  <2>4. PollFits(record) /\ IngestFits(record)
    BY <2>1, ChannelNumbers DEF PollFits, IngestFits, InIInv, Checkpoint
  <2>5. InTurned(record) BY <2>1, <2>2, InTurnsOnly DEF InIInv
  <2> QED BY <1>3, <2>1, <2>3, <2>4, <2>5, InBounds, MessageStep
<1>5. CASE ~CurrentPoll(inPoll.revision)
  <2>1. PICK ended : ended = JobSettled(job, w, "failed", InAttempts)
    OBVIOUS
  <2>2. inPoll' = [inPoll EXCEPT !.job = ended] /\ UNCHANGED inWorkers
    BY <1>1, <1>5, <2>1 DEF ClaimPoll
  <2>3. InJobFits(ended) BY <1>2, <2>1, InJobMoves
  <2>4. inPoll' \in [job : InJob, revision : Nat] /\ InJobFits(inPoll'.job)
    BY <2>2, <2>3, PollRow DEF InJobFits
  <2>5. InTurned(InIdle) BY <2>2, InTurnsOnly, IdleFits DEF InIInv
  <2> QED BY <1>3, <2>4, <2>5, IdleFits, InBounds, MessageStep
<1> QED BY <1>4, <1>5

\* What a poll finds when it opens the folder.
ListedFits(last, left) ==
  /\ left \in SUBSET (1 .. MaxMails) /\ left \subseteq DOMAIN inFolder.mails
  /\ \A uid \in left : last < uid
  /\ \A uid \in DOMAIN inFolder.mails, next \in left :
       last < uid /\ uid < next /\ uid \notin left => inFolder.mails[uid] = Gone

LEMMA Listing ==
  ASSUME InIInv, NEW me, ReadUpTo(me) \in Nat, RangeEnd(me) \in Nat, RangeEnd(me) <= Len(inFolder.mails)
  PROVE  ListedFits(ReadUpTo(me), FirstOf(Listed(me)))
<1> PICK last \in Nat, upper \in Nat : last = ReadUpTo(me) /\ upper = RangeEnd(me)
  OBVIOUS
<1> PICK listed : listed = Listed(me)
  OBVIOUS
<1> PICK left : left = FirstOf(listed)
  OBVIOUS
<1>1. /\ listed = {u \in last + 1 .. upper : inFolder.mails[u] # Gone} /\ upper <= Len(inFolder.mails)
      /\ left = {u \in listed : Cardinality({o \in listed : o <= u}) <= MailBatch}
  BY DEF Listed, FirstOf
<1>2. /\ DOMAIN inFolder.mails = 1 .. Len(inFolder.mails) /\ Len(inFolder.mails) \in Nat
      /\ \A uid \in DOMAIN inFolder.mails : uid \in 1 .. MaxMails
  BY MailDomain DEF InIInv
<1>3. listed \subseteq DOMAIN inFolder.mails /\ IsFiniteSet(listed) /\ \A u \in listed : u \in Nat /\ last < u
  <2>1. listed \in SUBSET (last + 1 .. upper) BY <1>1
  <2>2. last + 1 \in Int /\ upper \in Int
    OBVIOUS
  <2>3. IsFiniteSet(last + 1 .. upper) BY ONLY <2>2, FS_Interval
  <2>4. IsFiniteSet(listed) BY ONLY <2>1, <2>3, FS_Subset
  <2> QED BY <1>1, <1>2, <2>1, <2>4
<1>4. left \subseteq listed BY <1>1
<1>5. ASSUME NEW uid \in DOMAIN inFolder.mails, NEW next \in left, last < uid, uid < next, uid \notin left
      PROVE  inFolder.mails[uid] = Gone
  <2> SUFFICES ASSUME inFolder.mails[uid] # Gone PROVE FALSE
    OBVIOUS
  <2>1. next \in last + 1 .. upper /\ uid \in Nat /\ next \in Nat BY <1>2, <1>3, <1>4, <1>1
  <2>2. uid \in listed BY <1>5, <1>1, <2>1
  <2>3. PICK here, there : here = {o \in listed : o <= uid} /\ there = {o \in listed : o <= next}
    OBVIOUS
  <2>4. here \in SUBSET there BY <1>3, <1>5, <2>1, <2>3
  <2>5. IsFiniteSet(there) BY <1>3, <2>3, FS_Subset
  <2>6. Cardinality(here) <= Cardinality(there) /\ Cardinality(here) \in Nat /\ Cardinality(there) \in Nat
    BY <2>4, <2>5, FS_Subset, FS_CardinalityType
  <2>7. Cardinality(there) <= MailBatch BY <1>1, <2>3
  <2>8. ~(Cardinality(here) <= MailBatch) BY <1>5, <1>1, <2>2, <2>3
  <2> QED BY <2>6, <2>7, <2>8, InAssumption DEF InAssumption
<1>6. left \in SUBSET (1 .. MaxMails) /\ left \subseteq DOMAIN inFolder.mails /\ \A uid \in left : last < uid
  BY <1>2, <1>3, <1>4
<1> QED BY <1>5, <1>6 DEF ListedFits

LEMMA StepOpenFolder == ASSUME InIInv, NEW w \in InWorkers, OpenFolder(w) PROVE InIInv'
<1>1. PICK me \in InPlace : me = inWorkers[w] BY DEF InIInv, InShape
<1>2. /\ me.at = "open" /\ me.old \in Nat /\ me.last \in Nat /\ PollFits(me)
      /\ Len(inFolder.mails) \in Nat /\ inFolder.epoch \in Nat \ {0} /\ inChannel.skipped \in Nat
      /\ inChannel.epoch \in Nat /\ inChannel.epoch <= inFolder.epoch
  BY <1>1, MailDomain, ChannelNumbers DEF OpenFolder, InPlace, InIInv, Checkpoint
<1>3. PICK size \in Nat : size = Len(inFolder.mails) BY <1>2
<1>4. PICK fresh \in BOOLEAN : fresh = FirstPoll(me) BY DEF FirstPoll
<1>5. PICK last \in Nat : last = ReadUpTo(me) BY <1>2 DEF ReadUpTo
<1>6. PICK upper \in Nat : upper = RangeEnd(me)
  BY <1>2, <1>5, InAssumption DEF InAssumption, RangeEnd
<1>7. PICK listed : listed = Listed(me)
  OBVIOUS
<1>8. PICK left : left = FirstOf(listed)
  OBVIOUS
<1>9. PICK read \in Nat : read = IF listed = {} /\ last < upper THEN upper ELSE last
  OBVIOUS
<1>10. PICK skipped \in Nat : skipped = IF fresh THEN last ELSE 0
  OBVIOUS
<1>11. PICK at \in {"advance", "mail"} : at = IF listed = {} THEN "advance" ELSE "mail"
  OBVIOUS
<1>12. /\ last <= size /\ upper <= size /\ fresh = (me.old = 0 /\ inChannel.fromNow)
       /\ last = IF me.old = inFolder.epoch THEN me.last ELSE IF fresh THEN size ELSE 0
       /\ listed = {u \in last + 1 .. upper : inFolder.mails[u] # Gone}
  <2>1. last = IF me.old = inFolder.epoch THEN me.last ELSE IF fresh THEN size ELSE 0
    BY <1>3, <1>4, <1>5 DEF ReadUpTo
  <2>2. upper = IF last + MailRange < size THEN last + MailRange ELSE size
    BY <1>3, <1>5, <1>6 DEF RangeEnd
  <2>3. last <= size BY <1>2, <1>3, <2>1 DEF PollFits
  <2>4. upper <= size BY <2>2, InAssumption DEF InAssumption
  <2>5. fresh = (me.old = 0 /\ inChannel.fromNow) BY <1>4 DEF FirstPoll
  <2>6. listed = {u \in last + 1 .. upper : inFolder.mails[u] # Gone} BY <1>5, <1>6, <1>7 DEF Listed
  <2> QED BY <2>1, <2>3, <2>4, <2>5, <2>6
<1>13. /\ left \in SUBSET (1 .. MaxMails) /\ left \subseteq DOMAIN inFolder.mails
       /\ \A uid \in left : last < uid
       /\ \A uid \in DOMAIN inFolder.mails, next \in left :
            last < uid /\ uid < next /\ uid \notin left => inFolder.mails[uid] = Gone
  <2>1. ReadUpTo(me) \in Nat /\ RangeEnd(me) \in Nat /\ RangeEnd(me) <= Len(inFolder.mails)
    BY <1>3, <1>5, <1>6, <1>12
  <2>2. ListedFits(last, left) BY <1>5, <1>7, <1>8, <2>1, Listing
  <2> QED BY <2>2 DEF ListedFits
<1>14. PICK record : record = [me EXCEPT !.epoch = inFolder.epoch, !.at = at, !.left = left, !.last = read,
                                 !.skipped = skipped]
  OBVIOUS
<1>15. /\ record \in InPlace /\ record.at = at /\ record.left = left /\ record.last = read
       /\ record.skipped = skipped /\ record.epoch = inFolder.epoch /\ record.old = me.old
  BY <1>2, <1>13, <1>14 DEF InPlace
<1>16. InTurns(w, record)
  BY <1>1, <1>4, <1>5, <1>6, <1>7, <1>8, <1>9, <1>10, <1>11, <1>14 DEF OpenFolder
<1>17. PICK may \in Nat : may = MaySkip(record) BY <1>2, <1>15 DEF MaySkip
<1>18. TakenTo(last, may)
  <2>1. CASE me.old = inFolder.epoch
    <3>1. TakenTo(me.last, inChannel.skipped) /\ last = me.last BY <1>2, <1>12, <2>1 DEF PollFits
    <3>2. may >= inChannel.skipped
      <4>1. inChannel.epoch = inFolder.epoch BY <1>2, <2>1 DEF PollFits
      <4> QED BY <1>2, <1>15, <1>17, <4>1 DEF MaySkip
    <3>3. \A uid \in DOMAIN inFolder.mails : uid \in Nat BY MailDomain DEF InIInv
    <3> QED BY <1>2, <3>1, <3>2, <3>3 DEF TakenTo
  <2>2. CASE me.old # inFolder.epoch /\ fresh
    <3>1. last = size /\ may >= size BY <1>2, <1>3, <1>10, <1>12, <1>15, <1>17, <2>2 DEF MaySkip
    <3>2. \A uid \in DOMAIN inFolder.mails : uid \in Nat BY MailDomain DEF InIInv
    <3> QED BY <3>1, <3>2 DEF TakenTo
  <2>3. CASE me.old # inFolder.epoch /\ ~fresh
    <3>1. last = 0 BY <1>12, <2>3
    <3>2. \A uid \in DOMAIN inFolder.mails : uid \in Nat /\ uid > 0
      BY MailDomain, InAssumption DEF InIInv, InAssumption
    <3> QED BY <3>1, <3>2 DEF TakenTo
  <2> QED BY <1>4, <2>1, <2>2, <2>3
<1>19. TakenTo(read, may)
  <2>1. CASE read = last BY <1>18, <2>1
  <2>2. CASE read = upper /\ listed = {}
    <3>1. ASSUME NEW uid \in DOMAIN inFolder.mails, may < uid, uid <= read PROVE Taken(uid)
      <4>1. uid \in Nat BY MailDomain DEF InIInv
      <4>2. CASE uid <= last BY <1>18, <3>1, <4>2 DEF TakenTo
      <4>3. CASE last < uid
        <5>1. uid \in last + 1 .. upper BY <2>2, <3>1, <4>1, <4>3
        <5> QED BY <1>12, <2>2, <5>1 DEF Taken
      <4> QED BY <4>1, <4>2, <4>3
    <3> QED BY <3>1 DEF TakenTo
  <2> QED BY <1>9, <2>1, <2>2
<1>20. ReadSoFar(record)
  <2>1. read <= Len(inFolder.mails) BY <1>3, <1>9, <1>12
  <2>2. \A uid \in left : read < uid BY <1>8, <1>9, <1>13 DEF FirstOf
  <2>3. \A uid \in DOMAIN inFolder.mails, next \in left :
          read < uid /\ uid < next /\ uid \notin left => inFolder.mails[uid] = Gone
    BY <1>8, <1>9, <1>13 DEF FirstOf
  <2>4. at # "stage"
    OBVIOUS
  <2> QED BY <1>13, <1>15, <1>17, <1>19, <2>1, <2>2, <2>3, <2>4 DEF ReadSoFar
<1>21. me.old <= inChannel.epoch /\ me.old <= inFolder.epoch BY <1>2 DEF PollFits
<1>22. PollFits(record) /\ IngestFits(record) BY <1>2, <1>15, <1>20, <1>21 DEF PollFits, IngestFits
<1>23. MessagesFit /\ UNCHANGED <<inFolder, inChannel, inPoll, inTroubled>>
  BY MessagesStay DEF OpenFolder
<1>24. InTurned(record) BY <1>15, <1>16, InTurnsOnly DEF InIInv
<1> QED BY <1>15, <1>22, <1>23, <1>24, PollRow, InBounds, MessageStep

\* A poll that has dealt with a mail goes on with the next one.
LEMMA ReadOn ==
  ASSUME InShape', NEW me \in InPlace, NEW record \in InPlace, ReadSoFar(me)', me.left # {},
         NEW uid, uid = NextUid(me.left), Taken(uid)',
         record.last = uid, record.left = me.left \ {uid}, record.at # "stage",
         record.epoch = me.epoch, record.skipped = me.skipped
  PROVE  ReadSoFar(record)'
<1>1. /\ uid \in me.left /\ \A o \in me.left : uid <= o
      /\ me.left \subseteq DOMAIN inFolder'.mails
  BY NextIsThere DEF ReadSoFar, InPlace
<1>2. /\ DOMAIN inFolder'.mails = 1 .. Len(inFolder'.mails) /\ Len(inFolder'.mails) \in Nat
      /\ \A o \in DOMAIN inFolder'.mails : o \in Nat
  BY LaterDomain
<1>3. PICK may : may = MaySkip(me)'
  OBVIOUS
<1>4. MaySkip(record)' = may BY <1>3 DEF MaySkip
<1>5. TakenTo(uid, may)'
  <2>1. ASSUME NEW o \in DOMAIN inFolder'.mails, may < o, o <= uid PROVE Taken(o)'
    <3>1. o \in Nat /\ uid \in Nat /\ me.last \in Nat BY <1>1, <1>2 DEF InPlace
    <3>2. CASE o <= me.last BY <1>3, <2>1, <3>2 DEF ReadSoFar, TakenTo
    <3>3. CASE o = uid BY <3>3
    <3>4. CASE me.last < o /\ o # uid
      <4>1. o < uid /\ o \notin me.left BY <1>1, <2>1, <3>1, <3>4
      <4>2. inFolder'.mails[o] = Gone BY <1>1, <3>4, <4>1 DEF ReadSoFar
      <4> QED BY <4>2 DEF Taken
    <3> QED BY <3>1, <3>2, <3>3, <3>4
  <2> QED BY <2>1 DEF TakenTo
<1>6. uid <= Len(inFolder'.mails) /\ \A o \in record.left : uid < o BY <1>1, <1>2
<1>7. ASSUME NEW o \in DOMAIN inFolder'.mails, NEW next \in record.left, uid < o, o < next, o \notin record.left
      PROVE  inFolder'.mails[o] = Gone
  <2>1. me.last < uid /\ me.last \in Nat /\ uid \in Nat /\ o \in Nat
    BY <1>1, <1>2 DEF ReadSoFar, InPlace
  <2>2. me.last < o /\ o \notin me.left /\ next \in me.left BY <1>7, <2>1
  <2> QED BY <1>7, <2>2 DEF ReadSoFar
<1> QED BY <1>1, <1>4, <1>5, <1>6, <1>7 DEF ReadSoFar

\* The mail that a poll deals with, its key, and the end of the attempt.
LEMMA PollAt ==
  ASSUME InIInv, NEW w \in InWorkers, NEW me, me = inWorkers[w], me.left # {}, me.at \in {"mail", "stage"},
         NEW uid, uid = NextUid(me.left)
  PROVE  /\ me \in InPlace /\ PollFits(me) /\ uid \in me.left /\ uid \in 1 .. MaxMails /\ <<me.epoch, uid>> \in InKeys
         /\ me.epoch = inFolder.epoch => ReadSoFar(me) /\ uid \in DOMAIN inFolder.mails
<1>1. me \in InPlace /\ PollFits(me) BY DEF InIInv, InShape
<1>2. uid \in me.left /\ uid \in 1 .. MaxMails BY <1>1, NextIsThere DEF InPlace
<1>3. me.epoch \in Nat /\ inFolder.epoch \in 0 .. InTroubles + 1 /\ me.epoch <= inFolder.epoch
  BY <1>1, MailDomain DEF PollFits, InPlace, InIInv
<1>4. me.epoch \in 0 .. InTroubles + 1 BY <1>3, InAssumption DEF InAssumption
<1>5. me.epoch = inFolder.epoch => ReadSoFar(me) /\ uid \in DOMAIN inFolder.mails
  BY <1>1, <1>2 DEF PollFits, ReadSoFar
<1> QED BY <1>1, <1>2, <1>4, <1>5 DEF InKeys

LEMMA PollStops ==
  ASSUME InIInv, NEW w \in InWorkers, NEW result \in {"done", "failed", "retry"}, EndPoll(w, result),
         UNCHANGED <<inFolder, inChannel, inRows, inTroubled>>
  PROVE  InIInv'
<1>1. inPoll' \in [job : InJob, revision : Nat] /\ InJobFits(inPoll'.job) /\ InTurned(InIdle)
  BY PollEnds
<1>2. MessagesFit BY MessagesStay
<1> QED BY <1>1, <1>2, IdleFits, InBounds, MessageStep

\* A poll that has dealt with its mail.
LEMMA PollReads ==
  ASSUME InIInv, NEW w \in InWorkers, NEW me, me = inWorkers[w], me.left # {}, me.at \in {"mail", "stage"},
         NEW uid, uid = NextUid(me.left), MessagesFit, UNCHANGED <<inFolder, inChannel, inPoll, inTroubled>>,
         NEW record \in InPlace, InTurned(record), record.at = "mail", record.last = uid, record.left = me.left \ {uid},
         record.epoch = me.epoch, record.skipped = me.skipped, record.old = me.old,
         me.epoch = inFolder.epoch => Taken(uid)'
  PROVE  InIInv'
<1>1. /\ me \in InPlace /\ PollFits(me) /\ uid \in me.left /\ uid \in 1 .. MaxMails
      /\ me.epoch = inFolder.epoch => ReadSoFar(me)
  BY PollAt
<1>2. InGoesOn /\ Checkpoint' BY PollRow, InBounds, FolderStays
<1>3. me.epoch = inFolder'.epoch => ReadSoFar(record)'
  <2> SUFFICES ASSUME me.epoch = inFolder'.epoch PROVE ReadSoFar(record)'
    OBVIOUS
  <2>1. inFolder'.epoch = inFolder.epoch /\ ReadSoFar(me) /\ Taken(uid)' /\ InShape /\ Checkpoint
    BY <1>1 DEF InIInv
  <2>2. ReadSoFar(me)' BY <1>1, <1>2, <2>1, ReadStays
  <2>3. InShape' BY <1>2 DEF InGoesOn
  <2> QED BY <1>1, <2>1, <2>2, <2>3, ReadOn
<1>4. /\ me.old <= inChannel'.epoch /\ me.old <= me.epoch /\ 0 < me.epoch /\ me.epoch <= inFolder'.epoch
  BY <1>1 DEF PollFits
<1>5. PollFits(record)' /\ IngestFits(record)' BY <1>3, <1>4 DEF PollFits, IngestFits
<1> QED BY <1>5, PollRow, InBounds, MessageStep

LEMMA StepReadMail == ASSUME InIInv, NEW w \in InWorkers, ReadMail(w) PROVE InIInv'
<1>1. PICK me : me = inWorkers[w]
  OBVIOUS
<1>2. PICK uid : uid = NextUid(me.left)
  OBVIOUS
<1>3. PICK key : key = <<me.epoch, uid>>
  OBVIOUS
<1>4. me.at = "mail" /\ me.left # {} /\ UNCHANGED <<inFolder, inChannel, inTroubled>>
  BY <1>1 DEF ReadMail
<1>5. /\ me \in InPlace /\ PollFits(me) /\ uid \in me.left /\ uid \in 1 .. MaxMails /\ key \in InKeys
      /\ me.epoch = inFolder.epoch => ReadSoFar(me) /\ uid \in DOMAIN inFolder.mails
  BY <1>1, <1>2, <1>3, <1>4, PollAt
<1>6. CASE inFolder.epoch # me.epoch
  <2>1. EndPoll(w, "retry") /\ UNCHANGED inRows BY <1>1, <1>6 DEF ReadMail
  <2> QED BY <1>4, <2>1, PollStops
<1>7. CASE inFolder.epoch = me.epoch /\ ~CurrentPoll(me.revision)
  <2>1. EndPoll(w, "failed") /\ UNCHANGED inRows BY <1>1, <1>7 DEF ReadMail
  <2> QED BY <1>4, <2>1, PollStops
<1>8. CASE inFolder.epoch = me.epoch /\ CurrentPoll(me.revision) /\ inFolder.mails[uid][1] # 0
  <2>1. InTurns(w, [me EXCEPT !.at = "stage", !.mail = inFolder.mails[uid]]) /\ UNCHANGED <<inRows, inPoll>>
    BY <1>1, <1>2, <1>8 DEF ReadMail
  <2>2. PICK mail \in InMail : mail = inFolder.mails[uid] BY <1>5, <1>8, MailDomain DEF InIInv
  <2>3. PICK record : record = [me EXCEPT !.at = "stage", !.mail = mail]
    OBVIOUS
  <2>4. /\ record \in InPlace /\ record.at = "stage" /\ record.mail = mail /\ record.last = me.last
        /\ record.left = me.left /\ record.epoch = me.epoch /\ record.skipped = me.skipped /\ record.old = me.old
    BY <1>5, <2>3 DEF InPlace
  <2>5. mail # Gone /\ mail[1] # 0 BY <1>8, <2>2 DEF Gone
  <2>6. ReadSoFar(record)
    <3>1. MaySkip(record) = MaySkip(me) BY <2>4 DEF MaySkip
    <3> QED BY <1>2, <1>4, <1>5, <1>8, <2>2, <2>4, <3>1 DEF ReadSoFar
  <2>7. PollFits(record) /\ IngestFits(record)
    BY <1>4, <1>5, <2>4, <2>5, <2>6 DEF PollFits, IngestFits
  <2>8. InTurned(record) /\ MessagesFit
    BY <2>1, <2>2, <2>3, <2>4, InTurnsOnly, MessagesStay DEF InIInv
  <2> QED BY <1>4, <2>1, <2>4, <2>7, <2>8, PollRow, InBounds, MessageStep
<1>9. CASE inFolder.epoch = me.epoch /\ CurrentPoll(me.revision) /\ ~(inFolder.mails[uid][1] # 0)
  <2>1. PICK row : row = [NoMessage EXCEPT !.status = "rejected", !.revision = me.revision]
    OBVIOUS
  <2>2. /\ InTurns(w, [me EXCEPT !.left = @ \ {uid}, !.last = uid]) /\ UNCHANGED inPoll
        /\ inRows' = IF inRows[key].status # "none" THEN inRows ELSE [inRows EXCEPT ![key] = row]
    BY <1>1, <1>2, <1>3, <1>9, <2>1 DEF ReadMail
  <2>3. row \in InRow /\ MessageFits(row) /\ row.status = "rejected" /\ row.mail = Gone
    <3>1. NoMessage \in InRow /\ me.revision \in Nat /\ InJobFits(Unqueued) /\ Cardinality({}) = 0
      BY <1>5, IdleFits, NewJobFits, FS_EmptySet DEF InPlace
    <3>2. /\ row \in InRow /\ row.status = "rejected" /\ row.mail = Gone /\ row.job = Unqueued
          /\ row.docs = {} /\ row.stored = {}
      BY <2>1, <3>1 DEF NoMessage, InRow
    <3> QED BY <3>1, <3>2 DEF MessageFits
  <2>4. MessagesFit /\ inRows'[key].status # "none"
    <3>1. CASE inRows[key].status # "none" BY <2>2, <3>1, MessagesStay
    <3>2. CASE inRows[key].status = "none"
      <4>1. inRows' = [inRows EXCEPT ![key] = row] /\ inRows[key].mail = Gone
        BY <1>5, <2>2, <3>2, MailOf
      <4>2. MessagesFit BY <1>5, <2>3, <3>2, <4>1, MessageChanges DEF Ingests
      <4> QED BY <1>5, <2>3, <4>1, <4>2 DEF InIInv, InShape
    <3> QED BY <3>1, <3>2
  <2>5. Taken(uid)' BY <1>3, <1>4, <1>9, <2>4 DEF Taken
  <2>6. PICK record : record = [me EXCEPT !.left = @ \ {uid}, !.last = uid]
    OBVIOUS
  <2>7. /\ record \in InPlace /\ record.at = "mail" /\ record.last = uid /\ record.left = me.left \ {uid}
        /\ record.epoch = me.epoch /\ record.skipped = me.skipped /\ record.old = me.old
    <3>1. uid \in Nat BY <1>5, InAssumption DEF InAssumption
    <3> QED BY <1>4, <1>5, <2>6, <3>1 DEF InPlace
  <2>8. InTurned(record) BY <2>2, <2>6, <2>7, InTurnsOnly DEF InIInv
  <2> QED BY <1>1, <1>2, <1>4, <2>2, <2>4, <2>5, <2>7, <2>8, PollReads
<1> QED BY <1>6, <1>7, <1>8, <1>9

LEMMA StepStageMail == ASSUME InIInv, NEW w \in InWorkers, StageMail(w) PROVE InIInv'
<1>1. PICK me : me = inWorkers[w]
  OBVIOUS
<1>2. PICK uid : uid = NextUid(me.left)
  OBVIOUS
<1>3. PICK key : key = <<me.epoch, uid>>
  OBVIOUS
<1>4. me.at = "stage" /\ me.left # {} /\ me \in InPlace /\ UNCHANGED <<inFolder, inChannel, inTroubled>>
  BY <1>1 DEF StageMail, InIInv, InShape, PollFits
<1>5. /\ me \in InPlace /\ PollFits(me) /\ uid \in me.left /\ uid \in 1 .. MaxMails /\ key \in InKeys
      /\ me.epoch = inFolder.epoch => ReadSoFar(me) /\ uid \in DOMAIN inFolder.mails
  BY <1>1, <1>2, <1>3, <1>4, PollAt
<1>6. CASE CurrentPoll(me.revision) /\ Acceptable(key, me.mail)
  <2>1. /\ StagedMessage(key, me.mail, me.revision) /\ UNCHANGED inPoll
        /\ InTurns(w, [me EXCEPT !.at = "mail", !.left = @ \ {uid}, !.last = uid, !.mail = Gone])
    BY <1>1, <1>2, <1>3, <1>6 DEF StageMail
  <2>2. PICK mail \in InMails, revision \in Nat : mail = me.mail /\ revision = me.revision /\ mail[1] # 0
    BY <1>4, <1>5 DEF PollFits, InPlace, InMail
  <2>3. MessagesFit /\ \E k \in InKeys : inRows'[k].mail = mail
    BY <1>5, <1>6, <2>1, <2>2, MessageStaged
  <2>4. ASSUME me.epoch = inFolder.epoch PROVE Taken(uid)'
    <3>1. inFolder'.mails[uid] \in {mail, Gone} BY <1>2, <1>4, <1>5, <2>2, <2>4 DEF ReadSoFar
    <3> QED BY <2>3, <3>1 DEF Taken
  <2>5. PICK record : record = [me EXCEPT !.at = "mail", !.left = @ \ {uid}, !.last = uid, !.mail = Gone]
    OBVIOUS
  <2>6. /\ record \in InPlace /\ record.at = "mail" /\ record.last = uid /\ record.left = me.left \ {uid}
        /\ record.epoch = me.epoch /\ record.skipped = me.skipped /\ record.old = me.old
    <3>1. uid \in Nat BY <1>5, InAssumption DEF InAssumption
    <3> QED BY <1>5, <2>5, <3>1 DEF InPlace, InMail
  <2>7. InTurned(record) BY <2>1, <2>5, <2>6, InTurnsOnly DEF InIInv
  <2> QED BY <1>1, <1>2, <1>4, <2>1, <2>3, <2>4, <2>6, <2>7, PollReads
<1>7. CASE ~(CurrentPoll(me.revision) /\ Acceptable(key, me.mail))
  <2>1. PICK result \in {"retry", "failed"} : result = IF CurrentPoll(me.revision) THEN "retry" ELSE "failed"
    OBVIOUS
  <2>2. EndPoll(w, result) /\ UNCHANGED inRows BY <1>1, <1>2, <1>3, <1>7, <2>1 DEF StageMail
  <2>3. result \in {"done", "failed", "retry"} BY <2>1
  <2> QED BY <1>4, <2>2, <2>3, PollStops
<1> QED BY <1>6, <1>7

LEMMA StepAdvancePoll == ASSUME InIInv, NEW w \in InWorkers, AdvancePoll(w) PROVE InIInv'
<1>1. PICK me \in InPlace : me = inWorkers[w] BY DEF InIInv, InShape
<1>2. PollFits(me) /\ UNCHANGED <<inFolder, inRows, inTroubled>> /\ me.at \in {"advance", "mail"}
  BY <1>1 DEF AdvancePoll, InIInv
<1>3. CASE MayAdvance(me)
  <2>1. PICK last \in Nat, skipped \in Nat : last = Advanced(me) /\ skipped = MaySkip(me)
    BY <1>1, ChannelNumbers DEF Advanced, MaySkip, InPlace, InIInv
  <2>2. inChannel' = [inChannel EXCEPT !.epoch = me.epoch, !.last = last, !.skipped = skipped] /\ UNCHANGED inPoll
    <3>1. inChannel' = [inChannel EXCEPT !.epoch = me.epoch, !.last = Advanced(me),
            !.skipped = IF inChannel.epoch = me.epoch /\ inChannel.skipped > me.skipped
                        THEN inChannel.skipped ELSE me.skipped] /\ UNCHANGED inPoll
      BY <1>1, <1>3 DEF AdvancePoll
    <3> QED BY <2>1, <3>1 DEF MaySkip
  <2>3. PICK record : record = [me EXCEPT !.at = "settle"]
    OBVIOUS
  <2>4. record \in InPlace /\ record.at = "settle" /\ InTurns(w, record)
    BY <1>1, <1>3, <2>3 DEF AdvancePoll, InPlace
  <2>5. InTurned(record) BY <2>4, InTurnsOnly DEF InIInv
  <2>6. /\ me.old \in Nat /\ me.epoch \in Nat /\ me.last \in Nat /\ me.skipped \in Nat
        /\ inChannel.epoch \in Nat /\ inChannel.last \in Nat /\ inChannel.skipped \in Nat /\ inFolder.epoch \in Nat
    BY MailDomain, ChannelNumbers DEF InPlace, InIInv
  <2>7. /\ me.old <= me.epoch /\ me.epoch <= inFolder.epoch
        /\ me.epoch = inFolder.epoch => ReadSoFar(me)
    BY <1>2 DEF PollFits
  <2>8. inChannel.epoch \in {me.epoch, me.old} BY <1>3 DEF MayAdvance
  <2>9. /\ inChannel' \in [kind : {"imap", "hmac"}, fromNow : BOOLEAN, revision : Nat, on : BOOLEAN, rights : BOOLEAN,
                           epoch : Nat, last : Nat, skipped : Nat]
        /\ inChannel'.epoch = me.epoch /\ inChannel'.last = last /\ inChannel'.skipped = skipped
    BY <2>2, <2>6 DEF InIInv, InShape
  <2>10. InGoesOn
    <3>1. InShape' BY <1>2, <2>2, <2>5, <2>9 DEF InIInv, InShape, InTurned
    <3>2. ChannelGoes BY <2>1, <2>6, <2>7, <2>8, <2>9 DEF ChannelGoes, MaySkip
    <3>3. RowsGo /\ FolderGoes BY <1>2, MailDomain DEF RowsGo, FolderGoes, InIInv
    <3> QED BY <3>1, <3>2, <3>3 DEF InGoesOn
  <2>11. me.epoch = inFolder.epoch => last <= Len(inFolder.mails) /\ TakenTo(last, skipped)
    <3> SUFFICES ASSUME me.epoch = inFolder.epoch PROVE last <= Len(inFolder.mails) /\ TakenTo(last, skipped)
      OBVIOUS
    <3>1. me.last <= Len(inFolder.mails) /\ TakenTo(me.last, skipped) BY <2>1, <2>7 DEF ReadSoFar
    <3>2. CASE last = me.last BY <3>1, <3>2
    <3>3. CASE last = inChannel.last /\ inChannel.epoch = me.epoch
      <4>1. inChannel.last <= Len(inFolder.mails) /\ TakenTo(inChannel.last, inChannel.skipped)
        BY <3>3 DEF InIInv, Checkpoint
      <4>2. inChannel.skipped <= skipped BY <2>1, <2>6, <3>3 DEF MaySkip
      <4>3. \A uid \in DOMAIN inFolder.mails : uid \in Nat BY MailDomain DEF InIInv
      <4> QED BY <2>6, <3>3, <4>1, <4>2, <4>3 DEF TakenTo
    <3> QED BY <2>1, <3>2, <3>3 DEF Advanced
  <2>12. Checkpoint'
    <3>1. TakenTo(last, skipped) => TakenTo(last, skipped)' BY <1>2 DEF TakenTo, Taken
    <3>2. TakenTo(last, skipped)' => TakenTo(inChannel.last, inChannel.skipped)'
      BY <2>9 DEF TakenTo, Taken
    <3> QED BY <1>2, <2>7, <2>9, <2>11, <3>1, <3>2 DEF Checkpoint
  <2>13. PollFits(record)' /\ IngestFits(record)' BY <2>4 DEF PollFits, IngestFits
  <2>14. NoTwice' /\ \A k \in InKeys : MessageFits(inRows'[k]) BY <1>2, MessagesStay DEF MessagesFit
  <2> QED BY <2>4, <2>5, <2>10, <2>12, <2>13, <2>14, InSteps
<1>4. CASE ~MayAdvance(me)
  <2>1. EndPoll(w, "failed") /\ UNCHANGED inChannel BY <1>1, <1>4 DEF AdvancePoll
  <2> QED BY <1>2, <2>1, PollStops
<1> QED BY <1>3, <1>4

\* Only the job of a message changes.
LEMMA JobOfMessage ==
  ASSUME NEW row \in InRow, MessageFits(row), row.status \in Ingests, NEW job, InJobFits(job),
         NEW next, next = [row EXCEPT !.job = job]
  PROVE  next \in InRow /\ MessageFits(next) /\ next.mail = row.mail /\ next.status = row.status /\ next.job = job
<1>1. /\ next \in InRow /\ next.mail = row.mail /\ next.status = row.status /\ next.job = job
      /\ next.docs = row.docs /\ next.stored = row.stored
  BY DEF InRow, InJobFits
<1> QED BY <1>1 DEF MessageFits, Ingests

\* A message that has a job is one that can be made a document.
LEMMA JobIsMessage ==
  ASSUME InIInv, NEW key \in InKeys, inRows[key].job.status # "none"
  PROVE  inRows[key].status \in Ingests
<1>1. inRows[key] \in InRow /\ MessageFits(inRows[key]) BY RowFacts
<1>2. Unqueued.status = "none" /\ NoMessage.job = Unqueued BY DEF Unqueued, NoMessage
<1> QED BY <1>1, <1>2 DEF MessageFits, InRow, Ingests

\* The end of an attempt at a message.
LEMMA MessageEnds ==
  ASSUME InIInv, NEW w \in InWorkers, NEW key \in InKeys, inRows[key].status \in Ingests, NEW row \in InRow,
         MessageFits(row), row.status \in Ingests, row.mail = inRows[key].mail,
         NEW result \in {"done", "failed", "retry"}, EndIngest(w, key, row, result),
         UNCHANGED <<inFolder, inChannel, inPoll, inTroubled>>
  PROVE  InIInv'
<1>1. PICK job : job = JobSettled(row.job, w, result, InAttempts)
  OBVIOUS
<1>2. InJobFits(job) BY <1>1, InJobMoves DEF MessageFits
<1>3. PICK next : next = [row EXCEPT !.job = job]
  OBVIOUS
<1>4. next \in InRow /\ MessageFits(next) /\ next.mail = row.mail /\ next.status = row.status
  BY <1>2, <1>3, JobOfMessage
<1>5. inRows' = [inRows EXCEPT ![key] = next] /\ InTurns(w, InIdle) BY <1>1, <1>3 DEF EndIngest
<1>6. MessagesFit BY <1>4, <1>5, MessageChanges DEF Ingests
<1>7. InTurned(InIdle) BY <1>5, InTurnsOnly, IdleFits DEF InIInv
<1> QED BY <1>6, <1>7, IdleFits, PollRow, InBounds, MessageStep

LEMMA StepClaimIngest == ASSUME InIInv, NEW w \in InWorkers, NEW key \in InKeys, ClaimIngest(w, key) PROVE InIInv'
<1>1. PICK job : job = ClaimedBy(inRows[key].job, w)
  OBVIOUS
<1>2. /\ inRows[key] \in InRow /\ MessageFits(inRows[key]) /\ InJobFits(job) /\ job.attempts > 0
      /\ inRows[key].status \in Ingests
  <2>1. MayClaim(inRows[key].job) /\ inRows[key].job.status # "none" BY DEF ClaimIngest, MayClaim
  <2> QED BY <1>1, <2>1, RowFacts, InJobMoves, JobIsMessage
<1>3. PICK row : row = [inRows[key] EXCEPT !.job = job]
  OBVIOUS
<1>4. /\ row \in InRow /\ MessageFits(row) /\ row.mail = inRows[key].mail /\ row.status = inRows[key].status
      /\ row.job = job
  BY <1>2, <1>3, JobOfMessage
<1>5. UNCHANGED <<inFolder, inChannel, inPoll, inTroubled>> BY DEF ClaimIngest
<1>6. CASE inChannel.rights
  <2>1. PICK record : record = [InIdle EXCEPT !.at = "ingest", !.key = key, !.revision = inChannel.revision,
                                  !.attempt = job.attempts]
    OBVIOUS
  <2>2. inRows' = [inRows EXCEPT ![key] = row] /\ InTurns(w, record)
    BY <1>1, <1>3, <1>4, <1>6, <2>1 DEF ClaimIngest
  <2>3. record \in InPlace /\ record.at = "ingest" /\ record.key = key /\ record.attempt > 0
    <3>1. job.attempts \in 0 .. InAttempts /\ inChannel.revision \in Nat
      BY <1>2 DEF InJobFits, InJob, InIInv, InShape
    <3> QED BY <1>2, <2>1, <3>1, IdleFits DEF InIdle, InPlace
  <2>4. MessagesFit BY <1>2, <1>4, <2>2, MessageChanges DEF Ingests
  <2>5. InTurned(record) BY <2>2, <2>3, InTurnsOnly DEF InIInv
  <2>6. PollFits(record) /\ IngestFits(record) BY <1>2, <2>3 DEF PollFits, IngestFits, Ingests
  <2> QED BY <1>5, <2>3, <2>4, <2>5, <2>6, PollRow, InBounds, MessageStep
<1>7. CASE ~inChannel.rights
  <2>1. PICK ended : ended = JobSettled(job, w, "failed", InAttempts)
    OBVIOUS
  <2>2. PICK next : next = [row EXCEPT !.job = ended]
    OBVIOUS
  <2>3. next \in InRow /\ MessageFits(next) /\ next.mail = row.mail /\ next.status = row.status
    BY <1>2, <1>4, <2>1, <2>2, InJobMoves, JobOfMessage
  <2>4. inRows' = [inRows EXCEPT ![key] = next] /\ UNCHANGED inWorkers
    BY <1>1, <1>3, <1>4, <1>7, <2>1, <2>2 DEF ClaimIngest
  <2>5. MessagesFit BY <1>2, <1>4, <2>3, <2>4, MessageChanges DEF Ingests
  <2>6. InTurned(InIdle) BY <2>4, InTurnsOnly, IdleFits DEF InIInv
  <2> QED BY <1>5, <2>5, <2>6, IdleFits, PollRow, InBounds, MessageStep
<1> QED BY <1>6, <1>7

LEMMA StepLoseIngest == ASSUME InIInv, NEW key \in InKeys, LoseIngest(key) PROVE InIInv'
<1>1. PICK job : job = JobLapsed(inRows[key].job, InAttempts)
  OBVIOUS
<1>2. /\ inRows[key] \in InRow /\ MessageFits(inRows[key]) /\ InJobFits(job) /\ inRows[key].status \in Ingests
  BY <1>1, RowFacts, InJobLapses, JobIsMessage DEF LoseIngest
<1>3. PICK row : row = [inRows[key] EXCEPT !.job = job]
  OBVIOUS
<1>4. row \in InRow /\ MessageFits(row) /\ row.mail = inRows[key].mail /\ row.status = inRows[key].status
  BY <1>2, <1>3, JobOfMessage
<1>5. inRows' = [inRows EXCEPT ![key] = row] /\ UNCHANGED <<inFolder, inChannel, inPoll>> /\ InTrouble
  BY <1>1, <1>3 DEF LoseIngest, InIInv, InShape
<1>6. MessagesFit BY <1>2, <1>4, <1>5, MessageChanges DEF Ingests
<1>7. InTurned(InIdle) BY InTurnsOnly, IdleFits DEF LoseIngest, InIInv
<1> QED BY <1>5, <1>6, <1>7, IdleFits, PollRow, InBounds, MessageStep

LEMMA StepIngestMessage == ASSUME InIInv, NEW w \in InWorkers, IngestMessage(w) PROVE InIInv'
<1>1. PICK me \in InPlace : me = inWorkers[w] BY DEF InIInv, InShape
<1>2. PICK key : key = me.key
  OBVIOUS
<1>3. me.at = "ingest" /\ key \in InKeys /\ me.attempt \in 1 .. InAttempts /\ inRows[key].status \in Ingests
  <2>1. me.at = "ingest" /\ IngestFits(me) /\ me.attempt \in 0 .. InAttempts
    BY <1>1 DEF IngestMessage, InIInv, InPlace
  <2> QED BY <1>2, <2>1 DEF IngestFits, Ingests
<1>4. PICK row \in InRow : row = inRows[key] /\ MessageFits(row) /\ row.status \in Ingests
  BY <1>3, RowFacts
<1>5. UNCHANGED <<inFolder, inChannel, inPoll>> BY DEF IngestMessage
<1>6. PICK stored : stored = [row EXCEPT !.stored = @ \cup {me.attempt}]
  OBVIOUS
<1>7. PICK complete : complete = [stored EXCEPT !.status = "completed", !.docs = @ \cup {me.attempt}]
  OBVIOUS
<1>8. CASE row.status = "completed"
  <2>1. EndIngest(w, key, row, "done") /\ UNCHANGED inTroubled
    BY <1>1, <1>2, <1>4, <1>8 DEF IngestMessage
  <2> QED BY <1>3, <1>4, <1>5, <2>1, MessageEnds
<1>9. CASE row.status # "completed" /\ row.status # "pending"
  <2>1. EndIngest(w, key, row, "failed") /\ UNCHANGED inTroubled
    BY <1>1, <1>2, <1>4, <1>9 DEF IngestMessage
  <2> QED BY <1>3, <1>4, <1>5, <2>1, MessageEnds
<1>10. CASE row.status = "pending" /\ ~Ingestable(row, me.revision)
  <2>1. PICK cancelled : cancelled = [row EXCEPT !.status = "cancelled"]
    OBVIOUS
  <2>2. EndIngest(w, key, cancelled, "done") /\ UNCHANGED inTroubled
    BY <1>1, <1>2, <1>4, <1>10, <2>1 DEF IngestMessage
  <2>3. /\ cancelled \in InRow /\ cancelled.status = "cancelled" /\ cancelled.mail = row.mail
        /\ cancelled.job = row.job /\ cancelled.docs = row.docs /\ cancelled.stored = row.stored
    BY <1>4, <2>1 DEF InRow
  <2>4. MessageFits(cancelled) /\ cancelled.status \in Ingests
    BY <1>4, <1>10, <2>3 DEF MessageFits, Ingests
  <2> QED BY <1>3, <1>4, <1>5, <2>2, <2>3, <2>4, MessageEnds
<1>11. CASE row.status = "pending" /\ Ingestable(row, me.revision)
  <2>1. /\ stored \in InRow /\ stored.status = row.status /\ stored.mail = row.mail /\ stored.job = row.job
        /\ stored.docs = row.docs /\ stored.stored = row.stored \cup {me.attempt}
    BY <1>3, <1>4, <1>6 DEF InRow
  <2>2. /\ complete \in InRow /\ complete.status = "completed" /\ complete.mail = row.mail /\ complete.job = row.job
        /\ complete.docs = row.docs \cup {me.attempt} /\ complete.stored = row.stored \cup {me.attempt}
    BY <1>3, <1>7, <2>1 DEF InRow
  <2>3. row.docs = {} /\ row.docs \subseteq row.stored /\ Cardinality(row.docs) <= 1
    BY <1>4, <1>11 DEF MessageFits
  <2>4. Cardinality(complete.docs) <= 1
    <3>1. complete.docs = {me.attempt} BY <2>2, <2>3
    <3>2. Cardinality({me.attempt}) = 1 BY FS_Singleton
    <3> QED BY <3>1, <3>2
  <2>5. MessageFits(stored) BY <1>4, <1>11, <2>1, <2>3 DEF MessageFits
  <2>6. MessageFits(complete) BY <1>4, <1>11, <2>2, <2>3, <2>4 DEF MessageFits
  <2>7. \/ EndIngest(w, key, complete, "done") /\ UNCHANGED inTroubled
        \/ /\ InTrouble /\ InTurns(w, [me EXCEPT !.at = "clean"])
           /\ \E after \in {stored, complete} : inRows' = [inRows EXCEPT ![key] = after]
    BY <1>1, <1>2, <1>4, <1>6, <1>7, <1>11 DEF IngestMessage
  <2>8. CASE EndIngest(w, key, complete, "done") /\ UNCHANGED inTroubled
    <3>1. complete.status \in Ingests BY <2>2 DEF Ingests
    <3> QED BY <1>3, <1>4, <1>5, <2>2, <2>6, <2>8, <3>1, MessageEnds
  <2>9. CASE /\ InTrouble /\ InTurns(w, [me EXCEPT !.at = "clean"])
             /\ \E after \in {stored, complete} : inRows' = [inRows EXCEPT ![key] = after]
    <3>1. PICK after \in {stored, complete} : inRows' = [inRows EXCEPT ![key] = after] BY <2>9
    <3>2. after \in InRow /\ MessageFits(after) /\ after.mail = inRows[key].mail /\ after.status \in Ingests
      BY <1>4, <1>11, <2>1, <2>2, <2>5, <2>6 DEF Ingests
    <3>3. MessagesFit BY <1>3, <3>1, <3>2, MessageChanges DEF Ingests
    <3>4. PICK record : record = [me EXCEPT !.at = "clean"]
      OBVIOUS
    <3>5. record \in InPlace /\ record.at = "clean" /\ record.key = key /\ record.attempt > 0
      BY <1>2, <1>3, <3>4 DEF InPlace
    <3>6. InTurned(record) BY <2>9, <3>4, <3>5, InTurnsOnly DEF InIInv
    <3>7. PollFits(record) /\ IngestFits(record) BY <1>3, <3>5 DEF PollFits, IngestFits, Ingests
    <3> QED BY <1>5, <2>9, <3>3, <3>5, <3>6, <3>7, PollRow, InBounds, MessageStep
  <2> QED BY <2>7, <2>8, <2>9
<1> QED BY <1>8, <1>9, <1>10, <1>11

LEMMA StepCleanIngest == ASSUME InIInv, NEW w \in InWorkers, CleanIngest(w) PROVE InIInv'
<1>1. PICK me \in InPlace : me = inWorkers[w] BY DEF InIInv, InShape
<1>2. PICK key : key = me.key
  OBVIOUS
<1>3. me.at = "clean" /\ key \in InKeys /\ inRows[key].status \in Ingests
  BY <1>1, <1>2 DEF CleanIngest, InIInv, IngestFits, Ingests
<1>4. PICK row \in InRow : row = inRows[key] /\ MessageFits(row) /\ row.status \in Ingests
  BY <1>3, RowFacts
<1>5. PICK after : after = IF Orphaned(row, me.attempt) THEN [row EXCEPT !.stored = @ \ {me.attempt}] ELSE row
  OBVIOUS
<1>6. EndIngest(w, key, after, "retry") /\ UNCHANGED <<inFolder, inChannel, inPoll, inTroubled>>
  BY <1>1, <1>2, <1>4, <1>5 DEF CleanIngest
<1>7. after \in InRow /\ MessageFits(after) /\ after.status \in Ingests /\ after.mail = row.mail
  <2>1. CASE ~Orphaned(row, me.attempt) BY <1>4, <1>5, <2>1
  <2>2. CASE Orphaned(row, me.attempt)
    <3>1. /\ after \in InRow /\ after.status = row.status /\ after.mail = row.mail /\ after.job = row.job
          /\ after.docs = row.docs /\ after.stored = row.stored \ {me.attempt}
      BY <1>4, <1>5, <2>2 DEF InRow
    <3>2. after.docs \subseteq after.stored BY <1>4, <2>2, <3>1 DEF MessageFits, Orphaned
    <3> QED BY <1>4, <3>1, <3>2 DEF MessageFits, Ingests
  <2> QED BY <2>1, <2>2
<1> QED BY <1>3, <1>4, <1>6, <1>7, MessageEnds

LEMMA StepCancelMessage == ASSUME InIInv, NEW key \in InKeys, CancelMessage(key) PROVE InIInv'
<1>1. PICK row \in InRow : row = inRows[key] /\ MessageFits(row) /\ row.status = "pending"
  BY RowFacts DEF CancelMessage
<1>2. PICK job : job = JobCancelled(row.job)
  OBVIOUS
<1>3. InJobFits(job) BY <1>1, <1>2 DEF MessageFits, JobCancelled, InJobFits, InJob, JobIsOpen
<1>4. PICK next : next = [row EXCEPT !.status = "cancelled", !.job = job]
  OBVIOUS
<1>5. /\ next \in InRow /\ next.status = "cancelled" /\ next.mail = row.mail /\ next.job = job
      /\ next.docs = row.docs /\ next.stored = row.stored
  BY <1>3, <1>4 DEF InRow, InJobFits
<1>6. MessageFits(next) BY <1>1, <1>3, <1>5 DEF MessageFits
<1>7. /\ inRows' = [inRows EXCEPT ![key] = next]
      /\ UNCHANGED <<inFolder, inChannel, inPoll, inWorkers, inTroubled>>
  BY <1>1, <1>2, <1>4 DEF CancelMessage, InIInv, InShape
<1>8. MessagesFit BY <1>1, <1>5, <1>6, <1>7, MessageChanges DEF Ingests
<1>9. InTurned(InIdle) BY <1>7, InTurnsOnly, IdleFits DEF InIInv
<1> QED BY <1>7, <1>8, <1>9, IdleFits, PollRow, InBounds, MessageStep

\* The surroundings change the folder, or the channel but for its checkpoint.
LEMMA InSurroundings ==
  ASSUME InIInv, UNCHANGED <<inRows, inPoll, inWorkers>>, InShape', FolderGoes,
         inChannel'.epoch = inChannel.epoch /\ inChannel'.last = inChannel.last /\ inChannel'.skipped = inChannel.skipped
  PROVE  InIInv'
<1>1. MessagesFit /\ InTurned(InIdle) BY MessagesStay, InTurnsOnly, IdleFits DEF InIInv
<1>2. ChannelGoes BY ChannelNumbers DEF ChannelGoes, InIInv
<1>3. InGoesOn BY <1>1, <1>2 DEF InGoesOn, MessagesFit
<1>4. Checkpoint' BY <1>3, CheckpointStays DEF InIInv
<1> QED BY <1>1, <1>3, <1>4, IdleFits, InSteps DEF MessagesFit

\* Their trouble is counted.
LEMMA ShapeAround ==
  ASSUME InIInv, InTrouble, UNCHANGED <<inRows, inPoll, inWorkers>>,
         inChannel' \in [kind : {"imap", "hmac"}, fromNow : BOOLEAN, revision : Nat, on : BOOLEAN, rights : BOOLEAN,
                         epoch : Nat, last : Nat, skipped : Nat] \/ UNCHANGED inChannel,
         UNCHANGED inFolder \/ /\ inFolder' \in [epoch : 1 .. 2 + inTroubled.troubles, mails : Seq(InMail)]
                               /\ Len(inFolder'.mails) <= MaxMails
  PROVE  InShape' /\ (UNCHANGED inFolder => FolderGoes)
<1>1. /\ inTroubled.troubles \in Nat /\ inTroubled'.troubles = inTroubled.troubles + 1
      /\ inTroubled' \in [polls : Nat, troubles : 0 .. InTroubles]
  <2>1. inTroubled \in [polls : Nat, troubles : 0 .. InTroubles] /\ InTroubles \in Nat
    BY InAssumption DEF InIInv, InShape, InAssumption
  <2> QED BY <2>1 DEF InTrouble
<1>2. /\ inFolder' \in [epoch : 1 .. 2 + inTroubled.troubles, mails : Seq(InMail)]
      /\ Len(inFolder'.mails) <= MaxMails
  <2>1. 1 .. 1 + inTroubled.troubles \subseteq 1 .. 2 + inTroubled.troubles BY <1>1
  <2> QED BY <2>1 DEF InIInv, InShape
<1>3. 2 + inTroubled.troubles = 1 + inTroubled'.troubles BY <1>1
<1>4. InShape' BY <1>1, <1>2, <1>3 DEF InIInv, InShape
<1> QED BY <1>4, MailDomain DEF FolderGoes, InIInv

LEMMA StepSaveChannel == ASSUME InIInv, NEW on \in BOOLEAN, SaveChannel(on) PROVE InIInv'
<1>1. inChannel \in [kind : {"imap", "hmac"}, fromNow : BOOLEAN, revision : Nat, on : BOOLEAN, rights : BOOLEAN,
                     epoch : Nat, last : Nat, skipped : Nat]
  BY DEF InIInv, InShape
<1>2. PICK revision \in Nat : revision = inChannel.revision + 1 BY <1>1
<1>3. inChannel' = [inChannel EXCEPT !.on = on, !.revision = revision] /\ UNCHANGED <<inFolder, inRows, inPoll, inWorkers>>
  BY <1>2 DEF SaveChannel
<1>4. /\ inChannel' \in [kind : {"imap", "hmac"}, fromNow : BOOLEAN, revision : Nat, on : BOOLEAN, rights : BOOLEAN,
                         epoch : Nat, last : Nat, skipped : Nat]
      /\ inChannel'.epoch = inChannel.epoch /\ inChannel'.last = inChannel.last /\ inChannel'.skipped = inChannel.skipped
  BY <1>1, <1>3
<1> QED BY <1>3, <1>4, ShapeAround, InSurroundings DEF SaveChannel

LEMMA StepChangeOwner == ASSUME InIInv, ChangeOwner PROVE InIInv'
<1>1. inChannel' = [inChannel EXCEPT !.rights = ~@] /\ UNCHANGED <<inFolder, inRows, inPoll, inWorkers>>
  BY DEF ChangeOwner
<1>2. /\ inChannel' \in [kind : {"imap", "hmac"}, fromNow : BOOLEAN, revision : Nat, on : BOOLEAN, rights : BOOLEAN,
                         epoch : Nat, last : Nat, skipped : Nat]
      /\ inChannel'.epoch = inChannel.epoch /\ inChannel'.last = inChannel.last /\ inChannel'.skipped = inChannel.skipped
  BY <1>1 DEF InIInv, InShape
<1> QED BY <1>1, <1>2, ShapeAround, InSurroundings DEF ChangeOwner

LEMMA StepMailArrives == ASSUME InIInv, NEW mail \in InMails, MailArrives(mail) PROVE InIInv'
<1>1. /\ inFolder' = [inFolder EXCEPT !.mails = Append(@, mail)] /\ Len(inFolder.mails) < MaxMails
      /\ UNCHANGED <<inChannel, inRows, inPoll, inWorkers, inTroubled>>
  BY DEF MailArrives
<1>2. inFolder \in [epoch : 1 .. 1 + inTroubled.troubles, mails : Seq(InMail)] /\ mail \in InMail /\ MaxMails \in Nat
  BY InAssumption DEF InAssumption, InIInv, InShape, InMail
<1>3. PICK mails : mails = Append(inFolder.mails, mail)
  OBVIOUS
<1>4. /\ mails \in Seq(InMail) /\ Len(mails) = Len(inFolder.mails) + 1 /\ Len(mails) <= MaxMails
      /\ \A uid \in DOMAIN inFolder.mails : mails[uid] = inFolder.mails[uid]
  <2>1. inFolder.mails \in Seq(InMail) /\ Len(inFolder.mails) \in Nat BY <1>2
  <2>2. mails \in Seq(InMail) /\ Len(mails) = Len(inFolder.mails) + 1 BY <1>2, <1>3, <2>1
  <2>3. \A uid \in DOMAIN inFolder.mails : mails[uid] = inFolder.mails[uid] BY <1>3, <2>1
  <2> QED BY <1>1, <1>2, <2>1, <2>2, <2>3
<1>5. inFolder' = [inFolder EXCEPT !.mails = mails] BY <1>1, <1>3
<1>6. inFolder' \in [epoch : 1 .. 1 + inTroubled.troubles, mails : Seq(InMail)] /\ inFolder'.mails = mails
      /\ inFolder'.epoch = inFolder.epoch
  BY <1>2, <1>4, <1>5
<1>7. FolderGoes BY <1>4, <1>6, MailDomain DEF FolderGoes, InIInv
<1>8. InShape' BY <1>1, <1>4, <1>6 DEF InIInv, InShape
<1> QED BY <1>1, <1>7, <1>8, InSurroundings

LEMMA StepExpunge == ASSUME InIInv, NEW uid \in DOMAIN inFolder.mails, Expunge(uid) PROVE InIInv'
<1>1. /\ inFolder' = [inFolder EXCEPT !.mails[uid] = Gone] /\ InTrouble
      /\ UNCHANGED <<inChannel, inRows, inPoll, inWorkers>>
  BY DEF Expunge
<1>2. inFolder \in [epoch : 1 .. 1 + inTroubled.troubles, mails : Seq(InMail)] /\ Gone \in InMail
  BY DEF InIInv, InShape, InMail
<1>3. PICK mails : mails = [inFolder.mails EXCEPT ![uid] = Gone]
  OBVIOUS
<1>4. /\ mails \in Seq(InMail) /\ Len(mails) = Len(inFolder.mails)
      /\ \A o \in DOMAIN inFolder.mails : mails[o] \in {inFolder.mails[o], Gone}
  BY <1>2, <1>3
<1>5. inFolder' = [inFolder EXCEPT !.mails = mails] BY <1>1, <1>2, <1>3
<1>6. /\ inFolder' \in [epoch : 1 .. 2 + inTroubled.troubles, mails : Seq(InMail)] /\ inFolder'.mails = mails
      /\ inFolder'.epoch = inFolder.epoch
  <2>1. inTroubled.troubles \in Nat BY DEF InIInv, InShape
  <2>2. 1 .. 1 + inTroubled.troubles \subseteq 1 .. 2 + inTroubled.troubles BY <2>1
  <2> QED BY <1>2, <1>4, <1>5, <2>2
<1>7. FolderGoes BY <1>4, <1>6, MailDomain DEF FolderGoes, InIInv
<1>8. Len(inFolder'.mails) <= MaxMails BY <1>4, <1>6 DEF InIInv, InShape
<1> QED BY <1>1, <1>6, <1>7, <1>8, ShapeAround, InSurroundings

LEMMA StepRebuildFolder == ASSUME InIInv, RebuildFolder PROVE InIInv'
<1>1. PICK there : there = {uid \in DOMAIN inFolder.mails : inFolder.mails[uid] # Gone}
  OBVIOUS
<1>2. /\ there \subseteq DOMAIN inFolder.mails /\ there \in SUBSET (1 .. Len(inFolder.mails))
      /\ inFolder.epoch \in Nat /\ Len(inFolder.mails) \in Nat /\ Len(inFolder.mails) <= MaxMails /\ MaxMails \in Nat
      /\ \A uid \in DOMAIN inFolder.mails : inFolder.mails[uid] \in InMail
  BY <1>1, MailDomain, InAssumption DEF InAssumption, InIInv, InShape
<1>3. IsFiniteSet(1 .. Len(inFolder.mails)) /\ Cardinality(1 .. Len(inFolder.mails)) = Len(inFolder.mails)
  <2>1. PICK n \in Nat : n = Len(inFolder.mails) BY <1>2
  <2>2. 1 \in Int /\ n \in Int BY <2>1
  <2>3. IsFiniteSet(1 .. n) /\ Cardinality(1 .. n) = IF 1 > n THEN 0 ELSE n - 1 + 1
    BY ONLY <2>2, FS_Interval
  <2>4. (IF 1 > n THEN 0 ELSE n - 1 + 1) = n
    OBVIOUS
  <2> QED BY <2>1, <2>3, <2>4
<1>4. PICK size \in Nat : size = Cardinality(there) /\ size <= MaxMails
  <2>1. IsFiniteSet(there) /\ Cardinality(there) <= Cardinality(1 .. Len(inFolder.mails))
    BY ONLY <1>2, <1>3, FS_Subset
  <2>2. Cardinality(there) \in Nat BY ONLY <2>1, FS_CardinalityType
  <2> QED BY <1>2, <1>3, <2>1, <2>2
<1>5. PICK old \in [1 .. size -> there] :
        inFolder' = [epoch |-> inFolder.epoch + 1, mails |-> [i \in 1 .. size |-> inFolder.mails[old[i]]]]
  BY <1>1, <1>4 DEF RebuildFolder
<1>6. PICK mails : mails = [i \in 1 .. size |-> inFolder.mails[old[i]]]
  OBVIOUS
<1>7. mails \in Seq(InMail) /\ Len(mails) = size
  <2>1. \A i \in 1 .. size : inFolder.mails[old[i]] \in InMail BY <1>2, <1>5
  <2>2. mails \in [1 .. size -> InMail] BY <1>6, <2>1
  <2> QED BY <2>2
<1>8. inFolder' = [epoch |-> inFolder.epoch + 1, mails |-> mails] BY <1>5, <1>6
<1>9. inFolder.epoch + 1 \in 1 .. 2 + inTroubled.troubles
  <2>1. inFolder.epoch \in 1 .. 1 + inTroubled.troubles /\ inTroubled.troubles \in Nat
    BY DEF InIInv, InShape
  <2> QED BY <2>1
<1>10. /\ inFolder' \in [epoch : 1 .. 2 + inTroubled.troubles, mails : Seq(InMail)]
       /\ Len(inFolder'.mails) <= MaxMails /\ inFolder'.epoch = inFolder.epoch + 1
  BY <1>4, <1>7, <1>8, <1>9
<1>11. FolderGoes BY <1>2, <1>10 DEF FolderGoes
<1>12. UNCHANGED <<inChannel, inRows, inPoll, inWorkers>> /\ InTrouble BY DEF RebuildFolder
<1> QED BY <1>10, <1>11, <1>12, ShapeAround, InSurroundings

LEMMA InStart == ASSUME InInit PROVE InIInv
<1>1. /\ inFolder = [epoch |-> 1, mails |-> <<>>] /\ inRows = [k \in InKeys |-> NoMessage]
      /\ inPoll = [job |-> Unqueued, revision |-> 0] /\ inWorkers = [w \in InWorkers |-> InIdle]
      /\ inTroubled = [polls |-> 0, troubles |-> 0]
  BY DEF InInit
<1>2. /\ inChannel \in [kind : {"imap", "hmac"}, fromNow : BOOLEAN, revision : Nat, on : BOOLEAN, rights : BOOLEAN,
                        epoch : Nat, last : Nat, skipped : Nat]
      /\ inChannel.epoch = 0
  BY DEF InInit
<1>3. InShape
  <2>1. MaxMails \in Nat /\ InTroubles \in Nat /\ <<>> \in Seq(InMail) /\ Len(<<>>) = 0
    BY InAssumption DEF InAssumption
  <2>2. inFolder \in [epoch : 1 .. 1 + inTroubled.troubles, mails : Seq(InMail)] /\ Len(inFolder.mails) <= MaxMails
    BY <1>1, <2>1
  <2>3. inPoll \in [job : InJob, revision : Nat] /\ InJobFits(inPoll.job)
    BY <1>1, NewJobFits DEF InJobFits
  <2>4. inRows \in [InKeys -> InRow] /\ inWorkers \in [InWorkers -> InPlace] BY <1>1, IdleFits
  <2>5. inTroubled \in [polls : Nat, troubles : 0 .. InTroubles] BY <1>1, <2>1
  <2> QED BY <1>2, <2>2, <2>3, <2>4, <2>5 DEF InShape
<1>4. Checkpoint BY <1>1, <1>2 DEF Checkpoint
<1>5. NoTwice BY <1>1 DEF NoTwice, NoMessage
<1> QED BY <1>1, <1>3, <1>4, <1>5, IdleFits DEF InIInv

LEMMA InStutter == ASSUME InIInv, UNCHANGED inVars PROVE InIInv'
  BY DEF inVars, InIInv, InShape, NoTwice, Checkpoint, TakenTo, Taken, PollFits, IngestFits, ReadSoFar, MaySkip

LEMMA InStep == ASSUME InIInv, InNext PROVE InIInv'
<1>1. ASSUME NEW d \in 1 .. MaxMails, NEW mail \in {m \in InMails : m[1] # 0}, ReceiveHook(d, mail) PROVE InIInv'
  BY <1>1, StepReceiveHook
<1>2. ASSUME QueuePoll \/ LosePoll PROVE InIInv' BY <1>2, StepQueuePoll, StepLosePoll
<1>3. ASSUME NEW w \in InWorkers,
             \/ ClaimPoll(w) \/ OpenFolder(w) \/ ReadMail(w) \/ StageMail(w) \/ AdvancePoll(w) \/ SettlePoll(w)
      PROVE  InIInv'
  BY <1>3, StepClaimPoll, StepOpenFolder, StepReadMail, StepStageMail, StepAdvancePoll, StepSettlePoll
<1>4. ASSUME NEW w \in InWorkers, IngestMessage(w) \/ CleanIngest(w) PROVE InIInv'
  BY <1>4, StepIngestMessage, StepCleanIngest
<1>5. ASSUME NEW w \in InWorkers, NEW key \in InKeys, ClaimIngest(w, key) PROVE InIInv'
  BY <1>5, StepClaimIngest
<1>6. ASSUME NEW key \in InKeys, LoseIngest(key) \/ CancelMessage(key) PROVE InIInv'
  BY <1>6, StepLoseIngest, StepCancelMessage
<1>7. ASSUME NEW on \in BOOLEAN, SaveChannel(on) PROVE InIInv' BY <1>7, StepSaveChannel
<1>8. ASSUME ChangeOwner \/ RebuildFolder PROVE InIInv' BY <1>8, StepChangeOwner, StepRebuildFolder
<1>9. ASSUME NEW mail \in InMails, MailArrives(mail) PROVE InIInv' BY <1>9, StepMailArrives
<1>10. ASSUME NEW uid \in DOMAIN inFolder.mails, Expunge(uid) PROVE InIInv' BY <1>10, StepExpunge
<1> QED BY <1>1, <1>2, <1>3, <1>4, <1>5, <1>6, <1>7, <1>8, <1>9, <1>10 DEF InNext

\* What the invariant says of the mails, the messages and the rows.
LEMMA CaptureTold == ASSUME InIInv PROVE MailIsKept /\ OneDocument /\ InTypeOK
<1>1. MailIsKept
  <2>1. ASSUME NEW uid \in DOMAIN inFolder.mails, inChannel.epoch = inFolder.epoch, uid <= inChannel.last,
               inFolder.mails[uid] # Gone, uid > inChannel.skipped
        PROVE  inRows[<<inFolder.epoch, uid>>].status # "none" \/ \E k \in InKeys : inRows[k].mail = inFolder.mails[uid]
    <3>1. TakenTo(inChannel.last, inChannel.skipped) BY <2>1 DEF InIInv, Checkpoint
    <3>2. uid \in Nat /\ inChannel.skipped \in Nat BY MailDomain, ChannelNumbers DEF InIInv
    <3>3. Taken(uid) BY <2>1, <3>1, <3>2 DEF TakenTo
    <3> QED BY <2>1, <3>3 DEF Taken
  <2> QED BY <2>1 DEF MailIsKept
<1>2. OneDocument
  <2>1. \A k \in InKeys : MessageFits(inRows[k]) BY DEF InIInv
  <2>2. \A k, o \in InKeys : k # o /\ inRows[k].mail # Gone => inRows[k].mail[1] # inRows[o].mail[1]
    BY DEF InIInv, NoTwice
  <2> QED BY <2>1, <2>2 DEF OneDocument, MessageFits
<1>3. InTypeOK
  <2>1. ASSUME NEW k \in InKeys
        PROVE  /\ inRows[k].status \in {"none", "pending", "completed", "rejected", "cancelled"}
               /\ inRows[k].docs \cup inRows[k].stored \subseteq 1 .. InAttempts
               /\ inRows[k].status = "none" => inRows[k] = NoMessage
               /\ inRows[k].status = "rejected" => inRows[k].job = Unqueued
    BY RowFacts DEF InRow, MessageFits
  <2>2. inChannel.last <= Len(inFolder.mails) \/ inChannel.epoch # inFolder.epoch
    BY DEF InIInv, Checkpoint
  <2>3. \A w \in InWorkers :
          inWorkers[w].at \in {"idle", "open", "mail", "stage", "advance", "ingest", "clean", "settle"}
    BY DEF InIInv, InShape, InPlace
  <2> QED BY <2>1, <2>2, <2>3 DEF InTypeOK
<1> QED BY <1>1, <1>2, <1>3

\* A step that makes no document and does not move the checkpoint.
DocsStay == \A k \in InKeys : inRows'[k].docs = inRows[k].docs

LEMMA Still == ASSUME InIInv, UNCHANGED inChannel, DocsStay PROVE OnlyForward
  BY ChannelNumbers DEF OnlyForward, DocsStay, InIInv

\* Staging makes a message without a document where there was none.
LEMMA StagingMakesNone ==
  ASSUME InIInv, NEW key \in InKeys, NEW mail, NEW revision, StagedMessage(key, mail, revision)
  PROVE  DocsStay
<1>1. CASE Known(key, mail) # {} BY <1>1 DEF StagedMessage, DocsStay
<1>2. CASE Known(key, mail) = {}
  <2>1. inRows[key] = NoMessage BY <1>2 DEF Known, InIInv, MessageFits
  <2>2. inRows' = [inRows EXCEPT ![key] = [NoMessage EXCEPT !.status = "pending", !.mail = mail,
                     !.revision = revision, !.job = NewJob]]
    BY <1>2 DEF StagedMessage
  <2>3. inRows'[key].docs = {} /\ \A k \in InKeys \ {key} : inRows'[k] = inRows[k]
    BY <2>2 DEF NoMessage, InIInv, InShape
  <2> QED BY <2>1, <2>3 DEF DocsStay, NoMessage
<1> QED BY <1>1, <1>2

\* A poll makes no document.
LEMMA PollMakesNone ==
  ASSUME InIInv, NEW w \in InWorkers, ReadMail(w) \/ StageMail(w)
  PROVE  UNCHANGED inChannel /\ DocsStay
<1>1. PICK me : me = inWorkers[w]
  OBVIOUS
<1>2. PICK uid : uid = NextUid(me.left)
  OBVIOUS
<1>3. PICK key : key = <<me.epoch, uid>>
  OBVIOUS
<1>4. me.left # {} /\ me.at \in {"mail", "stage"} /\ UNCHANGED inChannel
  BY <1>1 DEF ReadMail, StageMail, InIInv, InShape, PollFits
<1>5. key \in InKeys BY <1>1, <1>2, <1>3, <1>4, PollAt
<1>6. \/ UNCHANGED inRows
      \/ StagedMessage(key, me.mail, me.revision)
      \/ inRows[key].status = "none"
         /\ inRows' = [inRows EXCEPT ![key] = [NoMessage EXCEPT !.status = "rejected", !.revision = me.revision]]
  BY <1>1, <1>2, <1>3 DEF ReadMail, StageMail
<1>7. CASE UNCHANGED inRows BY <1>4, <1>7 DEF DocsStay
<1>8. CASE StagedMessage(key, me.mail, me.revision) BY <1>4, <1>5, <1>8, StagingMakesNone
<1>9. CASE inRows[key].status = "none"
           /\ inRows' = [inRows EXCEPT ![key] = [NoMessage EXCEPT !.status = "rejected", !.revision = me.revision]]
  <2>1. inRows[key] = NoMessage BY <1>5, <1>9 DEF InIInv, MessageFits
  <2>2. inRows'[key].docs = {} /\ \A k \in InKeys \ {key} : inRows'[k] = inRows[k]
    BY <1>5, <1>9 DEF NoMessage, InIInv, InShape
  <2> QED BY <1>4, <2>1, <2>2 DEF DocsStay, NoMessage
<1> QED BY <1>6, <1>7, <1>8, <1>9

\* One row keeps its documents, and the others are as they were.
LEMMA OneRowStays ==
  ASSUME InIInv, NEW key \in InKeys, NEW row, row.docs = inRows[key].docs, inRows' = [inRows EXCEPT ![key] = row]
  PROVE  DocsStay
  BY DEF DocsStay, InIInv, InShape

\* The jobs of messages make none, but for the commit of a document.
LEMMA JobsMakeNone ==
  ASSUME InIInv, NEW key \in InKeys,
         LoseIngest(key) \/ CancelMessage(key) \/ \E w \in InWorkers : ClaimIngest(w, key)
  PROVE  UNCHANGED inChannel /\ DocsStay
<1>1. PICK row \in InRow : row = inRows[key] BY RowFacts
<1>2. \E job, status : inRows' = [inRows EXCEPT ![key] = [row EXCEPT !.status = status, !.job = job]]
  <2>1. CASE LoseIngest(key)
    <3>1. PICK job : job = JobLapsed(inRows[key].job, InAttempts)
      OBVIOUS
    <3>2. inRows' = [inRows EXCEPT ![key].job = job] BY <2>1, <3>1 DEF LoseIngest
    <3>3. inRows' = [inRows EXCEPT ![key] = [row EXCEPT !.status = row.status, !.job = job]]
      BY <1>1, <3>2 DEF InIInv, InShape, InRow
    <3> QED BY <3>3
  <2>2. CASE CancelMessage(key) BY <1>1, <2>2 DEF CancelMessage
  <2>3. CASE \E w \in InWorkers : ClaimIngest(w, key)
    <3>1. PICK w \in InWorkers : ClaimIngest(w, key) BY <2>3
    <3>2. PICK job : job = ClaimedBy(row.job, w)
      OBVIOUS
    <3>3. PICK claimed : claimed = [row EXCEPT !.job = job] BY ZenonT(30)
    <3>4. PICK ended : ended = JobSettled(claimed.job, w, "failed", InAttempts)
      OBVIOUS
    <3>5. inRows' \in {[inRows EXCEPT ![key] = claimed], [inRows EXCEPT ![key] = [claimed EXCEPT !.job = ended]]}
      BY ZenonT(30), <1>1, <3>1, <3>2, <3>3, <3>4 DEF ClaimIngest
    <3>6. /\ claimed = [row EXCEPT !.status = row.status, !.job = job]
          /\ [claimed EXCEPT !.job = ended] = [row EXCEPT !.status = row.status, !.job = ended]
      BY <3>3 DEF InRow
    <3>7. \/ inRows' = [inRows EXCEPT ![key] = [row EXCEPT !.status = row.status, !.job = job]]
          \/ inRows' = [inRows EXCEPT ![key] = [row EXCEPT !.status = row.status, !.job = ended]]
      BY <3>5, <3>6
    <3> QED BY <3>7
  <2> QED BY <2>1, <2>2, <2>3
<1>3. PICK job, status : inRows' = [inRows EXCEPT ![key] = [row EXCEPT !.status = status, !.job = job]]
  BY <1>2
<1>4. [row EXCEPT !.status = status, !.job = job].docs = row.docs BY DEF InRow
<1>5. UNCHANGED inChannel BY ZenonT(30) DEF LoseIngest, CancelMessage, ClaimIngest
<1> QED BY <1>1, <1>3, <1>4, <1>5, OneRowStays

\* A document is made from a message that may be.
LEMMA DocsAreAllowed ==
  ASSUME InIInv, NEW w \in InWorkers, IngestMessage(w) \/ CleanIngest(w)
  PROVE  /\ UNCHANGED inChannel
         /\ \A k \in InKeys : inRows'[k].docs # inRows[k].docs =>
              inRows[k].status = "pending" /\ CurrentPoll(inRows[k].revision)
<1>1. PICK me \in InPlace : me = inWorkers[w] BY DEF InIInv, InShape
<1>2. PICK key : key = me.key
  OBVIOUS
<1>3. key \in InKeys BY <1>1, <1>2 DEF IngestMessage, CleanIngest, InIInv, IngestFits
<1>4. PICK row \in InRow : row = inRows[key] BY <1>3, RowFacts
<1>5. UNCHANGED inChannel /\ \A k \in InKeys \ {key} : inRows'[k] = inRows[k]
  BY <1>1, <1>2, <1>3, <1>4 DEF IngestMessage, CleanIngest, EndIngest, InIInv, InShape
<1>6. CASE Ingestable(row, me.revision) BY <1>4, <1>5, <1>6 DEF Ingestable
<1>7. ASSUME ~Ingestable(row, me.revision) \/ CleanIngest(w) PROVE DocsStay
  <2>1. PICK record, result : record.docs = row.docs /\ EndIngest(w, key, record, result) /\ record \in InRow
    <3>1. row \in InRow /\ row.docs = row.docs
      OBVIOUS
    <3>2. PICK cancelled : cancelled = [row EXCEPT !.status = "cancelled"]
      OBVIOUS
    <3>3. PICK cleaned : cleaned = [row EXCEPT !.stored = @ \ {me.attempt}]
      OBVIOUS
    <3>4. cancelled \in InRow /\ cancelled.docs = row.docs /\ cleaned \in InRow /\ cleaned.docs = row.docs
      BY <3>2, <3>3 DEF InRow
    <3>5. \E record \in {row, cancelled, cleaned}, result \in {"done", "failed", "retry"} : EndIngest(w, key, record, result)
      BY <1>1, <1>2, <1>4, <1>7, <3>2, <3>3 DEF IngestMessage, CleanIngest, Ingestable
    <3> QED BY <3>1, <3>4, <3>5
  <2>2. PICK job : job = JobSettled(record.job, w, result, InAttempts)
    OBVIOUS
  <2>3. inRows' = [inRows EXCEPT ![key] = [record EXCEPT !.job = job]] BY <2>1, <2>2 DEF EndIngest
  <2>4. [record EXCEPT !.job = job].docs = inRows[key].docs BY <1>4, <2>1 DEF InRow
  <2> QED BY <1>3, <2>3, <2>4, OneRowStays
<1> QED BY <1>5, <1>6, <1>7 DEF DocsStay

\* The checkpoint goes forward.
LEMMA CheckpointAdvances == ASSUME InIInv, NEW w \in InWorkers, AdvancePoll(w) PROVE OnlyForward
<1>1. PICK me \in InPlace : me = inWorkers[w] /\ PollFits(me) /\ me.at \in {"advance", "mail"}
  BY DEF InIInv, InShape, AdvancePoll
<1>2. /\ me.old <= me.epoch /\ me.old \in Nat /\ me.epoch \in Nat /\ me.last \in Nat
      /\ inChannel.epoch \in Nat /\ inChannel.last \in Nat
  BY <1>1, ChannelNumbers DEF PollFits, InPlace, InIInv
<1>3. DocsStay BY DEF AdvancePoll, DocsStay
<1>4. CASE UNCHANGED inChannel BY <1>3, <1>4, Still
<1>5. CASE MayAdvance(me)
  <2>1. PICK last : last = Advanced(me)
    OBVIOUS
  <2>2. inChannel'.epoch = me.epoch /\ inChannel'.last = last
    BY <1>1, <1>5, <2>1 DEF AdvancePoll, InIInv, InShape
  <2>3. inChannel.epoch \in {me.epoch, me.old} BY <1>5 DEF MayAdvance
  <2>4. inChannel.epoch = me.epoch => last >= inChannel.last BY <1>2, <2>1 DEF Advanced
  <2> QED BY <1>2, <1>3, <2>2, <2>3, <2>4 DEF OnlyForward, DocsStay
<1> QED BY <1>1, <1>4, <1>5 DEF AdvancePoll

LEMMA CaptureForward == ASSUME InIInv, InNext PROVE OnlyForward
<1>1. ASSUME NEW d \in 1 .. MaxMails, NEW mail, ReceiveHook(d, mail) PROVE OnlyForward
  <2>1. <<0, d>> \in InKeys BY InAssumption DEF InAssumption, InKeys
  <2>2. StagedMessage(<<0, d>>, mail, inChannel.revision) /\ UNCHANGED inChannel
    BY <1>1 DEF ReceiveHook
  <2> QED BY <2>1, <2>2, StagingMakesNone, Still
<1>2. ASSUME UNCHANGED <<inChannel, inRows>> PROVE OnlyForward BY <1>2, Still DEF DocsStay
<1>3. ASSUME QueuePoll \/ LosePoll \/ \E w \in InWorkers : ClaimPoll(w) \/ OpenFolder(w) \/ SettlePoll(w)
      PROVE  UNCHANGED <<inChannel, inRows>>
  BY <1>3 DEF QueuePoll, LosePoll, ClaimPoll, OpenFolder, SettlePoll
<1>4. ASSUME RebuildFolder \/ (\E mail : MailArrives(mail)) \/ \E uid : Expunge(uid)
      PROVE  UNCHANGED <<inChannel, inRows>>
  BY <1>4 DEF RebuildFolder, MailArrives, Expunge
<1>5. ASSUME NEW w \in InWorkers, ReadMail(w) \/ StageMail(w) PROVE OnlyForward
  BY <1>5, PollMakesNone, Still
<1>6. ASSUME NEW w \in InWorkers, AdvancePoll(w) PROVE OnlyForward BY <1>6, CheckpointAdvances
<1>7. ASSUME NEW w \in InWorkers, IngestMessage(w) \/ CleanIngest(w) PROVE OnlyForward
  <2>1. /\ UNCHANGED inChannel
        /\ \A k \in InKeys : inRows'[k].docs # inRows[k].docs =>
             inRows[k].status = "pending" /\ CurrentPoll(inRows[k].revision)
    BY <1>7, DocsAreAllowed
  <2> QED BY <2>1, ChannelNumbers DEF OnlyForward, InIInv
<1>8. ASSUME NEW key \in InKeys,
             LoseIngest(key) \/ CancelMessage(key) \/ \E w \in InWorkers : ClaimIngest(w, key)
      PROVE  OnlyForward
  BY <1>8, JobsMakeNone, Still
<1>9. ASSUME ChangeOwner \/ \E on \in BOOLEAN : SaveChannel(on) PROVE OnlyForward
  <2>1. inChannel'.epoch = inChannel.epoch /\ inChannel'.last = inChannel.last /\ UNCHANGED inRows
    BY <1>9 DEF ChangeOwner, SaveChannel, InIInv, InShape
  <2> QED BY <2>1, ChannelNumbers DEF OnlyForward, InIInv
<1> QED BY <1>1, <1>2, <1>3, <1>4, <1>5, <1>6, <1>7, <1>8, <1>9 DEF InNext

----------------
(* Migration: the rows, and how items, bindings, documents, objects and the     *)
(* goroutines belong together.                                                  *)

MigTargets == {<<>>} \cup (MigMakers \X MigSources)
MigItem    == [hash : Nat, received : BOOLEAN, checkpoint : 0 .. 2,
               status : {"none", "uploading", "pending", "prepared", "failed"},
               disposition : {"new", "changed", "unchanged", "conflict"}, target : MigTargets,
               expected : Nat, binding : Nat, decision : {"apply", "skip"}]
MigPlans   == {<<>>} \cup [MigSources -> MigItem]
MigJob     == [n : 0 .. MigJobs, kind : {"prepare", "commit"},
               status : {"pending", "running", "done", "failed", "cancelled"}, cancel : BOOLEAN,
               attempts : 0 .. MigAttempts, holder : MigWorkers \cup {NoMigWorker}, plan : MigPlans]
MigRow     == [status : {"none", "uploading", "preparing", "ready", "committing", "completed", "failed", "cancelled"},
               plan : MigPlans, job : MigJob]
MigBound   == [target : MigTargets, hash : Nat, version : Nat, revision : Nat]
MigEntry   == [status : {"none", "planned", "ready", "claimed", "discarded"}, provider : MigProviders \cup {0}]
MigPlace   == [at : {"idle", "begin", "classify", "prepare", "write", "stage", "plan", "put", "settle"},
               session : MigSessions \cup {0}, job : MigJob, item : MigSources, seen : SUBSET MigSources]
MigDocs    == MigMakers \X MigTexts

MigShape ==
  /\ migSessions \in [MigSessions -> MigRow]
  /\ migItems \in [MigSessions -> [MigSources -> MigItem]]
  /\ migBindings \in [MigSources -> MigBound]
  /\ migDocuments \in [MigDocs -> Nat]
  /\ migFiles \in SUBSET [document : MigDocs \cup {<<>>}, key : MigKeys]
  /\ migObjects \in [MigKeys -> MigEntry]
  /\ migStore \in [MigKeys -> {"none", "partial", "whole"}]
  /\ migWorld \in [provider : MigProviders, permitted : BOOLEAN, troubles : 0 .. MigTroubles]
  /\ migWorkers \in [MigWorkers -> MigPlace]

\* A text has no document, or the one that is bound.
TextFits(x, bound, documents) ==
  IF bound.revision = 0 THEN \A m \in MigMakers : documents[<<m, x>>] = 0
  ELSE /\ bound.target \in MigMakers \X {x} /\ documents[bound.target] > 0
       /\ \A m \in MigMakers : documents[<<m, x>>] > 0 => bound.target = <<m, x>>

\* What an item says of its text was so, and what it would replace is bound.
ItemFits(s, x, item, bound) ==
  /\ item.received => item.status # "none"
  /\ item.status = "prepared" => item.checkpoint = 2
  /\ item.binding = 0 => item.disposition = "new" /\ item.expected = 0
  /\ item.status # "none" /\ x # MigAsset =>
       IF item.binding = 0 THEN item.target = <<s, x>> ELSE bound.revision > 0 /\ item.target = bound.target

\* The part of a plan that decides what is done, and over what.
Judged(plan, items) ==
  /\ plan \in [MigSources -> MigItem]
  /\ \A x \in MigSources : /\ plan[x].decision = items[x].decision /\ plan[x].disposition = items[x].disposition
                           /\ plan[x].target = items[x].target /\ plan[x].expected = items[x].expected
                           /\ plan[x].binding = items[x].binding

\* A job that waits may be tried again.
MigJobFits(job) ==
  /\ job.status \in {"pending", "running"} => job.n > 0
  /\ job.status = "pending" => job.attempts < MigAttempts

\* A session, its plan and its job.
SessionFits(session, items) ==
  /\ MigJobFits(session.job)
  /\ session.job.n > 0 \/ session.status = "ready" => \A x \in MigSources : items[x].received
  /\ session.status \in {"ready", "committing"} => Judged(session.plan, items)
  /\ session.status = "committing" => session.job.kind = "commit" /\ session.job.plan = session.plan

\* What a completed session was to bring is bound.
Brought(session, bindings) ==
  session.status = "completed" =>
    \A x \in MigSources : Applied(session.job.plan, x) => bindings[x].revision > 0

\* The documents, files and objects of a session.
OwnFits(s, status, documents, files) ==
  status # "completed" => (\A x \in MigTexts : documents[<<s, x>>] = 0) /\ \A f \in files : f.key[1] # s

ObjectFits(status, entry, stored) ==
  /\ stored # "none" => entry.status \in {"planned", "ready", "claimed"}
  /\ status # "cancelled" /\ entry.status \in {"ready", "claimed"} => stored = "whole"

FileFits(f) == migStore[f.key] = "whole" /\ migSessions[f.key[1]].status = "completed"

\* What a goroutine knows of its session and its job.
JobFits(w, me, job) ==
  /\ 0 < me.job.n /\ me.job.n <= job.n
  /\ me.job.n = job.n => me.job.plan = job.plan /\ me.job.kind = job.kind
  /\ me.job.n = job.n /\ job.holder = w => job.attempts = me.job.attempts

\* What it has stored of what its plan needs, and what it is about to store.
StageFits(me, session, items, objects, store) ==
  /\ me.at \in {"stage", "plan", "put"} /\ me.job.n = session.job.n /\ session.status = "committing" =>
       \A x \in MigSources :
         Applied(items, x) /\ x \notin me.seen /\ (me.at = "stage" \/ x # me.item) => store[<<me.session, x>>] = "whole"
  /\ me.at = "put" => objects[<<me.session, me.item>>].status \in {"planned", "ready", "claimed"}

PlaceFits(w, me) ==
  me.at # "idle" =>
    /\ me.session \in MigSessions
    /\ JobFits(w, me, migSessions[me.session].job)
    /\ StageFits(me, migSessions[me.session], migItems[me.session], migObjects, migStore)

MigIInv ==
  /\ MigShape
  /\ \A x \in MigTexts : TextFits(x, migBindings[x], migDocuments)
  /\ \A s \in MigSessions :
       /\ \A x \in MigSources : ItemFits(s, x, migItems[s][x], migBindings[x])
       /\ SessionFits(migSessions[s], migItems[s]) /\ Brought(migSessions[s], migBindings)
       /\ OwnFits(s, migSessions[s].status, migDocuments, migFiles)
  /\ \A k \in MigKeys : ObjectFits(migSessions[k[1]].status, migObjects[k], migStore[k])
  /\ \A f \in migFiles : FileFits(f)
  /\ \A w \in MigWorkers : PlaceFits(w, migWorkers[w])

----------------
(* What a step leaves standing.                                                 *)

GoodEntry == {"planned", "ready", "claimed"}

\* The lease: nobody comes to hold a job that has not claimed it.
HolderStays(w, old, new) == new.n = old.n /\ new.holder = w => old.holder = w /\ new.attempts = old.attempts

SessionGoes(old, new, olditems, items) ==
  /\ new.job.n >= old.job.n
  /\ new.job.n = old.job.n => new.job.plan = old.job.plan /\ new.job.kind = old.job.kind
  /\ new.status = "completed" => old.status = "completed" /\ new.job.plan = old.job.plan
  /\ old.status = "completed" => new.status = "completed"
  /\ old.status = "cancelled" => new.status = "cancelled"
  /\ new.job.n = old.job.n /\ new.status = "committing" =>
       old.status = "committing" /\ \A x \in MigSources : Applied(items, x) => Applied(olditems, x)

ObjectsGo ==
  /\ migObjects' \in [MigKeys -> MigEntry] /\ migStore' \in [MigKeys -> {"none", "partial", "whole"}]
  /\ \A k \in MigKeys :
       /\ migStore[k] = "whole" => migStore'[k] = "whole"
       /\ migObjects[k].status \in GoodEntry => migObjects'[k].status \in GoodEntry
       /\ ObjectFits(migSessions[k[1]].status, migObjects'[k], migStore'[k])

MigStill == UNCHANGED <<migBindings, migDocuments, migFiles>>
WorldFits == migWorld' \in [provider : MigProviders, permitted : BOOLEAN, troubles : 0 .. MigTroubles]

LEMMA MigNames ==
  /\ MigAsset \in MigSources /\ MigTexts \subseteq MigSources /\ MigAsset \notin MigTexts /\ MigSources \subseteq Nat
  /\ MigSessions \subseteq MigMakers /\ 0 \notin MigSessions /\ 0 \in MigMakers /\ MigSessions \subseteq Nat
  /\ MigDocs \subseteq MigTargets /\ <<>> \in MigTargets /\ <<>> \in MigPlans
  /\ \A s \in MigSessions, x \in MigSources : <<s, x>> \in MigKeys /\ <<s, x>> \in MigTargets
  BY MigAssumption DEF MigAssumption, MigAsset, MigSources, MigMakers, MigDocs, MigTargets, MigPlans, MigKeys

LEMMA IdlePlace == NoMigJob \in MigJob /\ MigIdle \in MigPlace /\ MigIdle.at = "idle"
<1>1. NoMigJob \in MigJob BY MigAssumption, MigNames DEF MigAssumption, NoMigJob, MigJob
<1> QED BY <1>1, MigNames DEF MigIdle, MigPlace

LEMMA ItemFacts ==
  ASSUME MigShape, NEW s \in MigSessions
  PROVE  /\ migSessions[s] \in MigRow /\ migItems[s] \in [MigSources -> MigItem]
         /\ migSessions[s].job \in MigJob /\ migSessions[s].plan \in MigPlans
         /\ migSessions[s].job.n \in Nat /\ migSessions[s].job.attempts \in Nat
         /\ migSessions[s] = [status |-> migSessions[s].status, plan |-> migSessions[s].plan, job |-> migSessions[s].job]
         /\ \A x \in MigSources : migItems[s][x] \in MigItem
<1>1. migSessions[s] \in MigRow /\ migItems[s] \in [MigSources -> MigItem] BY DEF MigShape
<1>2. migSessions[s].job \in MigJob /\ migSessions[s].plan \in MigPlans BY <1>1 DEF MigRow
<1>3. migSessions[s].job.n \in Nat /\ migSessions[s].job.attempts \in Nat BY <1>2 DEF MigJob
<1>4. migSessions[s] = [status |-> migSessions[s].status, plan |-> migSessions[s].plan, job |-> migSessions[s].job]
  BY <1>1 DEF MigRow
<1> QED BY <1>1, <1>2, <1>3, <1>4

LEMMA PlaceFacts ==
  ASSUME MigIInv, NEW w \in MigWorkers, migWorkers[w].at # "idle"
  PROVE  /\ migWorkers[w] \in MigPlace /\ migWorkers[w].session \in MigSessions /\ migWorkers[w].job \in MigJob
         /\ migWorkers[w].item \in MigSources /\ migWorkers[w].seen \in SUBSET MigSources
         /\ migWorkers[w].job.n \in Nat /\ migWorkers[w].job.attempts \in 0 .. MigAttempts
         /\ JobFits(w, migWorkers[w], migSessions[migWorkers[w].session].job)
         /\ \A x \in MigSources : migItems[migWorkers[w].session][x].received /\ migItems[migWorkers[w].session][x].status # "none"
<1>1. migWorkers[w] \in MigPlace BY DEF MigIInv, MigShape
<1>2. /\ migWorkers[w].session \in MigSessions
      /\ JobFits(w, migWorkers[w], migSessions[migWorkers[w].session].job)
  BY DEF MigIInv, PlaceFits
<1>3. /\ migWorkers[w].job \in MigJob /\ migWorkers[w].item \in MigSources /\ migWorkers[w].seen \in SUBSET MigSources
  BY <1>1 DEF MigPlace
<1>4. migWorkers[w].job.n \in Nat /\ migWorkers[w].job.attempts \in 0 .. MigAttempts
  BY <1>3 DEF MigJob
<1>5. MigShape BY DEF MigIInv
<1>6. migSessions[migWorkers[w].session].job.n > 0
  <2>1. PICK own \in Nat, n \in Nat : own = migWorkers[w].job.n /\ n = migSessions[migWorkers[w].session].job.n
    BY <1>2, <1>4, <1>5, ItemFacts
  <2>2. 0 < own /\ own <= n BY <1>2, <2>1 DEF JobFits
  <2> QED BY <2>1, <2>2
<1>7. \A x \in MigSources : /\ migItems[migWorkers[w].session][x].received
                            /\ migItems[migWorkers[w].session][x].status # "none"
  BY <1>2, <1>6 DEF MigIInv, SessionFits, ItemFits
<1> QED BY <1>1, <1>2, <1>3, <1>4, <1>7

LEMMA ObjectsStill == ASSUME MigIInv, UNCHANGED <<migObjects, migStore>> PROVE ObjectsGo
  BY DEF MigIInv, MigShape, ObjectsGo

\* A goroutine that goes on with the same job knows of it what it knew.
LEMMA JobStays ==
  ASSUME NEW w, NEW me, NEW record, NEW old \in MigJob, NEW new \in MigJob, me.job \in MigJob,
         record.job = me.job, JobFits(w, me, old), HolderStays(w, old, new), new.n >= old.n,
         new.n = old.n => new.plan = old.plan /\ new.kind = old.kind
  PROVE  JobFits(w, record, new)
<1>1. new.n \in Nat /\ old.n \in Nat /\ me.job.n \in Nat BY DEF MigJob
<1>2. me.job.n <= new.n BY <1>1 DEF JobFits
<1>3. me.job.n = new.n => new.n = old.n BY <1>1 DEF JobFits
<1> QED BY <1>2, <1>3 DEF JobFits, HolderStays

LEMMA StageStays ==
  ASSUME NEW s \in MigSessions, NEW me \in MigPlace, me.session = s, NEW old, NEW new, NEW olditems, NEW items,
         old.job \in MigJob, new.job \in MigJob, me.job \in MigJob, me.job.n <= old.job.n,
         SessionGoes(old, new, olditems, items), ObjectsGo, StageFits(me, old, olditems, migObjects, migStore)
  PROVE  StageFits(me, new, items, migObjects', migStore')
<1>1. \A x \in MigSources : <<s, x>> \in MigKeys BY MigNames
<1>2. new.job.n \in Nat /\ old.job.n \in Nat /\ me.job.n \in Nat BY DEF MigJob
<1>3. me.item \in MigSources BY DEF MigPlace
<1>4. me.at = "put" => migObjects'[<<s, me.item>>].status \in {"planned", "ready", "claimed"}
  BY <1>1, <1>3 DEF StageFits, ObjectsGo, GoodEntry
<1>5. ASSUME me.at \in {"stage", "plan", "put"}, me.job.n = new.job.n, new.status = "committing",
             NEW x \in MigSources, Applied(items, x), x \notin me.seen, me.at = "stage" \/ x # me.item
      PROVE  migStore'[<<s, x>>] = "whole"
  <2>1. new.job.n = old.job.n /\ me.job.n = old.job.n BY <1>2, <1>5 DEF SessionGoes
  <2>2. old.status = "committing" /\ Applied(olditems, x) BY <1>5, <2>1 DEF SessionGoes
  <2>3. migStore[<<s, x>>] = "whole" BY <1>5, <2>1, <2>2 DEF StageFits
  <2> QED BY <1>1, <2>3 DEF ObjectsGo
<1> QED BY <1>4, <1>5 DEF StageFits

\* One session goes on; the goroutines that know of it keep what they know.
LEMMA SessionMoves ==
  ASSUME MigIInv, NEW s \in MigSessions, NEW session \in MigRow, NEW items \in [MigSources -> MigItem],
         migSessions' = [migSessions EXCEPT ![s] = session], migItems' = [migItems EXCEPT ![s] = items],
         MigStill, WorldFits, ObjectsGo,
         SessionGoes(migSessions[s], session, migItems[s], items), SessionFits(session, items),
         \A x \in MigSources : ItemFits(s, x, items[x], migBindings[x]),
         migWorkers' \in [MigWorkers -> MigPlace],
         \A w \in MigWorkers : \/ migWorkers'[w] = migWorkers[w] /\ HolderStays(w, migSessions[s].job, session.job)
                               \/ migWorkers'[w].at = "idle"
                               \/ /\ migWorkers'[w].session = s /\ JobFits(w, migWorkers'[w], session.job)
                                  /\ StageFits(migWorkers'[w], session, items, migObjects', migStore')
  PROVE  MigIInv'
<1>1. MigShape BY DEF MigIInv
<1>2. migSessions' \in [MigSessions -> MigRow] /\ migItems' \in [MigSessions -> [MigSources -> MigItem]]
  BY <1>1 DEF MigShape
<1>3. MigShape' BY <1>1, <1>2 DEF MigShape, MigStill, WorldFits, ObjectsGo
<1>4. /\ migSessions'[s] = session /\ migItems'[s] = items
      /\ \A t \in MigSessions : t # s => migSessions'[t] = migSessions[t] /\ migItems'[t] = migItems[t]
  BY <1>1 DEF MigShape
<1>5. migBindings' = migBindings /\ migDocuments' = migDocuments /\ migFiles' = migFiles
  BY DEF MigStill
<1>6. ASSUME NEW x \in MigTexts PROVE TextFits(x, migBindings'[x], migDocuments')
  BY <1>5 DEF MigIInv
<1>7. ASSUME NEW t \in MigSessions
      PROVE  /\ \A x \in MigSources : ItemFits(t, x, migItems'[t][x], migBindings'[x])
             /\ SessionFits(migSessions'[t], migItems'[t]) /\ Brought(migSessions'[t], migBindings')
             /\ OwnFits(t, migSessions'[t].status, migDocuments', migFiles')
  <2>1. CASE t # s BY <1>4, <1>5, <2>1 DEF MigIInv
  <2>2. CASE t = s
    <3>1. Brought(session, migBindings)
      <4>1. Brought(migSessions[s], migBindings) BY DEF MigIInv
      <4> QED BY <4>1 DEF Brought, SessionGoes
    <3>2. OwnFits(s, session.status, migDocuments, migFiles)
      <4>1. OwnFits(s, migSessions[s].status, migDocuments, migFiles) BY DEF MigIInv
      <4> QED BY <4>1 DEF OwnFits, SessionGoes
    <3> QED BY <1>4, <1>5, <2>2, <3>1, <3>2
  <2> QED BY <2>1, <2>2
<1>8. ASSUME NEW k \in MigKeys PROVE ObjectFits(migSessions'[k[1]].status, migObjects'[k], migStore'[k])
  <2>1. ObjectFits(migSessions[k[1]].status, migObjects'[k], migStore'[k]) BY DEF ObjectsGo
  <2>2. k[1] \in MigSessions BY DEF MigKeys
  <2>3. migSessions[k[1]].status = "cancelled" => migSessions'[k[1]].status = "cancelled"
    BY <1>4, <2>2 DEF SessionGoes
  <2> QED BY <2>1, <2>3 DEF ObjectFits
<1>9. ASSUME NEW f \in migFiles' PROVE FileFits(f)'
  <2>1. f \in migFiles /\ FileFits(f) BY <1>5 DEF MigIInv
  <2>2. f.key \in MigKeys /\ f.key[1] \in MigSessions BY <1>1, <2>1 DEF MigShape, MigKeys
  <2>3. migStore'[f.key] = "whole" BY <2>1, <2>2 DEF FileFits, ObjectsGo
  <2>4. migSessions'[f.key[1]].status = "completed" BY <1>4, <2>1, <2>2 DEF FileFits, SessionGoes
  <2> QED BY <2>3, <2>4 DEF FileFits
<1>10. ASSUME NEW w \in MigWorkers PROVE PlaceFits(w, migWorkers[w])'
  <2>1. CASE migWorkers'[w].at = "idle" BY <2>1 DEF PlaceFits
  <2>2. CASE /\ migWorkers'[w].session = s /\ JobFits(w, migWorkers'[w], session.job)
             /\ StageFits(migWorkers'[w], session, items, migObjects', migStore')
    BY <1>4, <2>2 DEF PlaceFits
  <2>3. CASE /\ migWorkers'[w] = migWorkers[w] /\ HolderStays(w, migSessions[s].job, session.job)
             /\ migWorkers[w].at # "idle"
    <3>1. PICK me : me = migWorkers[w]
      OBVIOUS
    <3>2. /\ me \in MigPlace /\ me.session \in MigSessions /\ me.job \in MigJob
          /\ JobFits(w, me, migSessions[me.session].job)
      BY <2>3, <3>1, PlaceFacts
    <3>3. StageFits(me, migSessions[me.session], migItems[me.session], migObjects, migStore)
      BY <2>3, <3>1 DEF MigIInv, PlaceFits
    <3>4. PICK new : new = migSessions'[me.session]
      OBVIOUS
    <3>5. PICK newitems : newitems = migItems'[me.session]
      OBVIOUS
    <3>6. SessionGoes(migSessions[me.session], new, migItems[me.session], newitems)
      <4>1. CASE me.session = s BY <1>4, <3>4, <3>5, <4>1
      <4>2. CASE me.session # s
        <5>1. migSessions[me.session].job.n \in Nat BY <1>1, <3>2, ItemFacts
        <5>2. new = migSessions[me.session] /\ newitems = migItems[me.session]
          BY <1>4, <3>2, <3>4, <3>5, <4>2
        <5> QED BY <5>1, <5>2 DEF SessionGoes
      <4> QED BY <4>1, <4>2
    <3>7. HolderStays(w, migSessions[me.session].job, new.job)
      BY <1>4, <2>3, <3>2, <3>4 DEF HolderStays
    <3>8. new.job \in MigJob /\ migSessions[me.session].job \in MigJob
      BY <1>1, <1>2, <3>2, <3>4, ItemFacts DEF MigRow
    <3>9. JobFits(w, me, new.job)
      <4>1. PICK old, later : old = migSessions[me.session].job /\ later = new.job
        OBVIOUS
      <4>2. later.n >= old.n /\ (later.n = old.n => later.plan = old.plan /\ later.kind = old.kind)
        BY <3>6, <4>1 DEF SessionGoes
      <4> QED BY <3>2, <3>7, <3>8, <4>1, <4>2, JobStays
    <3>10. StageFits(me, new, newitems, migObjects', migStore')
      BY <3>2, <3>3, <3>6, <3>8, StageStays DEF JobFits
    <3> QED BY <2>3, <3>1, <3>2, <3>4, <3>5, <3>9, <3>10 DEF PlaceFits
  <2> QED BY <2>1, <2>2, <2>3
<1> QED BY <1>3, <1>6, <1>7, <1>8, <1>9, <1>10 DEF MigIInv

LEMMA SettledFits ==
  ASSUME MigIInv, NEW w \in MigWorkers, migWorkers[w].at # "idle", NEW status \in {"done", "failed", "pending"},
         status = "pending" => migWorkers[w].job.attempts < MigAttempts
  PROVE  LET old == migSessions[migWorkers[w].session].job  new == SettledJob(w, status) IN
           /\ new \in MigJob /\ MigJobFits(new)
           /\ new.n = old.n /\ new.plan = old.plan /\ new.kind = old.kind /\ new.n > 0
           /\ \A v \in MigWorkers : HolderStays(v, old, new)
<1>1. PICK old : old = migSessions[migWorkers[w].session].job
  OBVIOUS
<1>2. PICK me : me = migWorkers[w]
  OBVIOUS
<1>3. old \in MigJob /\ MigJobFits(old) /\ JobFits(w, me, old) /\ me.job.n \in Nat /\ me.job.attempts \in Nat
  <2>1. PICK s \in MigSessions : s = migWorkers[w].session BY PlaceFacts
  <2>2. JobFits(w, me, old) /\ me.job.n \in Nat /\ me.job.attempts \in Nat
    BY <1>1, <1>2, PlaceFacts, MigAssumption DEF MigAssumption
  <2>3. old \in MigJob BY <1>1, <2>1, ItemFacts DEF MigIInv
  <2>4. SessionFits(migSessions[s], migItems[s]) BY DEF MigIInv
  <2> QED BY <1>1, <2>1, <2>2, <2>3, <2>4 DEF SessionFits
<1>4. old.n \in Nat /\ old.n > 0 /\ NoMigWorker \notin MigWorkers
  BY <1>3, MigAssumption DEF JobFits, MigJob, MigAssumption
<1>5. SettledJob(w, status) = IF old.n # me.job.n \/ old.holder # w THEN old
        ELSE [old EXCEPT !.holder = NoMigWorker, !.status = IF old.cancel THEN "cancelled" ELSE status]
  BY <1>1, <1>2 DEF SettledJob, JobOf, Mine
<1>6. CASE old.n # me.job.n \/ old.holder # w
  BY ZenonT(30), <1>1, <1>3, <1>4, <1>5, <1>6 DEF HolderStays
<1>7. CASE ~(old.n # me.job.n \/ old.holder # w)
  <2>1. PICK settled \in {"cancelled", "done", "failed", "pending"} :
          settled = (IF old.cancel THEN "cancelled" ELSE status)
    OBVIOUS
  <2>2. PICK new : new = [old EXCEPT !.holder = NoMigWorker, !.status = settled]
    OBVIOUS
  <2>3. /\ new \in MigJob /\ new.n = old.n /\ new.plan = old.plan /\ new.kind = old.kind
        /\ new.holder = NoMigWorker /\ new.status = settled /\ new.attempts = old.attempts
    BY <1>3, <2>1, <2>2 DEF MigJob
  <2>4. old.attempts = me.job.attempts BY <1>3, <1>7 DEF JobFits
  <2>5. settled = "pending" => old.attempts < MigAttempts BY <1>2, <2>1, <2>4
  <2>6. MigJobFits(new) BY <1>4, <2>3, <2>5 DEF MigJobFits
  <2>7. \A v \in MigWorkers : HolderStays(v, old, new) BY <1>4, <2>3 DEF HolderStays
  <2>8. SettledJob(w, status) = new BY <1>5, <1>7, <2>1, <2>2
  <2> QED BY <1>1, <1>4, <2>3, <2>6, <2>7, <2>8
<1> QED BY <1>6, <1>7

\* A job ends, and its session goes on or fails.
LEMMA SettleMoves ==
  ASSUME MigIInv, NEW w \in MigWorkers, migWorkers[w].at # "idle", NEW s, s = migWorkers[w].session,
         NEW ending \in {"done", "failed", "pending"}, ending = "pending" => migWorkers[w].job.attempts < MigAttempts,
         NEW session \in MigRow, session.job = SettledJob(w, ending), NEW items \in [MigSources -> MigItem],
         \/ session.status = migSessions[s].status
         \/ session.status \in {"ready", "failed"} /\ migSessions[s].status \in {"preparing", "committing"},
         migSessions' = [migSessions EXCEPT ![s] = session],
         migItems' = [migItems EXCEPT ![s] = items], MigStill, WorldFits, ObjectsGo,
         migWorkers' = [migWorkers EXCEPT ![w] = MigIdle],
         \A x \in MigSources : /\ ItemFits(s, x, items[x], migBindings[x])
                               /\ migItems[s][x].received => items[x].received
                               /\ Applied(items, x) => Applied(migItems[s], x),
         session.status \in {"ready", "committing"} => Judged(session.plan, items),
         session.status = "committing" => session.plan = migSessions[s].plan
  PROVE  MigIInv'
<1>1. PICK old : old = migSessions[s]
  OBVIOUS
<1>2. PICK job : job = SettledJob(w, ending)
  OBVIOUS
<1>3. /\ job \in MigJob /\ MigJobFits(job) /\ job.n = old.job.n /\ job.plan = old.job.plan /\ job.kind = old.job.kind
      /\ job.n > 0 /\ \A v \in MigWorkers : HolderStays(v, old.job, job)
  BY <1>1, <1>2, SettledFits
<1>4. MigShape /\ s \in MigSessions /\ old.job.n \in Nat /\ old \in MigRow /\ SessionFits(old, migItems[s])
  <2>1. MigShape /\ s \in MigSessions BY PlaceFacts DEF MigIInv
  <2> QED BY <1>1, <2>1, ItemFacts DEF MigIInv
<1>5. session.job = job BY <1>2
<1>6. SessionGoes(old, session, migItems[s], items) BY <1>1, <1>3, <1>4, <1>5 DEF SessionGoes
<1>7. SessionFits(session, items)
  <2>1. \A x \in MigSources : migItems[s][x].received BY <1>1, <1>3, <1>4 DEF SessionFits
  <2>2. session.status = "committing" => job.kind = "commit" /\ job.plan = session.plan
    BY <1>1, <1>3, <1>4 DEF SessionFits
  <2> QED BY <1>3, <1>5, <2>1, <2>2 DEF SessionFits
<1>8. /\ migWorkers' \in [MigWorkers -> MigPlace]
      /\ \A v \in MigWorkers : migWorkers'[v] = migWorkers[v] \/ migWorkers'[v].at = "idle"
  BY <1>4, IdlePlace DEF MigShape
<1>9. \A v \in MigWorkers : HolderStays(v, migSessions[s].job, session.job) BY <1>1, <1>3, <1>5
<1> QED BY <1>1, <1>4, <1>6, <1>7, <1>8, <1>9, SessionMoves

\* ... while the session stays as it is, or fails.
LEMMA EndMoves ==
  ASSUME MigIInv, NEW w \in MigWorkers, migWorkers[w].at # "idle", NEW s, s = migWorkers[w].session,
         NEW ending \in {"done", "failed", "pending"}, ending = "pending" => migWorkers[w].job.attempts < MigAttempts,
         NEW status,
         \/ status = migSessions[s].status
         \/ status = "failed" /\ migSessions[s].status \in {"preparing", "committing"},
         migSessions' = [migSessions EXCEPT ![s].status = status, ![s].job = SettledJob(w, ending)],
         migItems' = migItems, MigStill, WorldFits, ObjectsGo,
         migWorkers' = [migWorkers EXCEPT ![w] = MigIdle]
  PROVE  MigIInv'
<1>1. MigShape /\ s \in MigSessions BY PlaceFacts DEF MigIInv
<1>2. PICK items \in [MigSources -> MigItem] : items = migItems[s] BY <1>1, ItemFacts
<1>3. migItems' = [migItems EXCEPT ![s] = items] BY <1>1, <1>2 DEF MigShape
<1>4. PICK old \in MigRow : old = migSessions[s] BY <1>1, ItemFacts
<1>5. PICK job \in MigJob : job = SettledJob(w, ending) BY SettledFits
<1>6. PICK session : session = [old EXCEPT !.status = status, !.job = job]
  OBVIOUS
<1>7. session \in MigRow /\ session.status = status /\ session.plan = old.plan /\ session.job = job
  BY <1>4, <1>6 DEF MigRow
<1>8. migSessions' = [migSessions EXCEPT ![s] = session] BY <1>1, <1>4, <1>5, <1>6 DEF MigShape
<1>9. SessionFits(old, items) /\ \A x \in MigSources : ItemFits(s, x, items[x], migBindings[x])
  BY <1>1, <1>2, <1>4 DEF MigIInv
<1>10. session.status \in {"ready", "committing"} => Judged(session.plan, items)
  BY <1>4, <1>7, <1>9 DEF SessionFits
<1>11. \A x \in MigSources : /\ migItems[s][x].received => items[x].received
                             /\ Applied(items, x) => Applied(migItems[s], x)
  BY <1>2
<1>12. \/ session.status = migSessions[s].status
       \/ session.status \in {"ready", "failed"} /\ migSessions[s].status \in {"preparing", "committing"}
  BY <1>7
<1>13. session.status = "committing" => session.plan = migSessions[s].plan BY <1>4, <1>7
<1>14. session.job = SettledJob(w, ending) /\ session \in MigRow BY <1>5, <1>7
<1>15. \A x \in MigSources : /\ ItemFits(s, x, items[x], migBindings[x])
                             /\ migItems[s][x].received => items[x].received
                             /\ Applied(items, x) => Applied(migItems[s], x)
  BY <1>9, <1>11
<1>16. w \in MigWorkers /\ items \in [MigSources -> MigItem] /\ ending \in {"done", "failed", "pending"}
  OBVIOUS
<1>17. /\ MigIInv /\ migWorkers[w].at # "idle" /\ s = migWorkers[w].session /\ MigStill /\ WorldFits /\ ObjectsGo
       /\ migWorkers' = [migWorkers EXCEPT ![w] = MigIdle]
  OBVIOUS
<1>18. ending = "pending" => migWorkers[w].job.attempts < MigAttempts
  OBVIOUS
<1> QED BY ONLY <1>3, <1>8, <1>10, <1>12, <1>13, <1>14, <1>15, <1>16, <1>17, <1>18, SettleMoves

\* A goroutine goes on with its job.
LEMMA PlaceMoves ==
  ASSUME MigIInv, NEW w \in MigWorkers, migWorkers[w].at # "idle", NEW record \in MigPlace,
         record.session = migWorkers[w].session, record.job = migWorkers[w].job,
         NEW items \in [MigSources -> MigItem],
         migItems' = [migItems EXCEPT ![migWorkers[w].session] = items],
         \A x \in MigSources : ItemFits(migWorkers[w].session, x, items[x], migBindings[x]),
         SessionFits(migSessions[migWorkers[w].session], items),
         SessionGoes(migSessions[migWorkers[w].session], migSessions[migWorkers[w].session],
                     migItems[migWorkers[w].session], items),
         UNCHANGED <<migSessions, migWorld>>, MigStill, ObjectsGo,
         migWorkers' = [migWorkers EXCEPT ![w] = record],
         StageFits(record, migSessions[migWorkers[w].session], items, migObjects', migStore')
  PROVE  MigIInv'
<1>1. PICK s \in MigSessions : s = migWorkers[w].session BY PlaceFacts
<1>2. MigShape BY DEF MigIInv
<1>3. PICK session \in MigRow : session = migSessions[s] BY <1>2, ItemFacts
<1>4. migSessions' = [migSessions EXCEPT ![s] = session] BY <1>2, <1>3 DEF MigShape
<1>5. WorldFits BY <1>2 DEF MigShape, WorldFits
<1>6. JobFits(w, record, session.job) BY <1>1, <1>3, PlaceFacts DEF JobFits
<1>7. migWorkers' \in [MigWorkers -> MigPlace] BY <1>2 DEF MigShape
<1>8. ASSUME NEW v \in MigWorkers
      PROVE  \/ migWorkers'[v] = migWorkers[v] /\ HolderStays(v, migSessions[s].job, session.job)
             \/ migWorkers'[v].at = "idle"
             \/ /\ migWorkers'[v].session = s /\ JobFits(v, migWorkers'[v], session.job)
                /\ StageFits(migWorkers'[v], session, items, migObjects', migStore')
  <2>1. CASE v = w BY <1>1, <1>2, <1>3, <1>6, <2>1 DEF MigShape
  <2>2. CASE v # w BY <1>2, <1>3, <2>2 DEF MigShape, HolderStays
  <2> QED BY <2>1, <2>2
<1> QED BY <1>1, <1>3, <1>4, <1>5, <1>7, <1>8, SessionMoves

\* ... and nothing else changes but the objects.
LEMMA StepMoves ==
  ASSUME MigIInv, NEW w \in MigWorkers, migWorkers[w].at # "idle", NEW record \in MigPlace,
         record.session = migWorkers[w].session, record.job = migWorkers[w].job,
         UNCHANGED <<migSessions, migItems, migWorld>>, MigStill, ObjectsGo,
         migWorkers' = [migWorkers EXCEPT ![w] = record],
         StageFits(record, migSessions[migWorkers[w].session], migItems[migWorkers[w].session], migObjects', migStore')
  PROVE  MigIInv'
<1>1. MigShape /\ migWorkers[w].session \in MigSessions BY PlaceFacts DEF MigIInv
<1>2. PICK items \in [MigSources -> MigItem] : items = migItems[migWorkers[w].session]
  BY <1>1, ItemFacts
<1>3. migItems' = [migItems EXCEPT ![migWorkers[w].session] = items] BY <1>1, <1>2 DEF MigShape
<1>4. migSessions[migWorkers[w].session].job.n \in Nat BY <1>1, ItemFacts
<1>5. /\ SessionFits(migSessions[migWorkers[w].session], items)
      /\ \A x \in MigSources : ItemFits(migWorkers[w].session, x, items[x], migBindings[x])
  BY <1>1, <1>2 DEF MigIInv
<1>6. SessionGoes(migSessions[migWorkers[w].session], migSessions[migWorkers[w].session],
                  migItems[migWorkers[w].session], items)
  BY <1>2, <1>4 DEF SessionGoes
<1> QED BY <1>2, <1>3, <1>5, <1>6, PlaceMoves

----------------
(* The steps of the goroutines.                                                 *)

LEMMA WorldStill == ASSUME MigIInv, migWorld' = migWorld \/ (MigTrouble /\ migWorld' = Spent) PROVE WorldFits
<1>1. migWorld \in [provider : MigProviders, permitted : BOOLEAN, troubles : 0 .. MigTroubles] /\ MigTroubles \in Nat
  BY MigAssumption DEF MigIInv, MigShape, MigAssumption
<1>2. CASE migWorld' = migWorld BY <1>1, <1>2 DEF WorldFits
<1>3. CASE MigTrouble /\ migWorld' = Spent
  <2>1. PICK n \in 0 .. MigTroubles : n = migWorld.troubles + 1 BY <1>1, <1>3 DEF MigTrouble
  <2>2. migWorld' = [migWorld EXCEPT !.troubles = n] BY <1>3, <2>1 DEF Spent
  <2> QED BY <1>1, <2>2 DEF WorldFits
<1> QED BY <1>2, <1>3

LEMMA FailMoves ==
  ASSUME MigIInv, NEW w \in MigWorkers, migWorkers[w].at # "idle", NEW permanent \in BOOLEAN,
         FailMigration(w, permanent), migItems' = migItems, MigStill, WorldFits, ObjectsGo
  PROVE  MigIInv'
<1>1. PICK s : s = migWorkers[w].session
  OBVIOUS
<1>2. PICK status : status = IF /\ permanent \/ migWorkers[w].job.attempts = MigAttempts
                                /\ Mine(w)
                                /\ migSessions[s].status =
                                     (IF migWorkers[w].job.kind = "prepare" THEN "preparing" ELSE "committing")
                             THEN "failed" ELSE migSessions[s].status
  OBVIOUS
<1>3. PICK ending : ending = IF permanent \/ migWorkers[w].job.attempts = MigAttempts THEN "failed" ELSE "pending"
  OBVIOUS
<1>4. ending \in {"done", "failed", "pending"} BY <1>3
<1>5. ending = "pending" => migWorkers[w].job.attempts < MigAttempts
  <2>1. migWorkers[w].job.attempts \in 0 .. MigAttempts /\ MigAttempts \in Nat
    BY PlaceFacts, MigAssumption DEF MigAssumption
  <2> QED BY <1>3, <2>1
<1>6. \/ status = migSessions[s].status
      \/ status = "failed" /\ migSessions[s].status \in {"preparing", "committing"}
  BY <1>2
<1>7. migSessions' = [migSessions EXCEPT ![s].status = status, ![s].job = SettledJob(w, ending)]
  BY <1>1, <1>2, <1>3 DEF FailMigration
<1>8. migWorkers' = [migWorkers EXCEPT ![w] = MigIdle] BY DEF FailMigration, Places
<1> QED BY <1>1, <1>4, <1>5, <1>6, <1>7, <1>8, EndMoves

LEMMA DoneMoves ==
  ASSUME MigIInv, NEW w \in MigWorkers, migWorkers[w].at # "idle", EndMigration(w, "done"),
         UNCHANGED <<migItems, migBindings, migDocuments, migFiles, migObjects, migStore, migWorld>>
  PROVE  MigIInv'
<1>1. PICK s : s = migWorkers[w].session
  OBVIOUS
<1>2. PICK status : status = migSessions[s].status
  OBVIOUS
<1>3. PICK ending \in {"done", "failed", "pending"} : ending = "done"
  OBVIOUS
<1>4. migSessions' = [migSessions EXCEPT ![s].status = status, ![s].job = SettledJob(w, ending)]
  <2>1. MigShape /\ s \in MigSessions BY <1>1, PlaceFacts DEF MigIInv
  <2>2. migSessions[s] \in MigRow BY <2>1, ItemFacts
  <2>3. migSessions' = [migSessions EXCEPT ![s] = [migSessions[s] EXCEPT !.job = SettledJob(w, ending)]]
    BY <1>1, <1>3 DEF EndMigration
  <2>4. [migSessions[s] EXCEPT !.job = SettledJob(w, ending)]
          = [migSessions[s] EXCEPT !.status = status, !.job = SettledJob(w, ending)]
    BY <1>2, <2>2 DEF MigRow
  <2> QED BY <2>1, <2>3, <2>4
<1>5. migWorkers' = [migWorkers EXCEPT ![w] = MigIdle] /\ migItems' = migItems
  BY DEF EndMigration, Places
<1>6. ObjectsGo /\ WorldFits /\ MigStill BY ObjectsStill, WorldStill DEF MigStill
<1> QED BY <1>1, <1>2, <1>3, <1>4, <1>5, <1>6, EndMoves

LEMMA RefuseKeeps ==
  ASSUME MigIInv, NEW w \in MigWorkers, RefuseMigration(w)
  PROVE  MigIInv'
<1>1. migWorkers[w].at # "idle" BY DEF RefuseMigration
<1>2. FailMigration(w, TRUE) /\ migItems' = migItems /\ MigStill /\ ObjectsGo /\ WorldFits
  BY ObjectsStill, WorldStill DEF RefuseMigration, MigStill
<1> QED BY <1>1, <1>2, FailMoves

LEMMA SettleKeeps ==
  ASSUME MigIInv, NEW w \in MigWorkers, SettleMigration(w)
  PROVE  MigIInv'
  BY DoneMoves DEF SettleMigration

\* A goroutine that goes to another place where nothing is staged yet.
LEMMA PlainMoves ==
  ASSUME MigIInv, NEW w \in MigWorkers, migWorkers[w].at # "idle", NEW at \in {"classify", "prepare", "write"},
         NEW item \in MigSources, NEW seen \in SUBSET MigSources,
         migWorkers' = [migWorkers EXCEPT ![w] = [migWorkers[w] EXCEPT !.at = at, !.item = item, !.seen = seen]],
         UNCHANGED <<migSessions, migItems, migBindings, migDocuments, migFiles, migObjects, migStore, migWorld>>
  PROVE  MigIInv'
<1>1. PICK record : record = [migWorkers[w] EXCEPT !.at = at, !.item = item, !.seen = seen]
  OBVIOUS
<1>2. migWorkers[w] \in MigPlace BY PlaceFacts
<1>3. /\ record \in MigPlace /\ record.session = migWorkers[w].session /\ record.job = migWorkers[w].job
      /\ record.at = at
  BY <1>1, <1>2 DEF MigPlace
<1>4. StageFits(record, migSessions[migWorkers[w].session], migItems[migWorkers[w].session], migObjects', migStore')
  BY <1>3 DEF StageFits
<1>5. ObjectsGo /\ MigStill BY ObjectsStill DEF MigStill
<1>6. migWorkers' = [migWorkers EXCEPT ![w] = record] BY <1>1
<1> QED BY <1>3, <1>4, <1>5, <1>6, StepMoves

LEMMA BeginPreparingKeeps ==
  ASSUME MigIInv, NEW w \in MigWorkers, BeginPreparing(w)
  PROVE  MigIInv'
<1>1. migWorkers[w].at # "idle" BY DEF BeginPreparing
<1>2. CASE Places(w, [migWorkers[w] EXCEPT !.at = "classify"]) /\ UNCHANGED migSessions
  <2>1. PICK item \in MigSources, seen \in SUBSET MigSources : item = migWorkers[w].item /\ seen = migWorkers[w].seen
    BY <1>1, PlaceFacts
  <2>2. migWorkers[w] \in MigPlace BY <1>1, PlaceFacts
  <2>3. [migWorkers[w] EXCEPT !.at = "classify"] = [migWorkers[w] EXCEPT !.at = "classify", !.item = item, !.seen = seen]
    BY <2>1, <2>2 DEF MigPlace
  <2>4. /\ migWorkers' = [migWorkers EXCEPT ![w] = [migWorkers[w] EXCEPT !.at = "classify", !.item = item, !.seen = seen]]
        /\ UNCHANGED <<migSessions, migItems, migBindings, migDocuments, migFiles, migObjects, migStore, migWorld>>
    BY <1>2, <2>3 DEF BeginPreparing, Places
  <2>5. PICK at \in {"classify", "prepare", "write"} : at = "classify"
    OBVIOUS
  <2> QED BY <1>1, <2>4, <2>5, PlainMoves
<1>3. CASE EndMigration(w, "done") BY <1>1, <1>3, DoneMoves DEF BeginPreparing
<1> QED BY <1>2, <1>3 DEF BeginPreparing

LEMMA ReadItemsKeeps ==
  ASSUME MigIInv, NEW w \in MigWorkers, ReadItems(w)
  PROVE  MigIInv'
<1>1. migWorkers[w].at # "idle" BY DEF ReadItems
<1>2. PICK seen \in SUBSET MigSources : seen = {x \in MigSources : migItems[migWorkers[w].session][x].status # "prepared"}
  OBVIOUS
<1>3. PICK item \in MigSources : item = migWorkers[w].item BY <1>1, PlaceFacts
<1>4. migWorkers[w] \in MigPlace BY <1>1, PlaceFacts
<1>5. PICK at \in {"classify", "prepare", "write"} : at = "prepare"
  OBVIOUS
<1>6. [migWorkers[w] EXCEPT !.at = at, !.seen = seen] = [migWorkers[w] EXCEPT !.at = at, !.item = item, !.seen = seen]
  BY <1>3, <1>4 DEF MigPlace
<1>7. /\ migWorkers' = [migWorkers EXCEPT ![w] = [migWorkers[w] EXCEPT !.at = at, !.item = item, !.seen = seen]]
      /\ UNCHANGED <<migSessions, migItems, migBindings, migDocuments, migFiles, migObjects, migStore, migWorld>>
  BY <1>2, <1>5, <1>6 DEF ReadItems, Places
<1> QED BY <1>1, <1>7, PlainMoves

LEMMA CheckItemKeeps ==
  ASSUME MigIInv, NEW w \in MigWorkers, NEW x \in MigSources, CheckItem(w, x)
  PROVE  MigIInv'
<1>1. migWorkers[w].at # "idle" BY DEF CheckItem
<1>2. PICK seen \in SUBSET MigSources : seen = migWorkers[w].seen \ {x} BY <1>1, PlaceFacts
<1>3. PICK at \in {"classify", "prepare", "write"} : at = "write"
  OBVIOUS
<1>4. /\ migWorkers' = [migWorkers EXCEPT ![w] = [migWorkers[w] EXCEPT !.at = at, !.item = x, !.seen = seen]]
      /\ UNCHANGED <<migSessions, migItems, migBindings, migDocuments, migFiles, migObjects, migStore, migWorld>>
  BY <1>2, <1>3 DEF CheckItem, Places
<1> QED BY <1>1, <1>4, PlainMoves

----------------
(* ... while they stage the files.                                              *)

LEMMA PlanFits ==
  ASSUME MigShape, NEW s \in MigSessions
  PROVE  /\ PlanOf(s) \in [MigSources -> MigItem] /\ Judged(PlanOf(s), migItems[s])
         /\ \A x \in MigSources : /\ Applied(PlanOf(s), x) = Applied(migItems[s], x)
                                  /\ PlanOf(s)[x].status = migItems[s][x].status
<1>1. migItems[s] \in [MigSources -> MigItem] BY ItemFacts
<1>2. ASSUME NEW x \in MigSources
      PROVE  /\ PlanOf(s)[x] \in MigItem /\ PlanOf(s)[x].decision = migItems[s][x].decision
             /\ PlanOf(s)[x].disposition = migItems[s][x].disposition /\ PlanOf(s)[x].target = migItems[s][x].target
             /\ PlanOf(s)[x].expected = migItems[s][x].expected /\ PlanOf(s)[x].binding = migItems[s][x].binding
             /\ PlanOf(s)[x].status = migItems[s][x].status
  <2>1. migItems[s][x] \in MigItem BY <1>1
  <2>2. PICK two \in 0 .. 2 : two = 2
    OBVIOUS
  <2>3. PICK old \in MigItem : old = migItems[s][x] BY <2>1
  <2>4. PICK item : item = [old EXCEPT !.received = TRUE, !.checkpoint = two]
    OBVIOUS
  <2>5. PlanOf(s)[x] = item BY <2>2, <2>3, <2>4 DEF PlanOf
  <2>6. item \in MigItem BY ONLY old \in MigItem, two \in 0 .. 2, <2>4 DEF MigItem
  <2>7. /\ item.decision = old.decision /\ item.disposition = old.disposition /\ item.target = old.target
        /\ item.expected = old.expected /\ item.binding = old.binding /\ item.status = old.status
    BY ONLY old \in MigItem, <2>4 DEF MigItem
  <2> QED BY <2>3, <2>5, <2>6, <2>7
<1>3. PlanOf(s) \in [MigSources -> MigItem] BY <1>2 DEF PlanOf
<1> QED BY <1>2, <1>3 DEF Judged, Applied

LEMMA BeginCommittingKeeps ==
  ASSUME MigIInv, NEW w \in MigWorkers, BeginCommitting(w)
  PROVE  MigIInv'
<1>1. migWorkers[w].at # "idle" BY DEF BeginCommitting
<1>2. PICK s \in MigSessions : s = migWorkers[w].session BY <1>1, PlaceFacts
<1>3. CASE Places(w, [migWorkers[w] EXCEPT !.at = "stage", !.seen = Needed(PlanOf(s))]) /\ UNCHANGED migSessions
  <2>1. MigShape /\ migWorkers[w] \in MigPlace BY <1>1, PlaceFacts DEF MigIInv
  <2>2. PICK seen \in SUBSET MigSources : seen = Needed(PlanOf(s)) BY DEF Needed
  <2>3. PICK record : record = [migWorkers[w] EXCEPT !.at = "stage", !.seen = seen]
    OBVIOUS
  <2>4. /\ record \in MigPlace /\ record.session = s /\ record.job = migWorkers[w].job
        /\ record.at = "stage" /\ record.seen = seen
    BY <1>2, <2>1, <2>3 DEF MigPlace
  <2>5. StageFits(record, migSessions[s], migItems[s], migObjects', migStore')
    <3>1. \A x \in MigSources : Applied(migItems[s], x) => x \in seen
      BY <2>1, <2>2, PlanFits DEF Needed
    <3> QED BY <2>4, <3>1 DEF StageFits
  <2>6. ObjectsGo /\ MigStill /\ UNCHANGED <<migSessions, migItems, migWorld>>
    BY <1>3, ObjectsStill DEF BeginCommitting, MigStill
  <2>7. migWorkers' = [migWorkers EXCEPT ![w] = record] BY <1>3, <2>2, <2>3 DEF Places
  <2> QED BY <1>1, <1>2, <2>4, <2>5, <2>6, <2>7, StepMoves
<1>4. CASE EndMigration(w, "done") BY <1>1, <1>4, DoneMoves DEF BeginCommitting
<1> QED BY <1>2, <1>3, <1>4 DEF BeginCommitting

LEMMA LockObjectKeeps ==
  ASSUME MigIInv, NEW w \in MigWorkers, NEW x \in MigSources, LockObject(w, x)
  PROVE  MigIInv'
<1>1. migWorkers[w].at = "stage" /\ x \in migWorkers[w].seen BY DEF LockObject, Earliest
<1>2. PICK me \in MigPlace : me = migWorkers[w] BY <1>1, PlaceFacts
<1>3. PICK seen \in SUBSET MigSources : seen = me.seen \ {x} BY <1>1, <1>2, PlaceFacts
<1>4. PICK record : record = [me EXCEPT !.at = "plan", !.item = x, !.seen = seen]
  OBVIOUS
<1>5. /\ record \in MigPlace /\ record.session = me.session /\ record.job = me.job
      /\ record.at = "plan" /\ record.seen = seen /\ record.item = x
  BY <1>2, <1>3, <1>4 DEF MigPlace
<1>6. StageFits(me, migSessions[me.session], migItems[me.session], migObjects, migStore) /\ me.session \in MigSessions
  BY <1>1, <1>2 DEF MigIInv, PlaceFits
<1>7. ObjectsGo /\ MigStill /\ UNCHANGED <<migSessions, migItems, migWorld, migObjects, migStore>>
  BY ObjectsStill DEF LockObject, MigStill
<1>8. StageFits(record, migSessions[me.session], migItems[me.session], migObjects', migStore')
  <2>1. \A y \in MigSources : y \notin seen /\ y # x => y \notin me.seen BY <1>3
  <2>2. StageFits(record, migSessions[me.session], migItems[me.session], migObjects, migStore)
    BY <1>1, <1>2, <1>5, <1>6, <2>1 DEF StageFits
  <2> QED BY <1>7, <2>2 DEF StageFits
<1>9. migWorkers' = [migWorkers EXCEPT ![w] = record] BY <1>2, <1>3, <1>4 DEF LockObject, Places
<1> QED BY <1>1, <1>2, <1>5, <1>7, <1>8, <1>9, StepMoves

LEMMA PlanObjectKeeps ==
  ASSUME MigIInv, NEW w \in MigWorkers, PlanObject(w)
  PROVE  MigIInv'
<1>1. migWorkers[w].at = "plan" BY DEF PlanObject
<1>2. PICK me \in MigPlace : me = migWorkers[w] BY <1>1, PlaceFacts
<1>3. me.session \in MigSessions /\ me.item \in MigSources BY <1>1, <1>2, PlaceFacts
<1>4. PICK k \in MigKeys : k = <<me.session, me.item>> BY <1>3, MigNames
<1>5. PICK entry : entry = JournaledObject(k)
  OBVIOUS
<1>6. /\ entry.status \in {"none", "planned", "ready"} /\ Committing(me.session)
      /\ migObjects' = [migObjects EXCEPT ![k] = entry]
      /\ migWorkers' = [migWorkers EXCEPT ![w] = [me EXCEPT !.at = "put"]]
      /\ UNCHANGED <<migSessions, migItems, migWorld, migStore>> /\ MigStill
  BY <1>2, <1>4, <1>5 DEF PlanObject, Places, MigStill
<1>7. MigShape BY DEF MigIInv
<1>8. /\ entry \in MigEntry /\ entry.status \in {"planned", "ready"}
      /\ entry = migObjects[k] \/ entry.status = "planned"
  <2>1. migObjects[k] \in MigEntry /\ migWorld.provider \in MigProviders BY <1>7 DEF MigShape
  <2>2. entry = IF migObjects[k].status = "none" /\ Committing(me.session)
                THEN [status |-> "planned", provider |-> migWorld.provider] ELSE migObjects[k]
    BY <1>3, <1>4, <1>5 DEF JournaledObject
  <2> QED BY <1>6, <2>1, <2>2 DEF MigEntry
<1>9. ObjectsGo
  <2>1. migObjects' \in [MigKeys -> MigEntry] /\ migStore' \in [MigKeys -> {"none", "partial", "whole"}]
    BY <1>6, <1>7, <1>8 DEF MigShape
  <2>2. ASSUME NEW o \in MigKeys
        PROVE  /\ migStore[o] = "whole" => migStore'[o] = "whole"
               /\ migObjects[o].status \in GoodEntry => migObjects'[o].status \in GoodEntry
               /\ ObjectFits(migSessions[o[1]].status, migObjects'[o], migStore'[o])
    <3>1. ObjectFits(migSessions[o[1]].status, migObjects[o], migStore[o]) BY DEF MigIInv
    <3>2. CASE o # k BY <1>6, <1>7, <3>1, <3>2 DEF MigShape
    <3>3. CASE o = k
      <4>1. migObjects'[o] = entry /\ migStore'[o] = migStore[o] BY <1>6, <1>7, <3>3 DEF MigShape
      <4> QED BY <1>8, <3>1, <3>3, <4>1 DEF ObjectFits, GoodEntry
    <3> QED BY <3>2, <3>3
  <2> QED BY <2>1, <2>2 DEF ObjectsGo
<1>10. PICK record : record = [me EXCEPT !.at = "put"]
  OBVIOUS
<1>11. /\ record \in MigPlace /\ record.session = me.session /\ record.job = me.job
       /\ record.at = "put" /\ record.seen = me.seen /\ record.item = me.item
  BY <1>2, <1>10 DEF MigPlace
<1>12. StageFits(record, migSessions[me.session], migItems[me.session], migObjects', migStore')
  <2>1. StageFits(me, migSessions[me.session], migItems[me.session], migObjects, migStore)
    BY <1>1, <1>2 DEF MigIInv, PlaceFits
  <2>2. migObjects'[<<me.session, me.item>>].status \in {"planned", "ready", "claimed"}
    BY <1>4, <1>6, <1>7, <1>8 DEF MigShape
  <2> QED BY <1>1, <1>2, <1>6, <1>11, <2>1, <2>2 DEF StageFits
<1>13. migWorkers' = [migWorkers EXCEPT ![w] = record] BY <1>6, <1>10
<1> QED BY <1>1, <1>2, <1>6, <1>9, <1>11, <1>12, <1>13, StepMoves

LEMMA PutObjectKeeps ==
  ASSUME MigIInv, NEW w \in MigWorkers, PutObject(w)
  PROVE  MigIInv'
<1>1. migWorkers[w].at = "put" BY DEF PutObject
<1>2. PICK me \in MigPlace : me = migWorkers[w] BY <1>1, PlaceFacts
<1>3. me.session \in MigSessions /\ me.item \in MigSources BY <1>1, <1>2, PlaceFacts
<1>4. PICK k \in MigKeys : k = <<me.session, me.item>> BY <1>3, MigNames
<1>5. PICK entry : entry = MarkedReady(k)
  OBVIOUS
<1>6. /\ migObjects' = [migObjects EXCEPT ![k] = entry] /\ migStore' = [migStore EXCEPT ![k] = "whole"]
      /\ migWorkers' = [migWorkers EXCEPT ![w] = [me EXCEPT !.at = "stage", !.item = MigAsset]]
      /\ UNCHANGED <<migSessions, migItems, migWorld>> /\ MigStill
  BY <1>2, <1>4, <1>5 DEF PutObject, Places, MigStill
<1>7. MigShape /\ StageFits(me, migSessions[me.session], migItems[me.session], migObjects, migStore)
  BY <1>1, <1>2 DEF MigIInv, PlaceFits
<1>8. entry \in MigEntry /\ entry.status \in GoodEntry
  <2>1. migObjects[k] \in MigEntry /\ migWorld.provider \in MigProviders BY <1>7 DEF MigShape
  <2>2. migObjects[k].status \in GoodEntry BY <1>1, <1>2, <1>4, <1>7 DEF StageFits, GoodEntry
  <2> QED BY <1>5, <2>1, <2>2 DEF MarkedReady, MigEntry, GoodEntry
<1>9. /\ \A o \in MigKeys : o # k => migObjects'[o] = migObjects[o] /\ migStore'[o] = migStore[o]
      /\ migObjects'[k] = entry /\ migStore'[k] = "whole"
  BY <1>6, <1>7 DEF MigShape
<1>10. ObjectsGo
  <2>1. migObjects' \in [MigKeys -> MigEntry] /\ migStore' \in [MigKeys -> {"none", "partial", "whole"}]
    BY <1>6, <1>7, <1>8 DEF MigShape
  <2>2. ASSUME NEW o \in MigKeys
        PROVE  /\ migStore[o] = "whole" => migStore'[o] = "whole"
               /\ migObjects[o].status \in GoodEntry => migObjects'[o].status \in GoodEntry
               /\ ObjectFits(migSessions[o[1]].status, migObjects'[o], migStore'[o])
    <3>1. ObjectFits(migSessions[o[1]].status, migObjects[o], migStore[o]) BY DEF MigIInv
    <3>2. CASE o # k BY <1>9, <3>1, <3>2
    <3>3. CASE o = k BY <1>8, <1>9, <3>3 DEF ObjectFits, GoodEntry
    <3> QED BY <3>2, <3>3
  <2> QED BY <2>1, <2>2 DEF ObjectsGo
<1>11. PICK item \in MigSources : item = MigAsset BY MigNames
<1>12. PICK record : record = [me EXCEPT !.at = "stage", !.item = item]
  OBVIOUS
<1>13. /\ record \in MigPlace /\ record.session = me.session /\ record.job = me.job
       /\ record.at = "stage" /\ record.seen = me.seen
  BY <1>2, <1>12 DEF MigPlace
<1>14. StageFits(record, migSessions[me.session], migItems[me.session], migObjects', migStore')
  <2>1. ASSUME me.job.n = migSessions[me.session].job.n, migSessions[me.session].status = "committing",
               NEW x \in MigSources, Applied(migItems[me.session], x), x \notin me.seen
        PROVE  migStore'[<<me.session, x>>] = "whole"
    <3>1. CASE x = me.item BY <1>4, <1>9, <3>1
    <3>2. CASE x # me.item
      <4>1. migStore[<<me.session, x>>] = "whole" BY <1>1, <1>2, <1>7, <2>1, <3>2 DEF StageFits
      <4>2. <<me.session, x>> \in MigKeys BY <1>3, MigNames
      <4> QED BY <1>9, <4>1, <4>2
    <3> QED BY <3>1, <3>2
  <2> QED BY <1>13, <2>1 DEF StageFits
<1>15. migWorkers' = [migWorkers EXCEPT ![w] = record] BY <1>6, <1>11, <1>12
<1> QED BY <1>1, <1>2, <1>6, <1>10, <1>13, <1>14, <1>15, StepMoves

LEMMA BreakPutKeeps ==
  ASSUME MigIInv, NEW w \in MigWorkers, BreakPut(w)
  PROVE  MigIInv'
<1>1. migWorkers[w].at = "put" /\ WorldFits /\ MigStill BY WorldStill DEF BreakPut, MigStill
<1>2. PICK me \in MigPlace : me = migWorkers[w] BY <1>1, PlaceFacts
<1>3. me.session \in MigSessions /\ me.item \in MigSources BY <1>1, <1>2, PlaceFacts
<1>4. PICK k \in MigKeys : k = <<me.session, me.item>> BY <1>3, MigNames
<1>5. PICK stored \in {"partial", "whole"} : stored = IF migStore[k] = "whole" THEN migStore[k] ELSE "partial"
  OBVIOUS
<1>6. migObjects' = migObjects /\ migItems' = migItems /\ migStore' = [migStore EXCEPT ![k] = stored]
  BY <1>2, <1>4, <1>5 DEF BreakPut
<1>7. MigShape /\ StageFits(me, migSessions[me.session], migItems[me.session], migObjects, migStore)
  BY <1>1, <1>2 DEF MigIInv, PlaceFits
<1>8. ObjectsGo
  <2>1. migObjects' \in [MigKeys -> MigEntry] /\ migStore' \in [MigKeys -> {"none", "partial", "whole"}]
    BY <1>6, <1>7 DEF MigShape
  <2>2. ASSUME NEW o \in MigKeys
        PROVE  /\ migStore[o] = "whole" => migStore'[o] = "whole"
               /\ migObjects[o].status \in GoodEntry => migObjects'[o].status \in GoodEntry
               /\ ObjectFits(migSessions[o[1]].status, migObjects'[o], migStore'[o])
    <3>1. ObjectFits(migSessions[o[1]].status, migObjects[o], migStore[o]) BY DEF MigIInv
    <3>2. CASE o # k BY <1>6, <1>7, <3>1, <3>2 DEF MigShape
    <3>3. CASE o = k
      <4>1. migObjects[k].status \in GoodEntry BY <1>1, <1>2, <1>4, <1>7 DEF StageFits, GoodEntry
      <4>2. migStore'[k] = stored BY <1>6, <1>7 DEF MigShape
      <4>3. migStore[k] = "whole" => stored = "whole" BY <1>5
      <4> QED BY <1>6, <3>1, <3>3, <4>1, <4>2, <4>3 DEF ObjectFits, GoodEntry
    <3> QED BY <3>2, <3>3
  <2> QED BY <2>1, <2>2 DEF ObjectsGo
<1>9. CASE UNCHANGED migSessions /\ Places(w, MigIdle)
  <2>1. migSessions' = migSessions /\ migWorkers' = [migWorkers EXCEPT ![w] = MigIdle]
    BY <1>9 DEF Places
  <2>2. PICK s \in MigSessions, session \in MigRow, items \in [MigSources -> MigItem] :
          s = me.session /\ session = migSessions[s] /\ items = migItems[s]
    BY <1>3, <1>7, ItemFacts
  <2>3. migSessions' = [migSessions EXCEPT ![s] = session] /\ migItems' = [migItems EXCEPT ![s] = items]
    BY <1>6, <1>7, <2>1, <2>2 DEF MigShape
  <2>4. SessionGoes(migSessions[s], session, migItems[s], items)
    <3>1. migSessions[s].job.n \in Nat BY <1>7, ItemFacts
    <3> QED BY <2>2, <3>1 DEF SessionGoes
  <2>5. SessionFits(session, items) /\ \A x \in MigSources : ItemFits(s, x, items[x], migBindings[x])
    BY <2>2 DEF MigIInv
  <2>6. migWorkers' \in [MigWorkers -> MigPlace] BY <1>7, <2>1, IdlePlace DEF MigShape
  <2>7. \A v \in MigWorkers : \/ migWorkers'[v] = migWorkers[v] /\ HolderStays(v, migSessions[s].job, session.job)
                              \/ migWorkers'[v].at = "idle"
    BY <1>7, <2>1, <2>2, IdlePlace DEF MigShape, HolderStays
  <2> QED BY <1>1, <1>8, <2>3, <2>4, <2>5, <2>6, <2>7, SessionMoves
<1>10. CASE FailMigration(w, FALSE) BY <1>1, <1>6, <1>8, <1>10, FailMoves
<1> QED BY <1>9, <1>10 DEF BreakPut

----------------
(* ... while they prepare.                                                      *)

LEMMA PreparingFacts ==
  ASSUME MigIInv, NEW w \in MigWorkers, migWorkers[w].at # "idle", Preparing(w)
  PROVE  LET s == migWorkers[w].session IN
           /\ s \in MigSessions /\ MigShape /\ migSessions[s].status = "preparing"
           /\ \A x \in MigSources : ItemFits(s, x, migItems[s][x], migBindings[x])
           /\ SessionFits(migSessions[s], migItems[s])
  BY PlaceFacts DEF MigIInv, Preparing

\* A session that is being prepared does not depend on what its items say.
LEMMA PreparingGoes ==
  ASSUME MigShape, NEW s \in MigSessions, migSessions[s].status = "preparing", SessionFits(migSessions[s], migItems[s]),
         NEW items, \A x \in MigSources : migItems[s][x].received => items[x].received
  PROVE  SessionFits(migSessions[s], items) /\ SessionGoes(migSessions[s], migSessions[s], migItems[s], items)
<1>1. migSessions[s].job.n \in Nat BY ItemFacts
<1> QED BY <1>1 DEF SessionFits, SessionGoes

LEMMA ClassifiedFits ==
  ASSUME MigIInv, NEW s \in MigSessions, NEW x \in MigSources, migItems[s][x].checkpoint = 0, migItems[s][x].received
  PROVE  LET old == migItems[s][x]  new == Classified(s, x, old) IN
           new \in MigItem /\ ItemFits(s, x, new, migBindings[x]) /\ new.received
<1>1. PICK old \in MigItem : old = migItems[s][x] BY ItemFacts DEF MigIInv
<1>2. PICK b \in MigBound : b = migBindings[x] BY DEF MigIInv, MigShape
<1>3. ItemFits(s, x, old, b) /\ old.checkpoint = 0 /\ old.received BY <1>1, <1>2 DEF MigIInv
<1>4. /\ b.target \in MigTargets /\ b.revision \in Nat /\ b.version \in Nat /\ old.binding \in Nat
  BY DEF MigBound, MigItem
<1>5. old.status # "prepared" /\ old.status # "none" BY <1>3 DEF ItemFits
<1>6. PICK new : new = Classified(s, x, old)
  OBVIOUS
<1>7. PICK one \in 0 .. 2 : one = 1
  OBVIOUS
<1>8. CASE b.revision = 0
  <2>1. PICK disposition \in {"new", "changed", "unchanged", "conflict"} : disposition = "new"
    OBVIOUS
  <2>2. new = [old EXCEPT !.disposition = disposition, !.checkpoint = one]
    BY <1>2, <1>6, <1>7, <1>8, <2>1 DEF Classified
  <2>3. new \in MigItem
    BY ONLY old \in MigItem, disposition \in {"new", "changed", "unchanged", "conflict"}, one \in 0 .. 2, <2>2 DEF MigItem
  <2>4. /\ new.disposition = "new" /\ new.received = old.received /\ new.status = old.status
        /\ new.binding = old.binding /\ new.target = old.target /\ new.expected = old.expected
    BY ONLY old \in MigItem, <2>1, <2>2 DEF MigItem
  <2>5. ItemFits(s, x, new, b) BY <1>3, <1>5, <2>4 DEF ItemFits
  <2> QED BY <1>1, <1>2, <1>3, <1>6, <2>3, <2>4, <2>5
<1>9. CASE b.revision # 0
  <2>1. PICK expected \in Nat : expected = VersionOf(x, b.target)
    <3>1. CASE x = MigAsset BY <3>1 DEF VersionOf
    <3>2. CASE x # MigAsset
      <4>1. x \in MigTexts BY <3>2 DEF MigSources
      <4>2. b.target \in MigDocs BY <1>2, <1>9, <4>1 DEF MigIInv, TextFits, MigDocs
      <4>3. migDocuments[b.target] \in Nat BY <4>2 DEF MigIInv, MigShape
      <4> QED BY <3>2, <4>3 DEF VersionOf
    <3> QED BY <3>1, <3>2
  <2>2. PICK disposition \in {"new", "changed", "unchanged", "conflict"} :
          disposition = IF VersionOf(x, b.target) # b.version THEN "conflict"
                        ELSE IF b.hash = old.hash THEN "unchanged" ELSE "changed"
    OBVIOUS
  <2>3. PICK binding \in Nat, target \in MigTargets : binding = b.revision /\ target = b.target
    BY <1>4
  <2>4. new = [old EXCEPT !.checkpoint = one, !.binding = binding, !.expected = expected,
                          !.disposition = disposition, !.target = target]
    BY <1>2, <1>6, <1>7, <1>9, <2>1, <2>2, <2>3 DEF Classified
  <2>5. new \in MigItem
    BY ONLY old \in MigItem, disposition \in {"new", "changed", "unchanged", "conflict"}, one \in 0 .. 2,
            binding \in Nat, expected \in Nat, target \in MigTargets, <2>4 DEF MigItem
  <2>6. /\ new.received = old.received /\ new.status = old.status /\ new.binding = binding /\ new.target = target
    BY ONLY old \in MigItem, <2>4 DEF MigItem
  <2>7. binding # 0 /\ b.revision > 0 BY <1>4, <1>9, <2>3
  <2>8. ItemFits(s, x, new, b) BY <1>3, <1>5, <2>3, <2>6, <2>7 DEF ItemFits
  <2> QED BY <1>1, <1>2, <1>3, <1>6, <2>5, <2>6, <2>8
<1> QED BY <1>8, <1>9

LEMMA ClassifyItemKeeps ==
  ASSUME MigIInv, NEW w \in MigWorkers, NEW x \in MigSources, ClassifyItem(w, x)
  PROVE  MigIInv'
<1>1. migWorkers[w].at = "classify" /\ Preparing(w) BY DEF ClassifyItem
<1>2. PICK s \in MigSessions : s = migWorkers[w].session BY <1>1, PlaceFacts
<1>3. /\ MigShape /\ migSessions[s].status = "preparing" /\ SessionFits(migSessions[s], migItems[s])
      /\ \A y \in MigSources : ItemFits(s, y, migItems[s][y], migBindings[y])
  BY <1>1, <1>2, PreparingFacts
<1>4. PICK item : item = Classified(s, x, migItems[s][x])
  OBVIOUS
<1>5. migItems[s][x].checkpoint = 0 /\ migItems[s][x].received
  BY <1>1, <1>2, PlaceFacts DEF ClassifyItem, Earliest
<1>6. item \in MigItem /\ ItemFits(s, x, item, migBindings[x]) /\ item.received
  BY <1>4, <1>5, ClassifiedFits
<1>7. PICK items : items = [migItems[s] EXCEPT ![x] = item]
  OBVIOUS
<1>8. migItems[s] \in [MigSources -> MigItem] BY <1>3, ItemFacts
<1>9. items \in [MigSources -> MigItem] /\ items[x] = item /\ \A y \in MigSources : y # x => items[y] = migItems[s][y]
  BY <1>6, <1>7, <1>8
<1>10. migItems' = [migItems EXCEPT ![s] = items]
  BY <1>2, <1>3, <1>4, <1>7 DEF ClassifyItem, MigShape
<1>11. \A y \in MigSources : ItemFits(s, y, items[y], migBindings[y]) /\ (migItems[s][y].received => items[y].received)
  BY <1>3, <1>6, <1>9
<1>12. SessionFits(migSessions[s], items) /\ SessionGoes(migSessions[s], migSessions[s], migItems[s], items)
  BY <1>3, <1>11, PreparingGoes
<1>13. PICK record \in MigPlace : record = migWorkers[w] BY <1>1, PlaceFacts
<1>14. /\ ObjectsGo /\ MigStill /\ UNCHANGED <<migSessions, migWorld>>
       /\ migWorkers' = [migWorkers EXCEPT ![w] = record]
  BY <1>3, <1>13, ObjectsStill DEF ClassifyItem, MigStill, MigShape
<1>15. StageFits(record, migSessions[s], items, migObjects', migStore') BY <1>1, <1>13 DEF StageFits
<1> QED BY <1>1, <1>2, <1>9, <1>10, <1>11, <1>12, <1>13, <1>14, <1>15, PlaceMoves

LEMMA PrepareItemKeeps ==
  ASSUME MigIInv, NEW w \in MigWorkers, PrepareItem(w)
  PROVE  MigIInv'
<1>1. migWorkers[w].at = "write" /\ Preparing(w) BY ZenonT(30) DEF PrepareItem
<1>2. PICK s \in MigSessions : s = migWorkers[w].session BY <1>1, PlaceFacts
<1>3. PICK x \in MigSources : x = migWorkers[w].item BY <1>1, PlaceFacts
<1>4. /\ MigShape /\ migSessions[s].status = "preparing" /\ SessionFits(migSessions[s], migItems[s])
      /\ \A y \in MigSources : ItemFits(s, y, migItems[s][y], migBindings[y])
  BY <1>1, <1>2, PreparingFacts
<1>5. PICK old \in MigItem : old = migItems[s][x] BY <1>4, ItemFacts
<1>6. PICK two \in 0 .. 2 : two = 2
  OBVIOUS
<1>7. PICK status \in {"none", "uploading", "pending", "prepared", "failed"} : status = "prepared"
  OBVIOUS
<1>8. PICK item : item = [old EXCEPT !.status = status, !.checkpoint = two]
  OBVIOUS
<1>9. item \in MigItem
  BY ONLY old \in MigItem, status \in {"none", "uploading", "pending", "prepared", "failed"}, two \in 0 .. 2, <1>8
  DEF MigItem
<1>10. /\ item.status = "prepared" /\ item.checkpoint = 2 /\ item.received = old.received /\ item.binding = old.binding
       /\ item.disposition = old.disposition /\ item.expected = old.expected /\ item.target = old.target
  BY ONLY old \in MigItem, <1>6, <1>7, <1>8 DEF MigItem
<1>11. ItemFits(s, x, item, migBindings[x])
  <2>1. ItemFits(s, x, old, migBindings[x]) /\ old.status # "none"
    BY <1>1, <1>2, <1>3, <1>4, <1>5, PlaceFacts
  <2> QED BY <1>10, <2>1 DEF ItemFits
<1>12. PICK items : items = [migItems[s] EXCEPT ![x] = item]
  OBVIOUS
<1>13. migItems[s] \in [MigSources -> MigItem] BY <1>4, ItemFacts
<1>14. items \in [MigSources -> MigItem] /\ items[x] = item /\ \A y \in MigSources : y # x => items[y] = migItems[s][y]
  BY <1>9, <1>12, <1>13
<1>15. migItems' = [migItems EXCEPT ![s] = items]
  BY <1>2, <1>3, <1>4, <1>5, <1>6, <1>7, <1>8, <1>12 DEF PrepareItem, MigShape
<1>16. \A y \in MigSources : ItemFits(s, y, items[y], migBindings[y]) /\ (migItems[s][y].received => items[y].received)
  BY <1>4, <1>5, <1>10, <1>11, <1>14
<1>17. SessionFits(migSessions[s], items) /\ SessionGoes(migSessions[s], migSessions[s], migItems[s], items)
  BY <1>4, <1>16, PreparingGoes
<1>18. PICK at \in {"classify", "prepare"}, next \in MigSources : at = "prepare" /\ next = MigAsset
  BY MigNames
<1>19. PICK record : record = [migWorkers[w] EXCEPT !.at = at, !.item = next]
  OBVIOUS
<1>20. record \in MigPlace /\ record.session = s /\ record.job = migWorkers[w].job /\ record.at = "prepare"
  <2>1. migWorkers[w] \in MigPlace BY <1>1, PlaceFacts
  <2> QED BY <1>2, <1>18, <1>19, <2>1 DEF MigPlace
<1>21. /\ ObjectsGo /\ MigStill /\ UNCHANGED <<migSessions, migWorld>>
       /\ migWorkers' = [migWorkers EXCEPT ![w] = record]
  BY <1>18, <1>19, ObjectsStill DEF PrepareItem, MigStill, Places
<1>22. StageFits(record, migSessions[s], items, migObjects', migStore') BY <1>20 DEF StageFits
<1> QED BY <1>1, <1>2, <1>14, <1>15, <1>16, <1>17, <1>20, <1>21, <1>22, PlaceMoves

LEMMA SpoilItemKeeps ==
  ASSUME MigIInv, NEW w \in MigWorkers, SpoilItem(w)
  PROVE  MigIInv'
<1>1. migWorkers[w].at = "write" /\ WorldFits /\ MigStill /\ ObjectsGo
  BY WorldStill, ObjectsStill DEF SpoilItem, MigStill
<1>2. PICK s \in MigSessions : s = migWorkers[w].session BY <1>1, PlaceFacts
<1>3. PICK x \in MigSources : x = migWorkers[w].item BY <1>1, PlaceFacts
<1>4. /\ MigShape /\ SessionFits(migSessions[s], migItems[s])
      /\ \A y \in MigSources : ItemFits(s, y, migItems[s][y], migBindings[y])
  BY DEF MigIInv
<1>5. PICK old \in MigItem : old = migItems[s][x] BY <1>4, ItemFacts
<1>6. PICK status \in {"none", "uploading", "pending", "prepared", "failed"} : status = "failed"
  OBVIOUS
<1>7. PICK item : item = [old EXCEPT !.status = status]
  OBVIOUS
<1>8. item \in MigItem
  BY ONLY old \in MigItem, status \in {"none", "uploading", "pending", "prepared", "failed"}, <1>7 DEF MigItem
<1>9. /\ item.status = "failed" /\ item.received = old.received /\ item.binding = old.binding
      /\ item.disposition = old.disposition /\ item.expected = old.expected /\ item.target = old.target
      /\ item.decision = old.decision
  BY ONLY old \in MigItem, <1>6, <1>7 DEF MigItem
<1>10. ItemFits(s, x, item, migBindings[x])
  <2>1. ItemFits(s, x, old, migBindings[x]) /\ old.status # "none"
    BY <1>1, <1>2, <1>3, <1>4, <1>5, PlaceFacts
  <2> QED BY <1>9, <2>1 DEF ItemFits
<1>11. PICK items : items = [migItems[s] EXCEPT ![x] = item]
  OBVIOUS
<1>12. migItems[s] \in [MigSources -> MigItem] BY <1>4, ItemFacts
<1>13. items \in [MigSources -> MigItem] /\ items[x] = item /\ \A y \in MigSources : y # x => items[y] = migItems[s][y]
  BY <1>8, <1>11, <1>12
<1>14. migItems' = [migItems EXCEPT ![s] = items]
  BY <1>2, <1>3, <1>4, <1>5, <1>6, <1>7, <1>11 DEF SpoilItem, MigShape
<1>15. \A y \in MigSources : /\ ItemFits(s, y, items[y], migBindings[y])
                             /\ migItems[s][y].received => items[y].received
                             /\ Applied(items, y) => Applied(migItems[s], y)
  BY <1>4, <1>5, <1>9, <1>10, <1>13 DEF Applied
<1>16. PICK ending \in {"done", "failed", "pending"} : ending = "failed"
  OBVIOUS
<1>17. PICK job \in MigJob : job = SettledJob(w, ending) BY <1>1, <1>16, SettledFits
<1>18. PICK was \in MigRow : was = migSessions[s] BY <1>4, ItemFacts
<1>19. PICK sort \in {"none", "uploading", "preparing", "ready", "committing", "completed", "failed", "cancelled"} :
         sort = IF was.status = "preparing" THEN "failed" ELSE was.status
  BY DEF MigRow
<1>20. PICK session : session = [was EXCEPT !.status = sort, !.job = job]
  OBVIOUS
<1>21. session \in MigRow /\ session.status = sort /\ session.plan = was.plan /\ session.job = job
  BY <1>20 DEF MigRow
<1>22. migSessions' = [migSessions EXCEPT ![s] = session]
  BY <1>2, <1>4, <1>16, <1>17, <1>18, <1>19, <1>20 DEF SpoilItem, MigShape
<1>23. migWorkers' = [migWorkers EXCEPT ![w] = MigIdle] BY DEF SpoilItem, Places
<1>24. session.status \in {"ready", "committing"} => Judged(session.plan, items)
  <2>1. SessionFits(was, migItems[s]) BY <1>4, <1>18
  <2>2. session.status \in {"ready", "committing"} => Judged(was.plan, migItems[s])
    BY <1>19, <1>21, <2>1 DEF SessionFits
  <2>3. \A y \in MigSources : /\ items[y].decision = migItems[s][y].decision
                              /\ items[y].disposition = migItems[s][y].disposition
                              /\ items[y].target = migItems[s][y].target
                              /\ items[y].expected = migItems[s][y].expected
                              /\ items[y].binding = migItems[s][y].binding
    BY <1>5, <1>9, <1>13
  <2> QED BY <1>21, <2>2, <2>3 DEF Judged
<1>25. \/ session.status = migSessions[s].status
       \/ session.status \in {"ready", "failed"} /\ migSessions[s].status \in {"preparing", "committing"}
  BY <1>18, <1>19, <1>21
<1>26. session.status = "committing" => session.plan = migSessions[s].plan BY <1>18, <1>21
<1>27. session.job = SettledJob(w, ending) /\ (ending = "pending" => migWorkers[w].job.attempts < MigAttempts)
  BY <1>16, <1>17, <1>21
<1> QED BY <1>1, <1>2, <1>13, <1>14, <1>15, <1>21, <1>22, <1>23, <1>24, <1>25, <1>26, <1>27, SettleMoves

LEMMA FinishPreparingKeeps ==
  ASSUME MigIInv, NEW w \in MigWorkers, FinishPreparing(w)
  PROVE  MigIInv'
<1>1. migWorkers[w].at = "prepare" /\ Preparing(w) /\ WorldFits /\ MigStill /\ ObjectsGo
  BY WorldStill, ObjectsStill DEF FinishPreparing, MigStill
<1>2. PICK s \in MigSessions : s = migWorkers[w].session BY <1>1, PlaceFacts
<1>3. /\ MigShape /\ migSessions[s].status = "preparing" /\ SessionFits(migSessions[s], migItems[s])
      /\ \A y \in MigSources : ItemFits(s, y, migItems[s][y], migBindings[y])
  BY <1>1, <1>2, PreparingFacts
<1>4. PICK plan \in MigPlans : plan = PlanOf(s) BY <1>3, PlanFits DEF MigPlans
<1>5. PICK ending \in {"done", "failed", "pending"} : ending = "done"
  OBVIOUS
<1>6. PICK job \in MigJob : job = SettledJob(w, ending) BY <1>1, <1>5, SettledFits
<1>7. PICK status \in {"none", "uploading", "preparing", "ready", "committing", "completed", "failed", "cancelled"} :
        status = "ready"
  OBVIOUS
<1>8. PICK session : session = [migSessions[s] EXCEPT !.status = status, !.plan = plan, !.job = job]
  OBVIOUS
<1>9. session \in MigRow /\ session.status = "ready" /\ session.plan = plan /\ session.job = job
  <2>1. migSessions[s] \in MigRow BY <1>3, ItemFacts
  <2> QED BY <1>7, <1>8, <2>1 DEF MigRow
<1>10. migSessions' = [migSessions EXCEPT ![s] = session]
  BY <1>2, <1>3, <1>4, <1>5, <1>6, <1>7, <1>8 DEF FinishPreparing, MigShape
<1>11. PICK items \in [MigSources -> MigItem] : items = migItems[s] BY <1>3, ItemFacts
<1>12. migItems' = [migItems EXCEPT ![s] = items] BY <1>3, <1>11 DEF FinishPreparing, MigShape
<1>13. migWorkers' = [migWorkers EXCEPT ![w] = MigIdle] BY DEF FinishPreparing, Places
<1>14. Judged(session.plan, items) BY <1>3, <1>4, <1>9, <1>11, PlanFits
<1>15. \A y \in MigSources : /\ ItemFits(s, y, items[y], migBindings[y])
                             /\ migItems[s][y].received => items[y].received
                             /\ Applied(items, y) => Applied(migItems[s], y)
  BY <1>3, <1>11
<1>16. session.job = SettledJob(w, ending) /\ (ending = "pending" => migWorkers[w].job.attempts < MigAttempts)
  BY <1>5, <1>6, <1>9
<1>17. \/ session.status = migSessions[s].status
       \/ session.status \in {"ready", "failed"} /\ migSessions[s].status \in {"preparing", "committing"}
  BY <1>3, <1>9
<1>18. session.status = "committing" => session.plan = migSessions[s].plan BY <1>9
<1> QED BY <1>1, <1>2, <1>9, <1>10, <1>12, <1>13, <1>14, <1>15, <1>16, <1>17, <1>18, SettleMoves

----------------
(* The user, and the queue.                                                     *)

\* What the user does to a session, no goroutine taking part.
LEMMA UserMoves ==
  ASSUME MigIInv, NEW s \in MigSessions, NEW session \in MigRow, NEW items \in [MigSources -> MigItem],
         migSessions' = [migSessions EXCEPT ![s] = session], migItems' = [migItems EXCEPT ![s] = items],
         UNCHANGED <<migBindings, migDocuments, migFiles, migObjects, migStore, migWorld, migWorkers>>,
         SessionGoes(migSessions[s], session, migItems[s], items), SessionFits(session, items),
         \A x \in MigSources : ItemFits(s, x, items[x], migBindings[x]),
         \A w \in MigWorkers : HolderStays(w, migSessions[s].job, session.job)
  PROVE  MigIInv'
<1>1. ObjectsGo /\ WorldFits /\ MigStill BY ObjectsStill, WorldStill DEF MigStill
<1>2. migWorkers' \in [MigWorkers -> MigPlace] /\ \A w \in MigWorkers : migWorkers'[w] = migWorkers[w]
  BY DEF MigIInv, MigShape
<1> QED BY <1>1, <1>2, SessionMoves

LEMMA SessionFacts ==
  ASSUME MigIInv, NEW s \in MigSessions
  PROVE  /\ MigShape /\ migSessions[s] \in MigRow /\ migItems[s] \in [MigSources -> MigItem]
         /\ migSessions[s].job \in MigJob /\ migSessions[s].job.n \in Nat
         /\ SessionFits(migSessions[s], migItems[s])
         /\ \A x \in MigSources : ItemFits(s, x, migItems[s][x], migBindings[x])
         /\ migItems = [migItems EXCEPT ![s] = migItems[s]] /\ migSessions = [migSessions EXCEPT ![s] = migSessions[s]]
<1>1. MigShape BY DEF MigIInv
<1> QED BY <1>1, ItemFacts DEF MigIInv, MigShape

LEMMA CreateMigrationKeeps ==
  ASSUME MigIInv, NEW s \in MigSessions, CreateMigration(s)
  PROVE  MigIInv'
<1>1. PICK old \in MigRow, items \in [MigSources -> MigItem] : old = migSessions[s] /\ items = migItems[s]
  BY SessionFacts
<1>2. PICK status \in {"none", "uploading", "preparing", "ready", "committing", "completed", "failed", "cancelled"} :
        status = "uploading"
  OBVIOUS
<1>3. PICK session : session = [old EXCEPT !.status = status]
  OBVIOUS
<1>4. session \in MigRow /\ session.status = "uploading" /\ session.plan = old.plan /\ session.job = old.job
  BY <1>2, <1>3 DEF MigRow
<1>5. migSessions' = [migSessions EXCEPT ![s] = session] /\ old.status = "none"
  BY <1>1, <1>2, <1>3, SessionFacts DEF CreateMigration, MigShape
<1>6. migItems' = [migItems EXCEPT ![s] = items] BY <1>1, SessionFacts DEF CreateMigration
<1>7. SessionFits(session, items) /\ SessionGoes(old, session, migItems[s], items)
  BY <1>1, <1>4, <1>5, SessionFacts DEF SessionFits, SessionGoes
<1>8. \A w \in MigWorkers : HolderStays(w, old.job, session.job) BY <1>4 DEF HolderStays
<1>9. \A x \in MigSources : ItemFits(s, x, items[x], migBindings[x]) BY <1>1, SessionFacts
<1>10. UNCHANGED <<migBindings, migDocuments, migFiles, migObjects, migStore, migWorld, migWorkers>>
  BY DEF CreateMigration
<1> QED BY <1>1, <1>4, <1>5, <1>6, <1>7, <1>8, <1>9, <1>10, UserMoves

LEMMA CancelMigrationKeeps ==
  ASSUME MigIInv, NEW s \in MigSessions, CancelMigration(s)
  PROVE  MigIInv'
<1>1. PICK old \in MigRow, items \in [MigSources -> MigItem] : old = migSessions[s] /\ items = migItems[s]
  BY SessionFacts
<1>2. PICK status \in {"none", "uploading", "preparing", "ready", "committing", "completed", "failed", "cancelled"} :
        status = "cancelled"
  OBVIOUS
<1>3. PICK job : job = [old.job EXCEPT !.cancel = TRUE]
  OBVIOUS
<1>4. /\ job \in MigJob /\ job.n = old.job.n /\ job.plan = old.job.plan /\ job.kind = old.job.kind
      /\ job.status = old.job.status /\ job.holder = old.job.holder /\ job.attempts = old.job.attempts
  <2>1. old.job \in MigJob BY DEF MigRow
  <2> QED BY ONLY <1>3, <2>1 DEF MigJob
<1>5. PICK session : session = [old EXCEPT !.status = status, !.job = job]
  OBVIOUS
<1>6. session \in MigRow /\ session.status = "cancelled" /\ session.plan = old.plan /\ session.job = job
  BY <1>2, <1>4, <1>5 DEF MigRow
<1>7. migSessions' = [migSessions EXCEPT ![s] = session] /\ old.status \notin {"completed", "cancelled"}
  <2>1. migSessions' = [migSessions EXCEPT ![s] = [migSessions[s] EXCEPT !.status = "cancelled", !.job =
                          [migSessions[s].job EXCEPT !.cancel = TRUE]]]
    <3>1. migSessions' = [migSessions EXCEPT ![s].status = "cancelled", ![s].job.cancel = TRUE]
      BY DEF CancelMigration
    <3>2. migSessions \in [MigSessions -> MigRow] BY SessionFacts DEF MigShape
    <3> QED BY <3>1, <3>2
  <2>2. old.status \notin {"completed", "cancelled"} BY <1>1 DEF CancelMigration
  <2> QED BY <1>1, <1>2, <1>3, <1>5, <2>1, <2>2
<1>8. migItems' = [migItems EXCEPT ![s] = items] BY <1>1, SessionFacts DEF CancelMigration
<1>9. SessionFits(old, items) /\ old.job.n \in Nat BY <1>1, SessionFacts
<1>10. SessionFits(session, items) /\ SessionGoes(old, session, migItems[s], items)
  BY <1>1, <1>4, <1>6, <1>7, <1>9 DEF SessionFits, SessionGoes, MigJobFits
<1>11. \A w \in MigWorkers : HolderStays(w, old.job, session.job) BY <1>4, <1>6 DEF HolderStays
<1>12. \A x \in MigSources : ItemFits(s, x, items[x], migBindings[x]) BY <1>1, SessionFacts
<1>13. UNCHANGED <<migBindings, migDocuments, migFiles, migObjects, migStore, migWorld, migWorkers>>
  BY DEF CancelMigration
<1> QED BY <1>1, <1>6, <1>7, <1>8, <1>10, <1>11, <1>12, <1>13, UserMoves

LEMMA NextJobFits ==
  ASSUME MigIInv, NEW s \in MigSessions, migSessions[s].job.n < MigJobs, NEW kind \in {"prepare", "commit"}, NEW plan \in MigPlans
  PROVE  LET old == migSessions[s].job  job == NextJob(s, kind, plan) IN
           /\ job \in MigJob /\ MigJobFits(job) /\ job.n > old.n /\ job.kind = kind /\ job.plan = plan
           /\ \A w \in MigWorkers : HolderStays(w, old, job)
<1>1. PICK old \in MigJob : old = migSessions[s].job BY SessionFacts
<1>2. old.n \in 0 .. MigJobs /\ MigJobs \in Nat /\ MigAttempts \in Nat \ {0}
  BY MigAssumption DEF MigJob, MigAssumption
<1>3. PICK n \in 0 .. MigJobs : n = old.n + 1 BY <1>1, <1>2
<1>4. n > old.n /\ n \in Nat BY <1>2, <1>3
<1>5. PICK status \in {"pending", "running", "done", "failed", "cancelled"} : status = "pending"
  OBVIOUS
<1>6. PICK job : job = [NoMigJob EXCEPT !.n = n, !.kind = kind, !.status = status, !.plan = plan]
  OBVIOUS
<1>7. NextJob(s, kind, plan) = job BY <1>1, <1>3, <1>5, <1>6 DEF NextJob
<1>8. job \in MigJob /\ job.n = n /\ job.kind = kind /\ job.status = status /\ job.plan = plan
  BY <1>6, IdlePlace DEF MigJob
<1>9. job.attempts = 0 BY <1>6, IdlePlace DEF MigJob, NoMigJob
<1>10. MigJobFits(job) BY <1>2, <1>4, <1>8, <1>9 DEF MigJobFits
<1>11. \A w \in MigWorkers : HolderStays(w, old, job) BY <1>2, <1>4, <1>8 DEF HolderStays
<1> QED BY <1>1, <1>4, <1>7, <1>8, <1>10, <1>11

\* A session that gets its next job.
LEMMA JobMoves ==
  ASSUME MigIInv, NEW s \in MigSessions, migSessions[s].job.n < MigJobs, migSessions[s].status \notin {"completed", "cancelled"},
         NEW kind \in {"prepare", "commit"}, NEW plan \in MigPlans,
         NEW status \in {"preparing", "committing"}, status = "committing" => kind = "commit" /\ plan = migSessions[s].plan,
         migSessions' = [migSessions EXCEPT ![s].status = status, ![s].job = NextJob(s, kind, plan)],
         NEW items \in [MigSources -> MigItem], migItems' = [migItems EXCEPT ![s] = items],
         \A x \in MigSources : ItemFits(s, x, items[x], migBindings[x]) /\ items[x].received,
         status = "committing" => Judged(plan, items),
         UNCHANGED <<migBindings, migDocuments, migFiles, migObjects, migStore, migWorld, migWorkers>>
  PROVE  MigIInv'
<1>1. PICK old \in MigRow : old = migSessions[s] BY SessionFacts
<1>2. PICK job \in MigJob : job = NextJob(s, kind, plan) BY NextJobFits
<1>3. /\ MigJobFits(job) /\ job.n > old.job.n /\ job.kind = kind /\ job.plan = plan
      /\ \A w \in MigWorkers : HolderStays(w, old.job, job)
  BY <1>1, <1>2, NextJobFits
<1>4. job.n \in Nat /\ old.job.n \in Nat BY <1>1, <1>2, SessionFacts DEF MigJob
<1>5. PICK session : session = [old EXCEPT !.status = status, !.job = job]
  OBVIOUS
<1>6. session \in MigRow /\ session.status = status /\ session.plan = old.plan /\ session.job = job
  BY <1>5 DEF MigRow
<1>7. migSessions' = [migSessions EXCEPT ![s] = session]
  BY <1>1, <1>2, <1>5, SessionFacts DEF MigShape
<1>8. SessionFits(session, items) BY <1>1, <1>3, <1>6 DEF SessionFits
<1>9. job.n # old.job.n /\ job.n >= old.job.n BY <1>3, <1>4
<1>10. SessionGoes(old, session, migItems[s], items) BY <1>1, <1>6, <1>9 DEF SessionGoes
<1> QED BY <1>1, <1>3, <1>6, <1>7, <1>8, <1>10, UserMoves

LEMMA RegisterItemsKeeps ==
  ASSUME MigIInv, NEW s \in MigSessions, NEW hash \in 1 .. 2, RegisterItems(s, hash)
  PROVE  MigIInv'
<1>1. PICK session \in MigRow : session = migSessions[s] BY SessionFacts
<1>2. PICK items : items = [x \in MigSources |-> [NoItem EXCEPT !.status = "uploading", !.target = <<s, x>>,
                                                                !.hash = IF x = MigAsset THEN 1 ELSE hash]]
  OBVIOUS
<1>3. ASSUME NEW x \in MigSources
      PROVE  /\ items[x] \in MigItem /\ ItemFits(s, x, items[x], migBindings[x])
  <2>1. PICK number \in Nat : number = IF x = MigAsset THEN 1 ELSE hash
    OBVIOUS
  <2>2. PICK item : item = [hash |-> number, received |-> FALSE, checkpoint |-> 0, status |-> "uploading",
           disposition |-> "new", target |-> <<s, x>>, expected |-> 0, binding |-> 0, decision |-> "apply"]
    OBVIOUS
  <2>3. items[x] = item BY <1>2, <2>1, <2>2 DEF NoItem
  <2>4. item \in MigItem BY <2>1, <2>2, MigNames DEF MigItem
  <2>5. ItemFits(s, x, item, migBindings[x]) BY <2>2 DEF ItemFits
  <2> QED BY <2>3, <2>4, <2>5
<1>4. items \in [MigSources -> MigItem] BY <1>2, <1>3
<1>5. session.status = "uploading" /\ session.job.n = 0
  <2>1. ~migItems[s][MigAsset].received BY SessionFacts, MigNames DEF RegisterItems, ItemFits
  <2>2. PICK n \in Nat : n = session.job.n BY <1>1, SessionFacts
  <2>3. ~(n > 0) BY <1>1, <2>1, <2>2, SessionFacts, MigNames DEF SessionFits
  <2>4. session.status = "uploading" BY <1>1 DEF RegisterItems
  <2>5. n = 0 BY ONLY n \in Nat, <2>3
  <2> QED BY <2>2, <2>4, <2>5
<1>6. SessionFits(session, items)
  <2>1. SessionFits(session, migItems[s]) BY <1>1, SessionFacts
  <2> QED BY <1>5, <2>1 DEF SessionFits
<1>7. SessionGoes(migSessions[s], session, migItems[s], items) BY <1>1, <1>5 DEF SessionGoes
<1>8. migSessions' = [migSessions EXCEPT ![s] = session] /\ migItems' = [migItems EXCEPT ![s] = items]
  BY <1>1, <1>2, SessionFacts DEF RegisterItems
<1>9. \A w \in MigWorkers : HolderStays(w, migSessions[s].job, session.job) BY <1>1 DEF HolderStays
<1>10. UNCHANGED <<migBindings, migDocuments, migFiles, migObjects, migStore, migWorld, migWorkers>>
  BY DEF RegisterItems
<1> QED BY <1>3, <1>4, <1>6, <1>7, <1>8, <1>9, <1>10, UserMoves

LEMMA UploadChunkKeeps ==
  ASSUME MigIInv, NEW s \in MigSessions, NEW x \in MigSources, UploadChunk(s, x)
  PROVE  MigIInv'
<1>1. PICK session \in MigRow : session = migSessions[s] BY SessionFacts
<1>2. PICK old \in MigItem : old = migItems[s][x] BY SessionFacts
<1>3. PICK status \in {"none", "uploading", "pending", "prepared", "failed"} : status = "pending"
  OBVIOUS
<1>4. PICK item : item = [old EXCEPT !.received = TRUE, !.status = status]
  OBVIOUS
<1>5. item \in MigItem
  BY ONLY old \in MigItem, status \in {"none", "uploading", "pending", "prepared", "failed"}, <1>4 DEF MigItem
<1>6. /\ item.status = "pending" /\ item.received /\ item.binding = old.binding
      /\ item.disposition = old.disposition /\ item.expected = old.expected /\ item.target = old.target
  BY ONLY old \in MigItem, <1>3, <1>4 DEF MigItem
<1>7. ItemFits(s, x, item, migBindings[x])
  <2>1. ItemFits(s, x, old, migBindings[x]) /\ old.status = "uploading"
    BY <1>2, SessionFacts DEF UploadChunk, Earliest
  <2> QED BY <1>6, <2>1 DEF ItemFits
<1>8. PICK items : items = [migItems[s] EXCEPT ![x] = item]
  OBVIOUS
<1>9. items \in [MigSources -> MigItem] /\ items[x] = item /\ \A y \in MigSources : y # x => items[y] = migItems[s][y]
  BY <1>5, <1>8, SessionFacts
<1>10. migItems' = [migItems EXCEPT ![s] = items]
  <2>1. migItems' = [migItems EXCEPT ![s] = [migItems[s] EXCEPT ![x] =
                       [migItems[s][x] EXCEPT !.received = TRUE, !.status = "pending"]]]
    <3>1. migItems' = [migItems EXCEPT ![s][x].received = TRUE, ![s][x].status = "pending"]
      BY DEF UploadChunk
    <3>2. migItems \in [MigSessions -> [MigSources -> MigItem]] BY SessionFacts DEF MigShape
    <3> QED BY <3>1, <3>2
  <2> QED BY <1>2, <1>3, <1>4, <1>8, <2>1
<1>11. \A y \in MigSources : ItemFits(s, y, items[y], migBindings[y]) /\ (migItems[s][y].received => items[y].received)
  BY <1>6, <1>7, <1>9, SessionFacts
<1>12. session.status = "uploading" /\ session.job.n \in Nat BY <1>1, SessionFacts DEF UploadChunk
<1>13. SessionFits(session, items)
  <2>1. SessionFits(session, migItems[s]) BY <1>1, SessionFacts
  <2> QED BY <1>11, <1>12, <2>1 DEF SessionFits
<1>14. SessionGoes(migSessions[s], session, migItems[s], items) BY <1>1, <1>12 DEF SessionGoes
<1>15. migSessions' = [migSessions EXCEPT ![s] = session] BY <1>1, SessionFacts DEF UploadChunk
<1>16. \A w \in MigWorkers : HolderStays(w, migSessions[s].job, session.job) BY <1>1 DEF HolderStays
<1>17. UNCHANGED <<migBindings, migDocuments, migFiles, migObjects, migStore, migWorld, migWorkers>>
  BY DEF UploadChunk
<1> QED BY <1>9, <1>10, <1>11, <1>13, <1>14, <1>15, <1>16, <1>17, UserMoves

LEMMA BeginPrepareKeeps ==
  ASSUME MigIInv, NEW s \in MigSessions, BeginPrepare(s)
  PROVE  MigIInv'
<1>1. PICK old \in MigRow : old = migSessions[s] BY SessionFacts
<1>2. old.status \in {"uploading", "failed"} /\ \A x \in MigSources : migItems[s][x].received
  BY <1>1 DEF BeginPrepare
<1>3. UNCHANGED <<migBindings, migDocuments, migFiles, migObjects, migStore, migWorld, migWorkers>>
  BY DEF BeginPrepare
<1>4. CASE old.status = "failed" /\ Staged(s)
  <2>1. PICK plan \in MigPlans : plan = PlanOf(s) BY SessionFacts, PlanFits DEF MigPlans
  <2>2. PICK status \in {"none", "uploading", "preparing", "ready", "committing", "completed", "failed", "cancelled"} :
          status = "ready"
    OBVIOUS
  <2>3. PICK session : session = [old EXCEPT !.status = status, !.plan = plan]
    OBVIOUS
  <2>4. session \in MigRow /\ session.status = "ready" /\ session.plan = plan /\ session.job = old.job
    BY <2>2, <2>3 DEF MigRow
  <2>5. migSessions' = [migSessions EXCEPT ![s] = session] /\ migItems' = migItems
    BY <1>1, <1>4, <2>1, <2>2, <2>3, SessionFacts DEF BeginPrepare, MigShape
  <2>6. PICK items \in [MigSources -> MigItem] : items = migItems[s] BY SessionFacts
  <2>7. migItems' = [migItems EXCEPT ![s] = items] BY <2>5, <2>6, SessionFacts
  <2>8. SessionFits(session, items)
    <3>1. Judged(plan, items) BY <2>1, <2>6, SessionFacts, PlanFits
    <3>2. MigJobFits(old.job) BY <1>1, SessionFacts DEF SessionFits
    <3> QED BY <1>2, <2>4, <2>6, <3>1, <3>2 DEF SessionFits
  <2>9. SessionGoes(old, session, migItems[s], items)
    <3>1. old.job.n \in Nat BY <1>1, SessionFacts
    <3> QED BY <1>2, <2>4, <2>6, <3>1 DEF SessionGoes
  <2>10. \A w \in MigWorkers : HolderStays(w, migSessions[s].job, session.job)
    BY <1>1, <2>4 DEF HolderStays
  <2>11. \A x \in MigSources : ItemFits(s, x, items[x], migBindings[x]) BY <2>6, SessionFacts
  <2> QED BY <1>1, <1>3, <2>4, <2>5, <2>7, <2>8, <2>9, <2>10, <2>11, UserMoves
<1>5. CASE ~(old.status = "failed" /\ Staged(s))
  <2>1. PICK plan \in MigPlans : plan = <<>> BY MigNames
  <2>2. PICK status \in {"preparing", "committing"}, kind \in {"prepare", "commit"} : status = "preparing" /\ kind = "prepare"
    OBVIOUS
  <2>3. PICK items : items = [x \in MigSources |->
              IF old.status = "failed" THEN [migItems[s][x] EXCEPT !.checkpoint = 0, !.status = "pending"] ELSE migItems[s][x]]
    OBVIOUS
  <2>4. /\ migSessions' = [migSessions EXCEPT ![s].status = status, ![s].job = NextJob(s, kind, plan)]
        /\ migItems' = [migItems EXCEPT ![s] = items] /\ migSessions[s].job.n < MigJobs
    BY <1>1, <1>5, <2>1, <2>2, <2>3 DEF BeginPrepare
  <2>5. ASSUME NEW x \in MigSources
        PROVE  items[x] \in MigItem /\ ItemFits(s, x, items[x], migBindings[x]) /\ items[x].received
    <3>1. PICK was \in MigItem : was = migItems[s][x] BY SessionFacts
    <3>2. ItemFits(s, x, was, migBindings[x]) /\ was.received BY <1>2, <3>1, SessionFacts
    <3>3. CASE old.status # "failed" BY <2>3, <3>1, <3>2, <3>3
    <3>4. CASE old.status = "failed"
      <4>1. PICK zero \in 0 .. 2, state \in {"none", "uploading", "pending", "prepared", "failed"} : zero = 0 /\ state = "pending"
        OBVIOUS
      <4>2. PICK item : item = [was EXCEPT !.checkpoint = zero, !.status = state]
        OBVIOUS
      <4>3. items[x] = item BY <2>3, <3>1, <3>4, <4>1, <4>2
      <4>4. item \in MigItem
        BY ONLY was \in MigItem, zero \in 0 .. 2, state \in {"none", "uploading", "pending", "prepared", "failed"}, <4>2 DEF MigItem
      <4>5. /\ item.status = "pending" /\ item.received = was.received /\ item.binding = was.binding
            /\ item.disposition = was.disposition /\ item.expected = was.expected /\ item.target = was.target
        BY ONLY was \in MigItem, <4>1, <4>2 DEF MigItem
      <4>6. ItemFits(s, x, item, migBindings[x]) BY <3>2, <4>5 DEF ItemFits
      <4> QED BY <3>2, <4>3, <4>4, <4>5, <4>6
    <3> QED BY <3>3, <3>4
  <2>6. items \in [MigSources -> MigItem] BY <2>3, <2>5
  <2>7. migSessions[s].status \notin {"completed", "cancelled"} /\ status # "committing"
    BY <1>1, <1>2, <2>2
  <2> QED BY <1>3, <2>4, <2>5, <2>6, <2>7, JobMoves
<1> QED BY <1>4, <1>5

LEMMA ReviewItemKeeps ==
  ASSUME MigIInv, NEW s \in MigSessions, NEW x \in MigSources, NEW decision \in {"apply", "skip"}, ReviewItem(s, x, decision)
  PROVE  MigIInv'
<1>1. PICK was \in MigRow : was = migSessions[s] BY SessionFacts
<1>2. was.status = "ready" /\ was.plan = PlanOf(s) BY <1>1 DEF ReviewItem
<1>3. PICK old \in MigItem : old = migItems[s][x] BY SessionFacts
<1>4. PICK item : item = [old EXCEPT !.decision = decision]
  OBVIOUS
<1>5. item \in MigItem BY ONLY old \in MigItem, decision \in {"apply", "skip"}, <1>4 DEF MigItem
<1>6. /\ item.decision = decision /\ item.received = old.received /\ item.binding = old.binding /\ item.checkpoint = old.checkpoint
      /\ item.disposition = old.disposition /\ item.expected = old.expected /\ item.target = old.target /\ item.status = old.status
  BY ONLY old \in MigItem, decision \in {"apply", "skip"}, <1>4 DEF MigItem
<1>7. PICK items : items = [migItems[s] EXCEPT ![x] = item]
  OBVIOUS
<1>8. items \in [MigSources -> MigItem] /\ items[x] = item /\ \A y \in MigSources : y # x => items[y] = migItems[s][y]
  BY <1>5, <1>7, SessionFacts
<1>9. migItems' = [migItems EXCEPT ![s] = items]
  BY <1>3, <1>4, <1>7, SessionFacts DEF ReviewItem, MigShape
<1>10. \A y \in MigSources : ItemFits(s, y, items[y], migBindings[y])
  <2>1. ItemFits(s, x, item, migBindings[x])
    <3>1. ItemFits(s, x, old, migBindings[x]) BY <1>3, SessionFacts
    <3> QED BY <1>6, <3>1 DEF ItemFits
  <2> QED BY <1>8, <2>1, SessionFacts
<1>11. PICK planned : planned = [PlanOf(s)[x] EXCEPT !.decision = decision]
  OBVIOUS
<1>12. PlanOf(s) \in [MigSources -> MigItem] /\ Judged(PlanOf(s), migItems[s])
  BY SessionFacts, PlanFits
<1>13. /\ planned \in MigItem /\ planned.decision = decision /\ planned.disposition = PlanOf(s)[x].disposition
       /\ planned.target = PlanOf(s)[x].target /\ planned.expected = PlanOf(s)[x].expected
       /\ planned.binding = PlanOf(s)[x].binding
  <2>1. PICK entry \in MigItem : entry = PlanOf(s)[x] BY <1>12
  <2>2. planned = [entry EXCEPT !.decision = decision] BY <1>11, <2>1
  <2> QED BY <2>1, <2>2 DEF MigItem
<1>14. PICK plan : plan = [PlanOf(s) EXCEPT ![x] = planned]
  OBVIOUS
<1>15. /\ plan \in [MigSources -> MigItem] /\ plan[x] = planned
       /\ \A y \in MigSources : y # x => plan[y] = PlanOf(s)[y]
  BY <1>12, <1>13, <1>14
<1>16. Judged(plan, items) BY <1>3, <1>6, <1>8, <1>12, <1>13, <1>15 DEF Judged
<1>17. PICK session : session = [was EXCEPT !.plan = plan]
  OBVIOUS
<1>18. session \in MigRow /\ session.status = "ready" /\ session.plan = plan /\ session.job = was.job
  <2>1. plan \in MigPlans BY <1>15 DEF MigPlans
  <2> QED BY <1>2, <1>17, <2>1 DEF MigRow
<1>19. migSessions' = [migSessions EXCEPT ![s] = session]
  <2>1. migSessions' = [migSessions EXCEPT ![s] = [migSessions[s] EXCEPT !.plan =
                          [migSessions[s].plan EXCEPT ![x] = [migSessions[s].plan[x] EXCEPT !.decision = decision]]]]
    BY DEF ReviewItem
  <2> QED BY <1>1, <1>2, <1>11, <1>14, <1>17, <2>1
<1>20. SessionFits(session, items)
  <2>1. MigJobFits(was.job) /\ \A y \in MigSources : migItems[s][y].received
    BY <1>1, <1>2, SessionFacts DEF SessionFits
  <2>2. \A y \in MigSources : items[y].received BY <1>3, <1>6, <1>8, <2>1
  <2> QED BY <1>16, <1>18, <2>1, <2>2 DEF SessionFits
<1>21. SessionGoes(migSessions[s], session, migItems[s], items)
  <2>1. was.job.n \in Nat BY <1>1, SessionFacts
  <2> QED BY <1>1, <1>2, <1>18, <2>1 DEF SessionGoes
<1>22. \A w \in MigWorkers : HolderStays(w, migSessions[s].job, session.job)
  BY <1>1, <1>18 DEF HolderStays
<1>23. UNCHANGED <<migBindings, migDocuments, migFiles, migObjects, migStore, migWorld, migWorkers>>
  BY DEF ReviewItem
<1> QED BY <1>8, <1>9, <1>10, <1>18, <1>19, <1>20, <1>21, <1>22, <1>23, UserMoves

LEMMA CommitMigrationKeeps ==
  ASSUME MigIInv, NEW s \in MigSessions, CommitMigration(s)
  PROVE  MigIInv'
<1>1. PICK plan \in MigPlans : plan = PlanOf(s) BY SessionFacts, PlanFits DEF MigPlans
<1>2. PICK status \in {"preparing", "committing"}, kind \in {"prepare", "commit"} : status = "committing" /\ kind = "commit"
  OBVIOUS
<1>3. PICK items \in [MigSources -> MigItem] : items = migItems[s] BY SessionFacts
<1>4. /\ migSessions' = [migSessions EXCEPT ![s].status = status, ![s].job = NextJob(s, kind, plan)]
      /\ migItems' = [migItems EXCEPT ![s] = items] /\ migSessions[s].job.n < MigJobs
      /\ migSessions[s].status = "ready" /\ migSessions[s].plan = plan
  BY <1>1, <1>2, <1>3, SessionFacts DEF CommitMigration
<1>5. Judged(plan, items) BY <1>1, <1>3, SessionFacts, PlanFits
<1>6. \A x \in MigSources : ItemFits(s, x, items[x], migBindings[x]) /\ items[x].received
  BY <1>3, <1>4, SessionFacts DEF SessionFits
<1>7. UNCHANGED <<migBindings, migDocuments, migFiles, migObjects, migStore, migWorld, migWorkers>>
  BY DEF CommitMigration
<1> QED BY <1>2, <1>4, <1>5, <1>6, <1>7, JobMoves

LEMMA ClaimMigrationKeeps ==
  ASSUME MigIInv, NEW w \in MigWorkers, NEW s \in MigSessions, ClaimMigration(w, s)
  PROVE  MigIInv'
<1>1. PICK was \in MigRow, items \in [MigSources -> MigItem], old \in MigJob :
        was = migSessions[s] /\ items = migItems[s] /\ old = was.job
  BY SessionFacts
<1>2. MigJobFits(old) /\ old.status = "pending" /\ SessionFits(was, items) /\ NoMigWorker \notin MigWorkers
  BY <1>1, SessionFacts, MigAssumption DEF SessionFits, ClaimMigration, MigAssumption
<1>3. old.attempts \in 0 .. MigAttempts /\ MigAttempts \in Nat /\ old.n > 0 /\ old.n \in Nat
  BY <1>2, MigAssumption DEF MigAssumption, MigJob, MigJobFits
<1>4. PICK attempts \in 0 .. MigAttempts : attempts = old.attempts + 1 BY <1>2, <1>3 DEF MigJobFits
<1>5. PICK status \in {"pending", "running", "done", "failed", "cancelled"} : status = "running"
  OBVIOUS
<1>6. PICK job : job = [old EXCEPT !.status = status, !.attempts = attempts, !.holder = w]
  OBVIOUS
<1>7. /\ job \in MigJob /\ job.n = old.n /\ job.plan = old.plan /\ job.kind = old.kind
      /\ job.status = "running" /\ job.holder = w
  BY <1>5, <1>6 DEF MigJob
<1>8. PICK session : session = [was EXCEPT !.job = job]
  OBVIOUS
<1>9. session \in MigRow /\ session.status = was.status /\ session.plan = was.plan /\ session.job = job
  BY <1>7, <1>8 DEF MigRow
<1>10. PICK record : record = [MigIdle EXCEPT !.at = "begin", !.session = s, !.job = job]
  OBVIOUS
<1>11. record \in MigPlace /\ record.at = "begin" /\ record.session = s /\ record.job = job
  BY <1>7, <1>10, IdlePlace DEF MigPlace
<1>12. /\ migSessions' = [migSessions EXCEPT ![s] = session] /\ migWorkers' = [migWorkers EXCEPT ![w] = record]
       /\ migItems' = [migItems EXCEPT ![s] = items]
  BY <1>1, <1>4, <1>5, <1>6, <1>8, <1>10, SessionFacts DEF ClaimMigration, Places, MigShape
<1>13. ObjectsGo /\ WorldFits /\ MigStill BY ObjectsStill, WorldStill DEF ClaimMigration, MigStill
<1>14. SessionFits(session, items) /\ SessionGoes(was, session, migItems[s], items)
  <2>1. MigJobFits(job) BY <1>3, <1>7 DEF MigJobFits
  <2> QED BY <1>1, <1>2, <1>3, <1>7, <1>9, <2>1 DEF SessionFits, SessionGoes
<1>15. JobFits(w, record, job) /\ StageFits(record, session, items, migObjects', migStore')
  BY <1>3, <1>7, <1>11 DEF JobFits, StageFits
<1>16. migWorkers' \in [MigWorkers -> MigPlace] BY <1>11, <1>12, SessionFacts DEF MigShape
<1>17. ASSUME NEW v \in MigWorkers
       PROVE  \/ migWorkers'[v] = migWorkers[v] /\ HolderStays(v, migSessions[s].job, session.job)
              \/ migWorkers'[v].at = "idle"
              \/ /\ migWorkers'[v].session = s /\ JobFits(v, migWorkers'[v], session.job)
                 /\ StageFits(migWorkers'[v], session, items, migObjects', migStore')
  <2>1. CASE v = w
    <3>1. migWorkers'[v] = record BY <1>12, <2>1, SessionFacts DEF MigShape
    <3> QED BY <1>9, <1>11, <1>15, <2>1, <3>1
  <2>2. CASE v # w
    <3>1. migWorkers'[v] = migWorkers[v] BY <1>12, <2>2, SessionFacts DEF MigShape
    <3>2. HolderStays(v, old, job) BY <1>7, <2>2 DEF HolderStays
    <3> QED BY <1>1, <1>9, <3>1, <3>2
  <2> QED BY <2>1, <2>2
<1>18. \A x \in MigSources : ItemFits(s, x, items[x], migBindings[x]) BY <1>1, SessionFacts
<1> QED BY <1>1, <1>9, <1>12, <1>13, <1>14, <1>16, <1>17, <1>18, SessionMoves

LEMMA LoseMigrationKeeps ==
  ASSUME MigIInv, NEW s \in MigSessions, LoseMigration(s)
  PROVE  MigIInv'
<1>1. PICK was \in MigRow, items \in [MigSources -> MigItem], old \in MigJob :
        was = migSessions[s] /\ items = migItems[s] /\ old = was.job
  BY SessionFacts
<1>2. /\ MigJobFits(old) /\ old.status = "running" /\ SessionFits(was, items)
      /\ NoMigWorker \notin MigWorkers /\ MigAttempts \in Nat
  BY <1>1, SessionFacts, MigAssumption DEF SessionFits, LoseMigration, MigAssumption
<1>3. PICK status \in {"pending", "running", "done", "failed", "cancelled"} :
        status = IF old.cancel THEN "cancelled" ELSE IF old.attempts < MigAttempts THEN "pending" ELSE "failed"
  OBVIOUS
<1>4. PICK job : job = [old EXCEPT !.holder = NoMigWorker, !.status = status]
  OBVIOUS
<1>5. /\ job \in MigJob /\ job.n = old.n /\ job.plan = old.plan /\ job.kind = old.kind
      /\ job.status = status /\ job.holder = NoMigWorker /\ job.attempts = old.attempts
  BY <1>4 DEF MigJob
<1>6. MigJobFits(job) /\ old.n > 0 /\ old.n \in Nat
  <2>1. old.n > 0 /\ old.n \in Nat BY <1>2 DEF MigJobFits, MigJob
  <2>2. status = "pending" => old.attempts < MigAttempts BY <1>3
  <2> QED BY <1>5, <2>1, <2>2 DEF MigJobFits
<1>7. PICK session : session = [was EXCEPT !.job = job]
  OBVIOUS
<1>8. session \in MigRow /\ session.status = was.status /\ session.plan = was.plan /\ session.job = job
  BY <1>5, <1>7 DEF MigRow
<1>9. /\ migSessions' = [migSessions EXCEPT ![s] = session] /\ migItems' = [migItems EXCEPT ![s] = items]
      /\ migWorkers' = migWorkers \/ migWorkers' = [migWorkers EXCEPT ![old.holder] = MigIdle]
  BY <1>1, <1>3, <1>4, <1>7, SessionFacts DEF LoseMigration, Places, MigShape
<1>10. ObjectsGo /\ WorldFits /\ MigStill BY ObjectsStill, WorldStill DEF LoseMigration, MigStill
<1>11. SessionFits(session, items) /\ SessionGoes(was, session, migItems[s], items)
  BY <1>1, <1>2, <1>5, <1>6, <1>8 DEF SessionFits, SessionGoes
<1>12. migWorkers' \in [MigWorkers -> MigPlace] BY <1>9, SessionFacts, IdlePlace DEF MigShape
<1>13. ASSUME NEW v \in MigWorkers
       PROVE  \/ migWorkers'[v] = migWorkers[v] /\ HolderStays(v, migSessions[s].job, session.job)
              \/ migWorkers'[v].at = "idle"
  <2>1. HolderStays(v, old, job) BY <1>2, <1>5 DEF HolderStays
  <2>2. migWorkers'[v] = migWorkers[v] \/ migWorkers'[v] = MigIdle
    BY <1>9, SessionFacts DEF MigShape
  <2> QED BY <1>1, <1>8, <2>1, <2>2, IdlePlace
<1>14. \A x \in MigSources : ItemFits(s, x, items[x], migBindings[x]) BY <1>1, SessionFacts
<1> QED BY <1>1, <1>8, <1>9, <1>10, <1>11, <1>12, <1>13, <1>14, SessionMoves

----------------
(* The surroundings.                                                            *)

\* Sessions and goroutines stay as they are; what items say of the bindings stays true.
LEMMA AroundMoves ==
  ASSUME MigIInv, UNCHANGED <<migSessions, migItems, migFiles, migObjects, migStore, migWorkers>>, WorldFits,
         migBindings' \in [MigSources -> MigBound], migDocuments' \in [MigDocs -> Nat],
         \A x \in MigTexts : TextFits(x, migBindings'[x], migDocuments'),
         \A x \in MigSources : migBindings[x].revision > 0 =>
                                 migBindings'[x].revision > 0 /\ migBindings'[x].target = migBindings[x].target,
         \A s \in MigSessions, x \in MigTexts : migSessions[s].status # "completed" => migDocuments'[<<s, x>>] = 0
  PROVE  MigIInv'
<1>1. MigShape' BY DEF MigIInv, MigShape, WorldFits
<1>2. ASSUME NEW s \in MigSessions
      PROVE  /\ \A x \in MigSources : ItemFits(s, x, migItems'[s][x], migBindings'[x])
             /\ SessionFits(migSessions'[s], migItems'[s]) /\ Brought(migSessions'[s], migBindings')
             /\ OwnFits(s, migSessions'[s].status, migDocuments', migFiles')
  <2>1. /\ \A x \in MigSources : ItemFits(s, x, migItems[s][x], migBindings[x])
        /\ SessionFits(migSessions[s], migItems[s]) /\ Brought(migSessions[s], migBindings)
        /\ OwnFits(s, migSessions[s].status, migDocuments, migFiles)
    BY DEF MigIInv
  <2>2. \A x \in MigSources : ItemFits(s, x, migItems[s][x], migBindings'[x]) BY <2>1 DEF ItemFits
  <2>3. Brought(migSessions[s], migBindings') BY <2>1 DEF Brought
  <2>4. OwnFits(s, migSessions[s].status, migDocuments', migFiles) BY <2>1 DEF OwnFits
  <2> QED BY <2>1, <2>2, <2>3, <2>4
<1>3. \A k \in MigKeys : ObjectFits(migSessions'[k[1]].status, migObjects'[k], migStore'[k])
  BY DEF MigIInv
<1>4. \A f \in migFiles' : FileFits(f)' BY DEF MigIInv, FileFits
<1>5. \A w \in MigWorkers : PlaceFits(w, migWorkers[w])' BY DEF MigIInv, PlaceFits
<1> QED BY <1>1, <1>2, <1>3, <1>4, <1>5 DEF MigIInv

\* The document a text is bound to is edited, or becomes one of nobody's session.
LEMMA TextGrows ==
  ASSUME MigIInv, NEW x \in MigTexts, NEW m \in MigMakers,
         migBindings[x].revision > 0 => migBindings[x].target = <<m, x>>,
         migBindings[x].revision = 0 => m = 0,
         NEW bindings \in [MigSources -> MigBound], \A y \in MigSources : y # x => bindings[y] = migBindings[y],
         bindings[x].revision > 0, bindings[x].target = <<m, x>>,
         migDocuments' = [migDocuments EXCEPT ![<<m, x>>] = @ + 1]
  PROVE  /\ migDocuments' \in [MigDocs -> Nat]
         /\ \A y \in MigTexts : TextFits(y, bindings[y], migDocuments')
         /\ \A s \in MigSessions, y \in MigTexts : migSessions[s].status # "completed" => migDocuments'[<<s, y>>] = 0
<1>1. migDocuments \in [MigDocs -> Nat] /\ <<m, x>> \in MigDocs /\ migBindings[x].revision \in Nat
  <2>1. migBindings[x] \in MigBound BY MigNames DEF MigIInv, MigShape
  <2> QED BY <2>1 DEF MigIInv, MigShape, MigDocs, MigBound
<1>2. PICK n \in Nat : n = migDocuments[<<m, x>>] + 1 /\ n > 0
  <2>1. migDocuments[<<m, x>>] \in Nat BY <1>1
  <2> QED BY <2>1
<1>3. migDocuments' = [migDocuments EXCEPT ![<<m, x>>] = n] BY <1>2
<1>4. /\ migDocuments' \in [MigDocs -> Nat] /\ migDocuments'[<<m, x>>] = n
      /\ \A d \in MigDocs : d # <<m, x>> => migDocuments'[d] = migDocuments[d]
  BY <1>1, <1>3
<1>5. ASSUME NEW y \in MigTexts PROVE TextFits(y, bindings[y], migDocuments')
  <2>1. TextFits(y, migBindings[y], migDocuments) BY DEF MigIInv
  <2>2. \A o \in MigMakers : <<o, y>> \in MigDocs BY DEF MigDocs
  <2>3. CASE y # x
    <3>1. \A o \in MigMakers : migDocuments'[<<o, y>>] = migDocuments[<<o, y>>] BY <1>4, <2>2, <2>3
    <3>2. bindings[y] = migBindings[y] BY <2>3, MigNames
    <3>3. migBindings[y].target \in MigMakers \X {y} => migDocuments'[migBindings[y].target] = migDocuments[migBindings[y].target]
      BY <1>4, <2>3 DEF MigDocs
    <3> QED BY <2>1, <3>1, <3>2, <3>3 DEF TextFits
  <2>4. CASE y = x
    <3>1. ASSUME NEW o \in MigMakers, migDocuments'[<<o, x>>] > 0 PROVE o = m
      <4>1. CASE o # m
        <5>1. migDocuments[<<o, x>>] > 0 /\ migDocuments[<<o, x>>] \in Nat
          BY <1>1, <1>4, <2>2, <2>4, <3>1, <4>1
        <5>2. migBindings[x].revision # 0 BY <2>1, <2>4, <5>1 DEF TextFits
        <5>3. migBindings[x].target = <<o, x>> /\ migBindings[x].revision > 0
          BY <1>1, <2>1, <2>4, <5>1, <5>2 DEF TextFits
        <5> QED BY <5>3
      <4> QED BY <4>1
    <3>2. bindings[x].revision # 0
      OBVIOUS
    <3> QED BY <1>2, <1>4, <2>4, <3>1, <3>2 DEF TextFits
  <2> QED BY <2>3, <2>4
<1>6. ASSUME NEW s \in MigSessions, NEW y \in MigTexts, migSessions[s].status # "completed" PROVE migDocuments'[<<s, y>>] = 0
  <2>1. migDocuments[<<s, y>>] = 0 /\ s \in MigMakers /\ <<s, y>> \in MigDocs /\ s # 0
    BY <1>6, MigNames DEF MigIInv, OwnFits, MigDocs
  <2>2. CASE <<s, y>> # <<m, x>> BY <1>4, <2>1, <2>2
  <2>3. CASE s = m /\ y = x
    <3>1. migBindings[x].revision # 0 BY <2>1, <2>3
    <3>2. migBindings[x].revision > 0 BY <1>1, <3>1
    <3>3. migDocuments[migBindings[x].target] > 0 BY <3>1 DEF MigIInv, TextFits
    <3> QED BY <2>1, <2>3, <3>2, <3>3
  <2> QED BY <2>2, <2>3
<1> QED BY <1>4, <1>5, <1>6

LEMMA EditMigratedKeeps ==
  ASSUME MigIInv, NEW d \in DOMAIN migDocuments, EditMigrated(d)
  PROVE  MigIInv'
<1>1. migDocuments \in [MigDocs -> Nat] /\ migBindings \in [MigSources -> MigBound]
  BY DEF MigIInv, MigShape
<1>2. PICK m \in MigMakers, x \in MigTexts : d = <<m, x>> BY <1>1 DEF MigDocs
<1>3. migDocuments[d] > 0 /\ migDocuments' = [migDocuments EXCEPT ![<<m, x>>] = @ + 1]
  BY <1>2 DEF EditMigrated
<1>4. migBindings[x].revision # 0 /\ migBindings[x].target = <<m, x>>
  <2>1. TextFits(x, migBindings[x], migDocuments) BY DEF MigIInv
  <2>2. migDocuments[d] # 0 BY <1>1, <1>3
  <2> QED BY <1>2, <1>3, <2>1, <2>2 DEF TextFits
<1>5. migBindings[x].revision > 0 BY <1>1, <1>4, MigNames DEF MigBound
<1>6. /\ migDocuments' \in [MigDocs -> Nat]
      /\ \A y \in MigTexts : TextFits(y, migBindings[y], migDocuments')
      /\ \A s \in MigSessions, y \in MigTexts : migSessions[s].status # "completed" => migDocuments'[<<s, y>>] = 0
  BY <1>1, <1>3, <1>4, <1>5, TextGrows
<1>7. /\ UNCHANGED <<migSessions, migItems, migFiles, migObjects, migStore, migWorkers>> /\ WorldFits
      /\ migBindings' = migBindings
  BY WorldStill DEF EditMigrated
<1> QED BY <1>1, <1>6, <1>7, AroundMoves

LEMMA PublishElsewhereKeeps ==
  ASSUME MigIInv, NEW x \in MigTexts, PublishElsewhere(x)
  PROVE  MigIInv'
<1>1. migDocuments \in [MigDocs -> Nat] /\ migBindings \in [MigSources -> MigBound] /\ x \in MigSources
  BY MigNames DEF MigIInv, MigShape
<1>2. PICK b \in MigBound : b = migBindings[x] BY <1>1
<1>3. b.revision \in Nat BY DEF MigBound
<1>4. PICK d : d = IF b.revision = 0 THEN <<0, x>> ELSE b.target
  OBVIOUS
<1>5. PICK m \in MigMakers : d = <<m, x>> /\ (b.revision = 0 => m = 0)
  <2>1. TextFits(x, b, migDocuments) BY <1>2 DEF MigIInv
  <2>2. CASE b.revision = 0 BY <1>4, <2>2, MigNames
  <2>3. CASE b.revision # 0 BY <1>4, <2>1, <2>3 DEF TextFits
  <2> QED BY <2>2, <2>3
<1>6. d \in MigDocs /\ migDocuments[d] \in Nat /\ d \in MigTargets
  BY <1>1, <1>5, MigNames DEF MigDocs
<1>7. PICK version \in Nat, revision \in Nat, hash \in Nat :
        version = migDocuments[d] + 1 /\ revision = b.revision + 1 /\ hash = 2
  BY <1>3, <1>6
<1>8. PICK bound : bound = [target |-> d, hash |-> hash, version |-> version, revision |-> revision]
  OBVIOUS
<1>9. bound \in MigBound /\ bound.target = d /\ bound.revision > 0
  BY <1>3, <1>6, <1>7, <1>8 DEF MigBound
<1>10. PICK bindings : bindings = [migBindings EXCEPT ![x] = bound]
  OBVIOUS
<1>11. /\ bindings \in [MigSources -> MigBound] /\ bindings[x] = bound
       /\ \A y \in MigSources : y # x => bindings[y] = migBindings[y]
  BY <1>1, <1>9, <1>10
<1>12. migBindings' = bindings /\ migDocuments' = [migDocuments EXCEPT ![<<m, x>>] = @ + 1]
  BY <1>2, <1>4, <1>5, <1>7, <1>8, <1>10 DEF PublishElsewhere
<1>13. b.revision > 0 => b.target = <<m, x>> BY <1>3, <1>4, <1>5
<1>14. /\ migDocuments' \in [MigDocs -> Nat]
       /\ \A y \in MigTexts : TextFits(y, bindings[y], migDocuments')
       /\ \A s \in MigSessions, y \in MigTexts : migSessions[s].status # "completed" => migDocuments'[<<s, y>>] = 0
  BY <1>2, <1>5, <1>9, <1>11, <1>12, <1>13, TextGrows
<1>15. \A y \in MigSources : migBindings[y].revision > 0 =>
         bindings[y].revision > 0 /\ bindings[y].target = migBindings[y].target
  BY <1>2, <1>5, <1>9, <1>11, <1>13
<1>16. UNCHANGED <<migSessions, migItems, migFiles, migObjects, migStore, migWorkers>> /\ WorldFits
  BY WorldStill DEF PublishElsewhere
<1> QED BY <1>11, <1>12, <1>14, <1>15, <1>16, AroundMoves

LEMMA ChangeSurroundingsKeeps ==
  ASSUME MigIInv, ChangeSurroundings
  PROVE  MigIInv'
<1>1. MigShape BY DEF MigIInv
<1>2. PICK n \in 0 .. MigTroubles : n = migWorld.troubles + 1
  BY <1>1, MigAssumption DEF ChangeSurroundings, MigTrouble, MigShape, MigAssumption
<1>3. WorldFits
  <2>1. CASE \E p \in MigProviders \ {migWorld.provider} : migWorld' = [Spent EXCEPT !.provider = p]
    <3>1. PICK p \in MigProviders : migWorld' = [Spent EXCEPT !.provider = p] BY <2>1
    <3> QED BY <1>1, <1>2, <3>1 DEF MigShape, WorldFits, Spent
  <2>2. CASE migWorld' = [Spent EXCEPT !.permitted = ~@]
    BY <1>1, <1>2, <2>2 DEF MigShape, WorldFits, Spent
  <2> QED BY <2>1, <2>2 DEF ChangeSurroundings
<1>4. UNCHANGED <<migSessions, migItems, migBindings, migDocuments, migFiles, migObjects, migStore, migWorkers>>
  BY DEF ChangeSurroundings
<1>5. /\ migBindings' \in [MigSources -> MigBound] /\ migDocuments' \in [MigDocs -> Nat]
      /\ \A x \in MigTexts : TextFits(x, migBindings'[x], migDocuments')
  BY <1>1, <1>4 DEF MigShape, MigIInv
<1>6. \A s \in MigSessions, x \in MigTexts : migSessions[s].status # "completed" => migDocuments'[<<s, x>>] = 0
  BY <1>4 DEF MigIInv, OwnFits
<1> QED BY <1>3, <1>4, <1>5, <1>6, AroundMoves

LEMMA ClearObjectKeeps ==
  ASSUME MigIInv, NEW k \in MigKeys, ClearObject(k)
  PROVE  MigIInv'
<1>1. MigShape /\ Clearable(k) /\ ~Locked(k) /\ migStore' = [migStore EXCEPT ![k] = "none"]
  BY DEF MigIInv, ClearObject
<1>2. UNCHANGED <<migSessions, migItems, migBindings, migDocuments, migFiles, migWorld, migWorkers>>
  BY DEF ClearObject
<1>3. /\ migStore' \in [MigKeys -> {"none", "partial", "whole"}] /\ migStore'[k] = "none"
      /\ \A o \in MigKeys : o # k => migStore'[o] = migStore[o]
  BY <1>1 DEF MigShape
<1>4. migObjects' \in [MigKeys -> MigEntry] /\ \A o \in MigKeys : o # k => migObjects'[o] = migObjects[o]
  <2>1. migObjects[k] \in MigEntry /\ NoObject \in MigEntry BY <1>1 DEF MigShape, MigEntry, NoObject
  <2>2. [migObjects[k] EXCEPT !.status = "discarded"] \in MigEntry BY <2>1 DEF MigEntry
  <2>3. PICK entry \in MigEntry : migObjects' = [migObjects EXCEPT ![k] = entry]
    <3>1. CASE migObjects' = migObjects
      <4>1. migObjects' = [migObjects EXCEPT ![k] = migObjects[k]] BY <1>1, <3>1 DEF MigShape
      <4> QED BY <2>1, <4>1
    <3>2. CASE migObjects' = [migObjects EXCEPT ![k] =
                 IF k[2] = MigAsset THEN NoObject ELSE [migObjects[k] EXCEPT !.status = "discarded"]]
      BY <2>1, <2>2, <3>2
    <3> QED BY <3>1, <3>2 DEF ClearObject
  <2> QED BY <1>1, <2>3 DEF MigShape
<1>5. migSessions[k[1]].status = "cancelled" /\ \A f \in migFiles : f.key # k BY <1>1 DEF Clearable
<1>6. MigShape' BY <1>1, <1>2, <1>3, <1>4 DEF MigShape
<1>7. ASSUME NEW o \in MigKeys PROVE ObjectFits(migSessions'[o[1]].status, migObjects'[o], migStore'[o])
  <2>1. CASE o = k BY <1>2, <1>3, <1>5, <2>1 DEF ObjectFits
  <2>2. CASE o # k BY <1>2, <1>3, <1>4, <2>2 DEF MigIInv
  <2> QED BY <2>1, <2>2
<1>8. ASSUME NEW f \in migFiles' PROVE FileFits(f)'
  <2>1. f \in migFiles /\ FileFits(f) /\ f.key # k /\ f.key \in MigKeys
    BY <1>1, <1>2, <1>5 DEF MigIInv, MigShape
  <2> QED BY <1>2, <1>3, <2>1 DEF FileFits
<1>9. ASSUME NEW w \in MigWorkers PROVE PlaceFits(w, migWorkers[w])'
  <2>1. CASE migWorkers[w].at = "idle" BY <1>2, <2>1 DEF PlaceFits
  <2>2. CASE migWorkers[w].at # "idle"
    <3>1. PICK me \in MigPlace : me = migWorkers[w] BY <2>2, PlaceFacts
    <3>2. /\ me.session \in MigSessions /\ me.item \in MigSources /\ JobFits(w, me, migSessions[me.session].job)
      BY <2>2, <3>1, PlaceFacts
    <3>3. StageFits(me, migSessions[me.session], migItems[me.session], migObjects, migStore)
      BY <2>2, <3>1 DEF MigIInv, PlaceFits
    <3>4. \A x \in MigSources : <<me.session, x>> \in MigKeys /\ (<<me.session, x>> = k => me.session = k[1])
      <4>1. \A x \in MigSources : <<me.session, x>>[1] = me.session
        OBVIOUS
      <4> QED BY <3>2, <4>1, MigNames
    <3>5. migSessions[me.session].status = "committing" => \A x \in MigSources : migStore'[<<me.session, x>>] = migStore[<<me.session, x>>]
      BY <1>3, <1>5, <3>4
    <3>6. me.at = "put" => migObjects'[<<me.session, me.item>>] = migObjects[<<me.session, me.item>>]
      <4>1. me.at = "put" => <<me.session, me.item>> # k BY <1>1, <3>1 DEF Locked
      <4> QED BY <1>4, <3>2, <3>4, <4>1
    <3>7. StageFits(me, migSessions[me.session], migItems[me.session], migObjects', migStore')
      BY <3>2, <3>3, <3>5, <3>6 DEF StageFits
    <3> QED BY <1>2, <3>1, <3>2, <3>7 DEF PlaceFits
  <2> QED BY <2>1, <2>2
<1> QED BY <1>2, <1>6, <1>7, <1>8, <1>9 DEF MigIInv

----------------
(* The transaction that publishes.                                              *)

\* What an item of a text would replace or make.
LEMMA TargetIsOwn ==
  ASSUME MigIInv, NEW s \in MigSessions, NEW x \in MigTexts, migItems[s][x].status # "none"
  PROVE  /\ migItems[s][x].target \in MigMakers \X {x} /\ migItems[s][x].target \in MigDocs
         /\ migItems[s][x].binding = 0 => migItems[s][x].target = <<s, x>>
         /\ migItems[s][x].binding # 0 => /\ migBindings[x].revision # 0 /\ migItems[s][x].target = migBindings[x].target
                                          /\ migDocuments[migItems[s][x].target] > 0
<1>1. PICK item \in MigItem, b \in MigBound : item = migItems[s][x] /\ b = migBindings[x]
  BY MigNames, ItemFacts DEF MigIInv, MigShape
<1>2. ItemFits(s, x, item, b) /\ TextFits(x, b, migDocuments) /\ x # MigAsset
  BY <1>1, MigNames DEF MigIInv
<1>3. item.binding = 0 => item.target = <<s, x>> BY <1>1, <1>2 DEF ItemFits
<1>4. item.binding # 0 => b.revision > 0 /\ item.target = b.target BY <1>1, <1>2 DEF ItemFits
<1>5. b.revision > 0 => b.revision # 0 BY DEF MigBound
<1>6. item.binding # 0 => b.target \in MigMakers \X {x} /\ migDocuments[b.target] > 0
  BY <1>2, <1>4, <1>5 DEF TextFits
<1>7. item.target \in MigMakers \X {x}
  <2>1. s \in MigMakers BY MigNames
  <2>2. item.target = <<s, x>> => item.target \in MigMakers \X {x} BY <2>1
  <2> QED BY <1>3, <1>4, <1>6, <2>2
<1>8. item.target \in MigDocs BY <1>7 DEF MigDocs
<1> QED BY <1>1, <1>3, <1>4, <1>5, <1>6, <1>7, <1>8

LEMMA DocumentsGrow ==
  ASSUME MigIInv, NEW s \in MigSessions, \A x \in MigSources : migItems[s][x].status # "none"
  PROVE  /\ DocumentsAfter(s) \in [MigDocs -> Nat]
         /\ \A m \in MigMakers, x \in MigTexts :
              DocumentsAfter(s)[<<m, x>>] =
                IF Applied(migItems[s], x) /\ migItems[s][x].target = <<m, x>>
                THEN migDocuments[<<m, x>>] + 1 ELSE migDocuments[<<m, x>>]
<1>1. migDocuments \in [MigDocs -> Nat] /\ DOMAIN migDocuments = MigDocs /\ MigShape
  BY DEF MigIInv, MigShape
<1>2. DocumentsAfter(s) \in [MigDocs -> Nat] BY <1>1 DEF DocumentsAfter
<1>3. ASSUME NEW m \in MigMakers, NEW x \in MigTexts
      PROVE  DocumentsAfter(s)[<<m, x>>] =
               IF Applied(migItems[s], x) /\ migItems[s][x].target = <<m, x>>
               THEN migDocuments[<<m, x>>] + 1 ELSE migDocuments[<<m, x>>]
  <2>1. <<m, x>> \in MigDocs BY DEF MigDocs
  <2>2. \A y \in MigTexts : Applied(PlanOf(s), y) = Applied(migItems[s], y)
    BY <1>1, PlanFits, MigNames
  <2>3. ASSUME NEW y \in MigTexts, migItems[s][y].target = <<m, x>> PROVE y = x
    <3>1. migItems[s][y].target \in MigMakers \X {y} BY TargetIsOwn, MigNames
    <3> QED BY <2>3, <3>1
  <2>4. (\E y \in MigTexts : Applied(PlanOf(s), y) /\ migItems[s][y].target = <<m, x>>)
          <=> Applied(migItems[s], x) /\ migItems[s][x].target = <<m, x>>
    BY <2>2, <2>3
  <2>5. DocumentsAfter(s)[<<m, x>>] =
          IF \E y \in MigTexts : Applied(PlanOf(s), y) /\ migItems[s][y].target = <<m, x>>
          THEN migDocuments[<<m, x>>] + 1 ELSE migDocuments[<<m, x>>]
    BY <1>1, <2>1 DEF DocumentsAfter
  <2> QED BY <2>4, <2>5
<1> QED BY <1>2, <1>3

\* A text that is published, and the one that is left out.
LEMMA TextPublished ==
  ASSUME MigIInv, NEW s \in MigSessions, \A y \in MigSources : migItems[s][y].status # "none", NEW x \in MigTexts,
         migItems[s][x].decision # "skip" => BindingHolds(x, migItems[s][x])
  PROVE  /\ BoundAfter(s, x) \in MigBound /\ TextFits(x, BoundAfter(s, x), DocumentsAfter(s))
         /\ migBindings[x].revision > 0 => BoundAfter(s, x).revision > 0 /\ BoundAfter(s, x).target = migBindings[x].target
         /\ migItems[s][x].decision # "skip" => BoundAfter(s, x).revision > 0
         /\ \A t \in MigSessions : t # s /\ migDocuments[<<t, x>>] = 0 => DocumentsAfter(s)[<<t, x>>] = 0
<1>1. PICK item \in MigItem, b \in MigBound : item = migItems[s][x] /\ b = migBindings[x]
  BY MigNames, ItemFacts DEF MigIInv, MigShape
<1>2. /\ item.target \in MigMakers \X {x} /\ item.target \in MigDocs
      /\ item.binding = 0 => item.target = <<s, x>>
      /\ item.binding # 0 => b.revision # 0 /\ item.target = b.target /\ migDocuments[item.target] > 0
  <2>1. migItems[s][x].status # "none" BY MigNames
  <2> QED BY <1>1, <2>1, TargetIsOwn
<1>3. PICK documents : documents = DocumentsAfter(s)
  OBVIOUS
<1>4. PICK old : old = migDocuments
  OBVIOUS
<1>5. /\ documents \in [MigDocs -> Nat] /\ old \in [MigDocs -> Nat]
      /\ \A m \in MigMakers : <<m, x>> \in MigDocs
      /\ \A m \in MigMakers : documents[<<m, x>>] =
           IF Applied(migItems[s], x) /\ item.target = <<m, x>> THEN old[<<m, x>>] + 1 ELSE old[<<m, x>>]
  <2>1. documents \in [MigDocs -> Nat] BY <1>3, DocumentsGrow
  <2>2. old \in [MigDocs -> Nat] BY <1>4 DEF MigIInv, MigShape
  <2>3. \A m \in MigMakers : <<m, x>> \in MigDocs BY DEF MigDocs
  <2>4. ASSUME NEW m \in MigMakers
        PROVE  documents[<<m, x>>] =
                 IF Applied(migItems[s], x) /\ item.target = <<m, x>> THEN old[<<m, x>>] + 1 ELSE old[<<m, x>>]
    BY <1>1, <1>3, <1>4, DocumentsGrow
  <2> QED BY <2>1, <2>2, <2>3, <2>4
<1>6. /\ TextFits(x, b, old) /\ x # MigAsset /\ b.revision \in Nat /\ item.binding \in Nat
      /\ (item.binding = 0 => item.disposition = "new")
  BY <1>1, <1>4, MigNames DEF MigIInv, MigBound, MigItem, ItemFits
<1>7. PICK bound : bound = BoundAfter(s, x)
  OBVIOUS
<1>8. CASE item.decision = "skip"
  <2>1. bound = b BY <1>1, <1>7, <1>8 DEF BoundAfter
  <2>2. \A m \in MigMakers : documents[<<m, x>>] = old[<<m, x>>] BY <1>1, <1>5, <1>8 DEF Applied
  <2>3. b.target \in MigMakers \X {x} => documents[b.target] = old[b.target] BY <2>2
  <2>4. TextFits(x, b, documents) BY <1>6, <2>2, <2>3 DEF TextFits
  <2> QED BY <1>1, <1>3, <1>4, <1>7, <1>8, <2>1, <2>2, <2>4, MigNames
<1>9. CASE item.decision # "skip"
  <2>1. PICK m \in MigMakers : item.target = <<m, x>> BY <1>2
  <2>2. PICK revision \in Nat, version \in Nat : revision = b.revision + 1 /\ version = documents[item.target]
    BY <1>2, <1>5, <1>6
  <2>3. bound = [target |-> item.target, hash |-> item.hash, revision |-> revision, version |-> version]
    BY <1>1, <1>3, <1>6, <1>7, <1>9, <2>2 DEF BoundAfter
  <2>4. revision > 0 /\ revision # 0 BY <1>6, <2>2
  <2>5. bound \in MigBound /\ bound.target = item.target /\ bound.revision = revision
    <3>1. item.target \in MigTargets /\ item.hash \in Nat BY DEF MigItem
    <3> QED BY <2>2, <2>3, <3>1 DEF MigBound
  <2>6. IF item.binding = 0 THEN b.revision = 0 ELSE b.revision = item.binding
    BY <1>1, <1>9 DEF BindingHolds
  <2>7. b.revision > 0 => item.target = b.target BY <1>2, <1>6, <2>6
  <2>8. ASSUME NEW o \in MigMakers, o # m PROVE documents[<<o, x>>] = 0 /\ old[<<o, x>>] = 0
    <3>1. documents[<<o, x>>] = old[<<o, x>>] BY <1>5, <2>1, <2>8
    <3>2. old[<<o, x>>] = 0
      <4>1. CASE b.revision = 0 BY <1>6, <4>1 DEF TextFits
      <4>2. CASE b.revision # 0
        <5>1. b.target = <<m, x>> BY <1>6, <2>1, <2>7, <4>2
        <5>2. ~(old[<<o, x>>] > 0) /\ old[<<o, x>>] \in Nat
          BY <1>5, <1>6, <2>8, <4>2, <5>1 DEF TextFits
        <5>3. PICK n \in Nat : n = old[<<o, x>>] BY <5>2
        <5>4. n = 0 BY ONLY n \in Nat, <5>2, <5>3
        <5> QED BY <5>3, <5>4
      <4> QED BY <4>1, <4>2
    <3> QED BY <3>1, <3>2
  <2>9. documents[<<m, x>>] > 0
    <3>1. old[<<m, x>>] \in Nat BY <1>5
    <3>2. CASE Applied(migItems[s], x)
      <4>1. documents[<<m, x>>] = old[<<m, x>>] + 1 BY <1>5, <2>1, <3>2
      <4> QED BY <3>1, <4>1
    <3>3. CASE ~Applied(migItems[s], x)
      <4>1. item.binding # 0 BY <1>1, <1>6, <1>9, <3>3 DEF Applied
      <4>2. old[<<m, x>>] > 0 BY <1>2, <1>4, <2>1, <4>1
      <4>3. documents[<<m, x>>] = old[<<m, x>>] BY <1>5, <3>3
      <4> QED BY <4>2, <4>3
    <3> QED BY <3>2, <3>3
  <2>10. TextFits(x, bound, documents)
    <3>1. \A o \in MigMakers : documents[<<o, x>>] > 0 => o = m BY <2>8
    <3> QED BY <2>1, <2>4, <2>5, <2>9, <3>1 DEF TextFits
  <2>11. ASSUME NEW t \in MigSessions, t # s, old[<<t, x>>] = 0 PROVE documents[<<t, x>>] = 0
    <3>1. t \in MigMakers BY MigNames
    <3>2. CASE t # m BY <2>8, <3>1, <3>2
    <3>3. CASE t = m
      <4>1. item.binding # 0 BY <1>2, <2>1, <2>11, <3>3
      <4>2. old[<<m, x>>] > 0 BY <1>2, <1>4, <2>1, <4>1
      <4> QED BY <2>11, <3>3, <4>2
    <3> QED BY <3>2, <3>3
  <2> QED BY <1>1, <1>3, <1>4, <1>7, <2>4, <2>5, <2>7, <2>10, <2>11
<1> QED BY <1>8, <1>9

LEMMA PublishMigrationKeeps ==
  ASSUME MigIInv, NEW w \in MigWorkers, PublishMigration(w)
  PROVE  MigIInv'
<1>1. PICK s \in MigSessions, me \in MigPlace : s = migWorkers[w].session /\ me = migWorkers[w]
  BY PlaceFacts DEF PublishMigration
<1>2. /\ me.at = "stage" /\ me.seen = {} /\ Committing(s) /\ FilesHold(s) /\ Mine(w)
      /\ \A x \in MigSources : migItems[s][x].decision # "skip" => BindingHolds(x, migItems[s][x])
  BY <1>1 DEF PublishMigration, MayPublish, Leased
<1>3. /\ me.job \in MigJob /\ JobFits(w, me, migSessions[s].job) /\ me.job.n = migSessions[s].job.n
      /\ StageFits(me, migSessions[s], migItems[s], migObjects, migStore)
      /\ \A x \in MigSources : migItems[s][x].status # "none"
  <2>1. /\ me.job \in MigJob /\ JobFits(w, me, migSessions[s].job)
        /\ \A x \in MigSources : migItems[s][x].status # "none"
    BY <1>1, <1>2, PlaceFacts
  <2>2. StageFits(me, migSessions[s], migItems[s], migObjects, migStore)
    BY <1>1, <1>2 DEF MigIInv, PlaceFits
  <2>3. me.job.n = migSessions[s].job.n BY <1>1, <1>2 DEF Mine, JobOf
  <2> QED BY <2>1, <2>2, <2>3
<1>4. /\ MigShape /\ SessionFits(migSessions[s], migItems[s]) /\ migSessions[s].status = "committing"
      /\ migSessions[s] \in MigRow /\ migItems[s] \in [MigSources -> MigItem]
  BY <1>2, SessionFacts DEF Committing
<1>5. PICK status \in {"none", "uploading", "preparing", "ready", "committing", "completed", "failed", "cancelled"} :
        status = "completed"
  OBVIOUS
<1>6. PICK session : session = [migSessions[s] EXCEPT !.status = status]
  OBVIOUS
<1>7. session \in MigRow /\ session.status = "completed" /\ session.plan = migSessions[s].plan /\ session.job = migSessions[s].job
  BY <1>4, <1>5, <1>6 DEF MigRow
<1>8. /\ migSessions' = [migSessions EXCEPT ![s] = session] /\ migDocuments' = DocumentsAfter(s)
      /\ migFiles' = migFiles \cup {[document |-> TargetOf(k), key |-> k] : k \in References(s) \cup Primary(s)}
      /\ migObjects' = [k \in MigKeys |-> IF k \in References(s) THEN [migObjects[k] EXCEPT !.status = "claimed"] ELSE migObjects[k]]
      /\ migBindings' = [x \in MigSources |-> BoundAfter(s, x)]
      /\ UNCHANGED <<migItems, migStore, migWorld>>
  BY <1>1, <1>4, <1>5, <1>6 DEF PublishMigration, MigShape
<1>9. /\ migSessions'[s] = session /\ \A t \in MigSessions : t # s => migSessions'[t] = migSessions[t]
  BY <1>4, <1>8 DEF MigShape
<1>10. PICK record : record = [MigIdle EXCEPT !.at = "settle", !.session = s, !.job = me.job]
  OBVIOUS
<1>11. record \in MigPlace /\ record.at = "settle" /\ record.session = s /\ record.job = me.job
  BY <1>3, <1>10, IdlePlace DEF MigPlace
<1>12. migWorkers' = [migWorkers EXCEPT ![w] = record] BY <1>1, <1>10 DEF PublishMigration, Places
<1>13. ASSUME NEW k \in References(s) \cup Primary(s)
       PROVE  /\ k \in MigKeys /\ k[1] = s /\ migStore[k] = "whole"
              /\ [document |-> TargetOf(k), key |-> k] \in [document : MigDocs \cup {<<>>}, key : MigKeys]
  <2>1. CASE k \in References(s)
    <3>1. PICK x \in MigTexts : k = <<s, x>> BY <2>1 DEF References
    <3>2. k \in MigKeys /\ k[1] = s /\ k[2] = x /\ x # MigAsset /\ x \in MigSources
      BY <3>1, MigNames
    <3>3. migObjects[k].status = "ready" BY <1>2, <2>1 DEF FilesHold
    <3>4. migStore[k] = "whole" BY <1>4, <3>2, <3>3 DEF MigIInv, ObjectFits
    <3>5. TargetOf(k) \in MigDocs
      <4>1. migItems[s][x].target \in MigDocs BY <1>3, <3>2, TargetIsOwn
      <4> QED BY <3>2, <4>1 DEF TargetOf
    <3> QED BY <3>2, <3>4, <3>5
  <2>2. CASE k \in Primary(s)
    <3>1. k = <<s, MigAsset>> /\ Applied(PlanOf(s), MigAsset) BY <2>2 DEF Primary
    <3>2. k \in MigKeys /\ k[1] = s /\ k[2] = MigAsset /\ MigAsset \in MigSources BY <3>1, MigNames
    <3>3. Applied(migItems[s], MigAsset) BY <1>4, <3>1, <3>2, PlanFits
    <3>4. migStore[k] = "whole" BY <1>1, <1>2, <1>3, <1>4, <3>1, <3>2, <3>3 DEF StageFits
    <3>5. TargetOf(k) = <<>> BY <3>2 DEF TargetOf
    <3> QED BY <3>2, <3>4, <3>5
  <2> QED BY <2>1, <2>2
<1>14. ASSUME NEW x \in MigSources
       PROVE  /\ BoundAfter(s, x) \in MigBound
              /\ migItems[s][x].decision # "skip" => BoundAfter(s, x).revision > 0
              /\ migBindings[x].revision > 0 => BoundAfter(s, x).revision > 0
  <2>1. CASE x \in MigTexts BY <1>2, <1>3, <2>1, TextPublished
  <2>2. CASE x = MigAsset
    <3>1. PICK b \in MigBound, item \in MigItem : b = migBindings[x] /\ item = migItems[s][x]
      BY <1>4, ItemFacts DEF MigShape
    <3>2. CASE item.decision = "skip" BY <3>1, <3>2 DEF BoundAfter
    <3>3. CASE item.decision # "skip"
      <4>1. PICK target \in MigTargets : target = IF item.disposition = "changed" THEN <<s, x>> ELSE item.target
        BY MigNames DEF MigItem
      <4>2. b.revision \in Nat BY DEF MigBound
      <4>3. PICK revision \in Nat, one \in Nat : revision = b.revision + 1 /\ one = 1 /\ revision > 0
        BY <4>2
      <4>4. BoundAfter(s, x) = [target |-> target, hash |-> item.hash, revision |-> revision, version |-> one]
        BY <2>2, <3>1, <3>3, <4>1, <4>3 DEF BoundAfter
      <4>5. item.hash \in Nat BY DEF MigItem
      <4> QED BY <4>1, <4>3, <4>4, <4>5 DEF MigBound
    <3> QED BY <3>2, <3>3
  <2> QED BY <2>1, <2>2 DEF MigSources
<1>15. MigShape'
  <2>1. migSessions' \in [MigSessions -> MigRow] /\ migWorkers' \in [MigWorkers -> MigPlace]
    BY <1>4, <1>7, <1>8, <1>11, <1>12 DEF MigShape
  <2>2. migBindings' \in [MigSources -> MigBound] BY <1>8, <1>14
  <2>3. migDocuments' \in [MigDocs -> Nat] BY <1>3, <1>8, DocumentsGrow
  <2>4. migFiles' \in SUBSET [document : MigDocs \cup {<<>>}, key : MigKeys]
    <3>1. migFiles \in SUBSET [document : MigDocs \cup {<<>>}, key : MigKeys] BY <1>4 DEF MigShape
    <3> QED BY <1>8, <1>13, <3>1
  <2>5. migObjects' \in [MigKeys -> MigEntry]
    <3>1. \A k \in MigKeys : [migObjects[k] EXCEPT !.status = "claimed"] \in MigEntry /\ migObjects[k] \in MigEntry
      BY <1>4 DEF MigShape, MigEntry
    <3> QED BY <1>8, <3>1
  <2> QED BY <1>4, <1>8, <2>1, <2>2, <2>3, <2>4, <2>5 DEF MigShape
<1>16. ASSUME NEW x \in MigTexts PROVE TextFits(x, migBindings'[x], migDocuments')
  <2>1. TextFits(x, BoundAfter(s, x), DocumentsAfter(s)) /\ x \in MigSources
    BY <1>2, <1>3, MigNames, TextPublished
  <2> QED BY <1>8, <2>1
<1>17. ASSUME NEW t \in MigSessions, NEW x \in MigSources PROVE ItemFits(t, x, migItems'[t][x], migBindings'[x])
  <2>1. ItemFits(t, x, migItems[t][x], migBindings[x]) BY DEF MigIInv
  <2>2. x # MigAsset => x \in MigTexts BY DEF MigSources
  <2>3. x # MigAsset /\ migBindings[x].revision > 0 =>
          BoundAfter(s, x).revision > 0 /\ BoundAfter(s, x).target = migBindings[x].target
    BY <1>2, <1>3, <2>2, TextPublished
  <2>4. ItemFits(t, x, migItems[t][x], BoundAfter(s, x)) BY <2>1, <2>3 DEF ItemFits
  <2> QED BY <1>8, <2>4
<1>18. ASSUME NEW t \in MigSessions PROVE SessionFits(migSessions'[t], migItems'[t])
  <2>1. SessionFits(migSessions[t], migItems[t]) BY DEF MigIInv
  <2>2. CASE t = s BY <1>4, <1>7, <1>8, <1>9, <2>2 DEF SessionFits
  <2>3. CASE t # s BY <1>8, <1>9, <2>1, <2>3
  <2> QED BY <2>2, <2>3
<1>19. ASSUME NEW t \in MigSessions PROVE Brought(migSessions'[t], migBindings')
  <2>1. CASE t = s
    <3>1. migSessions[s].job.plan = migSessions[s].plan /\ Judged(migSessions[s].plan, migItems[s])
      BY <1>4 DEF SessionFits
    <3>2. \A x \in MigSources : Applied(session.job.plan, x) => migItems[s][x].decision # "skip"
      BY <1>7, <3>1 DEF Judged, Applied
    <3>3. \A x \in MigSources : Applied(session.job.plan, x) => migBindings'[x].revision > 0
      BY <1>8, <1>14, <3>2
    <3> QED BY <1>9, <2>1, <3>3 DEF Brought
  <2>2. CASE t # s
    <3>1. Brought(migSessions[t], migBindings) BY DEF MigIInv
    <3>2. \A x \in MigSources : migBindings[x].revision > 0 => migBindings'[x].revision > 0
      BY <1>8, <1>14
    <3> QED BY <1>9, <2>2, <3>1, <3>2 DEF Brought
  <2> QED BY <2>1, <2>2
<1>20. ASSUME NEW t \in MigSessions PROVE OwnFits(t, migSessions'[t].status, migDocuments', migFiles')
  <2>1. CASE t = s BY <1>7, <1>9, <2>1 DEF OwnFits
  <2>2. CASE t # s
    <3>1. OwnFits(t, migSessions[t].status, migDocuments, migFiles) BY DEF MigIInv
    <3>2. \A x \in MigTexts : migDocuments[<<t, x>>] = 0 => migDocuments'[<<t, x>>] = 0
      BY <1>2, <1>3, <1>8, <2>2, MigNames, TextPublished
    <3>3. \A f \in migFiles' : f \in migFiles \/ f.key[1] = s BY <1>8, <1>13
    <3> QED BY <1>9, <2>2, <3>1, <3>2, <3>3 DEF OwnFits
  <2> QED BY <2>1, <2>2
<1>21. ASSUME NEW k \in MigKeys PROVE ObjectFits(migSessions'[k[1]].status, migObjects'[k], migStore'[k])
  <2>1. ObjectFits(migSessions[k[1]].status, migObjects[k], migStore[k]) /\ k[1] \in MigSessions /\ migObjects[k] \in MigEntry
    BY <1>4 DEF MigIInv, MigKeys, MigShape
  <2>2. migSessions[k[1]].status = "cancelled" => migSessions'[k[1]].status = "cancelled"
    BY <1>4, <1>9, <2>1
  <2>3. CASE k \in References(s)
    <3>1. migObjects'[k].status = "claimed" BY <1>8, <2>1, <2>3 DEF MigEntry
    <3>2. migStore'[k] = "whole" BY <1>8, <1>13, <2>3
    <3> QED BY <3>1, <3>2 DEF ObjectFits
  <2>4. CASE k \notin References(s)
    <3>1. migObjects'[k] = migObjects[k] BY <1>8, <2>4
    <3> QED BY <1>8, <2>1, <2>2, <3>1 DEF ObjectFits
  <2> QED BY <2>3, <2>4
<1>22. ASSUME NEW f \in migFiles' PROVE FileFits(f)'
  <2>1. migStore[f.key] = "whole" /\ f.key[1] \in MigSessions /\ (f.key[1] = s \/ migSessions[f.key[1]].status = "completed")
    <3>1. CASE f \in migFiles
      <4>1. FileFits(f) /\ f.key \in MigKeys BY <1>4, <3>1 DEF MigIInv, MigShape
      <4> QED BY <4>1 DEF FileFits, MigKeys
    <3>2. CASE f \notin migFiles
      <4>1. PICK k \in References(s) \cup Primary(s) : f = [document |-> TargetOf(k), key |-> k]
        BY <1>8, <3>2
      <4>2. f.key = k BY <4>1
      <4> QED BY <1>13, <4>2
    <3> QED BY <3>1, <3>2
  <2>2. migSessions'[f.key[1]].status = "completed" BY <1>7, <1>9, <2>1
  <2> QED BY <1>8, <2>1, <2>2 DEF FileFits
<1>23. ASSUME NEW v \in MigWorkers PROVE PlaceFits(v, migWorkers[v])'
  <2>1. CASE v = w
    <3>1. migWorkers'[v] = record BY <1>4, <1>12, <2>1 DEF MigShape
    <3>2. JobFits(w, record, session.job) BY <1>3, <1>7, <1>11 DEF JobFits
    <3>3. StageFits(record, session, migItems[s], migObjects', migStore') BY <1>11 DEF StageFits
    <3> QED BY <1>8, <1>9, <1>11, <2>1, <3>1, <3>2, <3>3 DEF PlaceFits
  <2>2. CASE v # w /\ migWorkers[v].at = "idle"
    <3>1. migWorkers'[v] = migWorkers[v] BY <1>4, <1>12, <2>2 DEF MigShape
    <3> QED BY <2>2, <3>1 DEF PlaceFits
  <2>3. CASE v # w /\ migWorkers[v].at # "idle"
    <3>1. PICK it \in MigPlace : it = migWorkers[v] BY <2>3, PlaceFacts
    <3>2. it.session \in MigSessions /\ it.item \in MigSources /\ JobFits(v, it, migSessions[it.session].job)
      BY <2>3, <3>1, PlaceFacts
    <3>3. StageFits(it, migSessions[it.session], migItems[it.session], migObjects, migStore)
      BY <2>3, <3>1 DEF MigIInv, PlaceFits
    <3>4. migSessions'[it.session].job = migSessions[it.session].job BY <1>7, <1>9, <3>2
    <3>5. migSessions'[it.session].status = "committing" => migSessions[it.session].status = "committing"
      BY <1>7, <1>9, <3>2
    <3>6. it.at = "put" => migObjects'[<<it.session, it.item>>].status \in {"planned", "ready", "claimed"}
      <4>1. <<it.session, it.item>> \in MigKeys BY <3>2, MigNames
      <4>2. PICK k \in MigKeys : k = <<it.session, it.item>> BY <4>1
      <4>3. migObjects[k] \in MigEntry BY <1>4 DEF MigShape
      <4>4. migObjects'[k] = migObjects[k] \/ migObjects'[k].status = "claimed"
        BY <1>8, <4>3 DEF MigEntry
      <4> QED BY <3>3, <4>2, <4>4 DEF StageFits
    <3>7. StageFits(it, migSessions'[it.session], migItems[it.session], migObjects', migStore')
      <4>1. migStore' = migStore BY <1>8
      <4> QED BY <3>3, <3>4, <3>5, <3>6, <4>1 DEF StageFits
    <3>8. migWorkers'[v] = it BY <1>4, <1>12, <2>3, <3>1 DEF MigShape
    <3> QED BY <1>8, <3>2, <3>4, <3>7, <3>8 DEF PlaceFits
  <2> QED BY <2>1, <2>2, <2>3
<1> QED BY <1>15, <1>16, <1>17, <1>18, <1>19, <1>20, <1>21, <1>22, <1>23 DEF MigIInv

----------------
(* The invariant.                                                               *)

LEMMA MigStart ==
  ASSUME MigInit
  PROVE  MigIInv
<1>1. PICK before \in BOOLEAN :
        /\ migBindings = [x \in MigSources |-> IF before /\ x # MigAsset
             THEN [target |-> <<0, x>>, hash |-> 1, version |-> 1, revision |-> 1] ELSE NoBinding]
        /\ migDocuments = [d \in MigMakers \X MigTexts |-> IF before /\ d[1] = 0 THEN 1 ELSE 0]
  BY DEF MigInit
<1>2. /\ NoItem \in MigItem /\ NoObject \in MigEntry
  BY MigNames DEF NoItem, MigItem, NoObject, MigEntry
<1>3. ASSUME NEW x \in MigSources
      PROVE  /\ migBindings[x] \in MigBound
             /\ before /\ x # MigAsset =>
                  migBindings[x] = [target |-> <<0, x>>, hash |-> 1, version |-> 1, revision |-> 1]
             /\ ~(before /\ x # MigAsset) => migBindings[x].revision = 0
  <2>1. <<0, x>> \in MigTargets BY MigNames DEF MigTargets
  <2>2. CASE before /\ x # MigAsset BY <1>1, <2>1, <2>2 DEF MigBound
  <2>3. CASE ~(before /\ x # MigAsset) BY <1>1, <2>3, MigNames DEF MigBound, NoBinding
  <2> QED BY <2>2, <2>3
<1>4. ASSUME NEW s \in MigSessions
      PROVE  /\ migSessions[s] \in MigRow /\ migSessions[s].status = "none" /\ migSessions[s].job = NoMigJob
             /\ migItems[s] = [x \in MigSources |-> NoItem]
  BY IdlePlace, MigNames DEF MigInit, MigRow
<1>5. MigShape
  <2>1. migSessions \in [MigSessions -> MigRow] /\ migItems \in [MigSessions -> [MigSources -> MigItem]]
    <3>1. migSessions = [s \in MigSessions |-> migSessions[s]] /\ migItems = [s \in MigSessions |-> migItems[s]]
      BY DEF MigInit
    <3>2. \A s \in MigSessions : migItems[s] \in [MigSources -> MigItem] BY <1>2, <1>4
    <3> QED BY <1>4, <3>1, <3>2
  <2>2. migBindings \in [MigSources -> MigBound] BY <1>1, <1>3
  <2>3. migDocuments \in [MigDocs -> Nat] BY <1>1 DEF MigDocs
  <2>4. migObjects \in [MigKeys -> MigEntry] /\ migStore \in [MigKeys -> {"none", "partial", "whole"}]
        /\ migFiles = {} /\ migWorkers \in [MigWorkers -> MigPlace]
    BY <1>2, IdlePlace DEF MigInit
  <2>5. migWorld \in [provider : MigProviders, permitted : BOOLEAN, troubles : 0 .. MigTroubles]
    <3>1. (CHOOSE p \in MigProviders : TRUE) \in MigProviders BY MigAssumption DEF MigAssumption
    <3>2. 0 \in 0 .. MigTroubles BY MigAssumption DEF MigAssumption
    <3> QED BY <3>1, <3>2 DEF MigInit
  <2> QED BY <2>1, <2>2, <2>3, <2>4, <2>5 DEF MigShape
<1>6. ASSUME NEW x \in MigTexts PROVE TextFits(x, migBindings[x], migDocuments)
  <2>1. x \in MigSources /\ x # MigAsset /\ 0 \in MigMakers BY MigNames
  <2>2. \A m \in MigMakers : migDocuments[<<m, x>>] = IF before /\ m = 0 THEN 1 ELSE 0 BY <1>1
  <2>3. CASE before
    <3>1. migBindings[x].target = <<0, x>> /\ migBindings[x].revision = 1
      <4>1. migBindings[x] = [target |-> <<0, x>>, hash |-> 1, version |-> 1, revision |-> 1]
        BY <1>3, <2>1, <2>3
      <4> QED BY <4>1
    <3>2. migDocuments[<<0, x>>] = 1 /\ \A m \in MigMakers : migDocuments[<<m, x>>] > 0 => m = 0
      BY <2>1, <2>2, <2>3
    <3> QED BY <2>1, <3>1, <3>2 DEF TextFits
  <2>4. CASE ~before BY <1>3, <2>1, <2>2, <2>4 DEF TextFits
  <2> QED BY <2>3, <2>4
<1>7. ASSUME NEW s \in MigSessions
      PROVE  /\ \A x \in MigSources : ItemFits(s, x, migItems[s][x], migBindings[x])
             /\ SessionFits(migSessions[s], migItems[s]) /\ Brought(migSessions[s], migBindings)
             /\ OwnFits(s, migSessions[s].status, migDocuments, migFiles)
  <2>1. \A x \in MigSources : ItemFits(s, x, migItems[s][x], migBindings[x])
    BY <1>4 DEF ItemFits, NoItem
  <2>2. SessionFits(migSessions[s], migItems[s]) /\ Brought(migSessions[s], migBindings)
    BY <1>4 DEF SessionFits, Brought, NoMigJob, MigJobFits
  <2>3. OwnFits(s, migSessions[s].status, migDocuments, migFiles)
    <3>1. s \in MigMakers /\ s # 0 BY MigNames
    <3>2. \A x \in MigTexts : migDocuments[<<s, x>>] = 0 BY <1>1, <3>1
    <3>3. migFiles = {} BY DEF MigInit
    <3> QED BY <3>2, <3>3 DEF OwnFits
  <2> QED BY <2>1, <2>2, <2>3
<1>8. ASSUME NEW k \in MigKeys PROVE ObjectFits(migSessions[k[1]].status, migObjects[k], migStore[k])
  BY DEF MigInit, ObjectFits, NoObject
<1>9. (\A f \in migFiles : FileFits(f)) /\ \A w \in MigWorkers : PlaceFits(w, migWorkers[w])
  BY IdlePlace DEF MigInit, PlaceFits
<1> QED BY <1>5, <1>6, <1>7, <1>8, <1>9 DEF MigIInv

LEMMA MigStutter ==
  ASSUME MigIInv, UNCHANGED migVars
  PROVE  MigIInv'
<1>1. UNCHANGED <<migSessions, migItems, migFiles, migObjects, migStore, migWorkers>> /\ WorldFits
      /\ migBindings' = migBindings /\ migDocuments' = migDocuments
  BY WorldStill DEF migVars
<1>2. /\ migBindings' \in [MigSources -> MigBound] /\ migDocuments' \in [MigDocs -> Nat]
      /\ \A x \in MigTexts : TextFits(x, migBindings'[x], migDocuments')
  BY <1>1 DEF MigIInv, MigShape
<1>3. \A s \in MigSessions, x \in MigTexts : migSessions[s].status # "completed" => migDocuments'[<<s, x>>] = 0
  BY <1>1 DEF MigIInv, OwnFits
<1> QED BY <1>1, <1>2, <1>3, AroundMoves

LEMMA MigStep ==
  ASSUME MigIInv, MigNext
  PROVE  MigIInv'
<1>1. ASSUME NEW s \in MigSessions,
             \/ CreateMigration(s) \/ BeginPrepare(s) \/ CommitMigration(s) \/ CancelMigration(s) \/ LoseMigration(s)
             \/ \E hash \in 1 .. 2 : RegisterItems(s, hash)
             \/ \E x \in MigSources : UploadChunk(s, x) \/ \E decision \in {"apply", "skip"} : ReviewItem(s, x, decision)
             \/ \E w \in MigWorkers : ClaimMigration(w, s)
      PROVE  MigIInv'
  BY <1>1, CreateMigrationKeeps, BeginPrepareKeeps, CommitMigrationKeeps, CancelMigrationKeeps, LoseMigrationKeeps,
     RegisterItemsKeeps, UploadChunkKeeps, ReviewItemKeeps, ClaimMigrationKeeps
<1>2. ASSUME NEW w \in MigWorkers,
             \/ BeginPreparing(w) \/ ReadItems(w) \/ PrepareItem(w) \/ SpoilItem(w) \/ FinishPreparing(w)
             \/ BeginCommitting(w) \/ PlanObject(w) \/ PutObject(w) \/ BreakPut(w)
             \/ PublishMigration(w) \/ SettleMigration(w) \/ RefuseMigration(w)
             \/ \E x \in MigSources : ClassifyItem(w, x) \/ CheckItem(w, x) \/ LockObject(w, x)
      PROVE  MigIInv'
  BY <1>2, BeginPreparingKeeps, ReadItemsKeeps, PrepareItemKeeps, SpoilItemKeeps, FinishPreparingKeeps,
     BeginCommittingKeeps, PlanObjectKeeps, PutObjectKeeps, BreakPutKeeps, PublishMigrationKeeps, SettleKeeps,
     RefuseKeeps, ClassifyItemKeeps, CheckItemKeeps, LockObjectKeeps
<1>3. ASSUME NEW k \in MigKeys, ClearObject(k) PROVE MigIInv' BY <1>3, ClearObjectKeeps
<1>4. ASSUME NEW d \in DOMAIN migDocuments, EditMigrated(d) PROVE MigIInv'
  BY <1>4, EditMigratedKeeps
<1>5. ASSUME NEW x \in MigTexts, PublishElsewhere(x) PROVE MigIInv' BY <1>5, PublishElsewhereKeeps
<1>6. CASE ChangeSurroundings BY <1>6, ChangeSurroundingsKeeps
<1> QED BY <1>1, <1>2, <1>3, <1>4, <1>5, <1>6 DEF MigNext

\* The invariant tells what the runs ask.
LEMMA MigrationTold ==
  ASSUME MigIInv
  PROVE  PublishedOnce /\ FilesKept /\ MigTypeOK
<1>1. MigShape BY DEF MigIInv
<1>2. ASSUME NEW s \in MigSessions, migSessions[s].status # "completed"
      PROVE  (\A x \in MigTexts : migDocuments[<<s, x>>] = 0) /\ ~\E f \in migFiles : f.key[1] = s
  BY <1>2 DEF MigIInv, OwnFits
<1>3. ASSUME NEW s \in MigSessions, migSessions[s].status = "completed"
      PROVE  \A x \in MigSources : Applied(migSessions[s].job.plan, x) => migBindings[x].revision > 0
  BY <1>3 DEF MigIInv, Brought
<1>4. ASSUME NEW x \in MigTexts PROVE Cardinality({s \in MigMakers : migDocuments[<<s, x>>] > 0}) <= 1
  <2>1. TextFits(x, migBindings[x], migDocuments) BY DEF MigIInv
  <2>2. PICK there : there = {s \in MigMakers : migDocuments[<<s, x>>] > 0}
    OBVIOUS
  <2>3. ASSUME there = {} PROVE Cardinality(there) <= 1
    <3>1. Cardinality({}) = 0 BY FS_EmptySet
    <3> QED BY <2>3, <3>1
  <2>4. ASSUME there # {} PROVE Cardinality(there) <= 1
    <3>1. PICK m \in MigMakers : m \in there BY <2>2, <2>4
    <3>2. migBindings[x].revision # 0 BY <2>1, <2>2, <3>1 DEF TextFits
    <3>3. \A o \in there : migBindings[x].target = <<o, x>> BY <2>1, <2>2, <3>2 DEF TextFits
    <3>4. \A o \in there : o = m BY <3>1, <3>3
    <3>5. there = {m} BY <3>1, <3>4
    <3>6. Cardinality({m}) = 1 BY FS_Singleton
    <3> QED BY <3>5, <3>6
  <2>5. Cardinality(there) <= 1 BY <2>3, <2>4
  <2> QED BY ONLY <2>2, <2>5, Zenon
<1>5. FilesKept BY DEF MigIInv, FileFits, ObjectFits, FilesKept
<1>6. MigTypeOK
  <2>1. ASSUME NEW s \in MigSessions
        PROVE  /\ migSessions[s].status \in {"none", "uploading", "preparing", "ready", "committing",
                                             "completed", "failed", "cancelled"}
               /\ migSessions[s].job.n \in 0 .. MigJobs /\ migSessions[s].job.attempts \in 0 .. MigAttempts
               /\ migSessions[s].job.status \in {"pending", "running", "done", "failed", "cancelled"}
    <3>1. migSessions[s] \in MigRow /\ migSessions[s].job \in MigJob BY <1>1, ItemFacts
    <3> QED BY <3>1 DEF MigRow, MigJob
  <2>2. ASSUME NEW s \in MigSessions, NEW x \in MigSources
        PROVE  /\ migItems[s][x].status \in {"none", "uploading", "pending", "prepared", "failed"}
               /\ migItems[s][x].disposition \in {"new", "changed", "unchanged", "conflict"}
               /\ migItems[s][x].status = "prepared" => migItems[s][x].checkpoint = 2
    <3>1. migItems[s][x] \in MigItem BY <1>1, ItemFacts
    <3>2. ItemFits(s, x, migItems[s][x], migBindings[x]) BY DEF MigIInv
    <3> QED BY <3>1, <3>2 DEF MigItem, ItemFits
  <2>3. \A f \in migFiles : f.key \in MigKeys BY <1>1 DEF MigShape
  <2>4. \A k \in MigKeys : migObjects[k].status \in {"none", "planned", "ready", "claimed", "discarded"}
    BY <1>1 DEF MigShape, MigEntry
  <2>5. migWorld.troubles <= MigTroubles BY <1>1, MigAssumption DEF MigShape, MigAssumption
  <2>6. migDocuments \in [MigMakers \X MigTexts -> Nat] /\ migStore \in [MigKeys -> {"none", "partial", "whole"}]
    BY <1>1 DEF MigShape, MigDocs
  <2> QED BY <2>1, <2>2, <2>3, <2>4, <2>5, <2>6 DEF MigTypeOK
<1> QED BY <1>2, <1>3, <1>4, <1>5, <1>6 DEF PublishedOnce

\* What is published replaces the version that was reviewed, in every state.
LEMMA EditsStand ==
  ASSUME MigIInv
  PROVE  EditsOutlive
<1>1. SUFFICES ASSUME NEW w \in MigWorkers, PublishMigration(w), NEW x \in MigTexts, Applied(migWorkers[w].job.plan, x)
               PROVE  migDocuments[migWorkers[w].job.plan[x].target] = migWorkers[w].job.plan[x].expected
  BY DEF EditsOutlive
<1>2. PICK s \in MigSessions : s = migWorkers[w].session BY <1>1, PlaceFacts DEF PublishMigration
<1>3. /\ migSessions[s].status = "committing" /\ migSessions[s].plan = migWorkers[w].job.plan
      /\ \A y \in MigSources : migItems[s][y].decision # "skip" => BindingHolds(y, migItems[s][y])
      /\ migItems[s][x].status # "none"
  BY <1>1, <1>2, PlaceFacts, MigNames DEF PublishMigration, MayPublish, Committing
<1>4. PICK plan : plan = migWorkers[w].job.plan
  OBVIOUS
<1>5. /\ Judged(plan, migItems[s]) /\ x \in MigSources /\ x # MigAsset /\ Applied(plan, x)
  BY <1>1, <1>3, <1>4, SessionFacts, MigNames DEF SessionFits
<1>6. PICK item : item = migItems[s][x]
  OBVIOUS
<1>7. plan[x].target = item.target /\ plan[x].expected = item.expected /\ item.decision # "skip"
  BY <1>5, <1>6 DEF Judged, Applied
<1>8. BindingHolds(x, item) /\ TextFits(x, migBindings[x], migDocuments) /\ ItemFits(s, x, item, migBindings[x])
  BY <1>3, <1>5, <1>6, <1>7 DEF MigIInv
<1>9. migDocuments[item.target] = item.expected
  <2>1. CASE item.binding = 0
    <3>1. item.target = <<s, x>> /\ item.expected = 0 /\ migBindings[x].revision = 0
      BY <1>3, <1>5, <1>6, <1>8, <2>1 DEF ItemFits, BindingHolds
    <3>2. s \in MigMakers BY MigNames
    <3> QED BY <1>8, <3>1, <3>2 DEF TextFits
  <2>2. CASE item.binding # 0
    <3>1. item.target = migBindings[x].target BY <1>3, <1>5, <1>6, <1>8, <2>2 DEF ItemFits
    <3>2. migDocuments[migBindings[x].target] = item.expected
      BY <1>5, <1>8, <2>2 DEF BindingHolds, VersionOf
    <3> QED BY <3>1, <3>2
  <2> QED BY <2>1, <2>2
<1> QED BY <1>4, <1>7, <1>9

----------------
(* Git synchronisation: the runs, and how the mappings, the branch, the packs *)
(* on their way and the goroutines belong together.                           *)

GitPartial(S) == UNION {[D -> Nat] : D \in SUBSET S}

GitJobRow == [kind : {"preview", "execute"}, status : {"pending", "running", "done", "failed", "cancelled"},
              cancel : BOOLEAN, attempts : Nat, holder : GitWorkers \cup {NoGitWorker}]
GitRow    == [status : GitOpen \cup {"none", "preview", "succeeded", "conflict", "failed", "cancelled", "unknown"},
              direction : {"push", "pull"}, selected : SUBSET GitDocs, consent : Nat, remote : Nat,
              docs : GitPartial(GitPaths), files : GitPartial(GitPaths), versions : GitPartial(GitDocs),
              blocked : BOOLEAN, confirmed : BOOLEAN, launched : BOOLEAN, kept : BOOLEAN, job : GitJobRow]
GitPlace  == [at : {"idle", "load", "fetch", "rebuild", "connect", "launch", "send", "transfer", "finish",
                    "accept", "save", "settle"},
              r : GitRuns \cup {0}, job : GitJobRow, run : GitRow, head : Nat, left : Seq(GitPaths)]

GitShape ==
  /\ gitConsent \in Nat /\ gitTroubled \in Nat
  /\ gitTexts \in [GitDocs -> Nat]
  /\ DOMAIN gitMaps = GitPaths
  /\ gitRemote \in [head : Nat, commits : SUBSET GitRuns, flying : SUBSET (GitRuns \X Nat), files : [GitPaths -> Nat]]
  /\ gitRuns \in [GitRuns -> GitRow]
  /\ gitWorkers \in [GitWorkers -> GitPlace]
  /\ gitInspected \subseteq gitRemote.commits /\ \A r \in gitInspected : gitRuns[r].direction = "push"

DocsOf(p) == {0} \cup {x \in GitDocs : PathOf(x) = p}

\* A mapping is of its path, and every pair it has held is kept.
MapsFit(maps) ==
  \A p \in GitPaths : LET row == maps[p].now IN
    /\ row \in maps[p].past \cup {Unmapped}
    /\ row[1] \in DocsOf(p)
Exchanged(maps, p) == {row[3] : row \in maps[p].past}
MapsGrow(maps, new) == \A p \in GitPaths : maps[p].past \subseteq new[p].past

\* The head is the commit of a run that is in the history, or of someone else so far.
CommitFits(id, commits, troubled) == id <= Foreign + troubled /\ (id \in GitRuns => id \in commits)

\* What the user has confirmed, what was known of the documents and of the
\* branch when it was shown to him, and what the run says now.
RunFits(r, run, maps, remote, troubled) ==
  /\ run.status = "queued" \/ run.job.kind = "execute" => run.confirmed
  /\ run.status = "none" => run.job = NoGitJob
  /\ run.confirmed => ~run.blocked /\ run.status \notin {"none", "preparing", "preview"}
  /\ run.launched => run.confirmed /\ run.direction = "push" /\ run.status # "queued"
  /\ r \in remote.commits => run.launched
  /\ \A p \in DOMAIN run.docs : run.docs[p] \in DocsOf(p)
  /\ DOMAIN run.docs = DOMAIN run.files
  /\ run.direction = "pull" /\ (run.status = "preview" \/ run.confirmed) => DOMAIN run.docs = run.selected
  /\ run.direction = "pull" => run.selected \subseteq GitPaths
  /\ CommitFits(run.remote, remote.commits, troubled)
RunKnows(run, maps, remote) ==
  /\ run.direction = "pull" /\ ~run.blocked =>
       \A x \in DOMAIN run.versions : \E old \in maps[PathOf(x)].past : old[1] = x /\ old[2] = run.versions[x]
  /\ run.direction = "push" /\ ~run.blocked /\ remote.head = run.remote =>
       \A p \in DOMAIN run.files : remote.files[p] \in {0, run.files[p]} \cup Exchanged(maps, p)
RunSays(r, run, maps, remote) ==
  IF run.direction = "push"
  THEN /\ r \in remote.commits => run.status \in {"running", "unknown", "succeeded"}
       /\ run.status = "succeeded" => r \in remote.commits
  ELSE run.status = "succeeded" => \A p \in run.selected : run.files[p] \in Exchanged(maps, p)

\* Something of the run is on its way, or about to be.
OnItsWay(r, run, remote) == run.launched /\ run.status \in {"running", "unknown"} /\ r \notin remote.commits

\* What a goroutine at work knows of its run.
GitAtWork(me, run, maps, remote) ==
  /\ me.r \in GitRuns /\ run.status # "none"
  /\ me.job.kind = "execute" => run.confirmed
  /\ me.at # "load" /\ me.job.kind = "execute" => me.run.remote = run.remote /\ me.run.direction = run.direction
  /\ me.at \in {"rebuild", "connect", "launch", "send", "transfer"} =>
       run.direction = "push" /\ run.confirmed /\ me.head = run.remote
  /\ me.at \in {"send", "transfer"} => run.launched
  /\ me.at = "send" => OnItsWay(me.r, run, remote) /\ \A pack \in remote.flying : pack[1] # me.r
  /\ me.at = "finish" => run.direction = "push" /\ me.r \in remote.commits
  /\ me.at \in {"accept", "save"} => run.direction = "pull" /\ run.confirmed
  /\ me.at = "save" => /\ me.left \in Seq(run.selected)
                       /\ \A p \in run.selected : (\E i \in DOMAIN me.left : me.left[i] = p)
                                                  \/ run.files[p] \in Exchanged(maps, p)

GitRows   == \A r \in GitRuns : /\ RunFits(r, gitRuns[r], gitMaps, gitRemote, gitTroubled)
                                /\ RunKnows(gitRuns[r], gitMaps, gitRemote)
                                /\ RunSays(r, gitRuns[r], gitMaps, gitRemote)
GitPacks  == \A pack \in gitRemote.flying : /\ OnItsWay(pack[1], gitRuns[pack[1]], gitRemote)
                                            /\ pack[2] = gitRuns[pack[1]].remote
GitPlaces == \A w \in GitWorkers : gitWorkers[w].at # "idle" =>
               GitAtWork(gitWorkers[w], gitRuns[gitWorkers[w].r], gitMaps, gitRemote)
\* One goroutine at most sends for a run.
GitAlone  == \A v, w \in GitWorkers : v # w /\ {gitWorkers[v].at, gitWorkers[w].at} \subseteq {"send", "transfer"} =>
               gitWorkers[v].r # gitWorkers[w].r

GitIInv == /\ GitShape /\ MapsFit(gitMaps) /\ CommitFits(gitRemote.head, gitRemote.commits, gitTroubled)
           /\ GitRows /\ GitPacks /\ GitPlaces /\ GitAlone

\* How the row of a run may change while somebody works on it.
GitFollows(old, row) ==
  /\ old.status # "none" => row.status # "none" /\ row.direction = old.direction
  /\ old.confirmed => /\ row.confirmed /\ row.selected = old.selected
                      /\ row.remote = old.remote /\ row.files = old.files
  /\ old.launched => row.launched

\* Nothing of the run is on its way, or about to be.
GitSilent(r) == /\ \A pack \in gitRemote.flying : pack[1] # r
                /\ \A w \in GitWorkers : gitWorkers[w].at = "send" => gitWorkers[w].r # r

\* What is around the rows and the goroutines: the branch stays, what is known
\* of it grows.
GitAroundKept ==
  /\ gitRemote' = gitRemote /\ gitInspected' \subseteq gitInspected
  /\ gitConsent' \in Nat /\ gitTroubled' \in Nat /\ gitTroubled <= gitTroubled'
  /\ gitTexts' \in [GitDocs -> Nat] /\ DOMAIN gitMaps' = GitPaths
  /\ MapsFit(gitMaps') /\ MapsGrow(gitMaps, gitMaps')

\* A goroutine stays, rests, or knows what it should at its new place.
GitTurned ==
  /\ gitWorkers' \in [GitWorkers -> GitPlace]
  /\ \A w \in GitWorkers :
       \/ gitWorkers'[w] = gitWorkers[w]
       \/ gitWorkers'[w].at = "idle"
       \/ GitAtWork(gitWorkers'[w], gitRuns'[gitWorkers'[w].r], gitMaps', gitRemote')

LEMMA RunFitsOn ==
  ASSUME NEW r, NEW run, NEW maps, NEW new, NEW remote, NEW troubled \in Nat, NEW more \in Nat,
         remote.head \in Nat, run.remote \in Nat, GitAssumption,
         RunFits(r, run, maps, remote, troubled), troubled <= more
  PROVE  RunFits(r, run, new, remote, more)
  BY DEF RunFits, CommitFits, GitAssumption

LEMMA PathOfDoc == \A x \in GitDocs : PathOf(x) \in GitPaths
  BY GitAssumption DEF GitAssumption, GitDocs, PathOf

LEMMA RunKnowsOn ==
  ASSUME NEW run \in GitRow, NEW maps, NEW new, NEW remote, RunKnows(run, maps, remote), MapsGrow(maps, new)
  PROVE  RunKnows(run, new, remote)
<1>1. ASSUME run.direction = "pull", ~run.blocked, NEW x \in DOMAIN run.versions
      PROVE  \E old \in new[PathOf(x)].past : old[1] = x /\ old[2] = run.versions[x]
  <2>1. x \in GitDocs BY DEF GitRow, GitPartial
  <2>2. PathOf(x) \in GitPaths BY <2>1, PathOfDoc
  <2>3. \E old \in maps[PathOf(x)].past : old[1] = x /\ old[2] = run.versions[x]
    BY <1>1 DEF RunKnows
  <2> QED BY <2>2, <2>3 DEF MapsGrow
<1>2. ASSUME run.direction = "push", ~run.blocked, remote.head = run.remote, NEW p \in DOMAIN run.files
      PROVE  remote.files[p] \in {0, run.files[p]} \cup Exchanged(new, p)
  <2>1. p \in GitPaths BY DEF GitRow, GitPartial
  <2>2. remote.files[p] \in {0, run.files[p]} \cup Exchanged(maps, p) BY <1>2 DEF RunKnows
  <2> QED BY <2>1, <2>2 DEF MapsGrow, Exchanged
<1> QED BY <1>1, <1>2 DEF RunKnows

LEMMA RunSaysOn ==
  ASSUME NEW r, NEW run \in GitRow, NEW maps, NEW new, NEW remote, RunSays(r, run, maps, remote), MapsGrow(maps, new),
         run.selected \subseteq GitPaths \/ run.direction = "push"
  PROVE  RunSays(r, run, new, remote)
<1>1. ASSUME run.status = "succeeded", NEW p \in run.selected, run.direction # "push"
      PROVE  run.files[p] \in Exchanged(new, p)
  <2>1. run.files[p] \in Exchanged(maps, p) /\ p \in GitPaths BY <1>1 DEF RunSays
  <2> QED BY <2>1 DEF MapsGrow, Exchanged
<1> QED BY <1>1 DEF RunSays

\* Unless the run was on its way, nobody works on what is.
LEMMA GitQuiet ==
  ASSUME GitIInv, NEW r \in GitRuns, ~OnItsWay(r, gitRuns[r], gitRemote) PROVE GitSilent(r)
<1>1. ASSUME NEW w \in GitWorkers, gitWorkers[w].at = "send", gitWorkers[w].r = r PROVE FALSE
  BY <1>1 DEF GitIInv, GitPlaces, GitAtWork
<1>2. ASSUME NEW pack \in gitRemote.flying, pack[1] = r PROVE FALSE BY <1>2 DEF GitIInv, GitPacks
<1> QED BY <1>1, <1>2 DEF GitSilent

LEMMA GitAtWorkOn ==
  ASSUME NEW me \in GitPlace, NEW old \in GitRow, NEW row \in GitRow, NEW maps, NEW new, NEW remote,
         me.at # "idle", GitAtWork(me, old, maps, remote), GitFollows(old, row), MapsGrow(maps, new),
         old.direction = "pull" => old.selected \subseteq GitPaths,
         me.at = "send" => row.status \in {"running", "unknown"}
  PROVE  GitAtWork(me, row, new, remote)
<1>1. /\ row.status # "none" /\ row.direction = old.direction /\ me.r \in GitRuns
      /\ old.confirmed => row.confirmed /\ row.selected = old.selected /\ row.remote = old.remote /\ row.files = old.files
      /\ old.launched => row.launched
  BY DEF GitAtWork, GitFollows
<1>2. me.at = "send" => OnItsWay(me.r, row, remote) /\ \A pack \in remote.flying : pack[1] # me.r
  BY <1>1 DEF GitAtWork, OnItsWay
<1>3. me.at = "save" => /\ me.left \in Seq(row.selected)
                        /\ \A p \in row.selected : (\E i \in DOMAIN me.left : me.left[i] = p)
                                                   \/ row.files[p] \in Exchanged(new, p)
  <2> SUFFICES ASSUME me.at = "save"
               PROVE  /\ me.left \in Seq(row.selected)
                      /\ \A p \in row.selected : (\E i \in DOMAIN me.left : me.left[i] = p)
                                                 \/ row.files[p] \in Exchanged(new, p)
    OBVIOUS
  <2>1. /\ old.direction = "pull" /\ old.confirmed /\ me.left \in Seq(old.selected)
        /\ \A p \in old.selected : (\E i \in DOMAIN me.left : me.left[i] = p)
                                   \/ old.files[p] \in Exchanged(maps, p)
    BY DEF GitAtWork
  <2>2. \A p \in GitPaths : Exchanged(maps, p) \subseteq Exchanged(new, p)
    BY DEF MapsGrow, Exchanged
  <2> QED BY <1>1, <2>1, <2>2
<1> QED BY <1>1, <1>2, <1>3 DEF GitAtWork

\* One row changes, and perhaps the goroutines.
LEMMA GitRowMoves ==
  ASSUME GitIInv, NEW r \in GitRuns, NEW row \in GitRow, gitRuns' = [gitRuns EXCEPT ![r] = row],
         GitFollows(gitRuns[r], row), GitAroundKept, GitTurned, GitAlone',
         RunFits(r, row, gitMaps', gitRemote, gitTroubled'), RunKnows(row, gitMaps', gitRemote),
         RunSays(r, row, gitMaps', gitRemote),
         row.status \in {"running", "unknown"} \/ GitSilent(r)'
  PROVE  GitIInv'
<1>1. /\ gitRuns \in [GitRuns -> GitRow] /\ gitRuns' \in [GitRuns -> GitRow]
      /\ gitRuns'[r] = row /\ \A q \in GitRuns \ {r} : gitRuns'[q] = gitRuns[q]
      /\ gitRemote' = gitRemote /\ gitRemote.head \in Nat /\ gitTroubled \in Nat /\ gitTroubled' \in Nat
      /\ gitTroubled <= gitTroubled' /\ MapsGrow(gitMaps, gitMaps')
  BY DEF GitIInv, GitShape, GitAroundKept
<1>2. \A q \in GitRuns : GitFollows(gitRuns[q], gitRuns'[q]) BY <1>1 DEF GitFollows
<1>3. ASSUME NEW q \in GitRuns
      PROVE  /\ RunFits(q, gitRuns[q], gitMaps, gitRemote, gitTroubled)
             /\ RunKnows(gitRuns[q], gitMaps, gitRemote) /\ RunSays(q, gitRuns[q], gitMaps, gitRemote)
  BY DEF GitIInv, GitRows
<1>4. \A q \in GitRuns : gitRuns[q].direction = "pull" => gitRuns[q].selected \subseteq GitPaths
  BY <1>3 DEF RunFits
<1>5. GitShape'
  <2>1. \A q \in gitInspected' : q \in gitRemote.commits /\ q \in GitRuns /\ gitRuns'[q].direction = "push"
    <3> SUFFICES ASSUME NEW q \in gitInspected'
                 PROVE  q \in gitRemote.commits /\ q \in GitRuns /\ gitRuns'[q].direction = "push"
      OBVIOUS
    <3>1. q \in gitRemote.commits /\ q \in GitRuns /\ gitRuns[q].direction = "push"
      BY DEF GitIInv, GitShape, GitAroundKept
    <3>2. gitRuns[q].status # "none" BY <3>1, <1>3 DEF RunSays
    <3> QED BY <3>1, <3>2, <1>2 DEF GitFollows
  <2> QED BY <1>1, <2>1 DEF GitIInv, GitShape, GitAroundKept, GitTurned
<1>6. CommitFits(gitRemote'.head, gitRemote'.commits, gitTroubled')
  BY <1>1, GitAssumption DEF GitIInv, CommitFits, GitAssumption
<1>7. GitRows'
  <2> SUFFICES ASSUME NEW q \in GitRuns
               PROVE  /\ RunFits(q, gitRuns'[q], gitMaps', gitRemote', gitTroubled')
                      /\ RunKnows(gitRuns'[q], gitMaps', gitRemote')
                      /\ RunSays(q, gitRuns'[q], gitMaps', gitRemote')
    BY DEF GitRows
  <2>1. CASE q = r BY <2>1, <1>1
  <2>2. CASE q # r
    <3>1. gitRuns'[q] = gitRuns[q] /\ gitRuns[q] \in GitRow /\ gitRuns[q].remote \in Nat
          /\ (gitRuns[q].selected \subseteq GitPaths \/ gitRuns[q].direction = "push")
      BY <2>2, <1>1, <1>4 DEF GitRow
    <3> QED BY <3>1, <1>1, <1>3, GitAssumption, RunFitsOn, RunKnowsOn, RunSaysOn
  <2> QED BY <2>1, <2>2
<1>8. GitPacks'
  <2> SUFFICES ASSUME NEW pack \in gitRemote.flying
               PROVE  OnItsWay(pack[1], gitRuns'[pack[1]], gitRemote) /\ pack[2] = gitRuns'[pack[1]].remote
    BY <1>1 DEF GitPacks
  <2>1. /\ pack[1] \in GitRuns /\ OnItsWay(pack[1], gitRuns[pack[1]], gitRemote)
        /\ pack[2] = gitRuns[pack[1]].remote
    BY DEF GitIInv, GitShape, GitPacks
  <2>2. CASE pack[1] # r BY <2>1, <2>2, <1>1
  <2>3. CASE pack[1] = r
    <3>1. row.status \in {"running", "unknown"} BY <2>3, <1>1 DEF GitSilent
    <3>2. gitRuns[r].confirmed BY <2>1, <2>3, <1>3 DEF OnItsWay, RunFits
    <3> QED BY <2>1, <2>3, <3>1, <3>2, <1>1 DEF OnItsWay, GitFollows
  <2> QED BY <2>2, <2>3
<1>9. GitPlaces'
  <2> SUFFICES ASSUME NEW w \in GitWorkers, gitWorkers'[w].at # "idle"
               PROVE  GitAtWork(gitWorkers'[w], gitRuns'[gitWorkers'[w].r], gitMaps', gitRemote')
    BY DEF GitPlaces
  <2>1. CASE gitWorkers'[w] = gitWorkers[w]
    <3> DEFINE me == gitWorkers[w]
    <3>1. me \in GitPlace /\ me.at # "idle" /\ GitAtWork(me, gitRuns[me.r], gitMaps, gitRemote) /\ me.r \in GitRuns
      BY <2>1 DEF GitIInv, GitShape, GitPlaces, GitAtWork
    <3>2. me.at = "send" => gitRuns'[me.r].status \in {"running", "unknown"}
      <4>1. CASE me.r = r BY <2>1, <3>1, <4>1, <1>1 DEF GitSilent
      <4>2. CASE me.r # r BY <3>1, <4>2, <1>1 DEF GitAtWork, OnItsWay
      <4> QED BY <4>1, <4>2
    <3>3. GitFollows(gitRuns[me.r], gitRuns'[me.r]) /\ gitRuns[me.r] \in GitRow /\ gitRuns'[me.r] \in GitRow
      BY <3>1, <1>1, <1>2
    <3>4. gitRuns[me.r].direction = "pull" => gitRuns[me.r].selected \subseteq GitPaths
      BY <3>1, <1>4
    <3> HIDE DEF me
    <3>5. GitAtWork(me, gitRuns'[me.r], gitMaps', gitRemote)
      BY ONLY <3>1, <3>2, <3>3, <3>4, <1>1, GitAtWorkOn
    <3> QED BY <3>5, <2>1, <1>1 DEF me
  <2>2. CASE gitWorkers'[w] # gitWorkers[w] BY <2>2 DEF GitTurned
  <2> QED BY <2>1, <2>2
<1> QED BY <1>5, <1>6, <1>7, <1>8, <1>9 DEF GitIInv, GitAroundKept

----------------
LEMMA NoGitPartial == ASSUME NEW S PROVE <<>> \in GitPartial(S)
<1>1. <<>> \in [{} -> Nat]
  OBVIOUS
<1> QED BY <1>1 DEF GitPartial

LEMMA GitIdleTyped == NoGitJob \in GitJobRow /\ NoGitRun \in GitRow /\ GitIdle \in GitPlace
<1>1. NoGitJob \in GitJobRow BY DEF NoGitJob, GitJobRow
<1>2. NoGitRun \in GitRow BY <1>1, NoGitPartial DEF NoGitRun, GitRow
<1> QED BY <1>1, <1>2 DEF GitIdle, GitPlace

\* Nobody begins to send.
SendersStay == \A v \in GitWorkers : gitWorkers'[v].at \in {"send", "transfer"} => gitWorkers'[v] = gitWorkers[v]

LEMMA GitAloneStays == ASSUME GitIInv, SendersStay PROVE GitAlone'
  BY DEF GitIInv, GitAlone, SendersStay

LEMMA GitSilentStays ==
  ASSUME NEW r, GitSilent(r), SendersStay, gitRemote' = gitRemote PROVE GitSilent(r)'
  BY DEF GitSilent, SendersStay

LEMMA GitTurns ==
  ASSUME GitIInv, NEW w \in GitWorkers, NEW me \in GitPlace, Turns(w, me), me.at \notin {"send", "transfer"},
         me.at = "idle" \/ GitAtWork(me, gitRuns'[me.r], gitMaps', gitRemote')
  PROVE  GitTurned /\ SendersStay
<1>1. gitWorkers \in [GitWorkers -> GitPlace] /\ gitWorkers' = [gitWorkers EXCEPT ![w] = me]
  BY DEF GitIInv, GitShape, Turns
<1>2. \A v \in GitWorkers : gitWorkers'[v] = IF v = w THEN me ELSE gitWorkers[v] BY <1>1
<1> QED BY <1>1, <1>2 DEF GitTurned, SendersStay

LEMMA GitRests ==
  ASSUME GitIInv, NEW w, Turns(w, GitIdle) \/ UNCHANGED gitWorkers PROVE GitTurned /\ SendersStay
<1>1. gitWorkers \in [GitWorkers -> GitPlace] /\ GitIdle \in GitPlace /\ GitIdle.at = "idle"
  BY GitIdleTyped DEF GitIInv, GitShape, GitIdle
<1>2. gitWorkers' = [gitWorkers EXCEPT ![w] = GitIdle] \/ gitWorkers' = gitWorkers BY DEF Turns
<1>3. \A v \in GitWorkers : gitWorkers'[v] = GitIdle \/ gitWorkers'[v] = gitWorkers[v] BY <1>1, <1>2
<1> QED BY <1>1, <1>2, <1>3 DEF GitTurned, SendersStay

\* The row goes on with the same plan.
GitSame(old, row) ==
  /\ row.direction = old.direction /\ row.selected = old.selected /\ row.remote = old.remote
  /\ row.docs = old.docs /\ row.files = old.files /\ row.versions = old.versions
  /\ row.blocked = old.blocked /\ row.confirmed = old.confirmed /\ row.launched = old.launched
  /\ row.job.kind = old.job.kind
GitGoes(old, row) ==
  /\ old.status # "none"
  /\ row.status \in {old.status, "running", "unknown", "succeeded", "failed", "conflict", "cancelled"}

LEMMA GitRowGoes ==
  ASSUME GitIInv, NEW r \in GitRuns, NEW row \in GitRow, gitRuns' = [gitRuns EXCEPT ![r] = row],
         GitSame(gitRuns[r], row), GitGoes(gitRuns[r], row), RunSays(r, row, gitMaps, gitRemote),
         GitAroundKept, GitTurned, SendersStay,
         OnItsWay(r, gitRuns[r], gitRemote) => row.status \in {"running", "unknown"} \/ GitSilent(r)'
  PROVE  GitIInv'
<1> DEFINE old == gitRuns[r]
<1>1. /\ old \in GitRow /\ RunFits(r, old, gitMaps, gitRemote, gitTroubled) /\ RunKnows(old, gitMaps, gitRemote)
      /\ gitTroubled \in Nat /\ gitTroubled' \in Nat /\ gitTroubled <= gitTroubled' /\ gitRemote.head \in Nat
      /\ MapsGrow(gitMaps, gitMaps') /\ gitRemote' = gitRemote
  BY DEF GitIInv, GitShape, GitRows, GitAroundKept
<1>2. old.status = "none" => ~old.confirmed /\ ~old.launched BY <1>1 DEF RunFits
<1>3. GitFollows(old, row) BY <1>2 DEF GitFollows, GitSame, GitGoes
<1>4. RunFits(r, row, gitMaps, gitRemote, gitTroubled) BY <1>1 DEF RunFits, GitSame, GitGoes
<1>5. RunKnows(row, gitMaps, gitRemote) BY <1>1 DEF RunKnows, GitSame
<1>6. row.remote \in Nat /\ (row.selected \subseteq GitPaths \/ row.direction = "push")
  BY <1>4 DEF GitRow, RunFits
<1>7. RunFits(r, row, gitMaps', gitRemote, gitTroubled')
  BY <1>1, <1>4, <1>6, RunFitsOn, GitAssumption
<1>8. RunKnows(row, gitMaps', gitRemote) /\ RunSays(r, row, gitMaps', gitRemote)
  BY <1>1, <1>5, <1>6, RunKnowsOn, RunSaysOn
<1>9. row.status \in {"running", "unknown"} \/ GitSilent(r)' BY <1>1, GitQuiet, GitSilentStays
<1> QED BY <1>3, <1>7, <1>8, <1>9, GitAloneStays, GitRowMoves

\* What is around stays as it is.
LEMMA GitStill ==
  ASSUME GitIInv, UNCHANGED <<gitConsent, gitTexts, gitMaps, gitRemote, gitInspected>>,
         gitTroubled' = gitTroubled \/ GitTrouble
  PROVE  GitAroundKept
<1>1. gitTroubled \in Nat /\ gitTroubled' \in Nat /\ gitTroubled <= gitTroubled'
  BY DEF GitIInv, GitShape, GitTrouble
<1> QED BY <1>1 DEF GitIInv, GitShape, GitAroundKept, MapsGrow

\* Only the job of the row changes, or its status, and perhaps a goroutine rests.
LEMMA GitEnds ==
  ASSUME GitIInv, NEW r \in GitRuns, NEW row \in GitRow, gitRuns' = [gitRuns EXCEPT ![r] = row],
         GitSame(gitRuns[r], row), GitGoes(gitRuns[r], row), RunSays(r, row, gitMaps, gitRemote),
         GitAroundKept, NEW w, Turns(w, GitIdle) \/ UNCHANGED gitWorkers,
         OnItsWay(r, gitRuns[r], gitRemote) => row.status \in {"running", "unknown"} \/ GitSilent(r)'
  PROVE  GitIInv'
  BY GitRests, GitRowGoes

LEMMA GitSettledTyped ==
  ASSUME NEW w, NEW status \in {"failed", "done", "retry"}, Held(w) \in GitJobRow
  PROVE  GitSettled(w, status) \in GitJobRow /\ GitSettled(w, status).kind = Held(w).kind
<1>1. PICK job : job = [Held(w) EXCEPT !.holder = NoGitWorker,
        !.status = IF Held(w).cancel THEN "cancelled"
                   ELSE IF status = "retry" THEN IF Held(w).attempts < GitAttempts THEN "pending" ELSE "failed"
                   ELSE status]
  OBVIOUS
<1>2. PICK st \in {"pending", "running", "done", "failed", "cancelled"} :
             st = IF Held(w).cancel THEN "cancelled"
                  ELSE IF status = "retry" THEN IF Held(w).attempts < GitAttempts THEN "pending" ELSE "failed"
                  ELSE status
  OBVIOUS
<1>3. job = [Held(w) EXCEPT !.holder = NoGitWorker, !.status = st] BY <1>1, <1>2
<1>4. job \in GitJobRow /\ job.kind = Held(w).kind BY <1>3 DEF GitJobRow
<1> QED BY <1>1, <1>4 DEF GitSettled

\* The attempt ends, and so does an open run; a push that runs becomes unknown.
LEMMA RunFailed ==
  ASSUME NEW r, NEW old \in GitRow, NEW maps, NEW remote, NEW status \in {"failed", "conflict", "cancelled"},
         NEW run, run = FailedRun(old, status), RunSays(r, old, maps, remote), old.status # "none"
  PROVE  /\ run \in GitRow /\ GitSame(old, run) /\ GitGoes(old, run) /\ run.job = old.job
         /\ RunSays(r, run, maps, remote)
         /\ old.direction = "push" /\ OnItsWay(r, old, remote) => run.status \in {"running", "unknown"}
<1>1. CASE old.status \notin GitOpen BY <1>1 DEF FailedRun, GitSame, GitGoes, OnItsWay, GitOpen
<1>2. CASE old.status \in GitOpen
  <2>1. PICK st \in {"unknown", "failed", "conflict", "cancelled"} :
               st = IF old.status = "running" /\ old.direction = "push" THEN "unknown" ELSE status
    OBVIOUS
  <2>2. run = [old EXCEPT !.status = st] BY <1>2, <2>1 DEF FailedRun
  <2>3. run \in GitRow /\ run.status = st /\ GitSame(old, run) /\ run.job = old.job
    BY <2>2 DEF GitRow, GitSame
  <2>4. GitGoes(old, run) BY <1>2, <2>1, <2>3 DEF GitGoes, GitOpen
  <2>5. RunSays(r, run, maps, remote) BY <1>2, <2>1, <2>3 DEF RunSays, GitSame, GitOpen
  <2>6. old.direction = "push" /\ OnItsWay(r, old, remote) => run.status \in {"running", "unknown"}
    BY <1>2, <2>1, <2>3 DEF OnItsWay, GitOpen
  <2> QED BY <2>3, <2>4, <2>5, <2>6
<1> QED BY <1>1, <1>2

LEMMA GitFails ==
  ASSUME GitIInv, NEW w \in GitWorkers, gitWorkers[w].at # "idle", GitAroundKept,
         NEW status \in {"failed", "conflict"}, NEW job \in {"failed", "retry"}, FailGit(w, status, job)
  PROVE  GitIInv'
<1> DEFINE r == gitWorkers[w].r
           old == gitRuns[r]
           run == FailedRun(old, status)
           row == [run EXCEPT !.job = GitSettled(w, job)]
<1>1. /\ r \in GitRuns /\ old \in GitRow /\ RunSays(r, old, gitMaps, gitRemote)
      /\ RunFits(r, old, gitMaps, gitRemote, gitTroubled) /\ old.status # "none"
  BY DEF GitIInv, GitShape, GitRows, GitPlaces, GitAtWork
<1>2. Held(w) = old.job /\ RunOf(w) = old BY DEF Held, RunOf
<1>3. GitSettled(w, job) \in GitJobRow /\ GitSettled(w, job).kind = old.job.kind
  BY <1>1, <1>2, GitSettledTyped DEF GitRow
<1>4. gitRuns' = [gitRuns EXCEPT ![r] = row] /\ Turns(w, GitIdle) BY <1>2 DEF FailGit
<1>5. /\ run \in GitRow /\ GitSame(old, run) /\ GitGoes(old, run) /\ RunSays(r, run, gitMaps, gitRemote)
      /\ old.direction = "push" /\ OnItsWay(r, old, gitRemote) => run.status \in {"running", "unknown"}
  <2> HIDE DEF old, r
  <2> QED BY <1>1, RunFailed
<1>6. OnItsWay(r, old, gitRemote) => old.direction = "push" BY <1>1 DEF OnItsWay, RunFits
<1>7. PICK now : now = row
  OBVIOUS
<1>8. now \in GitRow /\ now.status = run.status /\ GitSame(run, now) /\ now.job.kind = old.job.kind
  <2> HIDE DEF run, old, r
  <2>1. run.job.kind = old.job.kind BY <1>5 DEF GitSame
  <2> QED BY <1>3, <1>5, <1>7, <2>1 DEF GitRow, GitSame
<1> HIDE DEF run, old, row
<1>9. GitSame(old, now) /\ GitGoes(old, now) /\ RunSays(r, now, gitMaps, gitRemote)
  BY <1>5, <1>8 DEF GitSame, GitGoes, RunSays
<1>10. gitRuns' = [gitRuns EXCEPT ![r] = now] BY <1>4, <1>7
<1> HIDE DEF r
<1> QED BY <1>1, <1>4, <1>5, <1>6, <1>8, <1>9, <1>10, GitEnds DEF old

----------------
\* The row as the invariant knows it.
LEMMA GitRowIs ==
  ASSUME GitIInv, NEW r \in GitRuns
  PROVE  /\ gitRuns[r] \in GitRow /\ gitRuns[r].job \in GitJobRow
         /\ RunFits(r, gitRuns[r], gitMaps, gitRemote, gitTroubled)
         /\ RunKnows(gitRuns[r], gitMaps, gitRemote) /\ RunSays(r, gitRuns[r], gitMaps, gitRemote)
  BY DEF GitIInv, GitShape, GitRows, GitRow

LEMMA GitPlaceIs ==
  ASSUME GitIInv, NEW w \in GitWorkers, gitWorkers[w].at # "idle"
  PROVE  /\ gitWorkers[w] \in GitPlace /\ gitWorkers[w].r \in GitRuns /\ RunOf(w) = gitRuns[gitWorkers[w].r]
         /\ GitAtWork(gitWorkers[w], gitRuns[gitWorkers[w].r], gitMaps, gitRemote)
  BY DEF GitIInv, GitShape, GitPlaces, GitAtWork, RunOf

\* queueGitSyncPreview.
LEMMA StepQueuePreview ==
  ASSUME GitIInv, NEW r \in GitRuns, NEW direction \in {"push", "pull"}, NEW selected \in SUBSET GitDocs,
         QueuePreview(r, direction, selected)
  PROVE  GitIInv'
<1>1. PICK job : job = [NoGitJob EXCEPT !.status = "pending"]
  OBVIOUS
<1>2. PICK row : row = [NoGitRun EXCEPT !.status = "preparing", !.direction = direction, !.selected = selected,
                          !.consent = gitConsent, !.job = job]
  OBVIOUS
<1>3. job \in GitJobRow /\ job.kind = "preview" BY <1>1, GitIdleTyped DEF NoGitJob, GitJobRow
<1>4. /\ row \in GitRow /\ row.status = "preparing" /\ row.direction = direction /\ row.selected = selected
      /\ row.remote = 0 /\ row.docs = <<>> /\ row.files = <<>> /\ row.versions = <<>>
      /\ ~row.confirmed /\ ~row.launched /\ row.job.kind = "preview"
  <2>1. NoGitRun \in GitRow /\ gitConsent \in Nat /\ "preparing" \in GitOpen
    BY GitIdleTyped DEF GitIInv, GitShape, GitOpen
  <2> QED BY <1>2, <1>3, <2>1 DEF NoGitRun, GitRow
<1>5. /\ gitRuns[r].status = "none" /\ gitRuns' = [gitRuns EXCEPT ![r] = row]
      /\ UNCHANGED <<gitConsent, gitTexts, gitMaps, gitRemote, gitWorkers, gitInspected, gitTroubled>>
      /\ direction = "pull" => selected \subseteq GitPaths
  BY <1>1, <1>2 DEF QueuePreview
<1>6. GitAroundKept /\ GitTurned /\ SendersStay /\ GitAlone'
  BY <1>5, GitStill, GitRests, GitAloneStays
<1>7. ~gitRuns[r].confirmed /\ ~gitRuns[r].launched /\ gitTroubled \in Nat
  BY <1>5, GitRowIs DEF RunFits, GitIInv, GitShape
<1>8. GitFollows(gitRuns[r], row) BY <1>5, <1>7 DEF GitFollows
<1>9. DOMAIN row.docs = {} /\ DOMAIN row.files = {} /\ DOMAIN row.versions = {} BY <1>4
<1>10. RunFits(r, row, gitMaps', gitRemote, gitTroubled')
  BY <1>4, <1>5, <1>7, <1>9, GitRowIs, GitAssumption DEF RunFits, CommitFits, GitAssumption
<1>11. RunKnows(row, gitMaps', gitRemote) BY <1>9 DEF RunKnows
<1>12. RunSays(r, row, gitMaps', gitRemote) /\ GitSilent(r)
  <2>1. r \notin gitRemote.commits BY <1>7, GitRowIs DEF RunFits
  <2>2. ~OnItsWay(r, gitRuns[r], gitRemote) BY <1>7 DEF OnItsWay
  <2> QED BY <1>4, <2>1, <2>2, GitQuiet DEF RunSays
<1>13. GitSilent(r)' BY <1>5, <1>6, <1>12, GitSilentStays
<1> QED BY <1>4, <1>5, <1>6, <1>8, <1>10, <1>11, <1>12, <1>13, GitRowMoves

\* confirmGitSync: what is confirmed is not blocked.
LEMMA StepConfirmGit == ASSUME GitIInv, NEW r \in GitRuns, ConfirmGit(r) PROVE GitIInv'
<1> DEFINE old == gitRuns[r]
<1>1. PICK job : job = [NoGitJob EXCEPT !.kind = "execute", !.status = "pending"]
  OBVIOUS
<1>2. PICK row : row = [old EXCEPT !.status = "queued", !.confirmed = TRUE, !.job = job]
  OBVIOUS
<1>3. job \in GitJobRow BY <1>1, GitIdleTyped DEF GitJobRow
<1>4. /\ old \in GitRow /\ old.status = "preview" /\ ~old.blocked
      /\ RunFits(r, old, gitMaps, gitRemote, gitTroubled)
      /\ RunKnows(old, gitMaps, gitRemote) /\ RunSays(r, old, gitMaps, gitRemote)
  BY GitRowIs DEF ConfirmGit
<1>5. /\ gitRuns' = [gitRuns EXCEPT ![r] = row]
      /\ UNCHANGED <<gitConsent, gitTexts, gitMaps, gitRemote, gitWorkers, gitInspected, gitTroubled>>
  BY <1>1, <1>2 DEF ConfirmGit
<1> HIDE DEF old
<1>6. /\ row \in GitRow /\ row.status = "queued" /\ row.confirmed
      /\ row.direction = old.direction /\ row.selected = old.selected /\ row.remote = old.remote
      /\ row.docs = old.docs /\ row.files = old.files /\ row.versions = old.versions
      /\ row.blocked = old.blocked /\ row.launched = old.launched
  <2>1. "queued" \in GitOpen BY DEF GitOpen
  <2> QED BY <1>2, <1>3, <1>4, <2>1 DEF GitRow
<1>7. GitAroundKept /\ GitTurned /\ SendersStay /\ GitAlone'
  BY <1>5, GitStill, GitRests, GitAloneStays
<1>8. ~old.confirmed /\ ~old.launched /\ ~OnItsWay(r, old, gitRemote) BY <1>4 DEF RunFits, OnItsWay
<1>9. GitFollows(old, row) BY <1>4, <1>6, <1>8 DEF GitFollows
<1>10. RunFits(r, row, gitMaps, gitRemote, gitTroubled) BY <1>4, <1>6, <1>8 DEF RunFits
<1>11. RunKnows(row, gitMaps, gitRemote) BY <1>4, <1>6 DEF RunKnows
<1>12. RunSays(r, row, gitMaps, gitRemote) BY <1>4, <1>6 DEF RunSays
<1>13. GitSilent(r)' BY <1>5, <1>7, <1>8, GitQuiet, GitSilentStays DEF old
<1> QED BY <1>5, <1>6, <1>7, <1>9, <1>10, <1>11, <1>12, <1>13, GitRowMoves DEF old

\* cancelGitSync: a push that was launched stays unknown.
LEMMA StepCancelGit == ASSUME GitIInv, NEW r \in GitRuns, CancelGit(r) PROVE GitIInv'
<1> DEFINE old == gitRuns[r]
<1>1. PICK cancel \in BOOLEAN : cancel = (old.job.cancel \/ old.job.status \in {"pending", "running"})
  BY GitRowIs DEF GitJobRow
<1>2. PICK st \in {"unknown", "cancelled"} :
             st = IF old.direction = "push" /\ old.status \in {"running", "unknown"} THEN "unknown" ELSE "cancelled"
  OBVIOUS
<1>3. PICK job : job = [old.job EXCEPT !.cancel = cancel]
  OBVIOUS
<1>4. PICK row : row = [old EXCEPT !.status = st, !.job = job]
  OBVIOUS
<1>5. /\ old \in GitRow /\ old.job \in GitJobRow
      /\ old.status \in {"preparing", "preview", "queued", "running", "unknown"}
      /\ RunFits(r, old, gitMaps, gitRemote, gitTroubled) /\ RunSays(r, old, gitMaps, gitRemote)
  BY GitRowIs DEF CancelGit
<1>6. gitRuns' = [gitRuns EXCEPT ![r] = row]
  <2>1. gitRuns' = [gitRuns EXCEPT ![r].status = st, ![r].job.cancel = cancel]
    BY <1>1, <1>2 DEF CancelGit
  <2> QED BY <2>1, <1>3, <1>4, <1>5 DEF GitIInv, GitShape
<1>7. UNCHANGED <<gitConsent, gitTexts, gitMaps, gitRemote, gitWorkers, gitInspected, gitTroubled>>
  BY DEF CancelGit
<1>8. GitAroundKept /\ GitTurned /\ SendersStay BY <1>7, GitStill, GitRests
<1> HIDE DEF old
<1>9. job \in GitJobRow /\ job.kind = old.job.kind BY <1>3, <1>5 DEF GitJobRow
<1>10. row \in GitRow /\ row.status = st /\ GitSame(old, row)
  BY <1>4, <1>5, <1>9 DEF GitRow, GitSame
<1>11. GitGoes(old, row) BY <1>5, <1>10 DEF GitGoes
<1>12. RunSays(r, row, gitMaps, gitRemote) BY <1>2, <1>5, <1>10 DEF RunSays, GitSame
<1>13. OnItsWay(r, old, gitRemote) => row.status \in {"running", "unknown"}
  BY <1>2, <1>5, <1>10 DEF OnItsWay, RunFits
<1> QED BY <1>6, <1>8, <1>10, <1>11, <1>12, <1>13, GitRowGoes DEF old

\* Runs of which only the job, the snapshot or a status of no push that was
\* launched changes, and the bound.
LEMMA GitQuietly ==
  ASSUME GitIInv, NEW r \in GitRuns, NEW row \in GitRow, gitRuns' = [gitRuns EXCEPT ![r] = row],
         GitSame(gitRuns[r], row), gitRuns[r].status # "none",
         \/ row.status = gitRuns[r].status
         \/ gitRuns[r].status \notin {"none", "running", "unknown", "succeeded"} /\ row.status = "cancelled",
         UNCHANGED <<gitConsent, gitTexts, gitMaps, gitRemote, gitInspected>>,
         gitTroubled' = gitTroubled \/ GitTrouble, GitTurned, SendersStay
  PROVE  GitIInv'
<1> DEFINE old == gitRuns[r]
<1>1. RunSays(r, old, gitMaps, gitRemote) BY GitRowIs
<1>2. GitAroundKept BY GitStill
<1>3. GitGoes(old, row) BY DEF GitGoes
<1>4. RunSays(r, row, gitMaps, gitRemote) BY <1>1 DEF RunSays, GitSame
<1>5. OnItsWay(r, old, gitRemote) => row.status \in {"running", "unknown"} BY DEF OnItsWay
<1> QED BY <1>2, <1>3, <1>4, <1>5, GitRowGoes

\* The lease of runJob runs out.
LEMMA StepLoseGit == ASSUME GitIInv, NEW r \in GitRuns, LoseGit(r) PROVE GitIInv'
<1> DEFINE old == gitRuns[r]
<1>1. PICK st \in {"cancelled", "pending", "failed"} :
             st = IF old.job.cancel THEN "cancelled"
                  ELSE IF old.job.attempts < GitAttempts THEN "pending" ELSE "failed"
  OBVIOUS
<1>2. PICK job : job = [old.job EXCEPT !.holder = NoGitWorker, !.status = st]
  OBVIOUS
<1>3. PICK row : row = [old EXCEPT !.job = job]
  OBVIOUS
<1>4. old \in GitRow /\ old.job \in GitJobRow /\ old.status # "none"
  BY GitRowIs DEF RunFits, NoGitJob, LoseGit
<1>5. /\ gitRuns' = [gitRuns EXCEPT ![r] = row] /\ GitTrouble
      /\ UNCHANGED <<gitConsent, gitTexts, gitMaps, gitRemote, gitInspected>>
  <2>1. gitRuns' = [gitRuns EXCEPT ![r].job = job] BY <1>1, <1>2 DEF LoseGit
  <2> QED BY <2>1, <1>3 DEF LoseGit
<1>6. GitTurned /\ SendersStay BY GitRests DEF LoseGit
<1> HIDE DEF old
<1>7. job \in GitJobRow /\ job.kind = old.job.kind BY <1>2, <1>4 DEF GitJobRow
<1>8. row \in GitRow /\ row.status = old.status /\ GitSame(old, row)
  BY <1>3, <1>4, <1>7 DEF GitRow, GitSame
<1> QED BY <1>4, <1>5, <1>6, <1>8, GitQuietly DEF old

\* StartGitSync: the preview expires.
LEMMA StepExpireGit == ASSUME GitIInv, NEW r \in GitRuns, ExpireGit(r) PROVE GitIInv'
<1> DEFINE old == gitRuns[r]
<1>1. PICK st : st = IF old.status \in {"preparing", "preview", "queued"} THEN "cancelled" ELSE old.status
  OBVIOUS
<1>2. PICK row : row = [old EXCEPT !.kept = FALSE, !.status = st]
  OBVIOUS
<1>3. old \in GitRow /\ old.status # "none" BY GitRowIs DEF ExpireGit
<1>4. /\ gitRuns' = [gitRuns EXCEPT ![r] = row] /\ GitTrouble
      /\ UNCHANGED <<gitConsent, gitTexts, gitMaps, gitRemote, gitInspected, gitWorkers>>
  <2>1. gitRuns' = [gitRuns EXCEPT ![r].kept = FALSE, ![r].status = st] BY <1>1 DEF ExpireGit
  <2> QED BY <2>1, <1>2 DEF ExpireGit, GitIInv, GitShape
<1>5. GitTurned /\ SendersStay BY <1>4, GitRests
<1> HIDE DEF old
<1>6. row \in GitRow /\ row.status = st /\ GitSame(old, row) BY <1>1, <1>2, <1>3 DEF GitRow, GitSame
<1> QED BY <1>1, <1>3, <1>4, <1>5, <1>6, GitQuietly DEF old

\* StartGitSync: a run ends with its job.
LEMMA StepSweepGit == ASSUME GitIInv, NEW r \in GitRuns, SweepGit(r) PROVE GitIInv'
<1> DEFINE old == gitRuns[r]
<1>1. PICK st \in {"failed", "cancelled"} : st = IF old.job.cancel THEN "cancelled" ELSE "failed"
  OBVIOUS
<1>2. PICK run : run = FailedRun(old, st)
  OBVIOUS
<1>3. /\ old \in GitRow /\ RunFits(r, old, gitMaps, gitRemote, gitTroubled) /\ RunSays(r, old, gitMaps, gitRemote)
      /\ old.status # "none"
  BY GitRowIs DEF SweepGit, GitOpen
<1>4. /\ gitRuns' = [gitRuns EXCEPT ![r] = run]
      /\ UNCHANGED <<gitConsent, gitTexts, gitMaps, gitRemote, gitWorkers, gitInspected, gitTroubled>>
  BY <1>1, <1>2 DEF SweepGit
<1>5. GitAroundKept /\ GitTurned /\ SendersStay BY <1>4, GitStill, GitRests
<1> HIDE DEF old
<1>6. /\ run \in GitRow /\ GitSame(old, run) /\ GitGoes(old, run) /\ RunSays(r, run, gitMaps, gitRemote)
      /\ old.direction = "push" /\ OnItsWay(r, old, gitRemote) => run.status \in {"running", "unknown"}
  BY <1>1, <1>2, <1>3, RunFailed
<1>7. OnItsWay(r, old, gitRemote) => old.direction = "push" BY <1>3 DEF OnItsWay, RunFits
<1> QED BY <1>4, <1>5, <1>6, <1>7, GitRowGoes DEF old

----------------
\* A goroutine goes on and leaves the row as it is.
LEMMA GitWalks ==
  ASSUME GitIInv, NEW w \in GitWorkers, NEW me \in GitPlace, Turns(w, me), me.r \in GitRuns,
         UNCHANGED <<gitConsent, gitTexts, gitMaps, gitRemote, gitRuns, gitInspected, gitTroubled>>,
         me.at \notin {"send", "transfer"}, GitAtWork(me, gitRuns[me.r], gitMaps, gitRemote)
  PROVE  GitIInv'
<1> DEFINE r == me.r
           row == gitRuns[r]
<1>1. row \in GitRow /\ gitRuns' = [gitRuns EXCEPT ![r] = row] /\ row.status # "none"
  BY GitRowIs DEF GitIInv, GitShape, GitAtWork
<1>2. GitTurned /\ SendersStay BY GitTurns
<1>3. GitSame(row, row) BY DEF GitSame
<1> HIDE DEF row
<1> QED BY <1>1, <1>2, <1>3, GitQuietly DEF row

\* The job of the row changes and the goroutine rests.
LEMMA GitJobEnds ==
  ASSUME GitIInv, NEW w \in GitWorkers, gitWorkers[w].at # "idle", NEW status \in {"failed", "done", "retry"},
         gitRuns' = [gitRuns EXCEPT ![gitWorkers[w].r].job = GitSettled(w, status)], Turns(w, GitIdle),
         UNCHANGED <<gitConsent, gitTexts, gitMaps, gitRemote, gitInspected, gitTroubled>>
  PROVE  GitIInv'
<1> DEFINE r == gitWorkers[w].r
           old == gitRuns[r]
<1>1. r \in GitRuns /\ old \in GitRow /\ old.job \in GitJobRow /\ old.status # "none"
  BY GitPlaceIs, GitRowIs DEF GitAtWork
<1>2. PICK job : job = GitSettled(w, status)
  OBVIOUS
<1>3. PICK row : row = [old EXCEPT !.job = job]
  OBVIOUS
<1>4. job \in GitJobRow /\ job.kind = old.job.kind BY <1>1, <1>2, GitSettledTyped DEF Held
<1>5. gitRuns' = [gitRuns EXCEPT ![r] = row] BY <1>2, <1>3
<1> HIDE DEF r, old
<1>6. row \in GitRow /\ row.status = old.status /\ GitSame(old, row)
  BY <1>1, <1>3, <1>4 DEF GitRow, GitSame
<1>7. GitTurned /\ SendersStay BY GitRests
<1> QED BY <1>1, <1>5, <1>6, <1>7, GitQuietly DEF old

\* claimJob.
LEMMA StepClaimGit == ASSUME GitIInv, NEW w \in GitWorkers, NEW r \in GitRuns, ClaimGit(w, r) PROVE GitIInv'
<1> DEFINE old == gitRuns[r]
<1>1. /\ old \in GitRow /\ old.job \in GitJobRow /\ RunFits(r, old, gitMaps, gitRemote, gitTroubled)
      /\ old.job.attempts \in Nat
  BY GitRowIs DEF GitJobRow
<1>2. PICK n \in Nat : n = old.job.attempts + 1 BY <1>1
<1>3. PICK job : job = [old.job EXCEPT !.status = "running", !.attempts = n, !.holder = w]
  OBVIOUS
<1>4. PICK row : row = [old EXCEPT !.job = job]
  OBVIOUS
<1>5. PICK me : me = [GitIdle EXCEPT !.at = "load", !.r = r, !.job = job]
  OBVIOUS
<1>6. /\ gitRuns' = [gitRuns EXCEPT ![r] = row] /\ Turns(w, me)
      /\ UNCHANGED <<gitConsent, gitTexts, gitMaps, gitRemote, gitInspected, gitTroubled>>
      /\ old.job.status = "pending"
  BY <1>2, <1>3, <1>4, <1>5 DEF ClaimGit
<1> HIDE DEF old
<1>7. job \in GitJobRow /\ job.kind = old.job.kind BY <1>1, <1>3 DEF GitJobRow
<1>8. row \in GitRow /\ row.status = old.status /\ GitSame(old, row)
  BY <1>1, <1>4, <1>7 DEF GitRow, GitSame
<1>9. me \in GitPlace /\ me.at = "load" /\ me.r = r /\ me.job = job
  BY <1>5, <1>7, GitIdleTyped DEF GitIdle, GitPlace
<1>10. old.status # "none" BY <1>1, <1>6 DEF RunFits, NoGitJob
<1>11. GitAtWork(me, row, gitMaps, gitRemote)
  BY <1>1, <1>7, <1>8, <1>9, <1>10 DEF GitAtWork, RunFits, GitSame
<1>12. gitRuns'[me.r] = row /\ gitMaps' = gitMaps /\ gitRemote' = gitRemote
  BY <1>6, <1>9 DEF GitIInv, GitShape
<1>13. GitTurned /\ SendersStay BY <1>6, <1>9, <1>11, <1>12, GitTurns
<1> QED BY <1>6, <1>8, <1>10, <1>13, GitQuietly DEF old

\* settle: the job is done.
LEMMA StepSettleGit == ASSUME GitIInv, NEW w \in GitWorkers, SettleGit(w) PROVE GitIInv'
  BY GitJobEnds DEF SettleGit

\* The first reads of runGitSyncJob.
LEMMA StepLoadGit == ASSUME GitIInv, NEW w \in GitWorkers, LoadGit(w) PROVE GitIInv'
<1> DEFINE old == gitWorkers[w]
           run == gitRuns[old.r]
<1>1. /\ old.at = "load" /\ old \in GitPlace /\ old.r \in GitRuns /\ RunOf(w) = run
      /\ GitAtWork(old, run, gitMaps, gitRemote) /\ run \in GitRow
      /\ UNCHANGED <<gitConsent, gitTexts, gitMaps, gitRemote, gitInspected, gitTroubled>>
  BY GitPlaceIs, GitRowIs DEF LoadGit
<1>2. ASSUME NEW status \in {"failed", "done"}, Turns(w, GitIdle),
             gitRuns' = [gitRuns EXCEPT ![gitWorkers[w].r].job = GitSettled(w, status)]
      PROVE  GitIInv'
  BY <1>1, <1>2, GitJobEnds
<1>3. CASE FailGit(w, "failed", "failed")
  <2>1. GitAroundKept BY <1>1, GitStill
  <2> QED BY <1>1, <1>3, <2>1, GitFails
<1>4. CASE /\ UNCHANGED gitRuns
           /\ Turns(w, [old EXCEPT !.at = "fetch", !.run = [NoGitRun EXCEPT !.status = run.status,
                                     !.direction = run.direction, !.remote = run.remote]])
  <2>1. PICK known : known = [NoGitRun EXCEPT !.status = run.status, !.direction = run.direction,
                                              !.remote = run.remote]
    OBVIOUS
  <2>2. PICK me : me = [old EXCEPT !.at = "fetch", !.run = known]
    OBVIOUS
  <2>3. Turns(w, me) BY <1>4, <2>1, <2>2
  <2>4. known \in GitRow /\ known.remote = run.remote /\ known.direction = run.direction
    BY <1>1, <2>1, GitIdleTyped DEF NoGitRun, GitRow
  <2> HIDE DEF old, run
  <2>5. me \in GitPlace /\ me.at = "fetch" /\ me.r = old.r /\ me.run = known /\ me.job = old.job
    BY <1>1, <2>2, <2>4 DEF GitPlace
  <2>6. GitAtWork(me, run, gitMaps, gitRemote) BY <1>1, <2>4, <2>5 DEF GitAtWork
  <2> QED BY <1>1, <1>4, <2>3, <2>5, <2>6, GitWalks DEF run
<1> QED BY <1>1, <1>2, <1>3, <1>4 DEF LoadGit

----------------
LEMMA GitDocsAreNumbers == GitDocs \subseteq Nat
  BY GitAssumption DEF GitAssumption, GitDocs

LEMMA DocsAreNumbers == \A p : \A x \in DocsOf(p) : x \in Nat
  BY GitDocsAreNumbers DEF DocsOf

LEMMA GitPartialOf ==
  ASSUME NEW S, NEW f, DOMAIN f \subseteq S, f \in [DOMAIN f -> Nat] PROVE f \in GitPartial(S)
  BY DEF GitPartial

LEMMA FileOfTyped == ASSUME GitIInv, NEW x \in GitDocs PROVE FileOf(x) \in Nat
<1>1. Foreign \div 2 \in Nat BY GitAssumption DEF GitAssumption
<1>2. gitTexts[x] \in Nat BY DEF GitIInv, GitShape
<1> QED BY <1>1, <1>2 DEF FileOf

\* What a preview of a push knows: nothing at the branch but what was exchanged.
LEMMA PreviewedPush ==
  ASSUME GitIInv, NEW run \in GitRow, run.direction = "push", NEW row, row = Previewed(run)
  PROVE  /\ row.docs \in GitPartial(GitPaths) /\ row.files \in GitPartial(GitPaths)
         /\ row.versions \in GitPartial(GitDocs) /\ DOMAIN row.docs = DOMAIN row.files
         /\ \A p \in DOMAIN row.docs : row.docs[p] \in DocsOf(p)
         /\ ~row.blocked => \A p \in DOMAIN row.files :
              gitRemote.files[p] \in {0, row.files[p]} \cup Exchanged(gitMaps, p)
<1> DEFINE ps == {PathOf(x) : x \in run.selected}
<1>1. PICK docs : docs = [p \in ps |-> CHOOSE x \in run.selected : PathOf(x) = p]
  OBVIOUS
<1>2. run.selected \subseteq GitDocs BY DEF GitRow
<1>3. \A p \in ps : docs[p] \in run.selected /\ PathOf(docs[p]) = p BY <1>1
<1>4. ps \subseteq GitPaths BY <1>2, PathOfDoc
<1>5. DOMAIN docs = ps /\ docs \in [ps -> Nat] BY <1>1, <1>2, <1>3, GitDocsAreNumbers
<1>6. PICK versions : versions = [x \in {docs[p] : p \in DOMAIN docs} \ {0} |-> gitTexts[x]]
  OBVIOUS
<1>7. PICK files : files = [p \in DOMAIN docs |-> FileOf(docs[p])]
  OBVIOUS
<1>8. /\ row.docs = docs /\ row.versions = versions /\ row.files = files
      /\ row.blocked = \E x \in run.selected : PushConflicts(x)
  BY <1>1, <1>6, <1>7 DEF Previewed, GitRow
<1>9. DOMAIN files = ps /\ files \in [ps -> Nat] BY <1>2, <1>3, <1>5, <1>7, FileOfTyped
<1>10. DOMAIN versions \subseteq GitDocs /\ versions \in [DOMAIN versions -> Nat]
  <2>1. \A x \in {docs[p] : p \in DOMAIN docs} : x \in GitDocs BY <1>2, <1>3, <1>5
  <2>2. gitTexts \in [GitDocs -> Nat] BY DEF GitIInv, GitShape
  <2> QED BY <1>6, <2>1, <2>2
<1>11. ASSUME ~row.blocked, NEW p \in ps
       PROVE  gitRemote.files[p] \in {0, files[p]} \cup Exchanged(gitMaps, p)
  <2> DEFINE x == docs[p]
             there == gitRemote.files[p]
             now == gitMaps[p].now
  <2>1. x \in run.selected /\ PathOf(x) = p /\ files[p] = FileOf(x) /\ p \in GitPaths
    BY <1>3, <1>4, <1>5, <1>7
  <2>2. ~PushConflicts(x) BY <1>8, <1>11, <2>1
  <2>3. there = 0 \/ there = FileOf(x) \/ now[3] = there BY <2>1, <2>2 DEF PushConflicts
  <2>4. now \in gitMaps[p].past \cup {Unmapped} BY <2>1 DEF GitIInv, MapsFit
  <2>5. CASE now[3] = there /\ there # 0
    <3>1. now # Unmapped BY <2>5 DEF Unmapped
    <3> QED BY <2>4, <2>5, <3>1 DEF Exchanged
  <2> QED BY <2>1, <2>3, <2>5
<1> QED BY <1>2, <1>3, <1>4, <1>5, <1>8, <1>9, <1>10, <1>11, GitPartialOf DEF DocsOf

\* What a preview of a pull knows: the versions that were exchanged.
LEMMA PreviewedPull ==
  ASSUME GitIInv, NEW run \in GitRow, run.direction = "pull", run.selected \subseteq GitPaths,
         NEW row, row = Previewed(run)
  PROVE  /\ row.docs \in GitPartial(GitPaths) /\ row.files \in GitPartial(GitPaths)
         /\ row.versions \in GitPartial(GitDocs)
         /\ DOMAIN row.docs = run.selected /\ DOMAIN row.files = run.selected
         /\ \A p \in DOMAIN row.docs : row.docs[p] \in DocsOf(p)
         /\ ~row.blocked => \A x \in DOMAIN row.versions : \E old \in gitMaps[PathOf(x)].past :
              old[1] = x /\ old[2] = row.versions[x]
<1>1. PICK docs : docs = [p \in run.selected |-> gitMaps[p].now[1]]
  OBVIOUS
<1>2. \A p \in run.selected : docs[p] = gitMaps[p].now[1] /\ docs[p] \in DocsOf(p)
  BY <1>1 DEF GitIInv, MapsFit
<1>3. DOMAIN docs = run.selected /\ docs \in [run.selected -> Nat]
  <2>1. ASSUME NEW p \in run.selected PROVE docs[p] \in Nat
    <3>1. docs[p] \in DocsOf(p) BY <1>2
    <3> QED BY ONLY <3>1, DocsAreNumbers
  <2> QED BY <1>1, <2>1
<1>4. PICK versions : versions = [x \in {docs[p] : p \in DOMAIN docs} \ {0} |-> gitTexts[x]]
  OBVIOUS
<1>5. PICK files : files = [p \in DOMAIN docs |-> gitRemote.files[p]]
  OBVIOUS
<1>6. /\ row.docs = docs /\ row.versions = versions /\ row.files = files
      /\ row.blocked = \E p \in run.selected : PullConflicts(p)
  BY <1>1, <1>4, <1>5 DEF Previewed, GitRow
<1>7. DOMAIN files = run.selected /\ files \in [run.selected -> Nat]
  BY <1>3, <1>5 DEF GitIInv, GitShape
<1>8. DOMAIN versions \subseteq GitDocs /\ versions \in [DOMAIN versions -> Nat]
  <2>1. \A x \in {docs[p] : p \in DOMAIN docs} \ {0} : x \in GitDocs BY <1>2, <1>3 DEF DocsOf
  <2>2. gitTexts \in [GitDocs -> Nat] BY DEF GitIInv, GitShape
  <2> QED BY <1>4, <2>1, <2>2
<1>9. ASSUME ~row.blocked, NEW x \in DOMAIN versions
      PROVE  \E old \in gitMaps[PathOf(x)].past : old[1] = x /\ old[2] = versions[x]
  <2>1. PICK p \in run.selected : x = docs[p] /\ x # 0 BY <1>3, <1>4, <1>9
  <2> DEFINE now == gitMaps[p].now
  <2>2. x = now[1] /\ PathOf(x) = p /\ versions[x] = gitTexts[x]
    BY <1>2, <1>4, <1>9, <2>1 DEF DocsOf
  <2>3. ~PullConflicts(p) BY <1>6, <1>9
  <2>4. now # Unmapped BY <2>1, <2>2 DEF Unmapped
  <2>5. now[2] = gitTexts[x] BY <2>2, <2>3, <2>4 DEF PullConflicts
  <2>6. now \in gitMaps[p].past BY <2>4 DEF GitIInv, MapsFit
  <2> QED BY <2>2, <2>5, <2>6
<1> QED BY <1>2, <1>3, <1>6, <1>7, <1>8, <1>9, GitPartialOf

\* The transaction that ends the preview.
LEMMA StepPreviewGit == ASSUME GitIInv, NEW w \in GitWorkers, PreviewGit(w) PROVE GitIInv'
<1>0. PICK r \in GitRuns : r = gitWorkers[w].r BY GitPlaceIs DEF PreviewGit
<1> DEFINE run == gitRuns[r]
<1>1. /\ gitWorkers[w].at = "fetch" /\ r = gitWorkers[w].r /\ RunOf(w) = run /\ run \in GitRow /\ run.job \in GitJobRow
      /\ RunFits(r, run, gitMaps, gitRemote, gitTroubled)
      /\ UNCHANGED <<gitConsent, gitTexts, gitMaps, gitRemote, gitInspected, gitTroubled>>
  BY <1>0, GitPlaceIs, GitRowIs DEF PreviewGit
<1>2. CASE FailGit(w, "failed", "failed")
  <2>1. GitAroundKept BY <1>1, GitStill
  <2> QED BY <1>1, <1>2, <2>1, GitFails
<1>3. CASE /\ run.status = "preparing" /\ Turns(w, GitIdle)
           /\ gitRuns' = [gitRuns EXCEPT ![r] = [Previewed(run) EXCEPT !.job = GitSettled(w, "done")]]
  <2>1. PICK job : job = GitSettled(w, "done")
    OBVIOUS
  <2>2. job \in GitJobRow /\ job.kind = run.job.kind BY <1>1, <2>1, GitSettledTyped DEF Held
  <2>3. PICK seen : seen = Previewed(run)
    OBVIOUS
  <2>4. PICK row : row = [seen EXCEPT !.job = job]
    OBVIOUS
  <2>5. gitRuns' = [gitRuns EXCEPT ![r] = row] BY <1>3, <2>1, <2>3, <2>4
  <2>6. ~run.confirmed /\ ~run.launched /\ run.job.kind # "execute" /\ r \notin gitRemote.commits
    BY <1>1, <1>3 DEF RunFits
  <2> HIDE DEF run
  <2>7. /\ seen.docs \in GitPartial(GitPaths) /\ seen.files \in GitPartial(GitPaths)
        /\ seen.versions \in GitPartial(GitDocs) /\ DOMAIN seen.docs = DOMAIN seen.files
        /\ \A p \in DOMAIN seen.docs : seen.docs[p] \in DocsOf(p)
        /\ run.direction = "pull" => DOMAIN seen.docs = run.selected
    BY <1>1, <2>3, PreviewedPush, PreviewedPull DEF RunFits, GitRow
  <2>8. /\ run.direction = "push" /\ ~seen.blocked => \A p \in DOMAIN seen.files :
            gitRemote.files[p] \in {0, seen.files[p]} \cup Exchanged(gitMaps, p)
        /\ run.direction = "pull" /\ ~seen.blocked => \A x \in DOMAIN seen.versions :
            \E old \in gitMaps[PathOf(x)].past : old[1] = x /\ old[2] = seen.versions[x]
    BY <1>1, <2>3, PreviewedPush, PreviewedPull DEF RunFits
  <2>9. /\ row.status = "preview" /\ row.direction = run.direction /\ row.selected = run.selected
        /\ row.remote = gitRemote.head /\ row.docs = seen.docs /\ row.files = seen.files
        /\ row.versions = seen.versions /\ row.blocked = seen.blocked /\ ~row.confirmed /\ ~row.launched
        /\ row.job = job /\ row \in GitRow
    <3>1. PICK docs, versions, files, blocked :
            /\ seen = [run EXCEPT !.status = "preview", !.remote = gitRemote.head, !.kept = TRUE, !.docs = docs,
                                  !.versions = versions, !.files = files, !.blocked = blocked]
            /\ blocked \in BOOLEAN
      BY ZenonT(30), <2>3 DEF Previewed
    <3>2. docs = seen.docs /\ versions = seen.versions /\ files = seen.files /\ blocked = seen.blocked
      BY <1>1, <3>1 DEF GitRow
    <3>3. gitRemote.head \in Nat BY DEF GitIInv, GitShape
    <3> QED BY ZenonT(30), <1>1, <2>2, <2>4, <2>6, <2>7, <3>1, <3>2, <3>3 DEF GitRow
  <2>10. GitFollows(run, row) BY <2>6, <2>9 DEF GitFollows
  <2>11. RunFits(r, row, gitMaps, gitRemote, gitTroubled)
    BY <1>1, <2>2, <2>6, <2>7, <2>9 DEF RunFits, GitIInv
  <2>12. RunKnows(row, gitMaps, gitRemote) BY <2>8, <2>9 DEF RunKnows
  <2>13. RunSays(r, row, gitMaps, gitRemote) BY <2>6, <2>9 DEF RunSays
  <2>14. GitAroundKept /\ GitTurned /\ SendersStay /\ GitAlone'
    BY <1>1, <1>3, GitStill, GitRests, GitAloneStays
  <2>15. GitSilent(r)' BY <1>1, <2>6, <2>14, GitQuiet, GitSilentStays DEF OnItsWay, run
  <2> QED BY <1>1, <2>5, <2>9, <2>10, <2>11, <2>12, <2>13, <2>14, <2>15, GitRowMoves DEF run
<1> QED BY <1>1, <1>2, <1>3 DEF PreviewGit, MayPreview

----------------
\* A failure of the attempt where nothing else changes.
LEMMA GitFailsStill ==
  ASSUME GitIInv, NEW w \in GitWorkers, gitWorkers[w].at # "idle",
         NEW status \in {"failed", "conflict"}, NEW job \in {"failed", "retry"}, FailGit(w, status, job),
         UNCHANGED <<gitConsent, gitTexts, gitMaps, gitRemote, gitInspected>>,
         gitTroubled' = gitTroubled \/ GitTrouble
  PROVE  GitIInv'
  BY GitStill, GitFails

\* A goroutine that executes a run goes to the next place.
LEMMA GitGoesTo ==
  ASSUME GitIInv, NEW w \in GitWorkers, gitWorkers[w].at \notin {"idle", "load"},
         NEW to \in {"finish", "rebuild", "accept", "connect", "launch", "settle"}, NEW head \in Nat,
         Turns(w, [gitWorkers[w] EXCEPT !.at = to, !.head = head]),
         UNCHANGED <<gitConsent, gitTexts, gitMaps, gitRemote, gitRuns, gitInspected, gitTroubled>>,
         to = "finish" => /\ gitRuns[gitWorkers[w].r].direction = "push"
                          /\ gitWorkers[w].r \in gitRemote.commits,
         to \in {"rebuild", "connect", "launch"} =>
           /\ gitRuns[gitWorkers[w].r].direction = "push" /\ gitRuns[gitWorkers[w].r].confirmed
           /\ head = gitRuns[gitWorkers[w].r].remote,
         to = "accept" => /\ gitRuns[gitWorkers[w].r].direction = "pull" /\ gitRuns[gitWorkers[w].r].confirmed
  PROVE  GitIInv'
<1> DEFINE old == gitWorkers[w]
<1>1. PICK me : me = [old EXCEPT !.at = to, !.head = head]
  OBVIOUS
<1>2. old \in GitPlace /\ old.r \in GitRuns /\ GitAtWork(old, gitRuns[old.r], gitMaps, gitRemote)
  BY GitPlaceIs
<1> HIDE DEF old
<1>3. /\ me \in GitPlace /\ me.at = to /\ me.r = old.r /\ me.job = old.job /\ me.run = old.run /\ me.head = head
  BY <1>1, <1>2 DEF GitPlace
<1>4. GitAtWork(me, gitRuns[me.r], gitMaps, gitRemote) BY <1>2, <1>3 DEF GitAtWork, old
<1> QED BY <1>1, <1>2, <1>3, <1>4, GitWalks DEF old

\* The head that is a commit of a run is in the history.
LEMMA GitHeadIn == ASSUME GitIInv, gitRemote.head \in GitRuns PROVE gitRemote.head \in gitRemote.commits
  BY DEF GitIInv, CommitFits

LEMMA StepFetchGit == ASSUME GitIInv, NEW w \in GitWorkers, FetchGit(w) PROVE GitIInv'
<1> DEFINE me == gitWorkers[w]
           run == gitRuns[me.r]
           head == gitRemote.head
<1>1. /\ me.at = "fetch" /\ me \in GitPlace /\ me.r \in GitRuns /\ GitAtWork(me, run, gitMaps, gitRemote)
      /\ me.job.kind = "execute" /\ run \in GitRow /\ head \in Nat
      /\ UNCHANGED <<gitConsent, gitTexts, gitMaps, gitRemote, gitInspected, gitTroubled>>
  BY GitPlaceIs, GitRowIs DEF FetchGit, GitIInv, GitShape
<1>2. run.confirmed /\ me.run.remote = run.remote /\ me.run.direction = run.direction
  BY <1>1 DEF GitAtWork
<1>3. ASSUME NEW status \in {"failed", "conflict"}, NEW job \in {"failed", "retry"}, FailGit(w, status, job)
      PROVE  GitIInv'
  BY <1>1, <1>3, GitFailsStill
<1>4. CASE /\ me.run.direction = "push" /\ head = me.r
           /\ Turns(w, [me EXCEPT !.at = "finish"]) /\ UNCHANGED gitRuns
  <2>1. PICK known \in Nat : known = me.head BY <1>1 DEF GitPlace
  <2>2. [me EXCEPT !.at = "finish"] = [me EXCEPT !.at = "finish", !.head = known]
    BY <1>1, <2>1 DEF GitPlace
  <2>3. me.r \in gitRemote.commits BY <1>1, <1>4, GitHeadIn
  <2>4. Turns(w, [me EXCEPT !.at = "finish", !.head = known]) BY <1>4, <2>2
  <2> QED BY ZenonT(30), <1>1, <1>2, <1>4, <2>3, <2>4, GitGoesTo
<1>5. CASE /\ head = me.run.remote /\ UNCHANGED gitRuns
           /\ Turns(w, [me EXCEPT !.at = IF me.run.direction = "push" THEN "rebuild" ELSE "accept", !.head = head])
  <2>1. PICK to : to = IF me.run.direction = "push" THEN "rebuild" ELSE "accept"
    OBVIOUS
  <2>2. Turns(w, [me EXCEPT !.at = to, !.head = head]) BY <1>5, <2>1
  <2>3. (to = "rebuild" /\ run.direction = "push") \/ (to = "accept" /\ run.direction = "pull")
    BY <1>1, <1>2, <2>1 DEF GitRow
  <2> QED BY ZenonT(30), <1>1, <1>2, <1>5, <2>2, <2>3, GitGoesTo
<1> QED BY <1>1, <1>3, <1>4, <1>5 DEF FetchGit

LEMMA StepRebuildGit == ASSUME GitIInv, NEW w \in GitWorkers, RebuildGit(w) PROVE GitIInv'
<1> DEFINE me == gitWorkers[w]
           run == gitRuns[me.r]
<1>1. /\ me.at = "rebuild" /\ me \in GitPlace /\ me.r \in GitRuns /\ GitAtWork(me, run, gitMaps, gitRemote)
      /\ UNCHANGED <<gitConsent, gitTexts, gitMaps, gitRemote, gitInspected, gitTroubled>>
  BY GitPlaceIs DEF RebuildGit
<1>2. CASE FailGit(w, "failed", "failed") BY <1>1, <1>2, GitFailsStill
<1>3. CASE Turns(w, [me EXCEPT !.at = "connect"]) /\ UNCHANGED gitRuns
  <2>1. PICK known \in Nat : known = me.head BY <1>1 DEF GitPlace
  <2>2. [me EXCEPT !.at = "connect"] = [me EXCEPT !.at = "connect", !.head = known]
    BY <1>1, <2>1 DEF GitPlace
  <2>3. run.direction = "push" /\ run.confirmed /\ known = run.remote BY <1>1, <2>1 DEF GitAtWork
  <2> QED BY ZenonT(30), <1>1, <1>3, <2>2, <2>3, GitGoesTo
<1> QED BY <1>2, <1>3 DEF RebuildGit

\* gitSyncPush connects and sees the head.
LEMMA StepConnectGit == ASSUME GitIInv, NEW w \in GitWorkers, ConnectGit(w) PROVE GitIInv'
<1> DEFINE me == gitWorkers[w]
           run == gitRuns[me.r]
<1>1. /\ me.at = "connect" /\ me \in GitPlace /\ me.r \in GitRuns /\ GitAtWork(me, run, gitMaps, gitRemote)
      /\ UNCHANGED <<gitConsent, gitTexts, gitMaps, gitRemote, gitInspected, gitTroubled>>
  BY GitPlaceIs DEF ConnectGit
<1>2. CASE FailGit(w, "conflict", "retry") BY <1>1, <1>2, GitFailsStill
<1>3. CASE /\ Turns(w, [me EXCEPT !.at = IF gitRemote.head = me.r THEN "finish" ELSE "launch"])
           /\ UNCHANGED gitRuns
  <2>1. PICK known \in Nat : known = me.head BY <1>1 DEF GitPlace
  <2>2. PICK to : to = IF gitRemote.head = me.r THEN "finish" ELSE "launch"
    OBVIOUS
  <2>3. [me EXCEPT !.at = to] = [me EXCEPT !.at = to, !.head = known] BY <1>1, <2>1 DEF GitPlace
  <2>4. run.direction = "push" /\ run.confirmed /\ known = run.remote BY <1>1, <2>1 DEF GitAtWork
  <2>5. to = "finish" => me.r \in gitRemote.commits BY <1>1, <2>2, GitHeadIn
  <2>6. Turns(w, [me EXCEPT !.at = to, !.head = known]) /\ to \in {"finish", "launch"}
    BY <1>3, <2>2, <2>3
  <2> QED BY ZenonT(30), <1>1, <1>3, <2>4, <2>5, <2>6, GitGoesTo
<1> QED BY <1>2, <1>3 DEF ConnectGit

\* beforeLaunch: the candidate is written down, and nobody else sends for the run.
LEMMA StepLaunchGit == ASSUME GitIInv, NEW w \in GitWorkers, LaunchGit(w) PROVE GitIInv'
<1>0. PICK r \in GitRuns : r = gitWorkers[w].r BY GitPlaceIs DEF LaunchGit
<1> DEFINE old == gitRuns[r]
<1>1. /\ gitWorkers[w].at = "launch" /\ gitWorkers[w] \in GitPlace /\ RunOf(w) = old
      /\ GitAtWork(gitWorkers[w], old, gitMaps, gitRemote)
      /\ old \in GitRow /\ RunFits(r, old, gitMaps, gitRemote, gitTroubled)
      /\ RunKnows(old, gitMaps, gitRemote)
      /\ UNCHANGED <<gitConsent, gitTexts, gitMaps, gitRemote, gitInspected, gitTroubled>>
  BY <1>0, GitPlaceIs, GitRowIs DEF LaunchGit
<1>2. CASE FailGit(w, "failed", "failed") BY <1>1, <1>2, GitFailsStill
<1>3. CASE /\ old.status = "queued" /\ Turns(w, [gitWorkers[w] EXCEPT !.at = "send"])
           /\ gitRuns' = [gitRuns EXCEPT ![r].status = "running", ![r].launched = TRUE]
  <2>1. PICK row : row = [old EXCEPT !.status = "running", !.launched = TRUE]
    OBVIOUS
  <2>2. PICK me : me = [gitWorkers[w] EXCEPT !.at = "send"]
    OBVIOUS
  <2>3. gitRuns' = [gitRuns EXCEPT ![r] = row] /\ Turns(w, me)
    BY <1>3, <2>1, <2>2 DEF GitIInv, GitShape
  <2> HIDE DEF old
  <2>4. /\ row \in GitRow /\ row.status = "running" /\ row.launched /\ row.direction = old.direction
        /\ row.selected = old.selected /\ row.remote = old.remote /\ row.docs = old.docs /\ row.files = old.files
        /\ row.versions = old.versions /\ row.blocked = old.blocked /\ row.confirmed = old.confirmed
        /\ row.job = old.job
    <3>1. "running" \in GitOpen BY DEF GitOpen
    <3> QED BY <1>1, <2>1, <3>1 DEF GitRow
  <2>5. old.direction = "push" /\ old.confirmed /\ gitWorkers[w].head = old.remote
    BY <1>1 DEF GitAtWork
  <2>6. ~old.launched /\ r \notin gitRemote.commits BY <1>1, <1>3 DEF RunFits
  <2>7. GitSilent(r) BY <2>6, GitQuiet DEF OnItsWay, old
  <2>8. /\ me \in GitPlace /\ me.at = "send" /\ me.r = r /\ me.job = gitWorkers[w].job
        /\ me.run = gitWorkers[w].run /\ me.head = gitWorkers[w].head
    BY <1>0, <1>1, <2>2 DEF GitPlace
  <2>9. GitAtWork(me, row, gitMaps, gitRemote)
    BY <1>1, <2>4, <2>5, <2>6, <2>7, <2>8 DEF GitAtWork, OnItsWay, GitSilent
  <2>10. gitRuns'[r] = row /\ gitMaps' = gitMaps /\ gitRemote' = gitRemote
    BY <1>1, <2>3 DEF GitIInv, GitShape
  <2>11. \A v \in GitWorkers : gitWorkers'[v] = IF v = w THEN me ELSE gitWorkers[v]
    BY <2>3 DEF Turns, GitIInv, GitShape
  <2>12. GitTurned BY <2>3, <2>8, <2>9, <2>10, <2>11 DEF GitTurned, Turns, GitIInv, GitShape
  <2>13. GitAlone'
    <3>1. ASSUME NEW v \in GitWorkers \ {w}, gitWorkers[v].at \in {"send", "transfer"} PROVE gitWorkers[v].r # r
      BY <2>6, <3>1 DEF GitIInv, GitPlaces, GitAtWork, old
    <3>2. \A v, u \in GitWorkers : v # u /\ v # w /\ u # w /\ {gitWorkers[v].at, gitWorkers[u].at} \subseteq {"send", "transfer"}
            => gitWorkers[v].r # gitWorkers[u].r
      BY DEF GitIInv, GitAlone
    <3> QED BY <2>8, <2>11, <3>1, <3>2 DEF GitAlone
  <2>14. GitFollows(old, row) BY <1>3, <2>4, <2>5 DEF GitFollows
  <2>15. RunFits(r, row, gitMaps, gitRemote, gitTroubled) BY <1>1, <2>4, <2>5, <2>6 DEF RunFits
  <2>16. RunKnows(row, gitMaps, gitRemote) BY <1>1, <2>4 DEF RunKnows
  <2>17. RunSays(r, row, gitMaps, gitRemote) BY <2>4, <2>6 DEF RunSays
  <2>18. GitAroundKept BY <1>1, GitStill
  <2> QED BY <1>1, <2>3, <2>4, <2>12, <2>13, <2>14, <2>15, <2>16, <2>17, <2>18, GitRowMoves DEF old
<1> QED BY <1>0, <1>1, <1>2, <1>3 DEF LaunchGit, MaySend

\* The pack leaves.
LEMMA StepSendGit == ASSUME GitIInv, NEW w \in GitWorkers, SendGit(w) PROVE GitIInv'
<1>0. PICK r \in GitRuns : r = gitWorkers[w].r BY GitPlaceIs DEF SendGit
<1> DEFINE old == gitWorkers[w]
           run == gitRuns[r]
           pack == <<r, run.remote>>
<1>1. PICK me : me = [old EXCEPT !.at = "transfer"]
  OBVIOUS
<1>2. PICK new : new = [gitRemote EXCEPT !.flying = gitRemote.flying \cup {pack}]
  OBVIOUS
<1>3. /\ old.at = "send" /\ old \in GitPlace /\ GitAtWork(old, run, gitMaps, gitRemote)
      /\ run \in GitRow /\ RunFits(r, run, gitMaps, gitRemote, gitTroubled)
      /\ UNCHANGED <<gitConsent, gitTexts, gitMaps, gitRuns, gitInspected, gitTroubled>>
  BY <1>0, GitPlaceIs, GitRowIs DEF SendGit
<1>4. /\ old.head = run.remote /\ OnItsWay(r, run, gitRemote) /\ \A p \in gitRemote.flying : p[1] # r
      /\ run.direction = "push" /\ run.confirmed /\ run.launched
  BY <1>0, <1>3 DEF GitAtWork
<1>5. gitRemote' = new /\ Turns(w, me) BY <1>0, <1>1, <1>2, <1>3, <1>4 DEF SendGit
<1> HIDE DEF old, run
<1>6. /\ new \in [head : Nat, commits : SUBSET GitRuns, flying : SUBSET (GitRuns \X Nat), files : [GitPaths -> Nat]]
      /\ new.head = gitRemote.head /\ new.commits = gitRemote.commits /\ new.files = gitRemote.files
      /\ new.flying = gitRemote.flying \cup {pack}
  <2>1. run.remote \in Nat BY <1>3 DEF GitRow
  <2> QED BY <1>2, <2>1 DEF GitIInv, GitShape
<1>7. /\ me \in GitPlace /\ me.at = "transfer" /\ me.r = r /\ me.job = old.job /\ me.run = old.run
      /\ me.head = run.remote
  BY <1>0, <1>1, <1>3, <1>4 DEF GitPlace, old
<1>8. \A v \in GitWorkers : gitWorkers'[v] = IF v = w THEN me ELSE gitWorkers[v]
  BY <1>5 DEF Turns, GitIInv, GitShape
<1>9. GitShape' /\ MapsFit(gitMaps') /\ CommitFits(gitRemote'.head, gitRemote'.commits, gitTroubled')
  BY <1>3, <1>5, <1>6, <1>7 DEF GitIInv, GitShape, Turns
<1>10. GitRows'
  <2> SUFFICES ASSUME NEW q \in GitRuns
               PROVE  /\ RunFits(q, gitRuns[q], gitMaps, new, gitTroubled)
                      /\ RunKnows(gitRuns[q], gitMaps, new) /\ RunSays(q, gitRuns[q], gitMaps, new)
    BY <1>3, <1>5 DEF GitRows
  <2> QED BY <1>6, GitRowIs DEF RunFits, RunKnows, RunSays
<1>11. GitPacks' BY <1>3, <1>4, <1>5, <1>6 DEF GitIInv, GitPacks, OnItsWay, run
<1>12. GitAlone' BY <1>0, <1>3, <1>7, <1>8 DEF GitIInv, GitAlone, old
<1>13. GitPlaces'
  <2> SUFFICES ASSUME NEW v \in GitWorkers, gitWorkers'[v].at # "idle"
               PROVE  GitAtWork(gitWorkers'[v], gitRuns[gitWorkers'[v].r], gitMaps, new)
    BY <1>3, <1>5 DEF GitPlaces
  <2>1. CASE v = w
    <3>1. GitAtWork(me, run, gitMaps, new) BY <1>0, <1>3, <1>4, <1>6, <1>7 DEF GitAtWork
    <3> QED BY <2>1, <3>1, <1>7, <1>8 DEF run
  <2>2. CASE v # w
    <3>1. /\ gitWorkers'[v] = gitWorkers[v]
          /\ GitAtWork(gitWorkers[v], gitRuns[gitWorkers[v].r], gitMaps, gitRemote)
      BY <2>2, <1>8, GitPlaceIs
    <3>2. gitWorkers[v].at = "send" => gitWorkers[v].r # r
      BY <2>2, <1>0, <1>3 DEF GitIInv, GitAlone, old
    <3>3. gitWorkers[v].at = "send" => \A p \in new.flying : p[1] # gitWorkers[v].r
      BY <3>1, <3>2, <1>6 DEF GitAtWork
    <3>4. \A q \in GitRuns : OnItsWay(q, gitRuns[q], gitRemote) => OnItsWay(q, gitRuns[q], new)
      BY <1>6 DEF OnItsWay
    <3> QED BY <3>1, <3>3, <3>4, <1>6 DEF GitAtWork
  <2> QED BY <2>1, <2>2
<1> QED BY <1>9, <1>10, <1>11, <1>12, <1>13 DEF GitIInv

\* A definite failure of the push: nothing of it arrives any more.
LEMMA StepRefusedGit == ASSUME GitIInv, NEW w \in GitWorkers, RefusedGit(w) PROVE GitIInv'
<1>0. PICK r \in GitRuns : r = gitWorkers[w].r BY GitPlaceIs DEF RefusedGit
<1> DEFINE me == gitWorkers[w]
           old == gitRuns[r]
<1>1. PICK job : job = GitSettled(w, "retry")
  OBVIOUS
<1>2. PICK st : st = IF old.status = "running" THEN "failed" ELSE old.status
  OBVIOUS
<1>3. PICK row : row = [old EXCEPT !.status = st, !.job = job]
  OBVIOUS
<1>4. /\ me.at \in {"send", "transfer"} /\ me \in GitPlace /\ GitAtWork(me, old, gitMaps, gitRemote)
      /\ old \in GitRow /\ old.job \in GitJobRow /\ RunFits(r, old, gitMaps, gitRemote, gitTroubled)
      /\ RunSays(r, old, gitMaps, gitRemote) /\ old.job = Held(w)
      /\ Turns(w, GitIdle) /\ UNCHANGED <<gitConsent, gitTexts, gitMaps, gitRemote, gitInspected, gitTroubled>>
  BY <1>0, GitPlaceIs, GitRowIs DEF RefusedGit, Held
<1>5. gitRuns' = [gitRuns EXCEPT ![r] = row]
  <2>1. gitRuns' = [gitRuns EXCEPT ![r].status = st, ![r].job = job]
    BY <1>0, <1>1, <1>2 DEF RefusedGit
  <2> QED BY <2>1, <1>3 DEF GitIInv, GitShape
<1>6. old.launched /\ old.direction = "push" /\ old.status # "none" /\ me.head = old.remote
  BY <1>4 DEF GitAtWork
<1>7. r \notin gitRemote.commits /\ \A pack \in gitRemote.flying : pack[1] # r
  <2>1. CASE me.at = "send" BY <2>1, <1>0, <1>4 DEF GitAtWork, OnItsWay
  <2>2. CASE me.at # "send"
    <3>1. r \notin gitRemote.commits /\ <<r, old.remote>> \notin gitRemote.flying
      BY <2>2, <1>0, <1>6 DEF RefusedGit
    <3>2. \A pack \in gitRemote.flying : pack[1] = r => pack = <<r, old.remote>>
      BY DEF GitIInv, GitShape, GitPacks
    <3> QED BY <3>1, <3>2
  <2> QED BY <2>1, <2>2
<1>8. \A v \in GitWorkers : gitWorkers'[v] = IF v = w THEN GitIdle ELSE gitWorkers[v]
  BY <1>4 DEF Turns, GitIInv, GitShape
<1>9. GitSilent(r)'
  <2>1. \A v \in GitWorkers \ {w} : gitWorkers[v].at = "send" => gitWorkers[v].r # r
    BY <1>0, <1>4 DEF GitIInv, GitAlone
  <2> QED BY <2>1, <1>4, <1>7, <1>8 DEF GitSilent, GitIdle
<1>10. GitAroundKept /\ GitTurned /\ SendersStay BY <1>4, GitStill, GitRests
<1>11. job \in GitJobRow /\ job.kind = old.job.kind BY <1>1, <1>4, GitSettledTyped
<1> HIDE DEF old, me
<1>12. row \in GitRow /\ row.status = st /\ GitSame(old, row)
  BY <1>2, <1>3, <1>4, <1>11 DEF GitRow, GitSame
<1>13. GitGoes(old, row) BY <1>2, <1>6, <1>12 DEF GitGoes
<1>14. RunSays(r, row, gitMaps, gitRemote) BY <1>2, <1>4, <1>6, <1>7, <1>12 DEF RunSays, GitSame
<1> QED BY <1>5, <1>9, <1>10, <1>12, <1>13, <1>14, GitRowGoes DEF old

\* The answer is lost, or the monitor stops the transfer.
LEMMA StepStopGit == ASSUME GitIInv, NEW w \in GitWorkers, StopGit(w) PROVE GitIInv'
  BY GitFailsStill DEF StopGit

LEMMA StepAnsweredGit == ASSUME GitIInv, NEW w \in GitWorkers, AnsweredGit(w) PROVE GitIInv'
<1> DEFINE me == gitWorkers[w]
<1>1. /\ me.at = "transfer" /\ me \in GitPlace /\ me.r \in gitRemote.commits /\ Turns(w, [me EXCEPT !.at = "finish"])
      /\ GitAtWork(me, gitRuns[me.r], gitMaps, gitRemote)
      /\ UNCHANGED <<gitConsent, gitTexts, gitMaps, gitRemote, gitRuns, gitInspected, gitTroubled>>
  BY GitPlaceIs DEF AnsweredGit
<1>2. PICK known \in Nat : known = me.head BY <1>1 DEF GitPlace
<1>3. [me EXCEPT !.at = "finish"] = [me EXCEPT !.at = "finish", !.head = known]
  BY <1>1, <1>2 DEF GitPlace
<1>4. gitRuns[me.r].direction = "push" /\ Turns(w, [me EXCEPT !.at = "finish", !.head = known])
  BY <1>1, <1>3 DEF GitAtWork
<1> QED BY ZenonT(30), <1>1, <1>4, GitGoesTo

----------------
\* One mapping is written: it is of its path, and the pair is kept.
LEMMA MapsRow ==
  ASSUME GitIInv, NEW p \in GitPaths, NEW row, NEW x \in DocsOf(p), row[1] = x
  PROVE  /\ DOMAIN Maps(p, row) = GitPaths /\ Maps(p, row)[p] = [now |-> row, past |-> gitMaps[p].past \cup {row}]
         /\ \A q \in GitPaths \ {p} : Maps(p, row)[q] = gitMaps[q]
         /\ MapsFit(Maps(p, row)) /\ MapsGrow(gitMaps, Maps(p, row))
<1>1. DOMAIN gitMaps = GitPaths /\ MapsFit(gitMaps) BY DEF GitIInv, GitShape
<1>2. PICK new : new = [now |-> row, past |-> gitMaps[p].past \cup {row}]
  OBVIOUS
<1>3. PICK maps : maps = Maps(p, row)
  OBVIOUS
<1>4. maps = [gitMaps EXCEPT ![p] = new] BY <1>2, <1>3 DEF Maps
<1>5. DOMAIN maps = GitPaths /\ maps[p] = new /\ \A q \in GitPaths \ {p} : maps[q] = gitMaps[q]
  BY <1>1, <1>4
<1>6. MapsFit(maps) /\ MapsGrow(gitMaps, maps) BY <1>1, <1>2, <1>5 DEF MapsFit, MapsGrow
<1> QED BY <1>2, <1>3, <1>5, <1>6

\* gitSyncFinishPush writes the mappings of what was sent, each of its path.
LEMMA FinishedKeeps ==
  ASSUME GitIInv, NEW r \in GitRuns, Finished(r)
  PROVE  DOMAIN gitMaps' = GitPaths /\ MapsFit(gitMaps') /\ MapsGrow(gitMaps, gitMaps')
<1> DEFINE run == gitRuns[r]
<1>1. run \in GitRow /\ RunFits(r, run, gitMaps, gitRemote, gitTroubled) BY GitRowIs
<1>2. ASSUME NEW p \in GitPaths, p \in DOMAIN run.files
      PROVE  \E row : /\ row[1] \in DocsOf(p)
                      /\ gitMaps'[p] = [now |-> row, past |-> gitMaps[p].past \cup {row}]
  <2>1. PICK x : x = run.docs[p]
    OBVIOUS
  <2>2. PICK row : row = <<x, run.versions[x], run.files[p]>>
    OBVIOUS
  <2>3. x \in DocsOf(p) /\ row[1] = x BY <1>1, <1>2, <2>1, <2>2 DEF RunFits
  <2>4. gitMaps'[p] = Maps(p, row)[p] BY <1>2, <2>1, <2>2 DEF Finished
  <2> QED BY <2>3, <2>4, MapsRow
<1>3. ASSUME NEW p \in GitPaths, p \notin DOMAIN run.files PROVE gitMaps'[p] = gitMaps[p]
  BY <1>3 DEF Finished
<1>4. DOMAIN gitMaps' = GitPaths BY DEF Finished
<1>5. ASSUME NEW p \in GitPaths
      PROVE  /\ gitMaps'[p].now \in gitMaps'[p].past \cup {Unmapped} /\ gitMaps'[p].now[1] \in DocsOf(p)
             /\ gitMaps[p].past \subseteq gitMaps'[p].past
  <2>1. gitMaps[p].now \in gitMaps[p].past \cup {Unmapped} /\ gitMaps[p].now[1] \in DocsOf(p)
    BY DEF GitIInv, MapsFit
  <2>2. CASE p \in DOMAIN run.files
    <3>1. PICK row : row[1] \in DocsOf(p) /\ gitMaps'[p] = [now |-> row, past |-> gitMaps[p].past \cup {row}]
      BY <1>2, <2>2
    <3> QED BY <3>1
  <2>3. CASE p \notin DOMAIN run.files BY <1>3, <2>1, <2>3
  <2> QED BY <2>2, <2>3
<1>6. MapsFit(gitMaps') /\ MapsGrow(gitMaps, gitMaps') BY <1>5 DEF MapsFit, MapsGrow
<1> QED BY <1>4, <1>6

\* What is around a push that is finished.
LEMMA GitFinishes ==
  ASSUME GitIInv, NEW r \in GitRuns, r \in gitRemote.commits, gitRuns[r].direction = "push",
         Finished(r), gitRuns' = [gitRuns EXCEPT ![r].status = "succeeded"],
         UNCHANGED <<gitConsent, gitTexts, gitRemote, gitTroubled>>, gitInspected' \subseteq gitInspected,
         GitTurned, SendersStay
  PROVE  GitIInv'
<1> DEFINE old == gitRuns[r]
<1>1. PICK row : row = [old EXCEPT !.status = "succeeded"]
  OBVIOUS
<1>2. old \in GitRow /\ old.status # "none" /\ RunSays(r, old, gitMaps, gitRemote)
  BY GitRowIs DEF RunSays
<1>3. gitRuns' = [gitRuns EXCEPT ![r] = row] BY <1>1
<1>4. GitAroundKept BY FinishedKeeps DEF GitAroundKept, GitIInv, GitShape
<1> HIDE DEF old
<1>5. row \in GitRow /\ row.status = "succeeded" /\ GitSame(old, row)
  BY <1>1, <1>2 DEF GitRow, GitSame
<1>6. GitGoes(old, row) /\ RunSays(r, row, gitMaps, gitRemote)
  BY <1>2, <1>5 DEF GitGoes, RunSays, GitSame, old
<1>7. ~OnItsWay(r, old, gitRemote) BY DEF OnItsWay
<1> QED BY <1>3, <1>4, <1>5, <1>6, <1>7, GitRowGoes DEF old

\* inspectGitSync has found the candidate at the head.
LEMMA StepFinishInspection == ASSUME GitIInv, NEW r \in GitRuns, FinishInspection(r) PROVE GitIInv'
<1>1. r \in gitRemote.commits /\ gitRuns[r].direction = "push" /\ gitInspected' \subseteq gitInspected
  BY DEF FinishInspection, GitIInv, GitShape
<1>2. UNCHANGED <<gitConsent, gitTexts, gitRemote, gitWorkers, gitTroubled>> BY DEF FinishInspection
<1>3. GitTurned /\ SendersStay BY <1>2, GitRests
<1>4. CASE Finished(r) /\ gitRuns' = [gitRuns EXCEPT ![r].status = "succeeded"]
  BY <1>1, <1>2, <1>3, <1>4, GitFinishes
<1>5. CASE UNCHANGED <<gitMaps, gitRuns>>
  <2>1. PICK row : row = gitRuns[r]
    OBVIOUS
  <2>2. row \in GitRow /\ gitRuns' = [gitRuns EXCEPT ![r] = row] /\ RunSays(r, row, gitMaps, gitRemote)
    BY <1>5, <2>1, GitRowIs DEF GitIInv, GitShape
  <2>3. GitSame(gitRuns[r], row) /\ GitGoes(gitRuns[r], row) /\ ~OnItsWay(r, gitRuns[r], gitRemote)
    BY <1>1, <2>1, <2>2 DEF GitSame, GitGoes, OnItsWay, RunSays
  <2>4. GitAroundKept BY <1>1, <1>2, <1>5 DEF GitAroundKept, GitIInv, GitShape, MapsGrow
  <2> QED BY <1>3, <2>2, <2>3, <2>4, GitRowGoes
<1> QED BY <1>4, <1>5 DEF FinishInspection

\* gitSyncFinishPush, by the goroutine that sent.
LEMMA StepFinishPush == ASSUME GitIInv, NEW w \in GitWorkers, FinishPush(w) PROVE GitIInv'
<1>0. PICK r \in GitRuns : r = gitWorkers[w].r BY GitPlaceIs DEF FinishPush
<1> DEFINE old == gitWorkers[w]
<1>1. /\ old.at = "finish" /\ old \in GitPlace /\ GitAtWork(old, gitRuns[r], gitMaps, gitRemote)
      /\ gitRuns[r] \in GitRow
      /\ UNCHANGED <<gitConsent, gitTexts, gitRemote, gitInspected, gitTroubled>>
  BY <1>0, GitPlaceIs, GitRowIs DEF FinishPush
<1>2. CASE FailGit(w, "failed", "retry") /\ UNCHANGED gitMaps BY <1>1, <1>2, GitFailsStill
<1>3. CASE /\ Finished(r) /\ gitRuns' = [gitRuns EXCEPT ![r].status = "succeeded"]
           /\ Turns(w, [old EXCEPT !.at = "settle"])
  <2>1. PICK me : me = [old EXCEPT !.at = "settle"]
    OBVIOUS
  <2>2. r \in gitRemote.commits /\ gitRuns[r].direction = "push" BY <1>0, <1>1 DEF GitAtWork
  <2>3. /\ gitRuns'[r].status = "succeeded" /\ gitRuns'[r].confirmed = gitRuns[r].confirmed
        /\ gitRuns'[r].remote = gitRuns[r].remote /\ gitRuns'[r].direction = gitRuns[r].direction
    BY <1>1, <1>3 DEF GitRow, GitIInv, GitShape
  <2> HIDE DEF old
  <2>4. me \in GitPlace /\ me.at = "settle" /\ me.r = r /\ me.job = old.job /\ me.run = old.run
    BY <1>0, <1>1, <2>1 DEF GitPlace, old
  <2>5. GitAtWork(me, gitRuns'[me.r], gitMaps', gitRemote') BY <1>1, <2>3, <2>4 DEF GitAtWork
  <2>6. GitTurned /\ SendersStay BY <1>3, <2>1, <2>4, <2>5, GitTurns
  <2> QED BY <1>1, <1>3, <2>2, <2>6, GitFinishes
<1> QED BY <1>0, <1>2, <1>3 DEF FinishPush

----------------
\* The consent, the texts, what inspections have found and the bound: nothing of
\* the runs depends on them.
LEMMA GitSurroundings ==
  ASSUME GitIInv, UNCHANGED <<gitMaps, gitRemote, gitRuns, gitWorkers>>, gitConsent' \in Nat,
         gitTexts' \in [GitDocs -> Nat], gitTroubled' = gitTroubled \/ GitTrouble,
         \A r \in gitInspected' : r \in gitRemote.commits /\ gitRuns[r].direction = "push"
  PROVE  GitIInv'
<1>1. gitTroubled \in Nat /\ gitTroubled' \in Nat /\ gitTroubled <= gitTroubled' /\ gitRemote.head \in Nat
  BY DEF GitIInv, GitShape, GitTrouble
<1>2. GitShape' /\ MapsFit(gitMaps') BY <1>1 DEF GitIInv, GitShape
<1>3. CommitFits(gitRemote'.head, gitRemote'.commits, gitTroubled')
  BY <1>1, GitAssumption DEF GitIInv, CommitFits, GitAssumption
<1>4. GitRows'
  <2> SUFFICES ASSUME NEW q \in GitRuns
               PROVE  /\ RunFits(q, gitRuns[q], gitMaps, gitRemote, gitTroubled')
                      /\ RunKnows(gitRuns[q], gitMaps, gitRemote) /\ RunSays(q, gitRuns[q], gitMaps, gitRemote)
    BY DEF GitRows
  <2>1. gitRuns[q].remote \in Nat BY GitRowIs DEF GitRow
  <2> QED BY <1>1, <2>1, GitRowIs, RunFitsOn, GitAssumption
<1>5. GitPacks' /\ GitPlaces' /\ GitAlone' BY DEF GitIInv, GitPacks, GitPlaces, GitAlone
<1> QED BY <1>2, <1>3, <1>4, <1>5 DEF GitIInv

LEMMA StepInspectGit == ASSUME GitIInv, NEW r \in GitRuns, InspectGit(r) PROVE GitIInv'
<1>1. r \in gitRemote.commits /\ gitRuns[r].direction = "push"
  BY GitHeadIn, GitRowIs DEF InspectGit, RunFits
<1>2. \A q \in gitInspected : q \in gitRemote.commits /\ gitRuns[q].direction = "push"
  BY DEF GitIInv, GitShape
<1>3. gitConsent' \in Nat /\ gitTexts' \in [GitDocs -> Nat] BY DEF InspectGit, GitIInv, GitShape
<1> QED BY <1>1, <1>2, <1>3, GitSurroundings DEF InspectGit

LEMMA StepEditText == ASSUME GitIInv, NEW x \in GitDocs, EditText(x) PROVE GitIInv'
<1>1. gitTexts' \in [GitDocs -> Nat] /\ gitConsent' \in Nat BY DEF EditText, GitIInv, GitShape
<1>2. \A q \in gitInspected' : q \in gitRemote.commits /\ gitRuns[q].direction = "push"
  BY DEF EditText, GitIInv, GitShape
<1> QED BY <1>1, <1>2, GitSurroundings DEF EditText

LEMMA StepChangeConsent == ASSUME GitIInv, ChangeConsent PROVE GitIInv'
<1>1. gitTexts' \in [GitDocs -> Nat] /\ gitConsent' \in Nat BY DEF ChangeConsent, GitIInv, GitShape
<1>2. \A q \in gitInspected' : q \in gitRemote.commits /\ gitRuns[q].direction = "push"
  BY DEF ChangeConsent, GitIInv, GitShape
<1> QED BY <1>1, <1>2, GitSurroundings DEF ChangeConsent

\* The branch moves: by nobody, or to a commit that no run was shown.
LEMMA GitRemoteMoves ==
  ASSUME GitIInv, UNCHANGED <<gitConsent, gitTexts, gitMaps, gitRuns, gitWorkers, gitInspected>>,
         gitTroubled' = gitTroubled \/ GitTrouble, NEW new, gitRemote' = new,
         new \in [head : Nat, commits : SUBSET GitRuns, flying : SUBSET (GitRuns \X Nat), files : [GitPaths -> Nat]],
         gitRemote.commits \subseteq new.commits, new.flying \subseteq gitRemote.flying,
         CommitFits(new.head, new.commits, gitTroubled'),
         \/ new.head = gitRemote.head /\ new.files = gitRemote.files
         \/ \A q \in GitRuns : new.head # gitRuns[q].remote,
         \A r \in new.commits \ gitRemote.commits :
           /\ OnItsWay(r, gitRuns[r], gitRemote) /\ \A pack \in new.flying : pack[1] # r
           /\ \A w \in GitWorkers : gitWorkers[w].at = "send" => gitWorkers[w].r # r
  PROVE  GitIInv'
<1>1. gitTroubled \in Nat /\ gitTroubled' \in Nat /\ gitTroubled <= gitTroubled'
  BY DEF GitIInv, GitShape, GitTrouble
<1>2. GitShape' /\ MapsFit(gitMaps') /\ GitAlone' BY <1>1 DEF GitIInv, GitShape, GitAlone
<1>3. ASSUME NEW q \in GitRuns
      PROVE  /\ RunFits(q, gitRuns[q], gitMaps, new, gitTroubled')
             /\ RunKnows(gitRuns[q], gitMaps, new) /\ RunSays(q, gitRuns[q], gitMaps, new)
  <2> DEFINE run == gitRuns[q]
  <2>1. /\ run \in GitRow /\ RunFits(q, run, gitMaps, gitRemote, gitTroubled)
        /\ RunKnows(run, gitMaps, gitRemote) /\ RunSays(q, run, gitMaps, gitRemote) /\ run.remote \in Nat
    BY GitRowIs DEF GitRow
  <2>2. q \in new.commits => q \in gitRemote.commits \/ OnItsWay(q, run, gitRemote)
    OBVIOUS
  <2>3. CommitFits(run.remote, new.commits, gitTroubled')
    BY <1>1, <2>1, GitAssumption DEF CommitFits, RunFits, GitAssumption
  <2>4. (new.head = gitRemote.head /\ new.files = gitRemote.files) \/ new.head # run.remote
    OBVIOUS
  <2> HIDE DEF run
  <2>5. RunFits(q, run, gitMaps, new, gitTroubled') BY <2>1, <2>2, <2>3 DEF RunFits, OnItsWay
  <2>6. RunKnows(run, gitMaps, new) BY <2>1, <2>4 DEF RunKnows
  <2>7. RunSays(q, run, gitMaps, new) BY <2>1, <2>2 DEF RunSays, OnItsWay
  <2> QED BY <2>5, <2>6, <2>7 DEF run
<1>4. GitRows' BY <1>3 DEF GitRows
<1>5. GitPacks'
  <2> SUFFICES ASSUME NEW pack \in new.flying
               PROVE  OnItsWay(pack[1], gitRuns[pack[1]], new) /\ pack[2] = gitRuns[pack[1]].remote
    BY DEF GitPacks
  <2>1. OnItsWay(pack[1], gitRuns[pack[1]], gitRemote) /\ pack[2] = gitRuns[pack[1]].remote
    BY DEF GitIInv, GitPacks
  <2> QED BY <2>1 DEF OnItsWay
<1>6. GitPlaces'
  <2> SUFFICES ASSUME NEW w \in GitWorkers, gitWorkers[w].at # "idle"
               PROVE  GitAtWork(gitWorkers[w], gitRuns[gitWorkers[w].r], gitMaps, new)
    BY DEF GitPlaces
  <2> DEFINE me == gitWorkers[w]
             run == gitRuns[me.r]
  <2>1. GitAtWork(me, run, gitMaps, gitRemote) BY GitPlaceIs
  <2>2. me.at = "send" => me.r \notin new.commits BY <2>1 DEF GitAtWork, OnItsWay
  <2> HIDE DEF me, run
  <2>3. GitAtWork(me, run, gitMaps, new) BY <2>1, <2>2 DEF GitAtWork, OnItsWay
  <2> QED BY <2>3 DEF me, run
<1> QED BY <1>2, <1>4, <1>5, <1>6 DEF GitIInv

\* Someone else commits: no run was shown it.
LEMMA StepCommitElsewhere ==
  ASSUME GitIInv, NEW p, NEW deleted \in BOOLEAN, CommitElsewhere(p, deleted) PROVE GitIInv'
<1>1. PICK id : id = Foreign + gitTroubled + 1
  OBVIOUS
<1>2. PICK files : files = [q \in GitPaths |-> IF q # p THEN gitRemote.files[q] ELSE IF deleted THEN 0 ELSE id]
  OBVIOUS
<1>3. PICK new : new = [gitRemote EXCEPT !.head = id, !.files = files]
  OBVIOUS
<1>4. /\ gitRemote' = new /\ GitTrouble
      /\ UNCHANGED <<gitConsent, gitTexts, gitMaps, gitRuns, gitWorkers, gitInspected>>
  BY <1>1, <1>2, <1>3 DEF CommitElsewhere
<1>5. /\ gitTroubled \in Nat /\ gitTroubled' = gitTroubled + 1 /\ id \in Nat /\ Foreign \in Nat
      /\ id = Foreign + gitTroubled' /\ id \notin GitRuns
  BY <1>1, <1>4, GitAssumption DEF GitIInv, GitShape, GitTrouble, GitAssumption
<1>6. files \in [GitPaths -> Nat] BY <1>2, <1>5 DEF GitIInv, GitShape
<1>7. /\ new \in [head : Nat, commits : SUBSET GitRuns, flying : SUBSET (GitRuns \X Nat), files : [GitPaths -> Nat]]
      /\ new.head = id /\ new.commits = gitRemote.commits /\ new.flying = gitRemote.flying
  BY <1>3, <1>5, <1>6 DEF GitIInv, GitShape
<1>8. \A q \in GitRuns : id # gitRuns[q].remote
  <2> SUFFICES ASSUME NEW q \in GitRuns PROVE id # gitRuns[q].remote
    OBVIOUS
  <2>1. gitRuns[q].remote \in Nat /\ gitRuns[q].remote <= Foreign + gitTroubled
    BY GitRowIs DEF GitRow, RunFits, CommitFits
  <2> QED BY <2>1, <1>5
<1>9. CommitFits(new.head, new.commits, gitTroubled') BY <1>5, <1>7 DEF CommitFits
<1> QED BY <1>4, <1>7, <1>8, <1>9, GitRemoteMoves

\* The remote takes the pack, if the head is the one it builds on.
LEMMA StepReceiveGit ==
  ASSUME GitIInv, NEW r, NEW old, ReceiveGit(r, old) PROVE GitIInv'
<1> DEFINE run == gitRuns[r]
           flying == gitRemote.flying \ {<<r, old>>}
<1>1. /\ r \in GitRuns /\ OnItsWay(r, run, gitRemote) /\ old = run.remote
      /\ UNCHANGED <<gitConsent, gitTexts, gitMaps, gitRuns, gitWorkers, gitInspected, gitTroubled>>
  BY DEF ReceiveGit, GitIInv, GitShape, GitPacks
<1>2. CASE gitRemote' = [gitRemote EXCEPT !.flying = gitRemote.flying \ {<<r, old>>}]
  <2>1. PICK new : new = [gitRemote EXCEPT !.flying = flying]
    OBVIOUS
  <2>2. /\ new \in [head : Nat, commits : SUBSET GitRuns, flying : SUBSET (GitRuns \X Nat), files : [GitPaths -> Nat]]
        /\ new.head = gitRemote.head /\ new.commits = gitRemote.commits /\ new.flying = flying
        /\ new.files = gitRemote.files
    BY <2>1 DEF GitIInv, GitShape
  <2>3. CommitFits(new.head, new.commits, gitTroubled') BY <1>1, <2>2 DEF GitIInv
  <2> QED BY <1>1, <1>2, <2>1, <2>2, <2>3, GitRemoteMoves
<1>3. CASE gitRemote' = [gitRemote EXCEPT !.flying = gitRemote.flying \ {<<r, old>>}, !.head = r,
             !.commits = gitRemote.commits \cup {r},
             !.files = [p \in GitPaths |-> IF p \in DOMAIN run.files THEN run.files[p] ELSE gitRemote.files[p]]]
  <2>1. PICK files : files = [p \in GitPaths |-> IF p \in DOMAIN run.files THEN run.files[p] ELSE gitRemote.files[p]]
    OBVIOUS
  <2>2. PICK new : new = [gitRemote EXCEPT !.flying = flying, !.head = r, !.commits = gitRemote.commits \cup {r},
                                           !.files = files]
    OBVIOUS
  <2>3. files \in [GitPaths -> Nat]
    BY <1>1, <2>1, GitRowIs DEF GitRow, GitPartial, GitIInv, GitShape
  <2>4. r \in Nat /\ r <= Foreign /\ gitTroubled \in Nat /\ Foreign \in Nat
    BY <1>1, GitAssumption DEF GitAssumption, GitIInv, GitShape
  <2>5. /\ new \in [head : Nat, commits : SUBSET GitRuns, flying : SUBSET (GitRuns \X Nat), files : [GitPaths -> Nat]]
        /\ new.head = r /\ new.commits = gitRemote.commits \cup {r} /\ new.flying = flying
    BY <1>1, <2>2, <2>3, <2>4 DEF GitIInv, GitShape
  <2>6. CommitFits(new.head, new.commits, gitTroubled') BY <1>1, <2>4, <2>5 DEF CommitFits
  <2>7. r \notin gitRemote.commits BY <1>1 DEF OnItsWay
  <2>8. \A q \in GitRuns : r # gitRuns[q].remote BY <1>1, <2>7, GitRowIs DEF RunFits, CommitFits
  <2>9. \A pack \in flying : pack[1] # r BY <1>1 DEF GitIInv, GitShape, GitPacks
  <2>10. \A w \in GitWorkers : gitWorkers[w].at = "send" => gitWorkers[w].r # r
    <3>1. <<r, old>> \in gitRemote.flying BY DEF ReceiveGit
    <3> QED BY <3>1 DEF GitIInv, GitPlaces, GitAtWork
  <2>11. gitRemote' = new BY <1>3, <2>1, <2>2
  <2> HIDE DEF run, flying
  <2> QED BY <1>1, <2>5, <2>6, <2>8, <2>9, <2>10, <2>11, GitRemoteMoves DEF run, flying
<1> QED BY <1>2, <1>3 DEF ReceiveGit

----------------
\* The paths of a pull in their order: each of them, and nothing else.
LEMMA OrderedCovers ==
  ASSUME NEW ps, ps \subseteq Nat, IsFiniteSet(ps)
  PROVE  Ordered(ps) \in Seq(ps) /\ \A p \in ps : \E i \in DOMAIN Ordered(ps) : Ordered(ps)[i] = p
<1> DEFINE n == Cardinality(ps)
           upTo(p) == {q \in ps : q <= p}
           rank == [p \in ps |-> Cardinality(upTo(p))]
<1>1. n \in Nat BY FS_CardinalityType
<1>2. ASSUME NEW p \in ps
      PROVE  IsFiniteSet(upTo(p)) /\ rank[p] = Cardinality(upTo(p)) /\ rank[p] \in 1 .. n
  <2>1. upTo(p) \in SUBSET ps /\ p \in upTo(p)
    OBVIOUS
  <2>2. IsFiniteSet(upTo(p)) /\ Cardinality(upTo(p)) <= n BY <2>1, FS_Subset
  <2>3. Cardinality(upTo(p)) # 0 /\ Cardinality(upTo(p)) \in Nat
    BY <2>1, <2>2, FS_EmptySet, FS_CardinalityType
  <2>4. rank[p] = Cardinality(upTo(p))
    OBVIOUS
  <2> HIDE DEF upTo, rank, n
  <2> QED BY <1>1, <2>2, <2>3, <2>4
<1>3. ASSUME NEW p \in ps, NEW q \in ps, p < q PROVE rank[p] # rank[q]
  <2>1. upTo(p) \in SUBSET upTo(q) /\ q \in upTo(q) /\ q \notin upTo(p)
    <3>1. p \in Nat /\ q \in Nat /\ \A o \in ps : o \in Nat
      OBVIOUS
    <3>2. \A o \in ps : o <= p => o <= q BY <1>3, <3>1
    <3>3. q <= q /\ ~(q <= p) BY <1>3, <3>1
    <3> QED BY <3>2, <3>3
  <2>2. Cardinality(upTo(q)) # Cardinality(upTo(p)) BY <1>2, <2>1, FS_Subset
  <2> QED BY <1>2, <2>2
<1> HIDE DEF rank
<1>4. \A p, q \in ps : rank[p] = rank[q] => p = q
  <2> SUFFICES ASSUME NEW p \in ps, NEW q \in ps, p # q PROVE rank[p] # rank[q]
    OBVIOUS
  <2>1. p < q \/ q < p
    OBVIOUS
  <2> QED BY <2>1, <1>3
<1>5. rank \in [ps -> 1 .. n]
  <2>1. rank = [p \in ps |-> rank[p]] BY DEF rank
  <2> QED BY <1>2, <2>1
<1>6. rank \in Injection(ps, 1 .. n) BY <1>4, <1>5 DEF Injection, IsInjective
<1>7. IsFiniteSet(1 .. n) /\ Cardinality(1 .. n) = n BY <1>1, FS_Interval
<1>8. rank \in Surjection(ps, 1 .. n) BY <1>6, <1>7, FS_Injection
<1>9. \A i \in 1 .. n : \E p \in ps : rank[p] = i BY <1>8 DEF Surjection
<1>10. ASSUME NEW i \in 1 .. n PROVE Ordered(ps)[i] \in ps /\ rank[Ordered(ps)[i]] = i
  <2> DEFINE atPlace(p) == Cardinality({q \in ps : q <= p}) = i
  <2>1. \E p \in ps : atPlace(p) BY <1>2, <1>9
  <2>2. Ordered(ps)[i] = CHOOSE p \in ps : atPlace(p) BY DEF Ordered
  <2>3. Ordered(ps)[i] \in ps /\ atPlace(Ordered(ps)[i])
    <3> HIDE DEF atPlace
    <3> QED BY <2>1, <2>2
  <2> QED BY <1>2, <2>3
<1>11. Ordered(ps) = [i \in 1 .. n |-> Ordered(ps)[i]]
  <2> DEFINE chosen(i) == CHOOSE p \in ps : Cardinality({q \in ps : q <= p}) = i
  <2>1. Ordered(ps) = [i \in 1 .. n |-> chosen(i)] BY DEF Ordered
  <2> HIDE DEF chosen, n
  <2> QED BY <2>1
<1>12. Ordered(ps) \in [1 .. n -> ps] BY <1>10, <1>11
<1>13. Ordered(ps) \in Seq(ps) /\ DOMAIN Ordered(ps) = 1 .. n BY <1>1, <1>12
<1>14. ASSUME NEW p \in ps PROVE Ordered(ps)[rank[p]] = p BY <1>2, <1>4, <1>10
<1> QED BY <1>2, <1>13, <1>14

\* gitSyncApplyPull: the paths that are not as they were received, and perhaps
\* the first once more.
LEMMA SavesCover ==
  ASSUME NEW run, run.selected \subseteq GitPaths, NEW left \in Saves(run)
  PROVE  /\ left \in Seq(run.selected)
         /\ \A p \in run.selected : (\E i \in DOMAIN left : left[i] = p) \/ Received(run, p)
<1> DEFINE ps == {p \in run.selected : ~Received(run, p)}
           linked == 1 \in run.selected /\ run.selected # {1}
<1>1. PICK first : first = Ordered(ps)
  OBVIOUS
<1>2. ps \subseteq Nat /\ IsFiniteSet(ps)
  <2>1. 1 .. Foreign \subseteq Nat /\ IsFiniteSet(1 .. Foreign) /\ ps \in SUBSET (1 .. Foreign)
    BY FS_Interval, GitAssumption DEF GitAssumption
  <2> QED BY <2>1, FS_Subset
<1>3. first \in Seq(ps) /\ \A p \in ps : \E i \in DOMAIN first : first[i] = p
  BY <1>1, <1>2, OrderedCovers
<1>4. left = first \/ (left = Append(first, 1) /\ 1 \in run.selected) BY <1>1 DEF Saves
<1> HIDE DEF ps
<1>5. first \in Seq(run.selected) BY <1>3 DEF ps
<1>6. left \in Seq(run.selected) /\ \A i \in DOMAIN first : i \in DOMAIN left /\ left[i] = first[i]
  BY <1>4, <1>5
<1> QED BY <1>3, <1>6 DEF ps

\* The document of a path that the run has received meanwhile is the mapping's.
LEMMA MeantFits ==
  ASSUME GitIInv, NEW run \in GitRow, NEW docs, docs = Meant(run), \A p \in DOMAIN run.docs : run.docs[p] \in DocsOf(p)
  PROVE  /\ docs \in GitPartial(GitPaths) /\ DOMAIN docs = DOMAIN run.docs
         /\ \A p \in DOMAIN docs : docs[p] \in DocsOf(p)
<1>1. DOMAIN run.docs \subseteq GitPaths BY DEF GitRow, GitPartial
<1>2. DOMAIN docs = DOMAIN run.docs BY DEF Meant
<1>3. ASSUME NEW p \in DOMAIN run.docs PROVE docs[p] \in DocsOf(p)
  <2>1. docs[p] = gitMaps[p].now[1] \/ docs[p] = run.docs[p] BY DEF Meant
  <2>2. gitMaps[p].now[1] \in DocsOf(p) BY <1>1 DEF GitIInv, MapsFit
  <2> QED BY <2>1, <2>2
<1>4. docs = [p \in DOMAIN docs |-> docs[p]] BY DEF Meant
<1>5. docs \in [DOMAIN docs -> Nat] BY <1>2, <1>3, <1>4, DocsAreNumbers
<1> QED BY <1>1, <1>2, <1>3, <1>5, GitPartialOf

LEMMA StepAcceptPull == ASSUME GitIInv, NEW w \in GitWorkers, AcceptPull(w) PROVE GitIInv'
<1>0. PICK r \in GitRuns : r = gitWorkers[w].r BY GitPlaceIs DEF AcceptPull
<1> DEFINE old == gitWorkers[w]
           run == gitRuns[r]
<1>1. /\ old.at = "accept" /\ old \in GitPlace /\ GitAtWork(old, run, gitMaps, gitRemote) /\ RunOf(w) = run
      /\ run \in GitRow /\ RunFits(r, run, gitMaps, gitRemote, gitTroubled)
      /\ RunKnows(run, gitMaps, gitRemote)
      /\ UNCHANGED <<gitConsent, gitTexts, gitMaps, gitRemote, gitInspected, gitTroubled>>
  BY <1>0, GitPlaceIs, GitRowIs DEF AcceptPull
<1>2. CASE FailGit(w, "failed", "failed") BY <1>1, <1>2, GitFailsStill
<1>3. ASSUME run.status = "queued", gitRuns' = [gitRuns EXCEPT ![r].status = "running", ![r].docs = Meant(run)],
             NEW saves \in Saves(run), Turns(w, [old EXCEPT !.at = "save", !.left = saves])
      PROVE  GitIInv'
  <2>1. PICK docs : docs = Meant(run)
    OBVIOUS
  <2>2. PICK row : row = [run EXCEPT !.status = "running", !.docs = docs]
    OBVIOUS
  <2>3. PICK me : me = [old EXCEPT !.at = "save", !.left = saves]
    OBVIOUS
  <2>4. gitRuns' = [gitRuns EXCEPT ![r] = row] /\ Turns(w, me)
    BY <1>3, <2>1, <2>2, <2>3 DEF GitIInv, GitShape
  <2>5. run.direction = "pull" /\ run.confirmed BY <1>1 DEF GitAtWork
  <2> HIDE DEF run
  <2>6. /\ docs \in GitPartial(GitPaths) /\ DOMAIN docs = DOMAIN run.docs
        /\ \A p \in DOMAIN docs : docs[p] \in DocsOf(p)
    BY <1>1, <2>1, MeantFits DEF RunFits
  <2>7. /\ row \in GitRow /\ row.status = "running" /\ row.docs = docs /\ row.direction = run.direction
        /\ row.selected = run.selected /\ row.remote = run.remote /\ row.files = run.files
        /\ row.versions = run.versions /\ row.blocked = run.blocked /\ row.confirmed = run.confirmed
        /\ row.launched = run.launched /\ row.job = run.job
    <3>1. "running" \in GitOpen BY DEF GitOpen
    <3> QED BY <1>1, <2>2, <2>6, <3>1 DEF GitRow
  <2>8. /\ run.selected \subseteq GitPaths /\ ~run.launched /\ r \notin gitRemote.commits
        /\ DOMAIN run.docs = run.selected
    BY <1>1, <2>5 DEF RunFits
  <2>9. /\ saves \in Seq(run.selected)
        /\ \A p \in run.selected : (\E i \in DOMAIN saves : saves[i] = p) \/ Received(run, p)
    BY <1>3, <2>8, SavesCover
  <2>10. \A p \in run.selected : Received(run, p) => run.files[p] \in Exchanged(gitMaps, p)
    BY <2>8 DEF Received, Exchanged, GitIInv, MapsFit
  <2>11. saves \in Seq(GitPaths) BY <2>8, <2>9
  <2>12. /\ me \in GitPlace /\ me.at = "save" /\ me.r = r /\ me.job = old.job /\ me.run = old.run
         /\ me.left = saves
    BY <1>0, <1>1, <2>3, <2>11 DEF GitPlace, old
  <2> HIDE DEF old
  <2>13. GitAtWork(me, row, gitMaps, gitRemote)
    BY <1>1, <2>5, <2>7, <2>9, <2>10, <2>12 DEF GitAtWork
  <2>14. gitRuns'[me.r] = row /\ gitMaps' = gitMaps /\ gitRemote' = gitRemote
    BY <1>1, <2>4, <2>12 DEF GitIInv, GitShape
  <2>15. GitTurned /\ GitAlone' BY <2>4, <2>12, <2>13, <2>14, GitTurns, GitAloneStays
  <2>16. GitFollows(run, row) BY <2>5, <2>7 DEF GitFollows
  <2>17. RunFits(r, row, gitMaps, gitRemote, gitTroubled)
    BY <1>1, <2>5, <2>6, <2>7, <2>8 DEF RunFits
  <2>18. RunKnows(row, gitMaps, gitRemote) /\ RunSays(r, row, gitMaps, gitRemote)
    BY <1>1, <2>5, <2>7 DEF RunKnows, RunSays
  <2>19. GitAroundKept BY <1>1, GitStill
  <2> QED BY <1>1, <2>4, <2>7, <2>15, <2>16, <2>17, <2>18, <2>19, GitRowMoves DEF run
<1> QED BY <1>0, <1>1, <1>2, <1>3 DEF AcceptPull

\* What is left after the first.
LEMMA LeftAfter ==
  ASSUME NEW S, NEW left, left \in Seq(S), left # <<>>
  PROVE  /\ Head(left) \in S /\ Tail(left) \in Seq(S)
         /\ \A q : (\E i \in DOMAIN left : left[i] = q) =>
                     q = Head(left) \/ \E i \in DOMAIN Tail(left) : Tail(left)[i] = q
<1>1. Head(left) \in S /\ Tail(left) \in Seq(S) /\ Len(left) \in Nat /\ Len(left) > 0
  OBVIOUS
<1>2. ASSUME NEW i \in DOMAIN left, i # 1
      PROVE  i - 1 \in DOMAIN Tail(left) /\ Tail(left)[i - 1] = left[i]
  BY <1>1, <1>2
<1>3. Head(left) = left[1] BY <1>1
<1> QED BY <1>1, <1>2, <1>3

LEMMA DocOfPath ==
  ASSUME NEW p \in GitPaths, NEW doc \in DocsOf(p), NEW x, x = IF doc = 0 THEN Foreign + p ELSE doc
  PROVE  x \in GitDocs /\ PathOf(x) = p /\ x \in DocsOf(p)
<1>1. CASE doc # 0 BY <1>1 DEF DocsOf
<1>2. CASE doc = 0
  <2>1. x \in GitDocs BY <1>2 DEF GitDocs
  <2>2. p \in Nat /\ p > 0 /\ Foreign \in Nat BY GitAssumption DEF GitAssumption
  <2>3. PathOf(x) = p BY <1>2, <2>2 DEF PathOf
  <2> QED BY <2>1, <2>3 DEF DocsOf
<1> QED BY <1>1, <1>2

\* gitSyncPutDocument: one document is saved and its mapping with it.
LEMMA StepSavePull == ASSUME GitIInv, NEW w \in GitWorkers, SavePull(w) PROVE GitIInv'
<1>0. PICK r \in GitRuns : r = gitWorkers[w].r BY ZenonT(30), GitPlaceIs DEF SavePull
<1> DEFINE old == gitWorkers[w]
           run == gitRuns[r]
           p == Head(old.left)
<1>1. /\ old.at = "save" /\ old.left # <<>> /\ old \in GitPlace /\ RunOf(w) = run
      /\ GitAtWork(old, run, gitMaps, gitRemote)
      /\ run \in GitRow /\ RunFits(r, run, gitMaps, gitRemote, gitTroubled)
      /\ RunKnows(run, gitMaps, gitRemote)
      /\ UNCHANGED <<gitConsent, gitRemote, gitInspected, gitTroubled>>
  BY ZenonT(30), <1>0, GitPlaceIs, GitRowIs DEF SavePull
<1>2. ASSUME NEW job \in {"failed", "retry"}, FailGit(w, "failed", job), UNCHANGED <<gitTexts, gitMaps>>
      PROVE  GitIInv'
  BY <1>1, <1>2, GitFailsStill
<1>3. PICK x : x = IF run.docs[p] = 0 THEN Foreign + p ELSE run.docs[p]
  OBVIOUS
<1>4. /\ run.direction = "pull" /\ run.confirmed /\ run.selected \subseteq GitPaths
      /\ ~run.launched /\ r \notin gitRemote.commits /\ DOMAIN run.docs = run.selected
      /\ old.left \in Seq(run.selected)
      /\ \A q \in run.selected : (\E i \in DOMAIN old.left : old.left[i] = q)
                                 \/ run.files[q] \in Exchanged(gitMaps, q)
  BY <1>1 DEF GitAtWork, RunFits
<1>5. /\ p \in run.selected /\ p \in GitPaths /\ Tail(old.left) \in Seq(run.selected)
      /\ \A q \in run.selected : (\E i \in DOMAIN Tail(old.left) : Tail(old.left)[i] = q)
                                 \/ q = p \/ run.files[q] \in Exchanged(gitMaps, q)
  <2>1. PICK S : S = run.selected
    OBVIOUS
  <2>2. PICK left \in Seq(S) : left = old.left BY <1>4, <2>1
  <2>3. /\ Head(left) \in S /\ Tail(left) \in Seq(S)
        /\ \A q : (\E i \in DOMAIN left : left[i] = q) =>
                    q = Head(left) \/ \E i \in DOMAIN Tail(left) : Tail(left)[i] = q
    <3>1. left # <<>> BY <1>1, <2>2
    <3>2. left \in Seq(S)
      OBVIOUS
    <3> QED BY ONLY <3>1, <3>2, LeftAfter
  <2>4. Head(left) = p /\ Tail(left) = Tail(old.left) BY <2>2
  <2> HIDE DEF old, run, p
  <2>5. ASSUME NEW q \in run.selected
        PROVE  (\E i \in DOMAIN Tail(left) : Tail(left)[i] = q)
               \/ q = p \/ run.files[q] \in Exchanged(gitMaps, q)
    BY <1>4, <2>2, <2>3, <2>4
  <2> QED BY <1>4, <2>1, <2>3, <2>4, <2>5
<1>6. x \in GitDocs /\ PathOf(x) = p /\ x \in DocsOf(p) /\ x \in Nat
  <2>1. run.docs[p] \in DocsOf(p) BY <1>1, <1>4, <1>5 DEF RunFits
  <2> QED BY <1>3, <1>5, <2>1, DocOfPath, DocsAreNumbers
<1>7. PICK version \in Nat : version = gitTexts[x] + 1 BY <1>6 DEF GitIInv, GitShape
<1>8. PICK pair : pair = <<x, version, run.files[p]>>
  OBVIOUS
<1>9. ASSUME gitTexts' = [gitTexts EXCEPT ![x] = version], gitMaps' = Maps(p, pair), run.status = "running",
             gitRuns' = [gitRuns EXCEPT ![r].docs[p] = x,
               ![r].versions = [y \in DOMAIN run.versions \cup {x} |-> IF y = x THEN version ELSE run.versions[y]]],
             Turns(w, [old EXCEPT !.left = Tail(old.left)])
      PROVE  GitIInv'
  <2>1. PICK docs : docs = [run.docs EXCEPT ![p] = x]
    OBVIOUS
  <2>2. PICK versions : versions = [y \in DOMAIN run.versions \cup {x} |->
                                      IF y = x THEN version ELSE run.versions[y]]
    OBVIOUS
  <2>3. PICK row : row = [run EXCEPT !.docs = docs, !.versions = versions]
    OBVIOUS
  <2>4. PICK me : me = [old EXCEPT !.left = Tail(old.left)]
    OBVIOUS
  <2>5. gitRuns' = [gitRuns EXCEPT ![r] = row] /\ Turns(w, me)
    BY <1>9, <2>1, <2>2, <2>3, <2>4 DEF GitIInv, GitShape
  <2> HIDE DEF run
  <2>6. /\ docs \in GitPartial(GitPaths) /\ DOMAIN docs = DOMAIN run.docs /\ DOMAIN docs = DOMAIN run.files
        /\ \A q \in DOMAIN docs : docs[q] \in DocsOf(q)
    <3>1. DOMAIN docs = DOMAIN run.docs /\ DOMAIN run.docs \subseteq GitPaths
          /\ run.docs \in [DOMAIN run.docs -> Nat] /\ DOMAIN run.docs = DOMAIN run.files
      BY <1>1, <2>1 DEF GitRow, GitPartial, RunFits
    <3>2. docs \in [DOMAIN docs -> Nat] BY <1>6, <2>1, <3>1
    <3>3. \A q \in DOMAIN docs : docs[q] \in DocsOf(q) BY <1>1, <1>6, <2>1, <3>1 DEF RunFits
    <3> QED BY <3>1, <3>2, <3>3, GitPartialOf
  <2>7. versions \in GitPartial(GitDocs) /\ DOMAIN versions = DOMAIN run.versions \cup {x}
    <3>1. DOMAIN run.versions \subseteq GitDocs /\ \A y \in DOMAIN run.versions : run.versions[y] \in Nat
      BY <1>1 DEF GitRow, GitPartial
    <3> QED BY <1>6, <2>2, <3>1, GitPartialOf
  <2>8. /\ row \in GitRow /\ row.status = "running" /\ row.docs = docs /\ row.direction = run.direction
        /\ row.selected = run.selected /\ row.remote = run.remote /\ row.files = run.files
        /\ row.versions = versions /\ row.blocked = run.blocked /\ row.confirmed = run.confirmed
        /\ row.launched = run.launched /\ row.job = run.job
    BY <1>1, <1>9, <2>3, <2>6, <2>7 DEF GitRow
  <2>9. /\ DOMAIN gitMaps' = GitPaths /\ gitMaps'[p].past = gitMaps[p].past \cup {pair}
        /\ MapsFit(gitMaps') /\ MapsGrow(gitMaps, gitMaps')
    <3>1. pair[1] = x BY <1>8
    <3> HIDE DEF p
    <3>2. /\ DOMAIN Maps(p, pair) = GitPaths /\ Maps(p, pair)[p].past = gitMaps[p].past \cup {pair}
          /\ MapsFit(Maps(p, pair)) /\ MapsGrow(gitMaps, Maps(p, pair))
      <4>1. p \in GitPaths /\ x \in DocsOf(p) BY <1>5, <1>6
      <4>2. GitIInv
        OBVIOUS
      <4>3. Maps(p, pair)[p] = [now |-> pair, past |-> gitMaps[p].past \cup {pair}]
        BY ONLY <3>1, <4>1, <4>2, MapsRow, Zenon
      <4>4. DOMAIN Maps(p, pair) = GitPaths /\ MapsFit(Maps(p, pair)) /\ MapsGrow(gitMaps, Maps(p, pair))
        BY ONLY <3>1, <4>1, <4>2, MapsRow, Zenon
      <4> QED BY <4>3, <4>4
    <3>3. gitMaps' = Maps(p, pair) BY <1>9
    <3> QED BY <3>2, <3>3
  <2>10. GitAroundKept
    <3>1. gitTexts' \in [GitDocs -> Nat] BY <1>9 DEF GitIInv, GitShape
    <3> QED BY <1>1, <2>9, <3>1 DEF GitAroundKept, GitIInv, GitShape
  <2>11. /\ me \in GitPlace /\ me.at = "save" /\ me.r = r /\ me.job = old.job /\ me.run = old.run
         /\ me.left = Tail(old.left)
    <3>1. PICK rest \in Seq(GitPaths) : rest = Tail(old.left)
      <4>1. PICK rest : rest = Tail(old.left)
        OBVIOUS
      <4>2. rest \in Seq(run.selected) /\ run.selected \subseteq GitPaths BY <1>4, <1>5, <4>1
      <4>3. rest \in Seq(GitPaths) BY <4>2
      <4> QED BY <4>1, <4>3
    <3> QED BY <1>0, <1>1, <2>4, <3>1 DEF GitPlace
  <2> HIDE DEF old, p
  <2>12. \A q \in run.selected : (\E i \in DOMAIN me.left : me.left[i] = q)
                                 \/ run.files[q] \in Exchanged(gitMaps', q)
    <3>1. run.files[p] \in Exchanged(gitMaps', p) BY <1>8, <2>9 DEF Exchanged
    <3>2. \A q \in run.selected : run.files[q] \in Exchanged(gitMaps, q) => run.files[q] \in Exchanged(gitMaps', q)
      BY <1>4, <2>9 DEF Exchanged, MapsGrow
    <3> QED BY <1>5, <2>11, <3>1, <3>2
  <2>13. GitAtWork(me, row, gitMaps', gitRemote)
    BY <1>1, <1>4, <1>5, <2>8, <2>11, <2>12 DEF GitAtWork
  <2>14. gitRuns'[me.r] = row /\ gitRemote' = gitRemote BY <1>1, <2>5, <2>11 DEF GitIInv, GitShape
  <2>15. GitTurned /\ GitAlone' BY <2>5, <2>11, <2>13, <2>14, GitTurns, GitAloneStays
  <2>16. GitFollows(run, row) BY <1>4, <2>8 DEF GitFollows
  <2>17. RunFits(r, row, gitMaps', gitRemote, gitTroubled') BY <1>1, <1>4, <2>6, <2>8 DEF RunFits
  <2>18. RunKnows(row, gitMaps', gitRemote)
    <3>1. RunKnows(run, gitMaps', gitRemote) BY <1>1, <2>9, RunKnowsOn
    <3>2. pair \in gitMaps'[PathOf(x)].past /\ pair[1] = x /\ pair[2] = versions[x]
      BY <1>6, <1>8, <2>2, <2>9
    <3>3. \A y \in DOMAIN versions : y = x \/ (y \in DOMAIN run.versions /\ versions[y] = run.versions[y])
      BY <2>2
    <3> QED BY <1>4, <2>8, <3>1, <3>2, <3>3 DEF RunKnows
  <2>19. RunSays(r, row, gitMaps', gitRemote) BY <1>4, <2>8 DEF RunSays
  <2> QED BY <2>5, <2>8, <2>10, <2>15, <2>16, <2>17, <2>18, <2>19, GitRowMoves DEF run
<1>10. (run.status = "running" /\ gitTexts' = [gitTexts EXCEPT ![x] = version] /\ gitMaps' = Maps(p, pair)
         /\ gitRuns' = [gitRuns EXCEPT ![r].docs[p] = x,
              ![r].versions = [y \in DOMAIN run.versions \cup {x} |-> IF y = x THEN version ELSE run.versions[y]]]
         /\ Turns(w, [old EXCEPT !.left = Tail(old.left)]))
       \/ (\E job \in {"failed", "retry"} : FailGit(w, "failed", job) /\ UNCHANGED <<gitTexts, gitMaps>>)
  <2>1. CASE ~KnowsVersion(gitRuns[r], p) BY <1>0, <2>1 DEF SavePull
  <2>2. CASE KnowsVersion(gitRuns[r], p) /\ ~MayPull(w) BY <1>0, <2>2 DEF SavePull
  <2>3. CASE KnowsVersion(gitRuns[r], p) /\ MayPull(w)
    <3>1. run.status = "running" BY <1>1, <2>3 DEF MayPull
    <3>2. x = (IF gitRuns[r].docs[p] = 0 THEN Foreign + p ELSE gitRuns[r].docs[p]) BY <1>3
    <3>3. gitTexts' = [gitTexts EXCEPT ![x] = version] /\ gitMaps' = Maps(p, pair)
      BY ZenonT(30), <1>0, <1>7, <1>8, <2>3, <3>2 DEF SavePull
    <3>4. /\ gitRuns' = [gitRuns EXCEPT ![r].docs[p] = x,
               ![r].versions = [y \in DOMAIN run.versions \cup {x} |-> IF y = x THEN version ELSE run.versions[y]]]
          /\ Turns(w, [old EXCEPT !.left = Tail(old.left)])
      <4> DEFINE doc == IF gitRuns[r].docs[p] = 0 THEN Foreign + p ELSE gitRuns[r].docs[p]
                 text == gitTexts[doc] + 1
                 known == [y \in DOMAIN gitRuns[r].versions \cup {doc} |->
                             IF y = doc THEN text ELSE gitRuns[r].versions[y]]
      <4>1. /\ gitRuns' = [gitRuns EXCEPT ![r].docs[p] = doc, ![r].versions = known]
            /\ Turns(w, [old EXCEPT !.left = Tail(old.left)])
        BY ZenonT(30), <1>0, <2>3 DEF SavePull
      <4>2. doc = x /\ text = version BY <1>7, <3>2
      <4> HIDE DEF doc, text
      <4>3. known = [y \in DOMAIN run.versions \cup {x} |-> IF y = x THEN version ELSE run.versions[y]]
        BY <4>2
      <4> HIDE DEF known
      <4> QED BY <4>1, <4>2, <4>3
    <3> QED BY <3>1, <3>3, <3>4
  <2> QED BY <2>1, <2>2, <2>3
<1> QED BY <1>2, <1>9, <1>10

\* gitSyncApplyPull ends.
LEMMA StepFinishPull == ASSUME GitIInv, NEW w \in GitWorkers, FinishPull(w) PROVE GitIInv'
<1>0. PICK r \in GitRuns : r = gitWorkers[w].r BY GitPlaceIs DEF FinishPull
<1> DEFINE old == gitWorkers[w]
           run == gitRuns[r]
<1>1. /\ old.at = "save" /\ old.left = <<>> /\ old \in GitPlace /\ GitAtWork(old, run, gitMaps, gitRemote)
      /\ run \in GitRow /\ RunFits(r, run, gitMaps, gitRemote, gitTroubled)
      /\ UNCHANGED <<gitConsent, gitTexts, gitMaps, gitRemote, gitInspected, gitTroubled>>
  BY <1>0, GitPlaceIs, GitRowIs DEF FinishPull
<1>2. CASE FailGit(w, "failed", "retry") BY <1>1, <1>2, GitFailsStill
<1>3. CASE /\ run.status = "running" /\ gitRuns' = [gitRuns EXCEPT ![r].status = "succeeded"]
           /\ Turns(w, [old EXCEPT !.at = "settle"])
  <2>1. PICK row : row = [run EXCEPT !.status = "succeeded"]
    OBVIOUS
  <2>2. PICK me : me = [old EXCEPT !.at = "settle"]
    OBVIOUS
  <2>3. gitRuns' = [gitRuns EXCEPT ![r] = row] /\ Turns(w, me) BY <1>3, <2>1, <2>2
  <2>4. /\ run.direction = "pull" /\ ~run.launched
        /\ \A p \in run.selected : run.files[p] \in Exchanged(gitMaps, p)
    BY <1>1 DEF GitAtWork, RunFits
  <2> HIDE DEF run
  <2>5. row \in GitRow /\ row.status = "succeeded" /\ GitSame(run, row) /\ row.job = run.job
    BY <1>1, <2>1 DEF GitRow, GitSame
  <2>6. GitGoes(run, row) /\ RunSays(r, row, gitMaps, gitRemote) /\ ~OnItsWay(r, run, gitRemote)
    BY <1>3, <2>4, <2>5 DEF GitGoes, RunSays, GitSame, OnItsWay
  <2>7. me \in GitPlace /\ me.at = "settle" /\ me.r = r /\ me.job = old.job /\ me.run = old.run
    BY <1>0, <1>1, <2>2 DEF GitPlace
  <2> HIDE DEF old
  <2>8. GitAtWork(me, row, gitMaps, gitRemote) BY <1>1, <2>5, <2>7 DEF GitAtWork, GitSame
  <2>9. gitRuns'[me.r] = row /\ gitMaps' = gitMaps /\ gitRemote' = gitRemote
    BY <1>1, <2>3, <2>7 DEF GitIInv, GitShape
  <2>10. GitTurned /\ SendersStay BY <2>3, <2>7, <2>8, <2>9, GitTurns
  <2>11. GitAroundKept BY <1>1, GitStill
  <2> QED BY <2>3, <2>5, <2>6, <2>10, <2>11, GitRowGoes DEF run
<1> QED BY <1>0, <1>2, <1>3 DEF FinishPull

----------------
LEMMA GitStart == GitInit => GitIInv
<1> SUFFICES ASSUME GitInit PROVE GitIInv
  OBVIOUS
<1>1. PICK before \in BOOLEAN :
        /\ gitMaps = [p \in GitPaths |-> IF p = 1 /\ before
                        THEN [now |-> <<1, 1, 1>>, past |-> {<<1, 1, 1>>}] ELSE [now |-> Unmapped, past |-> {}]]
        /\ gitRemote = [head |-> Foreign, commits |-> {}, flying |-> {},
                        files |-> [p \in GitPaths |-> IF p # 1 THEN Foreign ELSE IF before THEN 1 ELSE 0]]
  BY DEF GitInit
<1>2. /\ gitConsent = 1 /\ gitTroubled = 0 /\ gitInspected = {}
      /\ gitTexts = [x \in GitDocs |-> IF x = 1 THEN 1 ELSE 0]
      /\ gitRuns = [r \in GitRuns |-> NoGitRun] /\ gitWorkers = [w \in GitWorkers |-> GitIdle]
  BY DEF GitInit
<1>3. Foreign \in Nat /\ Foreign \notin GitRuns BY GitAssumption DEF GitAssumption
<1>4. /\ gitRemote.head = Foreign /\ gitRemote.commits = {} /\ gitRemote.flying = {}
      /\ gitRemote \in [head : Nat, commits : SUBSET GitRuns, flying : SUBSET (GitRuns \X Nat),
                        files : [GitPaths -> Nat]]
  <2>1. PICK files \in [GitPaths -> Nat] :
          files = [p \in GitPaths |-> IF p # 1 THEN Foreign ELSE IF before THEN 1 ELSE 0]
    BY <1>3
  <2>2. gitRemote = [head |-> Foreign, commits |-> {}, flying |-> {}, files |-> files] BY <1>1, <2>1
  <2> QED BY <1>3, <2>1, <2>2
<1>5. GitShape
  <2>1. gitTexts \in [GitDocs -> Nat] /\ DOMAIN gitMaps = GitPaths BY <1>1, <1>2
  <2> QED BY <1>2, <1>4, <2>1, GitIdleTyped DEF GitShape
<1>6. MapsFit(gitMaps)
  <2> SUFFICES ASSUME NEW p \in GitPaths
               PROVE  gitMaps[p].now \in gitMaps[p].past \cup {Unmapped} /\ gitMaps[p].now[1] \in DocsOf(p)
    BY DEF MapsFit
  <2>1. CASE p = 1 /\ before
    <3>1. gitMaps[p].now = <<1, 1, 1>> /\ gitMaps[p].past = {<<1, 1, 1>>} BY <1>1, <2>1
    <3>2. 1 \in GitDocs /\ PathOf(1) = 1 BY <2>1, GitAssumption DEF GitDocs, PathOf, GitAssumption
    <3> QED BY <2>1, <3>1, <3>2 DEF DocsOf
  <2>2. CASE ~(p = 1 /\ before)
    <3>1. gitMaps[p].now = Unmapped BY <1>1, <2>2
    <3> QED BY <3>1 DEF Unmapped, DocsOf
  <2> QED BY <2>1, <2>2
<1>7. CommitFits(gitRemote.head, gitRemote.commits, gitTroubled) BY <1>2, <1>3, <1>4 DEF CommitFits
<1>8. GitRows
  <2> SUFFICES ASSUME NEW r \in GitRuns
               PROVE  /\ RunFits(r, NoGitRun, gitMaps, gitRemote, gitTroubled)
                      /\ RunKnows(NoGitRun, gitMaps, gitRemote) /\ RunSays(r, NoGitRun, gitMaps, gitRemote)
    BY <1>2 DEF GitRows
  <2>1. /\ NoGitRun.status = "none" /\ NoGitRun.direction = "push" /\ ~NoGitRun.confirmed /\ ~NoGitRun.launched
        /\ NoGitRun.remote = 0 /\ NoGitRun.docs = <<>> /\ NoGitRun.files = <<>> /\ NoGitRun.versions = <<>>
        /\ NoGitRun.job = NoGitJob /\ NoGitJob.kind = "preview"
    BY DEF NoGitRun, NoGitJob
  <2>2. DOMAIN NoGitRun.docs = {} /\ DOMAIN NoGitRun.files = {} /\ DOMAIN NoGitRun.versions = {}
    BY <2>1
  <2>3. CommitFits(NoGitRun.remote, gitRemote.commits, gitTroubled)
    BY <1>2, <1>3, <2>1, GitAssumption DEF CommitFits, GitAssumption
  <2> HIDE DEF NoGitRun
  <2> QED BY <1>4, <2>1, <2>2, <2>3 DEF RunFits, RunKnows, RunSays
<1>9. GitPacks /\ GitPlaces /\ GitAlone BY <1>2, <1>4 DEF GitPacks, GitPlaces, GitAlone, GitIdle
<1> QED BY <1>5, <1>6, <1>7, <1>8, <1>9 DEF GitIInv

LEMMA GitStutter == ASSUME GitIInv, UNCHANGED gitVars PROVE GitIInv'
  BY DEF gitVars, GitIInv, GitShape, GitRows, GitPacks, GitPlaces, GitAlone

LEMMA GitStep == ASSUME GitIInv, GitNext PROVE GitIInv'
<1>1. ASSUME NEW r \in GitRuns, NEW direction \in {"push", "pull"}, NEW selected \in SUBSET GitDocs,
             QueuePreview(r, direction, selected)
      PROVE  GitIInv'
  BY <1>1, StepQueuePreview
<1>2. ASSUME NEW r \in GitRuns,
             ConfirmGit(r) \/ CancelGit(r) \/ InspectGit(r) \/ FinishInspection(r)
             \/ LoseGit(r) \/ SweepGit(r) \/ ExpireGit(r) \/ \E w \in GitWorkers : ClaimGit(w, r)
      PROVE  GitIInv'
  BY <1>2, StepConfirmGit, StepCancelGit, StepInspectGit, StepFinishInspection, StepLoseGit, StepSweepGit,
     StepExpireGit, StepClaimGit
<1>3. ASSUME NEW w \in GitWorkers,
             LoadGit(w) \/ PreviewGit(w) \/ FetchGit(w) \/ RebuildGit(w) \/ ConnectGit(w) \/ LaunchGit(w)
             \/ SendGit(w) \/ RefusedGit(w)
      PROVE  GitIInv'
  BY <1>3, StepLoadGit, StepPreviewGit, StepFetchGit, StepRebuildGit, StepConnectGit, StepLaunchGit, StepSendGit,
     StepRefusedGit
<1>4. ASSUME NEW w \in GitWorkers,
             StopGit(w) \/ AnsweredGit(w) \/ FinishPush(w) \/ SettleGit(w) \/ AcceptPull(w) \/ SavePull(w)
             \/ FinishPull(w)
      PROVE  GitIInv'
  BY <1>4, StepStopGit, StepAnsweredGit, StepFinishPush, StepSettleGit, StepAcceptPull, StepSavePull, StepFinishPull
<1>5. ASSUME NEW r, NEW old, ReceiveGit(r, old) PROVE GitIInv' BY <1>5, StepReceiveGit
<1>6. ASSUME NEW x \in GitDocs, EditText(x) PROVE GitIInv' BY <1>6, StepEditText
<1>7. ASSUME NEW p, NEW deleted \in BOOLEAN, CommitElsewhere(p, deleted) PROVE GitIInv'
  BY <1>7, StepCommitElsewhere
<1>8. ASSUME ChangeConsent PROVE GitIInv' BY <1>8, StepChangeConsent
<1> QED BY <1>1, <1>2, <1>3, <1>4, <1>5, <1>6, <1>7, <1>8 DEF GitNext

----------------
\* The compare-and-swap of the remote: whose commit it is, and over what.
LEMMA GitCommits ==
  ASSUME GitIInv, NEW r, NEW old, ReceiveGit(r, old), gitRemote.head' # gitRemote.head
  PROVE  LET run == gitRuns[gitRemote.head'] IN
         /\ run.confirmed /\ gitRemote.head = run.remote /\ gitRemote.head' \notin gitRemote.commits
         /\ \A p \in DOMAIN run.files :
              gitRemote.files[p] \in {0, run.files[p]} \cup {row[3] : row \in gitMaps[p].past}
<1> DEFINE run == gitRuns[r]
<1>1. /\ r \in GitRuns /\ OnItsWay(r, run, gitRemote) /\ old = run.remote
  BY DEF ReceiveGit, GitIInv, GitShape, GitPacks
<1>2. gitRemote.head = old /\ gitRemote.head' = r BY DEF ReceiveGit, GitIInv, GitShape
<1>3. run.confirmed /\ ~run.blocked /\ run.direction = "push" /\ r \notin gitRemote.commits
  BY <1>1, GitRowIs DEF OnItsWay, RunFits
<1>4. \A p \in DOMAIN run.files : gitRemote.files[p] \in {0, run.files[p]} \cup Exchanged(gitMaps, p)
  BY <1>1, <1>2, <1>3, GitRowIs DEF RunKnows
<1> QED BY <1>1, <1>2, <1>3, <1>4 DEF Exchanged

\* The transaction that saves a document: at a version that was exchanged.
LEMMA GitSaves ==
  ASSUME GitIInv, NEW w \in GitWorkers, SavePull(w), NEW p \in GitPaths, gitMaps'[p].now # gitMaps[p].now,
         NEW x, x = gitMaps'[p].now[1], gitTexts[x] > 0
  PROVE  \E old \in gitMaps[p].past : old[1] = x /\ old[2] = gitTexts[x]
<1>0. PICK r \in GitRuns : r = gitWorkers[w].r BY ZenonT(30), GitPlaceIs DEF SavePull
<1> DEFINE run == gitRuns[r]
           q == Head(gitWorkers[w].left)
           doc == IF gitRuns[r].docs[q] = 0 THEN Foreign + q ELSE gitRuns[r].docs[q]
           pair == <<doc, gitTexts[doc] + 1, gitRuns[r].files[q]>>
<1>1. /\ gitWorkers[w].at = "save" /\ gitWorkers[w].left # <<>> /\ RunOf(w) = run
      /\ GitAtWork(gitWorkers[w], run, gitMaps, gitRemote)
      /\ run \in GitRow /\ RunFits(r, run, gitMaps, gitRemote, gitTroubled) /\ RunKnows(run, gitMaps, gitRemote)
  BY ZenonT(30), <1>0, GitPlaceIs, GitRowIs DEF SavePull
<1>2. KnowsVersion(gitRuns[r], q) /\ MayPull(w) BY ZenonT(30), <1>0 DEF SavePull
<1>3. (gitRuns[r].docs[q] = 0 => gitTexts[doc] = 0) /\ gitMaps' = Maps(q, pair)
  BY ZenonT(30), <1>0, <1>2 DEF SavePull
<1>4. q \in GitPaths /\ q \in run.selected /\ DOMAIN run.docs = run.selected /\ ~run.blocked /\ run.direction = "pull"
  <2>1. PICK left : left = gitWorkers[w].left
    OBVIOUS
  <2>2. PICK S : S = run.selected
    OBVIOUS
  <2>3. left \in Seq(S) /\ left # <<>> /\ S \subseteq GitPaths
    BY <1>1, <2>1, <2>2 DEF GitAtWork, RunFits
  <2>4. Head(left) \in S BY ONLY <2>3, LeftAfter
  <2> QED BY <1>1, <2>1, <2>2, <2>3, <2>4 DEF GitAtWork, RunFits
<1>5. doc \in GitDocs /\ PathOf(doc) = q /\ doc \in DocsOf(q)
  <2>1. run.docs[q] \in DocsOf(q) BY <1>1, <1>4 DEF RunFits
  <2> HIDE DEF q
  <2> QED BY <1>4, <2>1, DocOfPath
<1>6. DOMAIN gitMaps = GitPaths BY DEF GitIInv, GitShape
<1>7. p = q /\ x = doc
  <2>1. gitMaps' = [gitMaps EXCEPT ![q] = [now |-> pair, past |-> @.past \cup {pair}]]
    BY ZenonT(30), <1>3 DEF Maps
  <2> HIDE DEF q, pair
  <2>2. p = q BY <1>4, <1>6, <2>1
  <2>3. gitMaps'[p].now = pair BY <1>4, <1>6, <2>1, <2>2
  <2> QED BY <2>2, <2>3 DEF pair
<1>8. gitRuns[r].docs[q] # 0
  <2> HIDE DEF doc, q
  <2> QED BY <1>3, <1>7
<1>9. doc = gitRuns[r].docs[q] /\ doc \in DOMAIN run.versions BY <1>2, <1>8 DEF KnowsVersion
<1> HIDE DEF doc, q
<1>10. gitTexts[doc] = run.versions[doc] BY <1>1, <1>2, <1>9 DEF MayPull, Guarded
<1>11. \E old \in gitMaps[PathOf(doc)].past : old[1] = doc /\ old[2] = run.versions[doc]
  BY <1>1, <1>4, <1>9 DEF RunKnows
<1> QED BY <1>5, <1>7, <1>10, <1>11

\* Whoever steps, nothing is overwritten unseen.
LEMMA GitOverwrites == ASSUME GitIInv, GitNext PROVE NothingOverwritten
<1>1. ASSUME NEW r, NEW old, ReceiveGit(r, old) PROVE NothingOverwritten
  <2>1. UNCHANGED <<gitMaps, gitTexts>> BY <1>1 DEF ReceiveGit
  <2> QED BY <1>1, <2>1, GitCommits DEF NothingOverwritten
<1>2. ASSUME NEW w \in GitWorkers, SavePull(w) PROVE NothingOverwritten
  <2>1. gitRemote' = gitRemote BY ZenonT(30), <1>2 DEF SavePull
  <2> QED BY <1>2, <2>1, GitSaves DEF NothingOverwritten
<1>3. ASSUME NEW p, NEW deleted, CommitElsewhere(p, deleted) PROVE NothingOverwritten
  <2>1. /\ UNCHANGED <<gitMaps, gitTexts>> /\ gitRemote.head' = Foreign + gitTroubled + 1
    BY <1>3 DEF CommitElsewhere, GitIInv, GitShape
  <2>2. gitRemote.head' \notin GitRuns BY <2>1, GitAssumption DEF GitAssumption, GitIInv, GitShape
  <2> QED BY <2>1, <2>2 DEF NothingOverwritten
<1>4. ASSUME gitRemote.head' = gitRemote.head, UNCHANGED gitTexts \/ UNCHANGED gitMaps PROVE NothingOverwritten
  BY <1>4 DEF NothingOverwritten
<1>5. ASSUME NEW r \in GitRuns, NEW direction, NEW selected, QueuePreview(r, direction, selected)
      PROVE  gitRemote' = gitRemote /\ gitTexts' = gitTexts
  BY <1>5 DEF QueuePreview
<1>6. ASSUME NEW r \in GitRuns,
             ConfirmGit(r) \/ CancelGit(r) \/ InspectGit(r) \/ FinishInspection(r)
             \/ LoseGit(r) \/ SweepGit(r) \/ ExpireGit(r) \/ \E w \in GitWorkers : ClaimGit(w, r)
      PROVE  gitRemote' = gitRemote /\ gitTexts' = gitTexts
  BY ZenonT(30), <1>6 DEF ConfirmGit, CancelGit, InspectGit, FinishInspection, LoseGit, SweepGit, ExpireGit, ClaimGit
<1>7. ASSUME NEW w \in GitWorkers,
             LoadGit(w) \/ PreviewGit(w) \/ FetchGit(w) \/ RebuildGit(w) \/ ConnectGit(w) \/ LaunchGit(w)
             \/ RefusedGit(w) \/ StopGit(w) \/ AnsweredGit(w) \/ FinishPush(w) \/ SettleGit(w)
             \/ AcceptPull(w) \/ FinishPull(w)
      PROVE  gitRemote' = gitRemote /\ gitTexts' = gitTexts
  BY ZenonT(30), <1>7 DEF LoadGit, PreviewGit, FetchGit, RebuildGit, ConnectGit, LaunchGit, RefusedGit, StopGit, AnsweredGit,
     FinishPush, SettleGit, AcceptPull, FinishPull
<1>8. ASSUME NEW w \in GitWorkers, SendGit(w) PROVE gitRemote.head' = gitRemote.head /\ gitTexts' = gitTexts
  BY <1>8 DEF SendGit, GitIInv, GitShape
<1>9. ASSUME ChangeConsent \/ \E x \in GitDocs : EditText(x) PROVE gitRemote' = gitRemote /\ gitMaps' = gitMaps
  BY <1>9 DEF ChangeConsent, EditText
<1> QED BY <1>1, <1>2, <1>3, <1>4, <1>5, <1>6, <1>7, <1>8, <1>9 DEF GitNext

----------------
(* Git synchronisation: what its type invariant says beyond the shape.        *)

\* A job is tried as often as it may be, and a run is at work for its user only.
GitTried(run) ==
  /\ run.job.attempts <= GitAttempts
  /\ run.job.status = "pending" => run.job.attempts < GitAttempts
  /\ run.status \in {"queued", "running", "unknown"} => run.confirmed
GitBudget == gitTroubled <= GitTroubles /\ \A r \in GitRuns : GitTried(gitRuns[r])

LEMMA GitBudgetStarts == GitInit => GitBudget
  BY GitAssumption DEF GitInit, GitBudget, GitTried, NoGitRun, NoGitJob

\* One row changes.
LEMMA GitBudgetOfRow ==
  ASSUME GitIInv, GitBudget, NEW r \in GitRuns, NEW row, gitRuns' = [gitRuns EXCEPT ![r] = row],
         GitTried(row), gitTroubled' = gitTroubled \/ GitTrouble
  PROVE  GitBudget'
<1>1. gitTroubled' <= GitTroubles BY GitAssumption DEF GitBudget, GitTrouble, GitIInv, GitShape
<1>2. DOMAIN gitRuns = GitRuns BY DEF GitIInv, GitShape
<1>3. ASSUME NEW q \in GitRuns PROVE GitTried(gitRuns[q])'
  <2>1. gitRuns'[q] = IF q = r THEN row ELSE gitRuns[q] BY <1>2
  <2>2. GitTried(gitRuns'[q]) BY <2>1 DEF GitBudget
  <2> QED BY <2>2 DEF GitTried
<1> QED BY <1>1, <1>3 DEF GitBudget

LEMMA GitBudgetStays ==
  ASSUME GitIInv, GitBudget, gitRuns' = gitRuns, gitTroubled' = gitTroubled \/ GitTrouble
  PROVE  GitBudget'
<1>1. gitTroubled' <= GitTroubles BY GitAssumption DEF GitBudget, GitTrouble, GitIInv, GitShape
<1> QED BY <1>1 DEF GitBudget, GitTried

\* The end of an attempt.
LEMMA GitSettledTried ==
  ASSUME GitIInv, NEW w \in GitWorkers, gitWorkers[w].at # "idle", NEW status \in {"done", "failed", "retry"},
         GitTried(RunOf(w))
  PROVE  /\ GitSettled(w, status).attempts <= GitAttempts
         /\ GitSettled(w, status).status = "pending" => GitSettled(w, status).attempts < GitAttempts
<1>1. RunOf(w) \in GitRow /\ Held(w) = RunOf(w).job
  BY DEF RunOf, Held, GitIInv, GitShape, GitPlaces, GitAtWork
<1>2. Held(w) \in GitJobRow BY <1>1 DEF GitRow
<1>3. Held(w).attempts <= GitAttempts /\ (Held(w).status = "pending" => Held(w).attempts < GitAttempts)
  BY <1>1 DEF GitTried
<1>4. CASE ~GitMine(w) \/ Held(w).holder # w BY <1>3, <1>4 DEF GitSettled
<1>5. CASE ~(~GitMine(w) \/ Held(w).holder # w)
  <2>1. PICK job : job = GitSettled(w, status)
    OBVIOUS
  <2>2. job.attempts = Held(w).attempts /\ (job.status = "pending" => Held(w).attempts < GitAttempts)
    BY <1>2, <1>5, <2>1 DEF GitSettled, GitJobRow
  <2> QED BY <1>3, <2>1, <2>2
<1> QED BY <1>4, <1>5

LEMMA GitFailedTried ==
  ASSUME GitIInv, GitBudget, NEW w \in GitWorkers, gitWorkers[w].at # "idle",
         NEW status \in {"failed", "conflict"}, NEW job \in {"failed", "retry"}, FailGit(w, status, job),
         gitTroubled' = gitTroubled \/ GitTrouble
  PROVE  GitBudget'
<1> DEFINE r == gitWorkers[w].r
<1>1. r \in GitRuns /\ RunOf(w) = gitRuns[r] /\ RunOf(w) \in GitRow /\ GitTried(RunOf(w))
  BY DEF RunOf, GitIInv, GitShape, GitPlaces, GitAtWork, GitBudget
<1>2. PICK run : run = FailedRun(RunOf(w), status)
  OBVIOUS
<1>3. run \in GitRow /\ (run.status \in {"queued", "running", "unknown"} => run.confirmed)
  BY <1>1, <1>2 DEF FailedRun, GitRow, GitOpen, GitTried
<1>4. PICK row : row = [run EXCEPT !.job = GitSettled(w, job)]
  OBVIOUS
<1>5. row.job = GitSettled(w, job) /\ row.status = run.status /\ row.confirmed = run.confirmed
  BY <1>3, <1>4 DEF GitRow
<1>6. GitTried(row) BY <1>1, <1>3, <1>5, GitSettledTried DEF GitTried
<1>7. gitRuns' = [gitRuns EXCEPT ![r] = row] BY <1>2, <1>4 DEF FailGit
<1> QED BY <1>1, <1>6, <1>7, GitBudgetOfRow

\* The row of a run whose attempt, status or confirmation alone may have changed.
LEMMA GitTriedFrom ==
  ASSUME GitIInv, GitBudget, NEW r \in GitRuns, NEW row, gitRuns' = [gitRuns EXCEPT ![r] = row],
         gitTroubled' = gitTroubled \/ GitTrouble,
         \/ row.job = gitRuns[r].job
         \/ /\ row.job.attempts <= GitAttempts
            /\ row.job.status = "pending" => row.job.attempts < GitAttempts,
         row.status \in {"queued", "running", "unknown"} => row.confirmed
  PROVE  GitBudget'
<1>1. GitTried(row) BY DEF GitBudget, GitTried
<1> QED BY <1>1, GitBudgetOfRow

LEMMA GitBudgetOfUser ==
  ASSUME GitIInv, GitBudget, NEW r \in GitRuns,
         \/ \E direction \in {"push", "pull"}, selected \in SUBSET GitDocs : QueuePreview(r, direction, selected)
         \/ ConfirmGit(r) \/ CancelGit(r) \/ InspectGit(r) \/ FinishInspection(r)
  PROVE  GitBudget'
<1>0. gitRuns[r] \in GitRow /\ gitRuns[r].job \in GitJobRow /\ gitRuns \in [GitRuns -> GitRow]
  BY DEF GitIInv, GitShape, GitRow
<1>1. ASSUME NEW direction \in {"push", "pull"}, NEW selected \in SUBSET GitDocs, QueuePreview(r, direction, selected)
      PROVE  GitBudget'
  <2>1. PICK row : row = [NoGitRun EXCEPT !.status = "preparing", !.direction = direction, !.selected = selected,
                            !.consent = gitConsent, !.job = [NoGitJob EXCEPT !.status = "pending"]]
    OBVIOUS
  <2>2. row.status = "preparing" /\ row.job.attempts = 0 BY <2>1 DEF NoGitRun, NoGitJob
  <2>3. gitRuns' = [gitRuns EXCEPT ![r] = row] /\ gitTroubled' = gitTroubled
    BY <1>1, <2>1 DEF QueuePreview
  <2>4. GitTried(row) BY <2>2, GitAssumption DEF GitTried
  <2> QED BY <2>3, <2>4, GitBudgetOfRow
<1>2. CASE ConfirmGit(r)
  <2>1. PICK job : job = [NoGitJob EXCEPT !.kind = "execute", !.status = "pending"]
    OBVIOUS
  <2>2. PICK row : row = [gitRuns[r] EXCEPT !.status = "queued", !.confirmed = TRUE, !.job = job]
    OBVIOUS
  <2>3. row.confirmed /\ row.job = job /\ job.attempts = 0 BY <1>0, <2>1, <2>2 DEF GitRow, NoGitJob
  <2>4. gitRuns' = [gitRuns EXCEPT ![r] = row] /\ gitTroubled' = gitTroubled
    BY <1>0, <1>2, <2>1, <2>2 DEF ConfirmGit
  <2>5. GitTried(row) BY <2>3, GitAssumption DEF GitTried
  <2> QED BY <2>4, <2>5, GitBudgetOfRow
<1>3. CASE CancelGit(r)
  <2> DEFINE run == gitRuns[r]
  <2>1. PICK row : row = [run EXCEPT
          !.status = IF run.direction = "push" /\ run.status \in {"running", "unknown"} THEN "unknown" ELSE "cancelled",
          !.job = [run.job EXCEPT !.cancel = run.job.cancel \/ run.job.status \in {"pending", "running"}]]
    OBVIOUS
  <2>2. row.job.attempts = run.job.attempts /\ row.job.status = run.job.status /\ row.confirmed = run.confirmed
    BY <1>0, <2>1 DEF GitRow, GitJobRow
  <2>3. row.status \in {"queued", "running", "unknown"} => run.status \in {"running", "unknown"}
    BY <1>0, <2>1 DEF GitRow
  <2>4. gitRuns' = [gitRuns EXCEPT ![r] = row] /\ gitTroubled' = gitTroubled
    BY <1>0, <1>3, <2>1 DEF CancelGit
  <2>5. GitTried(row) BY <2>2, <2>3 DEF GitTried, GitBudget
  <2> QED BY <2>4, <2>5, GitBudgetOfRow
<1>4. CASE InspectGit(r) BY <1>4, GitBudgetStays DEF InspectGit
<1>5. CASE FinishInspection(r)
  <2>1. CASE gitRuns' = [gitRuns EXCEPT ![r].status = "succeeded"]
    <3>1. PICK row : row = [gitRuns[r] EXCEPT !.status = "succeeded"]
      OBVIOUS
    <3>2. row.status = "succeeded" /\ row.job = gitRuns[r].job BY <1>0, <3>1 DEF GitRow
    <3>3. gitRuns' = [gitRuns EXCEPT ![r] = row] /\ gitTroubled' = gitTroubled
      BY <1>5, <2>1, <3>1 DEF FinishInspection
    <3> QED BY <3>2, <3>3, GitTriedFrom
  <2>2. CASE gitRuns' = gitRuns BY <1>5, <2>2, GitBudgetStays DEF FinishInspection
  <2> QED BY <1>5, <2>1, <2>2 DEF FinishInspection
<1> QED BY <1>1, <1>2, <1>3, <1>4, <1>5

LEMMA GitBudgetOfQueue ==
  ASSUME GitIInv, GitBudget, NEW r \in GitRuns,
         LoseGit(r) \/ SweepGit(r) \/ ExpireGit(r) \/ \E w \in GitWorkers : ClaimGit(w, r)
  PROVE  GitBudget'
<1>0. gitRuns[r] \in GitRow /\ gitRuns[r].job \in GitJobRow /\ gitRuns \in [GitRuns -> GitRow]
  BY DEF GitIInv, GitShape, GitRow
<1>00. GitTried(gitRuns[r]) BY DEF GitBudget
<1>1. CASE LoseGit(r)
  <2> DEFINE old == gitRuns[r].job
  <2>1. PICK job : job = [old EXCEPT !.holder = NoGitWorker, !.status = IF old.cancel THEN "cancelled" ELSE IF old.attempts < GitAttempts THEN "pending" ELSE "failed"]
    OBVIOUS
  <2>2. job.attempts = old.attempts /\ (job.status = "pending" => old.attempts < GitAttempts)
    BY <1>0, <2>1 DEF GitJobRow
  <2>3. PICK row : row = [gitRuns[r] EXCEPT !.job = job]
    OBVIOUS
  <2>4. row.job = job /\ row.status = gitRuns[r].status /\ row.confirmed = gitRuns[r].confirmed
    BY <1>0, <2>3 DEF GitRow
  <2>5. gitRuns' = [gitRuns EXCEPT ![r] = row] /\ GitTrouble BY <1>1, <2>1, <2>3 DEF LoseGit
  <2>6. GitTried(row) BY <1>00, <2>2, <2>4 DEF GitTried
  <2> QED BY <2>5, <2>6, GitBudgetOfRow
<1>2. CASE SweepGit(r)
  <2>1. PICK row : row = FailedRun(gitRuns[r], IF gitRuns[r].job.cancel THEN "cancelled" ELSE "failed")
    OBVIOUS
  <2>2. row.job = gitRuns[r].job /\ (row.status \in {"queued", "running", "unknown"} => row.confirmed)
    BY <1>0, <1>00, <2>1 DEF FailedRun, GitRow, GitOpen, GitTried
  <2>3. gitRuns' = [gitRuns EXCEPT ![r] = row] /\ gitTroubled' = gitTroubled
    BY <1>2, <2>1 DEF SweepGit
  <2> QED BY <2>2, <2>3, GitTriedFrom
<1>3. CASE ExpireGit(r)
  <2> DEFINE old == gitRuns[r]
  <2>1. PICK row : row = [old EXCEPT !.kept = FALSE,
          !.status = IF old.status \in {"preparing", "preview", "queued"} THEN "cancelled" ELSE old.status]
    OBVIOUS
  <2>2. row.job = old.job /\ (row.status \in {"queued", "running", "unknown"} => row.confirmed)
    BY <1>0, <1>00, <2>1 DEF GitRow, GitTried
  <2>3. gitRuns' = [gitRuns EXCEPT ![r] = row] /\ GitTrouble BY <1>0, <1>3, <2>1 DEF ExpireGit
  <2> QED BY <2>2, <2>3, GitTriedFrom
<1>4. ASSUME NEW w \in GitWorkers, ClaimGit(w, r) PROVE GitBudget'
  <2> DEFINE old == gitRuns[r].job
  <2>1. PICK n \in Nat : n = old.attempts BY <1>0 DEF GitJobRow
  <2>2. PICK job : job = [old EXCEPT !.status = "running", !.attempts = n + 1, !.holder = w]
    OBVIOUS
  <2>3. job.status = "running" /\ job.attempts = n + 1 BY <1>0, <2>2 DEF GitJobRow
  <2>4. n < GitAttempts BY <1>00, <1>4, <2>1 DEF ClaimGit, GitTried
  <2>5. PICK row : row = [gitRuns[r] EXCEPT !.job = job]
    OBVIOUS
  <2>6. row.job = job /\ row.status = gitRuns[r].status /\ row.confirmed = gitRuns[r].confirmed
    BY <1>0, <2>5 DEF GitRow
  <2>7. gitRuns' = [gitRuns EXCEPT ![r] = row] /\ gitTroubled' = gitTroubled
    BY <1>0, <1>4, <2>1, <2>2, <2>5 DEF ClaimGit
  <2>8. row.job.attempts <= GitAttempts /\ row.job.status # "pending"
    BY <2>3, <2>4, <2>6, GitAssumption
  <2>9. GitTried(row) BY <1>00, <2>6, <2>8 DEF GitTried
  <2> QED BY <2>7, <2>9, GitBudgetOfRow
<1> QED BY <1>1, <1>2, <1>3, <1>4

LEMMA GitTriedAt ==
  ASSUME GitIInv, GitBudget, NEW w \in GitWorkers, gitWorkers[w].at # "idle"
  PROVE  /\ gitWorkers[w].r \in GitRuns /\ RunOf(w) = gitRuns[gitWorkers[w].r] /\ RunOf(w) \in GitRow
         /\ GitTried(RunOf(w)) /\ gitRuns \in [GitRuns -> GitRow] /\ RunOf(w).job \in GitJobRow
  BY DEF RunOf, GitIInv, GitShape, GitPlaces, GitAtWork, GitBudget, GitRow

\* A goroutine leaves its run with the end of its attempt alone.
LEMMA GitJobTried ==
  ASSUME GitIInv, GitBudget, NEW w \in GitWorkers, gitWorkers[w].at # "idle", NEW status \in {"done", "failed", "retry"},
         gitRuns' = [gitRuns EXCEPT ![gitWorkers[w].r].job = GitSettled(w, status)], gitTroubled' = gitTroubled
  PROVE  GitBudget'
<1> DEFINE r == gitWorkers[w].r
<1>1. PICK row : row = [gitRuns[r] EXCEPT !.job = GitSettled(w, status)]
  OBVIOUS
<1>2. row.job = GitSettled(w, status) /\ row.status = gitRuns[r].status /\ row.confirmed = gitRuns[r].confirmed
  BY <1>1, GitTriedAt DEF GitRow
<1>3. gitRuns' = [gitRuns EXCEPT ![r] = row] BY <1>1, GitTriedAt
<1>4. GitTried(row) BY <1>2, GitTriedAt, GitSettledTried DEF GitTried
<1> QED BY <1>3, <1>4, GitTriedAt, GitBudgetOfRow

LEMMA GitSeen ==
  ASSUME NEW run \in GitRow PROVE Previewed(run).status = "preview" /\ {"job", "status"} \subseteq DOMAIN Previewed(run)
<1>1. PICK remote, docs, versions, files, blocked :
        Previewed(run) = [run EXCEPT !.status = "preview", !.remote = remote, !.kept = TRUE, !.docs = docs,
                            !.versions = versions, !.files = files, !.blocked = blocked]
  BY ZenonT(30) DEF Previewed
<1> QED BY <1>1 DEF GitRow

LEMMA GitBudgetOfRead ==
  ASSUME GitIInv, GitBudget, NEW w \in GitWorkers,
         LoadGit(w) \/ PreviewGit(w) \/ FetchGit(w) \/ RebuildGit(w) \/ ConnectGit(w)
  PROVE  GitBudget'
<1> DEFINE r == gitWorkers[w].r
<1>1. gitWorkers[w].at # "idle" /\ gitTroubled' = gitTroubled
  BY DEF LoadGit, PreviewGit, FetchGit, RebuildGit, ConnectGit
<1>2. CASE gitRuns' = gitRuns BY <1>1, <1>2, GitBudgetStays
<1>3. CASE FailGit(w, "failed", "failed") \/ FailGit(w, "failed", "retry") \/ FailGit(w, "conflict", "retry")
  BY <1>1, <1>3, GitFailedTried
<1>4. CASE LoadGit(w)
  <2>1. CASE gitRuns' = [gitRuns EXCEPT ![r].job = GitSettled(w, "failed")]
    BY <1>1, <2>1, GitJobTried
  <2>2. CASE gitRuns' = [gitRuns EXCEPT ![r].job = GitSettled(w, "done")] BY <1>1, <2>2, GitJobTried
  <2> QED BY <1>2, <1>3, <1>4, <2>1, <2>2 DEF LoadGit
<1>5. CASE PreviewGit(w)
  <2>1. CASE gitRuns' = [gitRuns EXCEPT ![r] = [Previewed(@) EXCEPT !.job = GitSettled(w, "done")]]
    <3>1. PICK seen : seen = Previewed(gitRuns[r])
      OBVIOUS
    <3>2. seen.status = "preview" /\ {"job", "status"} \subseteq DOMAIN seen
      BY <1>1, <3>1, GitTriedAt, GitSeen
    <3>3. PICK row : row = [seen EXCEPT !.job = GitSettled(w, "done")]
      OBVIOUS
    <3>4. row.job = GitSettled(w, "done") /\ row.status = "preview" BY <3>2, <3>3
    <3>5. gitRuns' = [gitRuns EXCEPT ![r] = row] BY <2>1, <3>1, <3>3
    <3>6. GitTried(row) BY <1>1, <3>4, GitTriedAt, GitSettledTried DEF GitTried
    <3> QED BY <1>1, <3>5, <3>6, GitTriedAt, GitBudgetOfRow
  <2> QED BY <1>3, <1>5, <2>1 DEF PreviewGit
<1>6. CASE FetchGit(w) BY <1>2, <1>3, <1>6 DEF FetchGit
<1>7. CASE RebuildGit(w) \/ ConnectGit(w) BY <1>2, <1>3, <1>7 DEF RebuildGit, ConnectGit
<1> QED BY <1>4, <1>5, <1>6, <1>7

LEMMA GitBudgetOfPush ==
  ASSUME GitIInv, GitBudget, NEW w \in GitWorkers,
         LaunchGit(w) \/ SendGit(w) \/ RefusedGit(w) \/ StopGit(w) \/ AnsweredGit(w) \/ FinishPush(w) \/ SettleGit(w)
  PROVE  GitBudget'
<1> DEFINE r == gitWorkers[w].r
           old == gitRuns[r]
<1>1. gitWorkers[w].at # "idle" /\ (gitTroubled' = gitTroubled \/ GitTrouble)
  BY DEF LaunchGit, SendGit, RefusedGit, StopGit, AnsweredGit, FinishPush, SettleGit
<1>2. r \in GitRuns /\ old \in GitRow /\ GitTried(old) /\ gitRuns \in [GitRuns -> GitRow] /\ old.job \in GitJobRow
  BY <1>1, GitTriedAt
<1>3. CASE FailGit(w, "failed", "failed") \/ FailGit(w, "failed", "retry")
  BY <1>1, <1>3, GitFailedTried
<1>4. CASE LaunchGit(w)
  <2>1. CASE MaySend(w) /\ gitRuns' = [gitRuns EXCEPT ![r].status = "running", ![r].launched = TRUE]
    <3>1. PICK row : row = [old EXCEPT !.status = "running", !.launched = TRUE]
      OBVIOUS
    <3>2. row.job = old.job /\ row.confirmed = old.confirmed BY <1>2, <3>1 DEF GitRow
    <3>3. old.confirmed BY <1>2, <2>1 DEF MaySend, RunOf, GitTried
    <3>4. gitRuns' = [gitRuns EXCEPT ![r] = row] BY <1>2, <2>1, <3>1
    <3> QED BY <1>1, <1>2, <3>2, <3>3, <3>4, GitTriedFrom
  <2> QED BY <1>3, <1>4, <2>1 DEF LaunchGit
<1>5. CASE RefusedGit(w)
  <2>1. PICK row : row = [old EXCEPT !.status = IF old.status = "running" THEN "failed" ELSE old.status,
                                     !.job = GitSettled(w, "retry")]
    OBVIOUS
  <2>2. /\ row.job = GitSettled(w, "retry") /\ row.confirmed = old.confirmed
        /\ row.status \in {"queued", "running", "unknown"} => row.status = old.status
    BY <1>2, <2>1 DEF GitRow
  <2>3. gitRuns' = [gitRuns EXCEPT ![r] = row] BY <1>2, <1>5, <2>1 DEF RefusedGit
  <2>4. GitTried(row) BY <1>1, <2>2, GitTriedAt, GitSettledTried DEF GitTried
  <2> QED BY <1>1, <1>2, <2>3, <2>4, GitBudgetOfRow
<1>6. CASE StopGit(w) BY <1>3, <1>6 DEF StopGit
<1>7. CASE FinishPush(w)
  <2>1. CASE gitRuns' = [gitRuns EXCEPT ![r].status = "succeeded"]
    <3>1. PICK row : row = [old EXCEPT !.status = "succeeded"]
      OBVIOUS
    <3>2. row.status = "succeeded" /\ row.job = old.job BY <1>2, <3>1 DEF GitRow
    <3>3. gitRuns' = [gitRuns EXCEPT ![r] = row] BY <1>2, <2>1, <3>1
    <3> QED BY <1>1, <1>2, <3>2, <3>3, GitTriedFrom
  <2> QED BY <1>3, <1>7, <2>1 DEF FinishPush
<1>8. CASE SettleGit(w) BY <1>1, <1>8, GitJobTried DEF SettleGit
<1>9. CASE SendGit(w) \/ AnsweredGit(w) BY <1>9, GitBudgetStays DEF SendGit, AnsweredGit
<1> QED BY <1>4, <1>5, <1>6, <1>7, <1>8, <1>9

LEMMA GitBudgetOfPull ==
  ASSUME GitIInv, GitBudget, NEW w \in GitWorkers, AcceptPull(w) \/ SavePull(w) \/ FinishPull(w)
  PROVE  GitBudget'
<1> DEFINE r == gitWorkers[w].r
           old == gitRuns[r]
<1>1. gitWorkers[w].at # "idle" /\ gitTroubled' = gitTroubled
  BY ZenonT(30) DEF AcceptPull, SavePull, FinishPull
<1>2. r \in GitRuns /\ old \in GitRow /\ GitTried(old) /\ gitRuns \in [GitRuns -> GitRow] /\ RunOf(w) = old
  BY <1>1, GitTriedAt
<1>3. CASE FailGit(w, "failed", "failed") \/ FailGit(w, "failed", "retry")
  BY <1>1, <1>3, GitFailedTried
<1>4. CASE AcceptPull(w)
  <2>1. CASE old.status = "queued" /\ gitRuns' = [gitRuns EXCEPT ![r].status = "running", ![r].docs = Meant(old)]
    <3>1. PICK row : row = [old EXCEPT !.status = "running", !.docs = Meant(old)]
      OBVIOUS
    <3>2. row.job = old.job /\ row.confirmed = old.confirmed BY <1>2, <3>1 DEF GitRow
    <3>3. old.confirmed BY <1>2, <2>1 DEF GitTried
    <3>4. gitRuns' = [gitRuns EXCEPT ![r] = row] BY <1>2, <2>1, <3>1
    <3> QED BY <1>1, <1>2, <3>2, <3>3, <3>4, GitTriedFrom
  <2> QED BY ZenonT(30), <1>2, <1>3, <1>4, <2>1 DEF AcceptPull
<1>5. CASE SavePull(w)
  <2> DEFINE p == Head(gitWorkers[w].left)
             x == IF old.docs[p] = 0 THEN Foreign + p ELSE old.docs[p]
             version == gitTexts[x] + 1
  <2>1. CASE gitRuns' = [gitRuns EXCEPT ![r].docs[p] = x,
               ![r].versions = [y \in DOMAIN @ \cup {x} |-> IF y = x THEN version ELSE @[y]]]
    <3>1. PICK docs, versions : gitRuns' = [gitRuns EXCEPT ![r] = [old EXCEPT !.docs = docs, !.versions = versions]]
      <4> HIDE DEF p, version
      <4>1. gitRuns' = [gitRuns EXCEPT ![r] = [old EXCEPT !.docs = [old.docs EXCEPT ![p] = x],
               !.versions = [y \in DOMAIN old.versions \cup {x} |-> IF y = x THEN version ELSE old.versions[y]]]]
        BY ZenonT(30), <1>2, <2>1 DEF GitRow
      <4> QED BY ZenonT(30), <4>1
    <3>2. PICK row : row = [old EXCEPT !.docs = docs, !.versions = versions]
      OBVIOUS
    <3>3. row.job = old.job /\ row.confirmed = old.confirmed /\ row.status = old.status
      BY <1>2, <3>2 DEF GitRow
    <3> QED BY ZenonT(30), <1>1, <1>2, <3>1, <3>2, <3>3, GitTriedFrom DEF GitTried
  <2> QED BY ZenonT(30), <1>3, <1>5, <2>1 DEF SavePull
<1>6. CASE FinishPull(w)
  <2>1. CASE gitRuns' = [gitRuns EXCEPT ![r].status = "succeeded"]
    <3>1. PICK row : row = [old EXCEPT !.status = "succeeded"]
      OBVIOUS
    <3>2. row.status = "succeeded" /\ row.job = old.job BY <1>2, <3>1 DEF GitRow
    <3>3. gitRuns' = [gitRuns EXCEPT ![r] = row] BY <1>2, <2>1, <3>1
    <3> QED BY <1>1, <1>2, <3>2, <3>3, GitTriedFrom
  <2> QED BY <1>3, <1>6, <2>1 DEF FinishPull
<1> QED BY <1>4, <1>5, <1>6

LEMMA GitBudgetSteps == ASSUME GitIInv, GitBudget, GitNext PROVE GitBudget'
<1>1. ASSUME gitRuns' = gitRuns, gitTroubled' = gitTroubled \/ GitTrouble PROVE GitBudget'
  BY <1>1, GitBudgetStays
<1>2. CASE \E pack \in gitRemote.flying : ReceiveGit(pack[1], pack[2]) BY <1>1, <1>2 DEF ReceiveGit
<1>3. CASE \/ \E x \in GitDocs : EditText(x)
           \/ \E p \in GitPaths : CommitElsewhere(p, TRUE)
           \/ \E p \in GitPaths \cup {0} : CommitElsewhere(p, FALSE)
           \/ ChangeConsent
  BY <1>1, <1>3 DEF EditText, CommitElsewhere, ChangeConsent
<1> QED BY <1>2, <1>3, GitBudgetOfUser, GitBudgetOfQueue, GitBudgetOfRead, GitBudgetOfPush, GitBudgetOfPull DEF GitNext

LEMMA GitTyped == ASSUME GitIInv, GitBudget PROVE GitTypeOK
<1>1. ASSUME NEW r \in GitRuns
      PROVE  /\ gitRuns[r].status \in GitOpen \cup {"none", "preview", "succeeded", "conflict", "failed",
                                                    "cancelled", "unknown"}
             /\ gitRuns[r].job.attempts \in 0 .. GitAttempts
             /\ gitRuns[r].status \in {"queued", "running", "unknown"} => gitRuns[r].confirmed
             /\ gitRuns[r].launched => gitRuns[r].direction = "push"
  <2>1. gitRuns[r] \in GitRow /\ RunFits(r, gitRuns[r], gitMaps, gitRemote, gitTroubled) /\ GitTried(gitRuns[r])
    BY DEF GitIInv, GitShape, GitRows, GitBudget
  <2>2. gitRuns[r].job.attempts \in Nat BY <2>1 DEF GitRow, GitJobRow
  <2>3. gitRuns[r].job.attempts \in 0 .. GitAttempts BY <2>1, <2>2, GitAssumption DEF GitTried
  <2> QED BY <2>1, <2>3 DEF GitRow, RunFits, GitTried
<1>2. \A p \in GitPaths : gitMaps[p].now \in gitMaps[p].past \cup {Unmapped} BY DEF GitIInv, MapsFit
<1>3. gitTexts \in [GitDocs -> Nat] /\ gitRemote.commits \subseteq GitRuns /\ gitRemote.files \in [GitPaths -> Nat]
  BY DEF GitIInv, GitShape
<1>4. \A w \in GitWorkers : gitWorkers[w].at \in {"idle", "load", "fetch", "rebuild", "connect", "launch",
                              "send", "transfer", "finish", "accept", "save", "settle"}
  BY DEF GitIInv, GitShape, GitPlace
<1>5. gitInspected \subseteq GitRuns /\ gitTroubled <= GitTroubles
  BY <1>3 DEF GitIInv, GitShape, GitBudget
<1> QED BY <1>1, <1>2, <1>3, <1>4, <1>5 DEF GitTypeOK
==============================================================================
