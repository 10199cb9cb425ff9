-------------------------- MODULE AttachmentExtraction --------------------------
(* The text of an attachment (internal/server/attachment_extraction*.go): an       *)
(* editor asks for it, a job extracts it, and the fragments become visible at     *)
(* once, as the head of the attachment.  Between the request and that moment the   *)
(* document, the editor's rights and login and the administrator's policy may      *)
(* change, the request may be cancelled and the lease of the job lost.             *)
EXTENDS Integers, FiniteSets, LeasedJob

CONSTANTS
  Extractors,       \* workers
  ExtractionIds,    \* attachment_extractions of the attachment, numbered from 1
  ExtractionTries,  \* max_attempts, 2 in the code
  ExtractionChanges \* bound: changes of the document, the rights, the login and the policy

VARIABLES
  exSource,    \* the document, the editor's rights and login, the policy
  exRuns,      \* attachment_extractions
  exJobs,      \* attachment.extract
  exHead,      \* attachment_extraction_heads
  exTexts,     \* runs with attachment_extraction_fragments
  exWorkers,   \* what each worker is doing
  exReader,    \* a reader of fragments, or an AI request that quotes them
  exBounds     \* bounds

exVars == <<exSource, exRuns, exJobs, exHead, exTexts, exWorkers, exReader, exBounds>>

Unasked  == [status |-> "none"]
AtRest   == [at |-> "idle"]
Undecided(r) == exRuns[r].status \in {"queued", "running"}
Mark(r, status) == exRuns' = [exRuns EXCEPT ![r].status = status]

ExtractionTypeOK ==
  /\ \A r \in ExtractionIds : exRuns[r].status \in {"none", "queued", "running", "ready", "failed", "cancelled", "obsolete"}
  /\ exHead \in ExtractionIds \cup {0} /\ exTexts \subseteq ExtractionIds
  /\ Cardinality({r \in ExtractionIds : Undecided(r)}) <= 1

ExtractionInit ==
  /\ exSource = [version |-> 1, allowed |-> TRUE, login |-> TRUE, policy |-> 1, enabled |-> TRUE]
  /\ exRuns = [r \in ExtractionIds |-> Unasked] /\ exJobs = [r \in ExtractionIds |-> Unqueued]
  /\ exHead = 0 /\ exTexts = {}
  /\ exWorkers = [w \in Extractors |-> AtRest] /\ exReader = AtRest
  /\ exBounds = [changes |-> 0]

----------------
(* What changes under a run.                                                    *)

SourceChanges(source) ==
  /\ exBounds.changes < ExtractionChanges /\ exBounds' = [changes |-> exBounds.changes + 1]
  /\ exSource' = source
  /\ UNCHANGED <<exRuns, exJobs, exHead, exTexts, exWorkers, exReader>>

EditText       == SourceChanges([exSource EXCEPT !.version = @ + 1])
ChangeEditor   == SourceChanges([exSource EXCEPT !.allowed = ~@])
EndLogin       == exSource.login /\ SourceChanges([exSource EXCEPT !.login = FALSE])
\* extractionSettings: every save is a revision, which the runs of the old one do not have.
SaveSettings(on) == SourceChanges([exSource EXCEPT !.policy = @ + 1, !.enabled = on])

----------------
(* A run.                                                                       *)

\* Mutants of SameSource: the version is not compared; the policy's revision is not;
\* the rights of the editor are those of the request.
AnyVersion(r) == exSource.allowed /\ exSource.enabled /\ exSource.policy = exRuns[r].policy
AnyPolicy(r)  == exSource.allowed /\ exSource.enabled /\ exSource.version = exRuns[r].version
OldRights(r)  == exSource.enabled /\ exSource.version = exRuns[r].version /\ exSource.policy = exRuns[r].policy
\* extractionGuardTx and extractionActorTx: the run is of the document as it is,
\* of the policy as it is, and of an editor who is one still and logged in.
SameSource(r) ==
  /\ exSource.allowed /\ exSource.enabled
  /\ exSource.version = exRuns[r].version /\ exSource.policy = exRuns[r].policy
UpToDate(r) == SameSource(r) /\ exSource.login

\* queueAttachmentExtraction, guarded in its transaction; one run of an
\* attachment may be pending.
Queue(r) ==
  /\ exRuns[r] = Unasked /\ \A q \in ExtractionIds : q < r => exRuns[q] # Unasked
  /\ exSource.allowed /\ exSource.enabled /\ exSource.login /\ \A q \in ExtractionIds : ~Undecided(q)
  /\ exRuns' = [exRuns EXCEPT ![r] = [status |-> "queued", version |-> exSource.version, policy |-> exSource.policy]]
  /\ exJobs' = [exJobs EXCEPT ![r] = NewJob]
  /\ UNCHANGED <<exSource, exHead, exTexts, exWorkers, exReader, exBounds>>

\* cancelAttachmentExtraction.
CancelExtraction(r) ==
  /\ exSource.allowed /\ Undecided(r) /\ Mark(r, "cancelled")
  /\ exJobs' = [exJobs EXCEPT ![r] = IF @.status = "pending" THEN [JobCancelled(@) EXCEPT !.status = "cancelled"]
                                     ELSE JobCancelled(@)]
  /\ UNCHANGED <<exSource, exHead, exTexts, exWorkers, exReader, exBounds>>

\* executeAttachmentExtraction: a run that is not current any more becomes
\* obsolete; one that is ready is answered again.
Begin(w, r) ==
  /\ exWorkers[w] = AtRest /\ MayClaim(exJobs[r])
  /\ LET job == ClaimedBy(exJobs[r], w)
         fit == IF exRuns[r].status = "ready" THEN SameSource(r) ELSE Undecided(r) /\ UpToDate(r)
     IN IF fit /\ exRuns[r].status # "ready"
        THEN /\ Mark(r, "running") /\ exJobs' = [exJobs EXCEPT ![r] = job]
             /\ exWorkers' = [exWorkers EXCEPT ![w] = [at |-> "extracting", run |-> r]]
        ELSE /\ IF Undecided(r) THEN Mark(r, "obsolete") ELSE UNCHANGED exRuns
             /\ exJobs' = [exJobs EXCEPT ![r] = JobSettled(job, w, IF fit THEN "done" ELSE "failed", ExtractionTries)]
             /\ UNCHANGED exWorkers
  /\ UNCHANGED <<exSource, exHead, exTexts, exReader, exBounds>>

\* Mutant: the state of the run is the one that was read.
PublishesAnyway(w, r) == UpToDate(r) /\ LeasedBy(exJobs[r], w)
\* The transaction of the fragments: the run is running, current, and its job is
\* leased by this worker (recordAutomationEffect).
MayPublish(w, r) == exRuns[r].status = "running" /\ UpToDate(r) /\ LeasedBy(exJobs[r], w)

\* Mutant: the text that was ready stays so.
StaysReady(r) == exRuns
\* The run that was ready is obsolete, with the next revision.
Superseded(r) == [q \in ExtractionIds |->
  IF q # r /\ exRuns[q].status = "ready" THEN [exRuns[q] EXCEPT !.status = "obsolete"] ELSE exRuns[q]]

Publish(w) ==
  LET r == exWorkers[w].run IN
  /\ exWorkers[w].at = "extracting" /\ MayPublish(w, r)
  /\ exRuns' = [Superseded(r) EXCEPT ![r].status = "ready"]
  /\ exTexts' = exTexts \cup {r} /\ exHead' = r
  /\ exWorkers' = [exWorkers EXCEPT ![w].at = "published"]
  /\ UNCHANGED <<exSource, exJobs, exReader, exBounds>>

\* The job hears of it, or the lease is gone and the next attempt finds it ready.
Acknowledge(w) ==
  LET r == exWorkers[w].run IN
  /\ exWorkers[w].at = "published"
  /\ exJobs' = [exJobs EXCEPT ![r] = JobSettled(@, w, "done", ExtractionTries)]
  /\ exWorkers' = [exWorkers EXCEPT ![w] = AtRest]
  /\ UNCHANGED <<exSource, exRuns, exHead, exTexts, exReader, exBounds>>

\* Mutant: a failure takes the place of whatever there is.
FailsAll(r) == TRUE
\* A failure marks the run if it is pending.
MayFail(r) == Undecided(r)

\* Any failure of an attempt: of the extraction, of a guard, of the temporary
\* directory that a second attempt has removed.
Fail(w, result) ==
  LET r == exWorkers[w].run IN
  /\ exWorkers[w].at = "extracting" /\ result \in {"failed", "retry"}
  /\ IF MayFail(r) THEN Mark(r, "failed") ELSE UNCHANGED exRuns
  /\ exJobs' = [exJobs EXCEPT ![r] = JobSettled(@, w, result, ExtractionTries)]
  /\ exWorkers' = [exWorkers EXCEPT ![w] = AtRest]
  /\ UNCHANGED <<exSource, exHead, exTexts, exReader, exBounds>>

\* The lease runs out, with the worker at work or stopped.
Lapse(w, r, stopped) ==
  /\ exJobs[r].status = "running" /\ exJobs[r].holder = w
  /\ exJobs' = [exJobs EXCEPT ![r] = JobLapsed(@, ExtractionTries)]
  /\ exWorkers' = IF stopped THEN [exWorkers EXCEPT ![w] = AtRest] ELSE exWorkers
  /\ UNCHANGED <<exSource, exRuns, exHead, exTexts, exReader, exBounds>>

\* Mutant: a run whose job waits for its second attempt is taken for dead.
NotRunning(r) == exJobs[r].status # "running"
\* StartAttachmentExtraction: the job ended without the run.
JobEnded(r) == exJobs[r].status \in {"failed", "cancelled"}
Reconcile(r) ==
  /\ Undecided(r) /\ JobEnded(r) /\ Mark(r, "cancelled")
  /\ UNCHANGED <<exSource, exJobs, exHead, exTexts, exWorkers, exReader, exBounds>>

\* After a day the text of a run that is over and is not the head is removed.
Removable(r) == exRuns[r].status \in {"obsolete", "failed", "cancelled"} /\ exHead # r
RemoveText(r) ==
  /\ r \in exTexts /\ Removable(r) /\ exTexts' = exTexts \ {r}
  /\ UNCHANGED <<exSource, exRuns, exJobs, exHead, exWorkers, exReader, exBounds>>

----------------
(* Reading.                                                                     *)

\* Mutant: what is ready is active.
ReadyIsActive(r) == exRuns[r].status = "ready"
\* activeExtraction and attachmentCitationTx: the head, ready, of the policy as
\* it is, for a reader of the document.
Active(r) ==
  /\ exHead = r /\ exRuns[r].status = "ready" /\ exSource.allowed
  /\ exSource.enabled /\ exSource.policy = exRuns[r].policy

\* listAttachmentFragments and getAttachmentFragment look once before they read
\* the fragments; runAttachmentAI quotes what the user has seen of a version.
StartReading(r) ==
  /\ exReader = AtRest /\ exRuns[r] # Unasked /\ Active(r)
  /\ exReader' = [at |-> "reading", run |-> r, version |-> exSource.version]
  /\ UNCHANGED <<exSource, exRuns, exJobs, exHead, exTexts, exWorkers, exBounds>>

\* Mutants: the check before is enough, for a reader and for a quotation.
ShowsUnchecked(r) == TRUE
QuotesAnyVersion(r) == Active(r)
\* Once more after: what is shown is active, and (attachmentCitationTx, strict)
\* what an AI is given is of the version that the user has seen.
MayShow(r)  == Active(r)
MayQuote(r) == Active(r) /\ exSource.version = exReader.version

EndReading(result) ==
  /\ exReader.at = "reading"
  /\ exReader' = IF IF result = "quoted" THEN MayQuote(exReader.run) ELSE MayShow(exReader.run)
                 THEN [at |-> result] ELSE AtRest
  /\ UNCHANGED <<exSource, exRuns, exJobs, exHead, exTexts, exWorkers, exBounds>>

CloseReader ==
  /\ exReader.at \in {"shown", "quoted"} /\ exReader' = AtRest
  /\ UNCHANGED <<exSource, exRuns, exJobs, exHead, exTexts, exWorkers, exBounds>>

ExtractionNext ==
  \/ EditText \/ ChangeEditor \/ EndLogin \/ \E on \in BOOLEAN : SaveSettings(on)
  \/ \E r \in ExtractionIds : \/ Queue(r) \/ CancelExtraction(r) \/ Reconcile(r) \/ RemoveText(r)
                              \/ \E w \in Extractors : Begin(w, r) \/ \E stopped \in BOOLEAN : Lapse(w, r, stopped)
                              \/ StartReading(r)
  \/ \E w \in Extractors : Publish(w) \/ Acknowledge(w) \/ \E result \in {"failed", "retry"} : Fail(w, result)
  \/ EndReading("shown") \/ EndReading("quoted") \/ CloseReader

ExtractionSpec == ExtractionInit /\ [][ExtractionNext]_exVars

----------------
(* Properties.                                                                  *)

\* The head of an attachment is the one run that is ready, and its text is there
\* (the last transaction of executeAttachmentExtraction, StartAttachmentExtraction).
HeadIsTheReadyRun ==
  \A r \in ExtractionIds : exRuns[r].status = "ready" <=> exHead = r /\ exHead \in exTexts

\* A text becomes visible only if, at that moment, the document is the one that
\* was asked for, its editor may edit it and is logged in, and the policy is the
\* one under which it was asked for ("no visible fragment exists until all
\* original actor/source checks and the durable job receipt commit").
TextsAreAsAsked ==
  exHead' # exHead =>
    LET run == exRuns[exHead'] IN
    /\ run.status = "running" /\ exSource.version = run.version
    /\ exSource.allowed /\ exSource.login /\ exSource.enabled /\ exSource.policy = run.policy

\* What is over stays so: no late attempt brings back a run that was cancelled,
\* has failed or was superseded, and a run that is ready is only superseded.
RunsStayOver ==
  \A r \in ExtractionIds :
    /\ exRuns[r].status \in {"failed", "cancelled", "obsolete"} => exRuns'[r] = exRuns[r]
    /\ exRuns[r].status = "ready" => exRuns'[r].status \in {"ready", "obsolete"}

\* A run is given up only when its attempts, or the editor, are done with it: a
\* run whose job may still be tried is not taken for dead (StartAttachmentExtraction).
RunsAreTried ==
  \A r \in ExtractionIds :
    Undecided(r) /\ exRuns'[r].status = "cancelled" =>
      exJobs[r].status \in {"failed", "cancelled"} \/ exJobs'[r].cancel \/ exJobs'[r].status = "cancelled"

\* Nobody is shown, or lets an AI have, the text of a run that is not active, and
\* an AI only what the user has seen of the document as it is.
ShownIsActive ==
  exReader.at = "reading" /\ exReader'.at \in {"shown", "quoted"} =>
    LET r == exReader.run IN
    /\ exHead = r /\ exRuns[r].status = "ready" /\ exSource.allowed
    /\ exSource.enabled /\ exSource.policy = exRuns[r].policy
    /\ exReader'.at = "quoted" => exSource.version = exReader.version

ExtractionsAreKept == HeadIsTheReadyRun' /\ TextsAreAsAsked /\ RunsStayOver /\ RunsAreTried /\ ShownIsActive
ExtractionHolds == [][ExtractionsAreKept]_exVars
=============================================================================
