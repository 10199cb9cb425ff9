------------------------------ MODULE SearchIndex ------------------------------
(* The vector index of one document (internal/server/rag_*.go): the consents  *)
(* under which its text may be sent to an embedding provider, the jobs that   *)
(* send it in batches and store the vectors, the automatic indexing of later  *)
(* versions, and the generations of the index, of which one serves the search.*)
(* The document, the settings and the rights change between any two steps.    *)
EXTENDS Naturals, Sequences, FiniteSets

CONSTANTS
  Indexers,         \* goroutines of the queue
  NoIndexer,
  RagProviders,     \* fingerprints of embedding settings
  Batches,          \* batches of a version of the document
  MaxGenerations, MaxRagJobs, MaxSwitches, RagTroubles  \* bounds; troubles: edits, changes, losses

ASSUME RagAssumption == /\ Batches \in Nat /\ MaxGenerations \in Nat /\ RagProviders # {}
                        /\ MaxRagJobs \in Nat /\ RagTroubles \in Nat

VARIABLES
  rag,          \* the document, the settings, the rights, rag_reindex_queue
  generations,  \* rag_generations
  serving,      \* rag_generation_state
  grants,       \* rag_index_grants of the document, 0 for no generation
  ragJobs,      \* jobs rag.index, and rag_vector_indexes with their chunks
  indexer,      \* what each goroutine is doing
  proof,        \* the receipt of a verification; no cohort if this document was not chosen
  sent,         \* history: versions sent to providers
  consents      \* history: what the user agreed to

ragVars == <<rag, generations, serving, grants, ragJobs, indexer, proof, sent, consents>>

RagNumbers  == 0 .. MaxGenerations
NoGrant   == [id |-> 0, revision |-> 0, active |-> FALSE, auto |-> FALSE, provider |-> 0,
              version |-> 0, job |-> 0]
NoIndexed == [at |-> "idle", job |-> 0, text |-> 0, start |-> 0]
NoProof   == [generation |-> 0, state |-> 0, provider |-> 0, cohort |-> <<>>]
NoVectors == [status |-> "none", vectors |-> <<>>]

RagTypeOK ==
  /\ rag \in [version : Nat, deleted : BOOLEAN, provider : RagProviders, allowed : BOOLEAN,
              queued : BOOLEAN, since : Nat, troubles : 0 .. RagTroubles]
  /\ generations \in Seq([status : {"building", "active", "retired", "deleted"}, provider : RagProviders])
  /\ serving \in [active : RagNumbers, revision : Nat]
  /\ grants \in [RagNumbers -> [id : RagNumbers, revision : Nat, active : BOOLEAN, auto : BOOLEAN,
                              provider : RagProviders \cup {0}, version : Nat, job : 0 .. MaxRagJobs]]
  /\ ragJobs \in Seq([grant : RagNumbers, version : Nat, revision : Nat, provider : RagProviders,
                      status : {"pending", "running", "done", "failed", "cancelled"}, cancel : BOOLEAN,
                      holder : Indexers \cup {NoIndexer},
                      index : [status : {"none", "building", "ready"}, vectors : Seq(Nat \X RagProviders)]])
  /\ indexer \in [Indexers -> [at : {"idle", "begin", "send", "store", "close", "settle"},
                               job : 0 .. MaxRagJobs, text : Nat, start : 0 .. Batches]]
  /\ sent \subseteq [id : RagNumbers, revision : Nat, version : Nat, provider : RagProviders]

RagInit ==
  /\ rag = [version |-> 1, deleted |-> FALSE, provider |-> CHOOSE p \in RagProviders : TRUE,
            allowed |-> TRUE, queued |-> FALSE, since |-> 0, troubles |-> 0]
  /\ generations = <<>> /\ serving = [active |-> 0, revision |-> 0]
  /\ grants = [g \in RagNumbers |-> NoGrant]
  /\ ragJobs = <<>> /\ indexer = [w \in Indexers |-> NoIndexed]
  /\ proof = NoProof /\ sent = {} /\ consents = {}

\* ragGenerationConfig: the serving generation must agree with the settings,
\* the others keep the provider they were made for.
Configured(g) ==
  g > 0 => /\ g <= Len(generations) /\ generations[g].status # "deleted"
           /\ serving.active = g => rag.provider = generations[g].provider
ProviderOf(g) == IF g = 0 THEN rag.provider ELSE generations[g].provider

RagLive(j) == j > 0 /\ ragJobs[j].status \in {"pending", "running"}

----------------
(* The document and its surroundings.                                         *)

RagTrouble(new) ==
  /\ rag.troubles < RagTroubles
  /\ rag' = [new EXCEPT !.troubles = @ + 1]

\* The trigger on documents queues a new version if any grant wants it.
EditIndexed ==
  /\ ~rag.deleted
  /\ RagTrouble([rag EXCEPT !.version = @ + 1,
       !.queued = @ \/ \E g \in RagNumbers : grants[g].active /\ grants[g].auto])
  /\ UNCHANGED <<generations, serving, grants, ragJobs, indexer, proof, sent, consents>>

WithoutIndexes(jobs, id) ==
  [j \in DOMAIN jobs |-> IF jobs[j].grant = id THEN [jobs[j] EXCEPT !.index = NoVectors] ELSE jobs[j]]

\* ... and ends every consent when the document goes to the trash.
TrashIndexed ==
  /\ ~rag.deleted /\ RagTrouble([rag EXCEPT !.deleted = TRUE, !.queued = FALSE])
  /\ grants' = [g \in RagNumbers |-> IF grants[g].active
       THEN [grants[g] EXCEPT !.active = FALSE, !.auto = FALSE, !.revision = @ + 1] ELSE grants[g]]
  /\ ragJobs' = [j \in DOMAIN ragJobs |-> [ragJobs[j] EXCEPT !.index = NoVectors]]
  /\ UNCHANGED <<generations, serving, indexer, proof, sent, consents>>

ChangeRag ==
  /\ \/ \E p \in RagProviders \ {rag.provider} : RagTrouble([rag EXCEPT !.provider = p])
     \/ RagTrouble([rag EXCEPT !.allowed = ~@])
     \/ rag.deleted /\ RagTrouble([rag EXCEPT !.deleted = FALSE])
  /\ UNCHANGED <<generations, serving, grants, ragJobs, indexer, proof, sent, consents>>

----------------
(* Consents.                                                                  *)

RagJob(g, version) ==
  [grant |-> g.id, version |-> version, revision |-> g.revision, provider |-> g.provider,
   status |-> "pending", cancel |-> FALSE, holder |-> NoIndexer, index |-> NoVectors]

\* Mutant: a consent for any generation takes the document off the queue.
NeverQueued(g) == FALSE

\* The queue is for the serving generation only.
StillQueued(g) == rag.queued /\ g # serving.active

\* createRAGIndex: the user has seen the version and the provider.
CreateRAGIndex(g, auto) ==
  LET old == grants[g]
      new == [id |-> IF old.revision = 0 THEN g ELSE old.id, revision |-> old.revision + 1,
              active |-> TRUE, auto |-> auto, provider |-> ProviderOf(g), version |-> rag.version,
              job |-> Len(ragJobs) + 1]
  IN
  /\ ~rag.deleted /\ rag.allowed
  /\ g = 0 => serving.active = 0
  /\ Configured(g)
  /\ RagLive(old.job) => ragJobs[old.job].cancel
  /\ Len(ragJobs) < MaxRagJobs
  /\ grants' = [grants EXCEPT ![g] = new]
  /\ ragJobs' = Append(WithoutIndexes(ragJobs, new.id), RagJob(new, rag.version))
  /\ rag' = [rag EXCEPT !.queued = StillQueued(g)]
  /\ consents' = consents \cup {[id |-> new.id, revision |-> new.revision, version |-> rag.version,
                                 provider |-> new.provider, auto |-> auto]}
  /\ UNCHANGED <<generations, serving, indexer, proof, sent>>

IndexCancelled(job) ==
  [job EXCEPT !.cancel = TRUE, !.status = IF @ = "pending" THEN "cancelled" ELSE @]

\* stopRAGIndex: the jobs of the consent are cancelled; a consent that is
\* revoked loses its vectors too.
StopRAGIndex(g, revoke) ==
  LET old == grants[g]
      stopped == [j \in DOMAIN ragJobs |->
        IF RagLive(j) /\ (j = old.job \/ (ragJobs[j].grant = old.id /\ ragJobs[j].index.status # "none"))
        THEN IndexCancelled(ragJobs[j]) ELSE ragJobs[j]]
  IN
  /\ ~rag.deleted /\ rag.allowed /\ old.revision > 0
  /\ revoke => old.active
  /\ RagTrouble([rag EXCEPT !.queued = StillQueued(g)])
  /\ grants' = [grants EXCEPT ![g] =
       [old EXCEPT !.active = @ /\ ~revoke, !.auto = FALSE, !.revision = @ + 1]]
  /\ ragJobs' = IF revoke THEN WithoutIndexes(stopped, old.id) ELSE stopped
  /\ UNCHANGED <<generations, serving, indexer, proof, sent, consents>>

----------------
(* The dispatcher of automatic indexing.                                      *)

MayReindex(g) ==
  grants[g].active /\ grants[g].auto /\ rag.allowed /\ grants[g].provider = ProviderOf(g)

ReadyFor(g) ==
  \E j \in DOMAIN ragJobs :
    /\ ragJobs[j].grant = grants[g].id /\ ragJobs[j].index.status = "ready"
    /\ ragJobs[j].version = rag.version /\ ragJobs[j].revision = grants[g].revision

\* dispatchRAGDocument: one transaction for the grant of the serving generation.
DispatchRAGDocument ==
  LET g == serving.active  old == grants[g]  j == old.job
      again == [old EXCEPT !.version = rag.version, !.job = Len(ragJobs) + 1]
  IN
  /\ rag.queued /\ ~rag.deleted /\ old.revision > 0 /\ Configured(g)
  /\ \/ /\ ~MayReindex(g)
        /\ grants' = [grants EXCEPT ![g].auto = FALSE]
        /\ rag' = [rag EXCEPT !.queued = FALSE] /\ UNCHANGED ragJobs
     \/ /\ MayReindex(g) /\ RagLive(j) /\ ~ragJobs[j].cancel
        /\ ragJobs' = IF rag.version = old.version THEN ragJobs
                      ELSE [ragJobs EXCEPT ![j] = IndexCancelled(@)]
        /\ UNCHANGED <<rag, grants>>
     \/ /\ MayReindex(g) /\ (RagLive(j) => ragJobs[j].cancel)
        /\ rag' = [rag EXCEPT !.queued = FALSE]
        /\ IF rag.version = old.version /\ ReadyFor(g) THEN UNCHANGED <<grants, ragJobs>>
           ELSE /\ Len(ragJobs) < MaxRagJobs
                /\ grants' = [grants EXCEPT ![g] = again]
                /\ ragJobs' = Append(WithoutIndexes(ragJobs, old.id), RagJob(again, rag.version))
  /\ UNCHANGED <<generations, serving, indexer, proof, sent, consents>>

----------------
(* The job.                                                                   *)

Indexes(w, place) == indexer' = [indexer EXCEPT ![w] = place]

ClaimIndex(w, j) ==
  /\ indexer[w] = NoIndexed /\ ragJobs[j].status = "pending"
  /\ ragJobs' = [ragJobs EXCEPT ![j] = [@ EXCEPT !.status = "running", !.holder = w]]
  /\ Indexes(w, [NoIndexed EXCEPT !.at = "begin", !.job = j])
  /\ UNCHANGED <<rag, generations, serving, grants, proof, sent, consents>>

\* A worker that stalls loses its lease and goes on; one that dies does not.
LoseIndex(j) ==
  /\ ragJobs[j].status = "running"
  /\ RagTrouble(rag)
  /\ ragJobs' = [ragJobs EXCEPT ![j] = [@ EXCEPT !.holder = NoIndexer,
                   !.status = IF ragJobs[j].cancel THEN "cancelled" ELSE "pending"]]
  /\ UNCHANGED indexer \/ Indexes(ragJobs[j].holder, NoIndexed)
  /\ UNCHANGED <<generations, serving, grants, proof, sent, consents>>

\* Mutant: the job does not compare the version of the document.
JobGuardOfAnyVersion(j) ==
  LET job == ragJobs[j] IN
  \E g \in RagNumbers :
    /\ grants[g].revision > 0 /\ grants[g].id = job.grant
    /\ grants[g].active /\ grants[g].revision = job.revision /\ grants[g].job = j
    /\ rag.allowed /\ Configured(g) /\ ProviderOf(g) = job.provider
    /\ ~rag.deleted /\ ~job.cancel /\ RagLive(j)

\* ragJobGuard and ragJobTx.
JobGuard(j) ==
  LET job == ragJobs[j] IN
  \E g \in RagNumbers :
    /\ grants[g].revision > 0 /\ grants[g].id = job.grant
    /\ grants[g].active /\ grants[g].revision = job.revision /\ grants[g].job = j
    /\ grants[g].version = job.version /\ grants[g].provider = job.provider
    /\ rag.allowed /\ Configured(g) /\ ProviderOf(g) = job.provider
    /\ rag.version = job.version /\ ~rag.deleted
    /\ ~job.cancel /\ RagLive(j)

IndexSettled(w, jobs, status) ==
  LET j == indexer[w].job IN
  IF jobs[j].holder # w THEN jobs
  ELSE [jobs EXCEPT ![j] = [@ EXCEPT !.holder = NoIndexer,
          !.status = IF jobs[j].cancel THEN "cancelled" ELSE status]]

\* The text is read and the row of the index made, or found, in one transaction.
BeginIndex(w) ==
  LET j == indexer[w].job  index == ragJobs[j].index IN
  /\ indexer[w].at = "begin" /\ JobGuard(j)
  /\ IF index.status = "ready"
     THEN Indexes(w, [indexer[w] EXCEPT !.at = "settle"]) /\ UNCHANGED ragJobs
     ELSE /\ ragJobs' = [ragJobs EXCEPT ![j].index.status = "building"]
          /\ Indexes(w, [indexer[w] EXCEPT !.text = rag.version, !.start = Len(index.vectors),
                         !.at = IF Len(index.vectors) = Batches THEN "close" ELSE "send"])
  /\ UNCHANGED <<rag, generations, serving, grants, proof, sent, consents>>

SendBatch(w) ==
  LET j == indexer[w].job IN
  /\ indexer[w].at = "send" /\ JobGuard(j)
  /\ sent' = sent \cup {[id |-> ragJobs[j].grant, revision |-> ragJobs[j].revision,
                         version |-> indexer[w].text, provider |-> ragJobs[j].provider]}
  /\ Indexes(w, [indexer[w] EXCEPT !.at = "store"])
  /\ UNCHANGED <<rag, generations, serving, grants, ragJobs, proof, consents>>

\* Another worker of the job may have stored the batch already.
StoreBatch(w) ==
  LET j == indexer[w].job  next == indexer[w].start + 1
      vector == <<indexer[w].text, ragJobs[j].provider>>
  IN
  /\ indexer[w].at = "store" /\ JobGuard(j)
  /\ ragJobs[j].index.status # "none"
  /\ ragJobs' = IF next <= Len(ragJobs[j].index.vectors)
                THEN [ragJobs EXCEPT ![j].index.vectors[next] = vector]
                ELSE [ragJobs EXCEPT ![j].index.vectors = Append(@, vector)]
  /\ Indexes(w, [indexer[w] EXCEPT !.start = next, !.at = IF next = Batches THEN "close" ELSE "send"])
  /\ UNCHANGED <<rag, generations, serving, grants, proof, sent, consents>>

CloseIndex(w) ==
  LET j == indexer[w].job IN
  /\ indexer[w].at = "close" /\ JobGuard(j)
  /\ Len(ragJobs[j].index.vectors) = Batches
  /\ ragJobs' = [ragJobs EXCEPT ![j].index.status = "ready"]
  /\ Indexes(w, [indexer[w] EXCEPT !.at = "settle"])
  /\ UNCHANGED <<rag, generations, serving, grants, proof, sent, consents>>

\* finishAutomationJob, in a transaction of its own.
SettleIndex(w) ==
  /\ indexer[w].at = "settle"
  /\ ragJobs' = IndexSettled(w, ragJobs, "done") /\ Indexes(w, NoIndexed)
  /\ UNCHANGED <<rag, generations, serving, grants, proof, sent, consents>>

\* A guard that fails ends the job; another error, or the provider, lets it retry.
FailIndex(w) ==
  /\ indexer[w].at \notin {"idle", "settle"}
  /\ \/ ~JobGuard(indexer[w].job) /\ ragJobs' = IndexSettled(w, ragJobs, "failed") /\ UNCHANGED rag
     \/ RagTrouble(rag) /\ ragJobs' = IndexSettled(w, ragJobs, "pending")
  /\ Indexes(w, NoIndexed)
  /\ UNCHANGED <<generations, serving, grants, proof, sent, consents>>

----------------
(* Generations.                                                               *)

\* Mutant: the first generation starts without the consents there are.
GrantsLeft(old) == old

\* The consents given before there were generations belong to the first.
GrantsAdopted(old) == [old EXCEPT ![1] = old[0], ![0] = NoGrant]

CreateRAGGeneration(p) ==
  LET next == [status |-> "building", provider |-> p]
      base == [status |-> "active", provider |-> rag.provider]
      first == serving.active = 0
      made == IF first THEN <<base, next>> ELSE Append(generations, next)
  IN
  /\ rag.allowed /\ Len(made) <= MaxGenerations
  /\ generations' = made
  /\ IF first THEN serving' = [active |-> 1, revision |-> 1] /\ grants' = GrantsAdopted(grants)
     ELSE UNCHANGED <<serving, grants>>
  /\ UNCHANGED <<rag, ragJobs, indexer, proof, sent, consents>>

\* What a verification rests on: the document, its consent and its index.
CohortOf(g) ==
  IF /\ ~rag.deleted /\ grants[g].active /\ rag.allowed
     /\ grants[g].provider = generations[g].provider /\ grants[g].version = rag.version
     /\ ragJobs[grants[g].job].index.status = "ready"
     /\ ragJobs[grants[g].job].version = rag.version /\ ragJobs[grants[g].job].revision = grants[g].revision
  THEN <<rag.version, grants[g].revision, grants[g].job>> ELSE <<>>

\* verifyRAGGeneration asks the provider, and writes its receipt if all that it
\* had read is still so.  The administrator chooses up to thirty documents; this
\* one may be among them or not.
VerifyRAGGeneration(g) ==
  /\ generations[g].status # "deleted" /\ Configured(g)
  /\ \E chosen \in BOOLEAN :
       /\ chosen => CohortOf(g) # <<>>
       /\ proof' = [generation |-> g, state |-> serving.revision, provider |-> rag.provider,
                    cohort |-> IF chosen THEN CohortOf(g) ELSE <<>>]
  /\ UNCHANGED <<rag, generations, serving, grants, ragJobs, indexer, sent, consents>>

\* Mutant: the receipt is only looked at, not compared with what is now.
StillUnchecked == generations[proof.generation].status # "deleted"

\* The receipt holds as long as nothing it rests on has changed; of a document
\* that was not chosen nothing is asked.
StillProved ==
  /\ generations[proof.generation].status # "deleted"
  /\ proof.cohort # <<>> => CohortOf(proof.generation) = proof.cohort
  /\ rag.provider = proof.provider /\ serving.revision = proof.state

\* The settings and the pointer change in one transaction; what the previous
\* generation still indexes is cancelled.
ActivateRAGGeneration ==
  LET g == proof.generation  previous == serving.active IN
  /\ proof # NoProof /\ StillProved /\ serving.revision <= MaxSwitches
  /\ rag' = [rag EXCEPT !.provider = generations[g].provider, !.since = rag.version]
  /\ serving' = [active |-> g, revision |-> serving.revision + 1]
  /\ generations' = [n \in DOMAIN generations |->
       IF n = g THEN [generations[n] EXCEPT !.status = "active"]
       ELSE IF generations[n].status = "active" THEN [generations[n] EXCEPT !.status = "retired"]
       ELSE generations[n]]
  /\ ragJobs' = IF previous # g /\ RagLive(grants[previous].job)
                THEN [ragJobs EXCEPT ![grants[previous].job].cancel = TRUE] ELSE ragJobs
  /\ proof' = NoProof
  /\ UNCHANGED <<grants, indexer, sent, consents>>

\* The rows of the generation go with it; its job must have ended.
DeleteRAGGeneration(g) ==
  /\ generations[g].status # "deleted" /\ serving.active # g /\ rag.allowed
  /\ ~RagLive(grants[g].job)
  /\ generations' = [generations EXCEPT ![g] = [@ EXCEPT !.status = "deleted"]]
  /\ grants' = [grants EXCEPT ![g] = NoGrant]
  /\ ragJobs' = IF grants[g].revision = 0 THEN ragJobs ELSE WithoutIndexes(ragJobs, grants[g].id)
  /\ proof' = IF proof.generation = g THEN NoProof ELSE proof
  /\ UNCHANGED <<rag, serving, indexer, sent, consents>>

----------------
(* The search.                                                                *)

\* Mutant: the vectors of an earlier version still answer.
SearchableOfAnyVersion ==
  LET g == serving.active IN
  {j \in DOMAIN ragJobs :
     /\ grants[g].revision > 0 /\ ragJobs[j].grant = grants[g].id /\ grants[g].active
     /\ ragJobs[j].index.status = "ready" /\ ragJobs[j].revision = grants[g].revision
     /\ grants[g].provider = rag.provider /\ ~rag.deleted /\ rag.allowed}

\* ragVectorEligible: the vectors that may answer a question now.
Searchable ==
  LET g == serving.active IN
  {j \in DOMAIN ragJobs :
     /\ grants[g].revision > 0 /\ ragJobs[j].grant = grants[g].id /\ grants[g].active
     /\ ragJobs[j].index.status = "ready" /\ ragJobs[j].revision = grants[g].revision
     /\ ragJobs[j].version = rag.version /\ ragJobs[j].provider = grants[g].provider
     /\ grants[g].provider = rag.provider /\ ~rag.deleted /\ rag.allowed}

\* A question is sent only if some vectors of its provider may answer it.
QuerySource == Searchable # {}

\* retrieveRAGAISources: the providers a question is sent to now, by a handler
\* that changes nothing.
Questions == IF QuerySource THEN {rag.provider} ELSE {}

RagNext ==
  \/ EditIndexed \/ TrashIndexed \/ ChangeRag
  \/ \E g \in RagNumbers, yes \in BOOLEAN : CreateRAGIndex(g, yes) \/ StopRAGIndex(g, yes)
  \/ DispatchRAGDocument \/ ActivateRAGGeneration
  \/ \E p \in RagProviders : CreateRAGGeneration(p)
  \/ \E g \in DOMAIN generations : VerifyRAGGeneration(g) \/ DeleteRAGGeneration(g)
  \/ \E j \in DOMAIN ragJobs : LoseIndex(j) \/ \E w \in Indexers : ClaimIndex(w, j)
  \/ \E w \in Indexers :
       BeginIndex(w) \/ SendBatch(w) \/ StoreBatch(w) \/ CloseIndex(w) \/ SettleIndex(w) \/ FailIndex(w)

RagSpec == RagInit /\ [][RagNext]_ragVars

----------------
(* Properties.                                                                *)

\* Every version that went to a provider went under a consent of that revision
\* to that provider, given for the version or for the ones after it; a question
\* goes only to a provider that some consent names.
SentAsConsented ==
  /\ \A p \in Questions : \E c \in consents : c.provider = p
  /\ \A s \in sent : \E c \in consents :
       /\ c.id = s.id /\ c.revision = s.revision /\ c.provider = s.provider
       /\ s.version = c.version \/ (c.auto /\ s.version > c.version)

\* What the search may use is complete, and made from the text as it is now by
\* the provider that the question goes to.
SearchesTheText ==
  \A j \in Searchable :
    ragJobs[j].index.vectors = [b \in 1 .. Batches |-> <<rag.version, rag.provider>>]

\* A version that the consent of the serving generation wants indexed is queued
\* until it is, if it was written after the generation began to serve.
NothingForgotten ==
  LET g == grants[serving.active] IN
  g.active /\ g.auto /\ rag.version # g.version /\ rag.version > rag.since => rag.queued

\* The first generation loses nothing that the search found, and a switch to
\* another none of the documents it was verified with.  Any other document is
\* found after a switch only if the generation happens to have its index: the
\* administrator confirms that (confirm_coverage, rag_generation_activate.go:22).
SwitchKeepsSearch ==
  /\ serving' # serving /\ serving.active = 0 /\ Searchable # {} => Searchable' # {}
  /\ serving' # serving /\ proof.cohort # <<>> => Searchable' # {}

\* What is sent, what is searched and what is left to do fit the text and the
\* consents, through every change of either.
IndexFitsText == SentAsConsented /\ SearchesTheText /\ NothingForgotten
==============================================================================
