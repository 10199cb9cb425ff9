---------------------------- MODULE ExchangeProofs ----------------------------
(* Theorems about parts of MCExchange, for any goroutines, senders, bounds    *)
(* and numbers of rows.  A scene never changes and its rows are changed by    *)
(* its own module only, so what a part keeps is kept by the whole.            *)
EXTENDS MCExchange, ImportProofs, FiniteSetTheorems, TLAPS

----------------
(* The index of a document: the rows, and how grants, consents, jobs, their   *)
(* vectors and the goroutines belong together.                                *)

RagRow    == [version : Nat, deleted : BOOLEAN, provider : RagProviders, allowed : BOOLEAN,
              queued : BOOLEAN, since : Nat, troubles : Nat]
GenRow    == [status : {"building", "active", "retired", "deleted"}, provider : RagProviders]
GrantRow  == [id : Nat, revision : Nat, active : BOOLEAN, auto : BOOLEAN,
              provider : RagProviders \cup {0}, version : Nat, job : Nat]
IndexRow  == [status : {"none", "building", "ready"}, vectors : Seq(Nat \X RagProviders)]
IndexJob  == [grant : Nat, version : Nat, revision : Nat, provider : RagProviders,
              status : {"pending", "running", "done", "failed", "cancelled"}, cancel : BOOLEAN,
              holder : Indexers \cup {NoIndexer}, index : IndexRow]
Place     == [at : {"idle", "begin", "send", "store", "close", "settle"}, job : Nat, text : Nat, start : Nat]
ProofRow  == [generation : Nat, state : Nat, provider : RagProviders \cup {0}, cohort : Seq(Nat)]
Consent   == [id : Nat, revision : Nat, version : Nat, provider : RagProviders, auto : BOOLEAN]

RagShape ==
  /\ rag \in RagRow
  /\ generations \in Seq(GenRow)
  /\ serving \in [active : RagNumbers, revision : Nat]
  /\ grants \in [RagNumbers -> GrantRow]
  /\ ragJobs \in Seq(IndexJob)
  /\ indexer \in [Indexers -> Place]
  /\ proof \in ProofRow
  /\ consents \in SUBSET Consent

\* The serving generation exists, and a receipt is of one that does.
Pointers ==
  /\ Len(generations) <= MaxGenerations
  /\ serving.active # 0 => serving.active \in DOMAIN generations
  /\ serving.active = 0 => generations = <<>>
  /\ proof # NoProof => proof.generation \in DOMAIN generations

\* What a grant rests on: its job, and the consent that its automatic indexing needs.
GrantStands(x, jobs, version, agreed) ==
  /\ x.job # 0 => x.job \in DOMAIN jobs
  /\ x.active => x.revision > 0
  /\ x.revision > 0 =>
       /\ x.job \in DOMAIN jobs /\ jobs[x.job].grant = x.id /\ jobs[x.job].provider = x.provider
       /\ \E c \in agreed : c.provider = x.provider
  /\ x.active /\ x.auto =>
       /\ x.version <= version
       /\ \E c \in agreed : /\ c.id = x.id /\ c.revision = x.revision /\ c.provider = x.provider
                            /\ c.auto /\ c.version <= x.version

\* Why a job may send its version, and what its vectors are made from.
JobMaySend(job, agreed) ==
  \E c \in agreed : /\ c.id = job.grant /\ c.revision = job.revision /\ c.provider = job.provider
                    /\ job.version = c.version \/ (c.auto /\ job.version > c.version)
OwnVectors(job) ==
  /\ Len(job.index.vectors) <= Batches
  /\ \A b \in DOMAIN job.index.vectors : job.index.vectors[b] = <<job.version, job.provider>>
  /\ job.index.status = "ready" => Len(job.index.vectors) = Batches
JobStands(job, agreed) == JobMaySend(job, agreed) /\ OwnVectors(job)

\* A goroutine that sends has the text of its job's version.
KnowsText(me, jobs) ==
  /\ me.at # "idle" => me.job \in DOMAIN jobs
  /\ me.at \in {"send", "store", "close"} => me.text = jobs[me.job].version
  /\ me.at \in {"send", "store"} => me.start < Batches

RagIInv ==
  /\ RagShape /\ Pointers /\ SentAsConsented /\ NothingForgotten
  /\ \A g \in RagNumbers : GrantStands(grants[g], ragJobs, rag.version, consents)
  /\ \A j \in DOMAIN ragJobs : JobStands(ragJobs[j], consents)
  /\ \A w \in Indexers : KnowsText(indexer[w], ragJobs)


----------------
(* What each kind of change leaves standing.                                  *)

\* Jobs keep what they were made for.
Kept(jobs, later) ==
  /\ DOMAIN jobs \subseteq DOMAIN later
  /\ \A j \in DOMAIN jobs : /\ later[j].grant = jobs[j].grant /\ later[j].version = jobs[j].version
                            /\ later[j].revision = jobs[j].revision
                            /\ later[j].provider = jobs[j].provider

LEMMA GrantsStay ==
  ASSUME NEW x \in GrantRow, NEW jobs, NEW later, Kept(jobs, later), NEW v \in Nat, NEW w \in Nat, v <= w,
         NEW agreed, NEW more, agreed \subseteq more, GrantStands(x, jobs, v, agreed)
  PROVE  GrantStands(x, later, w, more)
<1>1. x.version \in Nat BY DEF GrantRow
<1>2. x.active /\ x.auto => x.version <= w BY <1>1 DEF GrantStands
<1>3. x.active /\ x.auto =>
       \E c \in more : /\ c.id = x.id /\ c.revision = x.revision /\ c.provider = x.provider
                       /\ c.auto /\ c.version <= x.version
  BY DEF GrantStands
<1>4. /\ x.job # 0 => x.job \in DOMAIN later
      /\ x.active => x.revision > 0
      /\ x.revision > 0 =>
           /\ x.job \in DOMAIN later /\ later[x.job].grant = x.id /\ later[x.job].provider = x.provider
           /\ \E c \in more : c.provider = x.provider
  BY DEF GrantStands, Kept
<1> QED BY <1>2, <1>3, <1>4 DEF GrantStands

LEMMA JobsStay ==
  ASSUME NEW job, NEW later, later.grant = job.grant, later.version = job.version,
         later.revision = job.revision, later.provider = job.provider, later.index = job.index,
         NEW agreed, NEW more, agreed \subseteq more, JobStands(job, agreed)
  PROVE  JobStands(later, more)
<1>1. JobMaySend(later, more) BY DEF JobStands, JobMaySend
<1>2. OwnVectors(later) BY DEF JobStands, OwnVectors
<1> QED BY <1>1, <1>2 DEF JobStands

LEMMA PlacesStay ==
  ASSUME NEW me, NEW jobs, NEW later, Kept(jobs, later), KnowsText(me, jobs)
  PROVE  KnowsText(me, later)
  BY DEF KnowsText, Kept

\* A step that keeps the jobs, and says of what it changes that it stands.
LEMMA IndexGoesOn ==
  ASSUME RagIInv, RagShape', Pointers', Kept(ragJobs, ragJobs'), rag.version <= rag'.version,
         consents \subseteq consents',
         \A g \in RagNumbers : \/ grants'[g] = grants[g]
                               \/ GrantStands(grants'[g], ragJobs', rag'.version, consents'),
         \A j \in DOMAIN ragJobs' : \/ j \in DOMAIN ragJobs /\ ragJobs'[j].index = ragJobs[j].index
                                    \/ JobStands(ragJobs'[j], consents'),
         \A w \in Indexers : indexer'[w] = indexer[w] \/ KnowsText(indexer'[w], ragJobs'),
         \A s \in sent' : \/ s \in sent
                          \/ \E c \in consents' :
                               /\ c.id = s.id /\ c.revision = s.revision /\ c.provider = s.provider
                               /\ s.version = c.version \/ (c.auto /\ s.version > c.version),
         NothingForgotten'
  PROVE  RagIInv'
<1>1. rag.version \in Nat /\ rag'.version \in Nat BY DEF RagIInv, RagShape, RagRow
<1>2. \A g \in RagNumbers : GrantStands(grants'[g], ragJobs', rag'.version, consents')
  <2> SUFFICES ASSUME NEW g \in RagNumbers, grants'[g] = grants[g]
               PROVE  GrantStands(grants[g], ragJobs', rag'.version, consents')
    OBVIOUS
  <2>1. grants[g] \in GrantRow /\ GrantStands(grants[g], ragJobs, rag.version, consents)
    BY DEF RagIInv, RagShape
  <2> QED BY <2>1, <1>1, GrantsStay
<1>3. \A j \in DOMAIN ragJobs' : JobStands(ragJobs'[j], consents')
  <2> SUFFICES ASSUME NEW j \in DOMAIN ragJobs', j \in DOMAIN ragJobs,
                      ragJobs'[j].index = ragJobs[j].index
               PROVE  JobStands(ragJobs'[j], consents')
    OBVIOUS
  <2>1. JobStands(ragJobs[j], consents) BY DEF RagIInv
  <2> QED BY <2>1, JobsStay DEF Kept
<1>4. \A w \in Indexers : KnowsText(indexer'[w], ragJobs')
  <2> SUFFICES ASSUME NEW w \in Indexers, indexer'[w] = indexer[w]
               PROVE  KnowsText(indexer[w], ragJobs')
    OBVIOUS
  <2>1. KnowsText(indexer[w], ragJobs) BY DEF RagIInv
  <2> QED BY <2>1, PlacesStay
<1>5. SentAsConsented'
  <2>1. \A p \in Questions' : \E c \in consents' : c.provider = p
    <3> SUFFICES ASSUME Searchable' # {} PROVE \E c \in consents' : c.provider = rag'.provider
      BY DEF Questions, QuerySource
    <3>1. serving'.active \in RagNumbers BY DEF RagShape
    <3>2. grants'[serving'.active].revision > 0 /\ grants'[serving'.active].provider = rag'.provider
      BY DEF Searchable
    <3> QED BY <1>2, <3>1, <3>2 DEF GrantStands
  <2>2. ASSUME NEW s \in sent'
        PROVE  \E c \in consents' : /\ c.id = s.id /\ c.revision = s.revision /\ c.provider = s.provider
                                    /\ s.version = c.version \/ (c.auto /\ s.version > c.version)
    BY DEF RagIInv, SentAsConsented
  <2> QED BY <2>1, <2>2 DEF SentAsConsented
<1> QED BY <1>2, <1>3, <1>4, <1>5 DEF RagIInv

----------------
(* The job.                                                                   *)

\* Jobs that are rewritten in place.
SameIndexes(jobs, later) ==
  /\ later \in Seq(IndexJob) /\ DOMAIN later = DOMAIN jobs /\ Kept(jobs, later)
  /\ \A j \in DOMAIN jobs : later[j].index = jobs[j].index

LEMMA Rewritten ==
  ASSUME NEW jobs \in Seq(IndexJob), NEW later, DOMAIN later = DOMAIN jobs,
         later = [j \in DOMAIN jobs |-> later[j]], \A j \in DOMAIN jobs : later[j] \in IndexJob
  PROVE  later \in Seq(IndexJob) /\ Len(later) = Len(jobs)
<1>1. DOMAIN jobs = 1 .. Len(jobs) /\ Len(jobs) \in Nat
  OBVIOUS
<1>2. later \in [1 .. Len(jobs) -> IndexJob] BY <1>1
<1> QED BY <1>1, <1>2

\* One job changes its status, its holder or its request to stop.
LEMMA OneTouched ==
  ASSUME NEW jobs \in Seq(IndexJob), NEW j \in DOMAIN jobs, NEW job \in IndexJob,
         job.grant = jobs[j].grant, job.version = jobs[j].version,
         job.revision = jobs[j].revision, job.provider = jobs[j].provider,
         NEW later, later = [jobs EXCEPT ![j] = job]
  PROVE  /\ later \in Seq(IndexJob) /\ DOMAIN later = DOMAIN jobs /\ Kept(jobs, later)
         /\ \A n \in DOMAIN jobs : n # j => later[n] = jobs[n]
         /\ later[j] = job
         /\ job.index = jobs[j].index => SameIndexes(jobs, later)
<1>1. /\ later \in Seq(IndexJob) /\ DOMAIN later = DOMAIN jobs
      /\ \A n \in DOMAIN jobs : n # j => later[n] = jobs[n]
      /\ later[j] = job
  OBVIOUS
<1>2. Kept(jobs, later) BY <1>1 DEF Kept
<1>3. job.index = jobs[j].index => SameIndexes(jobs, later) BY <1>1, <1>2 DEF SameIndexes
<1> QED BY <1>1, <1>2, <1>3

LEMMA KeptItself == ASSUME NEW jobs PROVE Kept(jobs, jobs)
  BY DEF Kept

LEMMA Settles ==
  ASSUME NEW jobs \in Seq(IndexJob), NEW w \in Indexers, indexer[w].job \in DOMAIN jobs,
         NEW status \in {"done", "failed", "pending"}
  PROVE  SameIndexes(jobs, IndexSettled(w, jobs, status))
<1>1. PICK j \in DOMAIN jobs : j = indexer[w].job
  OBVIOUS
<1>2. CASE jobs[j].holder # w BY <1>1, <1>2, KeptItself DEF IndexSettled, SameIndexes
<1>3. CASE jobs[j].holder = w
  <2>1. PICK ends \in {"done", "failed", "pending", "cancelled"} :
          ends = IF jobs[j].cancel THEN "cancelled" ELSE status
    OBVIOUS
  <2> DEFINE job == [jobs[j] EXCEPT !.holder = NoIndexer, !.status = ends]
  <2>2. jobs[j] \in IndexJob
    OBVIOUS
  <2>3. /\ job \in IndexJob /\ job.grant = jobs[j].grant /\ job.version = jobs[j].version
        /\ job.revision = jobs[j].revision /\ job.provider = jobs[j].provider
        /\ job.index = jobs[j].index
    BY <2>2 DEF IndexJob
  <2>4. IndexSettled(w, jobs, status) = [jobs EXCEPT ![j] = job]
    BY <1>1, <1>3, <2>1 DEF IndexSettled
  <2> HIDE DEF job
  <2>5. SameIndexes(jobs, [jobs EXCEPT ![j] = job]) BY <2>3, OneTouched
  <2> QED BY <2>4, <2>5
<1> QED BY <1>2, <1>3

\* Of the surroundings only the count of troubles changes.
LEMMA TroubleOnly ==
  ASSUME RagShape, RagTrouble(rag) \/ UNCHANGED rag
  PROVE  /\ rag' \in RagRow /\ rag'.version = rag.version /\ rag'.since = rag.since
         /\ rag'.queued = rag.queued /\ rag.version <= rag'.version
<1>1. rag \in RagRow /\ rag.troubles \in Nat /\ rag.version \in Nat BY DEF RagShape, RagRow
<1>2. CASE UNCHANGED rag BY <1>1, <1>2
<1>3. CASE RagTrouble(rag)
  <2>1. PICK more \in Nat : more = rag.troubles + 1 BY <1>1
  <2>2. rag' = [rag EXCEPT !.troubles = more] BY <1>3, <2>1 DEF RagTrouble
  <2>3. rag' \in RagRow /\ rag'.version = rag.version /\ rag'.since = rag.since /\ rag'.queued = rag.queued
    BY <1>1, <2>2 DEF RagRow
  <2> QED BY <1>1, <2>3
<1> QED BY <1>2, <1>3

LEMMA JobStep ==
  ASSUME RagIInv, UNCHANGED <<generations, serving, grants, proof, consents>>,
         RagTrouble(rag) \/ UNCHANGED rag,
         ragJobs' \in Seq(IndexJob), Kept(ragJobs, ragJobs'), DOMAIN ragJobs' = DOMAIN ragJobs,
         indexer' \in [Indexers -> Place],
         \A j \in DOMAIN ragJobs : \/ ragJobs'[j].index = ragJobs[j].index
                                   \/ JobStands(ragJobs'[j], consents),
         \A w \in Indexers : indexer'[w] = indexer[w] \/ KnowsText(indexer'[w], ragJobs'),
         \A s \in sent' : \/ s \in sent
                          \/ \E c \in consents :
                               /\ c.id = s.id /\ c.revision = s.revision /\ c.provider = s.provider
                               /\ s.version = c.version \/ (c.auto /\ s.version > c.version)
  PROVE  RagIInv'
<1>1. /\ rag' \in RagRow /\ rag'.version = rag.version /\ rag'.since = rag.since
      /\ rag'.queued = rag.queued /\ rag.version <= rag'.version
  BY TroubleOnly DEF RagIInv
<1>2. RagShape' BY <1>1 DEF RagIInv, RagShape
<1>3. Pointers' BY DEF RagIInv, Pointers
<1>4. NothingForgotten' BY <1>1 DEF RagIInv, NothingForgotten
<1> QED BY <1>1, <1>2, <1>3, <1>4, IndexGoesOn

\* A goroutine turns to another place of its job.
LEMMA IndexTurns ==
  ASSUME RagShape, NEW w \in Indexers, NEW place \in Place, Indexes(w, place), KnowsText(place, ragJobs')
  PROVE  /\ indexer' \in [Indexers -> Place]
         /\ \A u \in Indexers : indexer'[u] = indexer[u] \/ KnowsText(indexer'[u], ragJobs')
  BY DEF RagShape, Indexes

LEMMA Idle == ASSUME NEW jobs PROVE NoIndexed \in Place /\ KnowsText(NoIndexed, jobs)
  BY DEF NoIndexed, Place, KnowsText

LEMMA StepClaimIndex ==
  ASSUME RagIInv, NEW w \in Indexers, NEW j \in DOMAIN ragJobs, ClaimIndex(w, j) PROVE RagIInv'
<1> DEFINE job == [ragJobs[j] EXCEPT !.status = "running", !.holder = w]
           place == [NoIndexed EXCEPT !.at = "begin", !.job = j]
<1>1. ragJobs \in Seq(IndexJob) /\ ragJobs[j] \in IndexJob /\ j \in Nat BY DEF RagIInv, RagShape
<1>2. /\ job \in IndexJob /\ job.grant = ragJobs[j].grant /\ job.version = ragJobs[j].version
      /\ job.revision = ragJobs[j].revision /\ job.provider = ragJobs[j].provider
      /\ job.index = ragJobs[j].index
  BY <1>1 DEF IndexJob
<1>3. ragJobs' = [ragJobs EXCEPT ![j] = job] BY DEF ClaimIndex
<1> HIDE DEF job
<1>4. SameIndexes(ragJobs, ragJobs')
  <2>1. SameIndexes(ragJobs, [ragJobs EXCEPT ![j] = job]) BY <1>1, <1>2, OneTouched
  <2> QED BY <2>1, <1>3
<1>5. place \in Place /\ KnowsText(place, ragJobs') /\ Indexes(w, place)
  BY <1>1, <1>4 DEF Place, NoIndexed, KnowsText, ClaimIndex, SameIndexes
<1>6. /\ indexer' \in [Indexers -> Place]
      /\ \A u \in Indexers : indexer'[u] = indexer[u] \/ KnowsText(indexer'[u], ragJobs')
  BY <1>5, IndexTurns DEF RagIInv
<1>7. UNCHANGED <<rag, generations, serving, grants, proof, sent, consents>> BY DEF ClaimIndex
<1> QED BY <1>4, <1>6, <1>7, JobStep DEF SameIndexes

LEMMA StepLoseIndex == ASSUME RagIInv, NEW j \in DOMAIN ragJobs, LoseIndex(j) PROVE RagIInv'
<1>1. ragJobs \in Seq(IndexJob) /\ ragJobs[j] \in IndexJob BY DEF RagIInv, RagShape
<1>2. PICK ends \in {"pending", "cancelled"} : ends = IF ragJobs[j].cancel THEN "cancelled" ELSE "pending"
  OBVIOUS
<1> DEFINE job == [ragJobs[j] EXCEPT !.holder = NoIndexer, !.status = ends]
<1>3. /\ job \in IndexJob /\ job.grant = ragJobs[j].grant /\ job.version = ragJobs[j].version
      /\ job.revision = ragJobs[j].revision /\ job.provider = ragJobs[j].provider
      /\ job.index = ragJobs[j].index
  BY <1>1 DEF IndexJob
<1>4. ragJobs' = [ragJobs EXCEPT ![j] = job] BY <1>2 DEF LoseIndex
<1> HIDE DEF job
<1>5. SameIndexes(ragJobs, ragJobs')
  <2>1. SameIndexes(ragJobs, [ragJobs EXCEPT ![j] = job]) BY <1>1, <1>3, OneTouched
  <2> QED BY <2>1, <1>4
<1>6. /\ indexer' \in [Indexers -> Place]
      /\ \A u \in Indexers : indexer'[u] = indexer[u] \/ KnowsText(indexer'[u], ragJobs')
  <2>1. indexer \in [Indexers -> Place] BY DEF RagIInv, RagShape
  <2>2. \A u \in Indexers : indexer'[u] = indexer[u] \/ indexer'[u] = NoIndexed
    BY <2>1 DEF LoseIndex, Indexes
  <2>3. indexer' = [u \in Indexers |-> indexer'[u]] BY <2>1 DEF LoseIndex, Indexes
  <2> QED BY <2>1, <2>2, <2>3, Idle
<1>7. UNCHANGED <<generations, serving, grants, proof, sent, consents>> /\ RagTrouble(rag)
  BY DEF LoseIndex
<1> QED BY <1>5, <1>6, <1>7, JobStep DEF SameIndexes

LEMMA StepFailIndex == ASSUME RagIInv, NEW w \in Indexers, FailIndex(w) PROVE RagIInv'
<1>1. ragJobs \in Seq(IndexJob) /\ indexer[w].job \in DOMAIN ragJobs
  BY DEF RagIInv, RagShape, KnowsText, FailIndex
<1>2. PICK status \in {"failed", "pending"} : ragJobs' = IndexSettled(w, ragJobs, status)
  BY DEF FailIndex
<1>3. SameIndexes(ragJobs, ragJobs') BY <1>1, <1>2, Settles
<1>4. Indexes(w, NoIndexed) /\ (RagTrouble(rag) \/ UNCHANGED rag) BY DEF FailIndex
<1>5. /\ indexer' \in [Indexers -> Place]
      /\ \A u \in Indexers : indexer'[u] = indexer[u] \/ KnowsText(indexer'[u], ragJobs')
  BY <1>4, Idle, IndexTurns DEF RagIInv
<1>6. UNCHANGED <<generations, serving, grants, proof, sent, consents>> BY DEF FailIndex
<1> QED BY <1>3, <1>4, <1>5, <1>6, JobStep DEF SameIndexes

\* What a guard that holds says of the job.
LEMMA WellGuarded ==
  ASSUME RagIInv, NEW w \in Indexers, indexer[w].at # "idle", JobGuard(indexer[w].job)
  PROVE  /\ indexer[w].job \in DOMAIN ragJobs /\ ragJobs[indexer[w].job] \in IndexJob
         /\ rag.version = ragJobs[indexer[w].job].version
         /\ JobStands(ragJobs[indexer[w].job], consents) /\ KnowsText(indexer[w], ragJobs)
         /\ indexer[w] \in Place /\ ragJobs \in Seq(IndexJob)
<1>1. KnowsText(indexer[w], ragJobs) /\ indexer[w].job \in DOMAIN ragJobs BY DEF RagIInv, KnowsText
<1>2. rag.version = ragJobs[indexer[w].job].version BY DEF JobGuard
<1> QED BY <1>1, <1>2 DEF RagIInv, RagShape

\* The index is ready and the job not settled.
LEMMA Settling ==
  ASSUME RagIInv, NEW w \in Indexers, NEW jobs, indexer[w].job \in DOMAIN jobs
  PROVE  LET place == [indexer[w] EXCEPT !.at = "settle"] IN place \in Place /\ KnowsText(place, jobs)
<1>1. indexer[w] \in Place BY DEF RagIInv, RagShape
<1> QED BY <1>1 DEF Place, KnowsText

LEMMA StepSettleIndex == ASSUME RagIInv, NEW w \in Indexers, SettleIndex(w) PROVE RagIInv'
<1>1. ragJobs \in Seq(IndexJob) /\ indexer[w].job \in DOMAIN ragJobs
  BY DEF RagIInv, RagShape, KnowsText, SettleIndex
<1>2. SameIndexes(ragJobs, ragJobs') BY <1>1, Settles DEF SettleIndex
<1>3. /\ indexer' \in [Indexers -> Place]
      /\ \A u \in Indexers : indexer'[u] = indexer[u] \/ KnowsText(indexer'[u], ragJobs')
  BY Idle, IndexTurns DEF RagIInv, SettleIndex
<1> QED BY <1>2, <1>3, JobStep DEF SameIndexes, SettleIndex

LEMMA StepBeginIndex == ASSUME RagIInv, NEW w \in Indexers, BeginIndex(w) PROVE RagIInv'
<1>0. PICK j \in DOMAIN ragJobs : j = indexer[w].job BY WellGuarded DEF BeginIndex
<1>1. /\ indexer[w].at = "begin" /\ ragJobs[j] \in IndexJob /\ rag.version = ragJobs[j].version
      /\ JobStands(ragJobs[j], consents) /\ indexer[w] \in Place /\ ragJobs \in Seq(IndexJob)
  BY <1>0, WellGuarded DEF BeginIndex
<1>2. UNCHANGED <<rag, generations, serving, grants, proof, sent, consents>> BY DEF BeginIndex
<1>3. CASE ragJobs[j].index.status = "ready"
  <2>1. Indexes(w, [indexer[w] EXCEPT !.at = "settle"]) /\ UNCHANGED ragJobs
    BY <1>0, <1>3 DEF BeginIndex
  <2>2. /\ indexer' \in [Indexers -> Place]
        /\ \A u \in Indexers : indexer'[u] = indexer[u] \/ KnowsText(indexer'[u], ragJobs')
    BY <2>1, <1>0, <1>1, Settling, IndexTurns DEF RagIInv
  <2>3. Kept(ragJobs, ragJobs') BY <1>1, <2>1, KeptItself
  <2> QED BY <2>1, <2>2, <2>3, <1>1, <1>2, JobStep
<1>4. CASE ragJobs[j].index.status # "ready"
  <2> DEFINE index == [ragJobs[j].index EXCEPT !.status = "building"]
             job == [ragJobs[j] EXCEPT !.index = index]
             at == IF Len(ragJobs[j].index.vectors) = Batches THEN "close" ELSE "send"
             place == [indexer[w] EXCEPT !.text = rag.version, !.start = Len(ragJobs[j].index.vectors), !.at = at]
  <2>1. ragJobs[j].index \in IndexRow BY <1>1 DEF IndexJob
  <2>2. index \in IndexRow /\ index.vectors = ragJobs[j].index.vectors /\ index.status = "building"
    BY <2>1 DEF IndexRow
  <2>3. /\ job \in IndexJob /\ job.grant = ragJobs[j].grant /\ job.version = ragJobs[j].version
        /\ job.revision = ragJobs[j].revision /\ job.provider = ragJobs[j].provider
        /\ job.index = index
    <3> HIDE DEF index
    <3> QED BY <2>2, <1>1 DEF IndexJob
  <2>4. ragJobs' = [ragJobs EXCEPT ![j] = job] /\ Indexes(w, place)
    BY <1>0, <1>1, <1>4 DEF BeginIndex
  <2> HIDE DEF job
  <2>5. /\ ragJobs' \in Seq(IndexJob) /\ DOMAIN ragJobs' = DOMAIN ragJobs /\ Kept(ragJobs, ragJobs')
        /\ \A n \in DOMAIN ragJobs : n # j => ragJobs'[n] = ragJobs[n]
        /\ ragJobs'[j] = job
    BY <1>1, <2>3, <2>4, OneTouched
  <2>6. JobStands(job, consents)
    <3> HIDE DEF index
    <3> QED BY <1>1, <2>2, <2>3 DEF JobStands, JobMaySend, OwnVectors
  <2>7. PICK start \in Nat : start = Len(ragJobs[j].index.vectors) BY <2>1 DEF IndexRow
  <2>8. PICK here \in {"close", "send"} : here = at
    OBVIOUS
  <2>9. place = [indexer[w] EXCEPT !.text = rag.version, !.start = start, !.at = here] BY <2>7, <2>8
  <2>10. rag.version \in Nat BY DEF RagIInv, RagShape, RagRow
  <2>11. start <= Batches /\ (here = "send" => start # Batches)
    BY <1>1, <2>7, <2>8 DEF JobStands, OwnVectors
  <2> HIDE DEF place, at
  <2>12. /\ place \in Place /\ place.job = j /\ place.text = rag.version /\ place.start = start
         /\ place.at = here
    BY <1>0, <1>1, <2>9, <2>10 DEF Place
  <2>13. KnowsText(place, ragJobs') BY <2>3, <2>5, <2>11, <2>12, <1>1, RagAssumption DEF KnowsText
  <2>14. /\ indexer' \in [Indexers -> Place]
         /\ \A u \in Indexers : indexer'[u] = indexer[u] \/ KnowsText(indexer'[u], ragJobs')
    BY <2>4, <2>12, <2>13, IndexTurns DEF RagIInv
  <2> QED BY <2>5, <2>6, <2>14, <1>2, JobStep
<1> QED BY <1>3, <1>4

LEMMA StepSendBatch == ASSUME RagIInv, NEW w \in Indexers, SendBatch(w) PROVE RagIInv'
<1>0. PICK j \in DOMAIN ragJobs : j = indexer[w].job BY WellGuarded DEF SendBatch
<1>1. /\ indexer[w].at = "send" /\ ragJobs[j] \in IndexJob
      /\ JobStands(ragJobs[j], consents) /\ indexer[w] \in Place /\ ragJobs \in Seq(IndexJob)
      /\ KnowsText(indexer[w], ragJobs)
  BY <1>0, WellGuarded DEF SendBatch
<1>2. UNCHANGED <<rag, generations, serving, grants, ragJobs, proof, consents>> BY DEF SendBatch
<1> DEFINE place == [indexer[w] EXCEPT !.at = "store"]
<1>3. place \in Place /\ KnowsText(place, ragJobs') /\ Indexes(w, place)
  BY <1>1, <1>2 DEF Place, KnowsText, SendBatch
<1>4. /\ indexer' \in [Indexers -> Place]
      /\ \A u \in Indexers : indexer'[u] = indexer[u] \/ KnowsText(indexer'[u], ragJobs')
  BY <1>3, IndexTurns DEF RagIInv
<1>5. \A s \in sent' : \/ s \in sent
                       \/ \E c \in consents :
                            /\ c.id = s.id /\ c.revision = s.revision /\ c.provider = s.provider
                            /\ s.version = c.version \/ (c.auto /\ s.version > c.version)
  <2>1. indexer[w].text = ragJobs[j].version BY <1>0, <1>1 DEF KnowsText
  <2>2. sent' = sent \cup {[id |-> ragJobs[j].grant, revision |-> ragJobs[j].revision,
                            version |-> ragJobs[j].version, provider |-> ragJobs[j].provider]}
    BY <2>1, <1>0 DEF SendBatch
  <2> QED BY <2>2, <1>1 DEF JobStands, JobMaySend
<1> QED BY <1>1, <1>2, <1>4, <1>5, KeptItself, JobStep

\* A batch that is stored again takes its own place.
PutAt(s, i, e) == [s EXCEPT ![i] = e]

LEMMA Replaced ==
  ASSUME NEW S, NEW s \in Seq(S), NEW i \in Nat, NEW e \in S, NEW t, t = PutAt(s, i, e)
  PROVE  /\ t \in Seq(S) /\ Len(t) = Len(s) /\ DOMAIN t = DOMAIN s
         /\ \A b \in DOMAIN s : t[b] = IF b = i THEN e ELSE s[b]
<1>1. Len(s) \in Nat /\ DOMAIN s = 1 .. Len(s) /\ s \in [1 .. Len(s) -> S]
  OBVIOUS
<1>2. t \in [1 .. Len(s) -> S] /\ \A b \in DOMAIN s : t[b] = IF b = i THEN e ELSE s[b]
  BY <1>1 DEF PutAt
<1>3. t \in Seq(S) /\ DOMAIN t = 1 .. Len(s) BY <1>1, <1>2
<1>4. Len(t) = Len(s) BY <1>1, <1>3
<1> QED BY <1>1, <1>2, <1>3, <1>4

LEMMA StepStoreBatch == ASSUME RagIInv, NEW w \in Indexers, StoreBatch(w) PROVE RagIInv'
<1>0. PICK j \in DOMAIN ragJobs : j = indexer[w].job BY WellGuarded DEF StoreBatch
<1>1. /\ indexer[w].at = "store" /\ ragJobs[j] \in IndexJob
      /\ JobStands(ragJobs[j], consents) /\ indexer[w] \in Place /\ ragJobs \in Seq(IndexJob)
      /\ KnowsText(indexer[w], ragJobs)
  BY <1>0, WellGuarded DEF StoreBatch
<1>2. UNCHANGED <<rag, generations, serving, grants, proof, sent, consents>> BY DEF StoreBatch
<1>3. indexer[w].start \in Nat /\ indexer[w].start < Batches BY <1>1 DEF Place, KnowsText
<1>4. PICK next \in Nat : next = indexer[w].start + 1 BY <1>3
<1> DEFINE old == ragJobs[j].index.vectors
           vector == <<ragJobs[j].version, ragJobs[j].provider>>
           vectors == IF next <= Len(old) THEN [old EXCEPT ![next] = vector] ELSE Append(old, vector)
           index == [ragJobs[j].index EXCEPT !.vectors = vectors]
           job == [ragJobs[j] EXCEPT !.index = index]
<1>5. /\ ragJobs[j].index \in IndexRow /\ old \in Seq(Nat \X RagProviders)
      /\ vector \in Nat \X RagProviders
  BY <1>1 DEF IndexJob, IndexRow
<1>6. /\ Len(old) \in Nat /\ Len(old) <= Batches /\ \A b \in DOMAIN old : old[b] = vector
      /\ ragJobs[j].index.status = "ready" => Len(old) = Batches
  BY <1>1, <1>5 DEF JobStands, OwnVectors
<1>7. /\ vectors \in Seq(Nat \X RagProviders) /\ Len(vectors) <= Batches
      /\ \A b \in DOMAIN vectors : vectors[b] = vector
      /\ Len(old) = Batches => Len(vectors) = Batches
  <2> HIDE DEF vector, old
  <2>1. CASE next <= Len(old)
    <3>1. vectors = [old EXCEPT ![next] = vector] BY <2>1
    <3> HIDE DEF vectors
    <3>2. vectors \in Seq(Nat \X RagProviders) /\ Len(vectors) = Len(old) /\ DOMAIN vectors = DOMAIN old
      <4> DEFINE S == Nat \X RagProviders
      <4>1. old \in Seq(S) /\ vector \in S /\ vectors = PutAt(old, next, vector)
        BY <1>5, <3>1 DEF PutAt
      <4> HIDE DEF S
      <4>2. vectors \in Seq(S) /\ Len(vectors) = Len(old) /\ DOMAIN vectors = DOMAIN old
        BY <4>1, Replaced
      <4> QED BY <4>2 DEF S
    <3> QED BY <3>1, <3>2, <1>5, <1>6
  <2>2. CASE ~(next <= Len(old))
    <3>1. vectors = Append(old, vector) BY <2>2
    <3> HIDE DEF vectors
    <3>2. /\ vectors \in Seq(Nat \X RagProviders) /\ Len(vectors) = Len(old) + 1
          /\ \A b \in DOMAIN vectors : b \in DOMAIN old \/ b = Len(old) + 1
          /\ \A b \in DOMAIN old : vectors[b] = old[b]
          /\ vectors[Len(old) + 1] = vector
      BY <3>1, <1>5
    <3>3. Len(old) < Batches BY <2>2, <1>3, <1>4, <1>6, RagAssumption
    <3> QED BY <3>2, <3>3, <1>6, RagAssumption
  <2> QED BY <2>1, <2>2
<1> HIDE DEF vectors
<1>8. index \in IndexRow /\ index.vectors = vectors /\ index.status = ragJobs[j].index.status
  BY <1>5, <1>7 DEF IndexRow
<1>9. indexer[w].text = ragJobs[j].version BY <1>0, <1>1 DEF KnowsText
<1>10. ragJobs' = [ragJobs EXCEPT ![j] = job]
  <2>1. CASE next <= Len(old)
    <3>1. ragJobs' = [ragJobs EXCEPT ![j].index.vectors[next] = vector]
      BY <2>1, <1>0, <1>4, <1>9 DEF StoreBatch
    <3> QED BY <3>1, <2>1 DEF vectors
  <2>2. CASE ~(next <= Len(old))
    <3>1. ragJobs' = [ragJobs EXCEPT ![j].index.vectors = Append(@, vector)]
      BY <2>2, <1>0, <1>4, <1>9 DEF StoreBatch
    <3> QED BY <3>1, <2>2 DEF vectors
  <2> QED BY <2>1, <2>2
<1> HIDE DEF index
<1>11. /\ job \in IndexJob /\ job.grant = ragJobs[j].grant /\ job.version = ragJobs[j].version
       /\ job.revision = ragJobs[j].revision /\ job.provider = ragJobs[j].provider
       /\ job.index = index
  BY <1>1, <1>8 DEF IndexJob
<1> HIDE DEF job
<1>12. /\ ragJobs' \in Seq(IndexJob) /\ DOMAIN ragJobs' = DOMAIN ragJobs /\ Kept(ragJobs, ragJobs')
       /\ \A n \in DOMAIN ragJobs : n # j => ragJobs'[n] = ragJobs[n]
       /\ ragJobs'[j] = job
  BY <1>1, <1>10, <1>11, OneTouched
<1>13. JobStands(job, consents)
  <2>1. JobMaySend(job, consents) BY <1>1, <1>11 DEF JobStands, JobMaySend
  <2>2. OwnVectors(job) BY <1>6, <1>7, <1>8, <1>11 DEF OwnVectors
  <2> QED BY <2>1, <2>2 DEF JobStands
<1>14. PICK here \in {"close", "send"} : here = IF next = Batches THEN "close" ELSE "send"
  OBVIOUS
<1> DEFINE place == [indexer[w] EXCEPT !.start = next, !.at = here]
<1>15. Indexes(w, place) BY <1>4, <1>14 DEF StoreBatch
<1>16. /\ place \in Place /\ place.job = j /\ place.text = ragJobs[j].version /\ place.start = next
       /\ place.at = here
  BY <1>0, <1>1, <1>9 DEF Place
<1>17. here = "send" => next < Batches BY <1>3, <1>4, <1>14, RagAssumption
<1> HIDE DEF place
<1>18. KnowsText(place, ragJobs') BY <1>11, <1>12, <1>16, <1>17 DEF KnowsText
<1>19. /\ indexer' \in [Indexers -> Place]
       /\ \A u \in Indexers : indexer'[u] = indexer[u] \/ KnowsText(indexer'[u], ragJobs')
  BY <1>15, <1>16, <1>18, IndexTurns DEF RagIInv
<1> QED BY <1>2, <1>12, <1>13, <1>19, JobStep

LEMMA StepCloseIndex == ASSUME RagIInv, NEW w \in Indexers, CloseIndex(w) PROVE RagIInv'
<1>0. PICK j \in DOMAIN ragJobs : j = indexer[w].job BY WellGuarded DEF CloseIndex
<1>1. /\ indexer[w].at = "close" /\ ragJobs[j] \in IndexJob /\ Len(ragJobs[j].index.vectors) = Batches
      /\ JobStands(ragJobs[j], consents) /\ ragJobs \in Seq(IndexJob)
  BY <1>0, WellGuarded DEF CloseIndex
<1>2. /\ UNCHANGED <<rag, generations, serving, grants, proof, sent, consents>>
      /\ Indexes(w, [indexer[w] EXCEPT !.at = "settle"])
  BY DEF CloseIndex
<1> DEFINE index == [ragJobs[j].index EXCEPT !.status = "ready"]
           job == [ragJobs[j] EXCEPT !.index = index]
<1>3. index \in IndexRow /\ index.vectors = ragJobs[j].index.vectors /\ index.status = "ready"
  BY <1>1 DEF IndexJob, IndexRow
<1>4. ragJobs' = [ragJobs EXCEPT ![j] = job] BY <1>0, <1>1 DEF CloseIndex
<1> HIDE DEF index
<1>5. /\ job \in IndexJob /\ job.grant = ragJobs[j].grant /\ job.version = ragJobs[j].version
      /\ job.revision = ragJobs[j].revision /\ job.provider = ragJobs[j].provider
      /\ job.index = index
  BY <1>1, <1>3 DEF IndexJob
<1>6. JobStands(job, consents) BY <1>1, <1>3, <1>5 DEF JobStands, JobMaySend, OwnVectors
<1> HIDE DEF job
<1>7. /\ ragJobs' \in Seq(IndexJob) /\ DOMAIN ragJobs' = DOMAIN ragJobs /\ Kept(ragJobs, ragJobs')
      /\ \A n \in DOMAIN ragJobs : n # j => ragJobs'[n] = ragJobs[n]
      /\ ragJobs'[j] = job
  BY <1>1, <1>4, <1>5, OneTouched
<1>8. /\ indexer' \in [Indexers -> Place]
      /\ \A u \in Indexers : indexer'[u] = indexer[u] \/ KnowsText(indexer'[u], ragJobs')
  BY <1>0, <1>2, <1>7, Settling, IndexTurns DEF RagIInv
<1> QED BY <1>2, <1>6, <1>7, <1>8, JobStep

----------------
(* The document and the consents.                                             *)

\* Jobs of which some lose their vectors.
Fewer(jobs, later) ==
  /\ later \in Seq(IndexJob) /\ DOMAIN later = DOMAIN jobs /\ Kept(jobs, later)
  /\ \A j \in DOMAIN jobs : later[j].index = jobs[j].index \/ later[j].index = NoVectors

LEMMA NoVectorsStand == NoVectors \in IndexRow /\ NoVectors.vectors = <<>> /\ NoVectors.status = "none"
  BY DEF NoVectors, IndexRow

LEMMA Cleared ==
  ASSUME NEW job, NEW later, later.grant = job.grant, later.version = job.version,
         later.revision = job.revision, later.provider = job.provider, later.index = NoVectors,
         NEW agreed, NEW more, agreed \subseteq more, JobStands(job, agreed)
  PROVE  JobStands(later, more)
<1>1. JobMaySend(later, more) BY DEF JobStands, JobMaySend
<1>2. OwnVectors(later) BY RagAssumption, NoVectorsStand DEF OwnVectors
<1> QED BY <1>1, <1>2 DEF JobStands

LEMMA FewerStand ==
  ASSUME RagIInv, NEW later, Fewer(ragJobs, later), NEW more, consents \subseteq more
  PROVE  \A j \in DOMAIN ragJobs : JobStands(later[j], more)
<1> SUFFICES ASSUME NEW j \in DOMAIN ragJobs PROVE JobStands(later[j], more)
  OBVIOUS
<1>1. JobStands(ragJobs[j], consents) BY DEF RagIInv
<1>2. CASE later[j].index = ragJobs[j].index BY <1>1, <1>2, JobsStay DEF Fewer, Kept
<1>3. CASE later[j].index = NoVectors BY <1>1, <1>3, Cleared DEF Fewer, Kept
<1> QED BY <1>2, <1>3 DEF Fewer

LEMMA ClearedRow ==
  ASSUME NEW job \in IndexJob, NEW later, later = [job EXCEPT !.index = NoVectors]
  PROVE  /\ later \in IndexJob /\ later.grant = job.grant /\ later.version = job.version
         /\ later.revision = job.revision /\ later.provider = job.provider /\ later.index = NoVectors
  BY NoVectorsStand DEF IndexJob

ClearedIn(jobs, later) ==
  /\ DOMAIN later = DOMAIN jobs /\ later = [j \in DOMAIN jobs |-> later[j]]
  /\ \A j \in DOMAIN jobs : later[j] = jobs[j] \/ later[j] = [jobs[j] EXCEPT !.index = NoVectors]

LEMMA SomeCleared ==
  ASSUME NEW jobs \in Seq(IndexJob), NEW later, ClearedIn(jobs, later) PROVE Fewer(jobs, later)
<1>0. /\ DOMAIN later = DOMAIN jobs /\ later = [j \in DOMAIN jobs |-> later[j]]
      /\ \A j \in DOMAIN jobs : later[j] = jobs[j] \/ later[j] = [jobs[j] EXCEPT !.index = NoVectors]
  BY DEF ClearedIn
<1>1. ASSUME NEW j \in DOMAIN jobs
      PROVE  /\ later[j] \in IndexJob
             /\ later[j].grant = jobs[j].grant /\ later[j].version = jobs[j].version
             /\ later[j].revision = jobs[j].revision /\ later[j].provider = jobs[j].provider
             /\ later[j].index = jobs[j].index \/ later[j].index = NoVectors
  <2>1. jobs[j] \in IndexJob
    OBVIOUS
  <2>2. CASE later[j] = jobs[j] BY <2>1, <2>2
  <2>3. CASE later[j] = [jobs[j] EXCEPT !.index = NoVectors] BY <2>1, <2>3, ClearedRow
  <2> QED BY <2>2, <2>3, <1>0
<1>2. later \in Seq(IndexJob) BY <1>0, <1>1, Rewritten
<1> QED BY <1>0, <1>1, <1>2 DEF Fewer, Kept

LEMMA WithoutIndexesIsFewer ==
  ASSUME NEW jobs \in Seq(IndexJob), NEW id PROVE Fewer(jobs, WithoutIndexes(jobs, id))
<1>1. PICK later : later = WithoutIndexes(jobs, id)
  OBVIOUS
<1>2. ClearedIn(jobs, later) BY <1>1 DEF WithoutIndexes, ClearedIn
<1>3. Fewer(jobs, later) BY <1>2, SomeCleared
<1> QED BY <1>1, <1>3

\* A new job comes after those there are.
LEMMA OneMore ==
  ASSUME NEW jobs \in Seq(IndexJob), NEW job \in IndexJob, NEW later, later = Append(jobs, job)
  PROVE  /\ later \in Seq(IndexJob) /\ Len(jobs) \in Nat /\ Len(jobs) + 1 \in DOMAIN later
         /\ later[Len(jobs) + 1] = job /\ DOMAIN jobs \subseteq DOMAIN later
         /\ \A j \in DOMAIN later : j \in DOMAIN jobs \/ j = Len(jobs) + 1
         /\ \A j \in DOMAIN jobs : later[j] = jobs[j]
  OBVIOUS

LEMMA Surroundings ==
  ASSUME NEW new \in RagRow, RagTrouble(new)
  PROVE  /\ rag' \in RagRow /\ rag'.version = new.version /\ rag'.since = new.since
         /\ rag'.queued = new.queued
<1>1. new.troubles \in Nat BY DEF RagRow
<1>2. PICK more \in Nat : more = new.troubles + 1 BY <1>1
<1>3. rag' = [new EXCEPT !.troubles = more] BY <1>2 DEF RagTrouble
<1> QED BY <1>3 DEF RagRow

LEMMA NumbersLater ==
  ASSUME NEW a \in Nat PROVE a + 1 \in Nat /\ a <= a + 1 /\ a <= a /\ a + 1 > 0
  OBVIOUS

LEMMA StepEditIndexed == ASSUME RagIInv, EditIndexed PROVE RagIInv'
<1>0. rag \in RagRow /\ rag.version \in Nat BY DEF RagIInv, RagShape, RagRow
<1>1. PICK version \in Nat : version = rag.version + 1 BY <1>0
<1>2. PICK queued \in BOOLEAN :
        queued = (rag.queued \/ \E g \in RagNumbers : grants[g].active /\ grants[g].auto)
  BY <1>0 DEF RagRow
<1> DEFINE new == [rag EXCEPT !.version = version, !.queued = queued]
<1>3. new \in RagRow /\ new.version = version /\ new.since = rag.since /\ new.queued = queued
  BY <1>0 DEF RagRow
<1>4. RagTrouble(new) BY <1>1, <1>2 DEF EditIndexed
<1> HIDE DEF new
<1>5. rag' \in RagRow /\ rag'.version = version /\ rag'.queued = queued BY <1>3, <1>4, Surroundings
<1>6. UNCHANGED <<generations, serving, grants, ragJobs, indexer, proof, sent, consents>>
  BY DEF EditIndexed
<1>7. RagShape' /\ Pointers' /\ rag.version <= rag'.version
  BY <1>0, <1>1, <1>5, <1>6 DEF RagIInv, RagShape, Pointers
<1>8. NothingForgotten' BY <1>2, <1>5, <1>6 DEF NothingForgotten, RagIInv, RagShape
<1> QED BY <1>6, <1>7, <1>8, KeptItself, IndexGoesOn

LEMMA StepTrashIndexed == ASSUME RagIInv, TrashIndexed PROVE RagIInv'
<1>0. rag \in RagRow /\ rag.version \in Nat /\ ragJobs \in Seq(IndexJob) /\ grants \in [RagNumbers -> GrantRow]
  BY DEF RagIInv, RagShape, RagRow
<1> DEFINE new == [rag EXCEPT !.deleted = TRUE, !.queued = FALSE]
<1>1. new \in RagRow /\ new.version = rag.version /\ RagTrouble(new)
  BY <1>0 DEF RagRow, TrashIndexed
<1> HIDE DEF new
<1>2. rag' \in RagRow /\ rag'.version = rag.version BY <1>1, Surroundings
<1>3. UNCHANGED <<generations, serving, indexer, proof, sent, consents>> BY DEF TrashIndexed
<1>4. Fewer(ragJobs, ragJobs')
  <2>1. ClearedIn(ragJobs, ragJobs') BY DEF TrashIndexed, ClearedIn
  <2> QED BY <2>1, <1>0, SomeCleared
<1>5. ASSUME NEW g \in RagNumbers
      PROVE  /\ grants'[g] \in GrantRow /\ GrantStands(grants'[g], ragJobs', rag.version, consents)
             /\ ~grants'[g].active
  <2>1. /\ grants[g] \in GrantRow /\ grants[g].revision \in Nat
        /\ GrantStands(grants[g], ragJobs, rag.version, consents)
    BY <1>0 DEF RagIInv, GrantRow
  <2>2. GrantStands(grants[g], ragJobs', rag.version, consents)
    BY <2>1, <1>0, <1>4, GrantsStay DEF Fewer
  <2>3. CASE grants[g].active
    <3>1. PICK revision \in Nat : revision = grants[g].revision + 1 BY <2>1
    <3>2. grants'[g] = [grants[g] EXCEPT !.active = FALSE, !.auto = FALSE, !.revision = revision]
      BY <2>3, <3>1 DEF TrashIndexed
    <3>3. /\ grants'[g] \in GrantRow /\ ~grants'[g].active /\ grants'[g].job = grants[g].job
          /\ grants'[g].id = grants[g].id /\ grants'[g].provider = grants[g].provider
      BY <2>1, <3>2 DEF GrantRow
    <3> QED BY <2>2, <2>3, <3>3 DEF GrantStands
  <2>4. CASE ~grants[g].active BY <2>1, <2>2, <2>4 DEF TrashIndexed
  <2> QED BY <2>3, <2>4, <2>1 DEF GrantRow
<1>6. RagShape' /\ Pointers'
  <2>1. grants' \in [RagNumbers -> GrantRow] BY <1>5 DEF TrashIndexed
  <2> QED BY <2>1, <1>2, <1>3, <1>4 DEF RagIInv, RagShape, Pointers, Fewer
<1>7. NothingForgotten' BY <1>5, <1>6 DEF NothingForgotten, RagShape
<1>8. \A j \in DOMAIN ragJobs' : JobStands(ragJobs'[j], consents')
  BY <1>3, <1>4, FewerStand DEF Fewer
<1>9. \A g \in RagNumbers : GrantStands(grants'[g], ragJobs', rag'.version, consents')
  BY <1>2, <1>3, <1>5
<1>10. Kept(ragJobs, ragJobs') /\ rag.version <= rag'.version /\ consents \subseteq consents'
  BY <1>0, <1>2, <1>3, <1>4 DEF Fewer
<1> QED BY <1>3, <1>6, <1>7, <1>8, <1>9, <1>10, IndexGoesOn

LEMMA StepChangeRag == ASSUME RagIInv, ChangeRag PROVE RagIInv'
<1>0. rag \in RagRow /\ rag.version \in Nat BY DEF RagIInv, RagShape, RagRow
<1>1. /\ rag' \in RagRow /\ rag'.version = rag.version /\ rag'.since = rag.since
      /\ rag'.queued = rag.queued
  <2>1. CASE \E p \in RagProviders \ {rag.provider} : RagTrouble([rag EXCEPT !.provider = p])
    <3>1. PICK p \in RagProviders : RagTrouble([rag EXCEPT !.provider = p]) BY <2>1
    <3>2. [rag EXCEPT !.provider = p] \in RagRow BY <1>0 DEF RagRow
    <3> QED BY <1>0, <3>1, <3>2, Surroundings DEF RagRow
  <2>2. CASE RagTrouble([rag EXCEPT !.allowed = ~rag.allowed])
    <3>1. PICK yes \in BOOLEAN : yes = ~rag.allowed
      OBVIOUS
    <3>2. [rag EXCEPT !.allowed = yes] \in RagRow BY <1>0 DEF RagRow
    <3> QED BY <1>0, <2>2, <3>1, <3>2, Surroundings DEF RagRow
  <2>3. CASE RagTrouble([rag EXCEPT !.deleted = FALSE])
    <3>1. [rag EXCEPT !.deleted = FALSE] \in RagRow BY <1>0 DEF RagRow
    <3> QED BY <1>0, <2>3, <3>1, Surroundings DEF RagRow
  <2> QED BY <2>1, <2>2, <2>3 DEF ChangeRag
<1>2. UNCHANGED <<generations, serving, grants, ragJobs, indexer, proof, sent, consents>>
  BY DEF ChangeRag
<1>3. RagShape' /\ Pointers' /\ rag.version <= rag'.version
  BY <1>0, <1>1, <1>2 DEF RagIInv, RagShape, Pointers
<1>4. NothingForgotten' BY <1>1, <1>2 DEF RagIInv, NothingForgotten
<1> QED BY <1>2, <1>3, <1>4, KeptItself, IndexGoesOn

\* A consent: a new job, and what was indexed under it before is cleared.
Renewed(jobs, id, job) == Append(WithoutIndexes(jobs, id), job)

LEMMA OneNewJob ==
  ASSUME NEW jobs \in Seq(IndexJob), NEW id, NEW job \in IndexJob, job.index = NoVectors,
         NEW later, later = Renewed(jobs, id, job)
  PROVE  /\ later \in Seq(IndexJob) /\ Kept(jobs, later) /\ Len(jobs) \in Nat
         /\ Len(jobs) + 1 \in DOMAIN later /\ later[Len(jobs) + 1] = job
         /\ \A j \in DOMAIN later : j \in DOMAIN jobs \/ j = Len(jobs) + 1
         /\ \A j \in DOMAIN jobs : later[j] = WithoutIndexes(jobs, id)[j]
<1>1. PICK cleared : cleared = WithoutIndexes(jobs, id)
  OBVIOUS
<1>2. Fewer(jobs, cleared) BY <1>1, WithoutIndexesIsFewer
<1>3. cleared \in Seq(IndexJob) /\ DOMAIN cleared = DOMAIN jobs /\ Kept(jobs, cleared)
  BY <1>2 DEF Fewer
<1>4. Len(cleared) = Len(jobs) /\ Len(jobs) \in Nat BY <1>3
<1>5. later = Append(cleared, job) BY <1>1 DEF Renewed
<1>6. /\ later \in Seq(IndexJob) /\ Len(cleared) + 1 \in DOMAIN later
      /\ later[Len(cleared) + 1] = job /\ DOMAIN cleared \subseteq DOMAIN later
      /\ \A j \in DOMAIN later : j \in DOMAIN cleared \/ j = Len(cleared) + 1
      /\ \A j \in DOMAIN cleared : later[j] = cleared[j]
  BY <1>3, <1>5, OneMore
<1>7. Kept(jobs, later) BY <1>3, <1>6 DEF Kept
<1> QED BY <1>1, <1>3, <1>4, <1>6, <1>7

\* ... of which the jobs stand, if the new one may send.
LEMMA NewJobStands ==
  ASSUME RagIInv, NEW id, NEW job \in IndexJob, job.index = NoVectors,
         ragJobs' = Append(WithoutIndexes(ragJobs, id), job),
         consents \subseteq consents', JobMaySend(job, consents')
  PROVE  /\ ragJobs' \in Seq(IndexJob) /\ Kept(ragJobs, ragJobs') /\ Len(ragJobs) \in Nat
         /\ Len(ragJobs) + 1 \in DOMAIN ragJobs' /\ ragJobs'[Len(ragJobs) + 1] = job
         /\ \A j \in DOMAIN ragJobs' : JobStands(ragJobs'[j], consents')
<1>1. ragJobs \in Seq(IndexJob) BY DEF RagIInv, RagShape
<1>2. /\ ragJobs' \in Seq(IndexJob) /\ Kept(ragJobs, ragJobs') /\ Len(ragJobs) \in Nat
      /\ Len(ragJobs) + 1 \in DOMAIN ragJobs' /\ ragJobs'[Len(ragJobs) + 1] = job
      /\ \A j \in DOMAIN ragJobs' : j \in DOMAIN ragJobs \/ j = Len(ragJobs) + 1
      /\ \A j \in DOMAIN ragJobs : ragJobs'[j] = WithoutIndexes(ragJobs, id)[j]
  <2>1. ragJobs' = Renewed(ragJobs, id, job) BY DEF Renewed
  <2> QED BY <2>1, <1>1, OneNewJob
<1>3. \A j \in DOMAIN ragJobs : JobStands(WithoutIndexes(ragJobs, id)[j], consents')
  BY <1>1, WithoutIndexesIsFewer, FewerStand
<1>4. JobStands(job, consents') BY RagAssumption, NoVectorsStand DEF JobStands, OwnVectors
<1> QED BY <1>2, <1>3, <1>4

LEMMA ProviderThere ==
  ASSUME RagIInv, NEW g \in RagNumbers, Configured(g) PROVE ProviderOf(g) \in RagProviders
<1>1. rag \in RagRow /\ generations \in Seq(GenRow) /\ g \in Nat
  BY DEF RagIInv, RagShape, RagNumbers
<1>2. CASE g = 0 BY <1>1, <1>2 DEF ProviderOf, RagRow
<1>3. CASE g # 0
  <2>1. g \in DOMAIN generations BY <1>1, <1>3 DEF Configured
  <2>2. generations[g] \in GenRow BY <1>1, <2>1
  <2> QED BY <1>3, <2>2 DEF ProviderOf, GenRow
<1> QED BY <1>2, <1>3

LEMMA StepCreateRAGIndex ==
  ASSUME RagIInv, NEW g \in RagNumbers, NEW auto \in BOOLEAN, CreateRAGIndex(g, auto) PROVE RagIInv'
<1>0. /\ rag \in RagRow /\ rag.version \in Nat /\ ragJobs \in Seq(IndexJob) /\ Len(ragJobs) \in Nat
      /\ grants \in [RagNumbers -> GrantRow] /\ consents \in SUBSET Consent /\ g \in Nat
      /\ grants[g] \in GrantRow /\ grants[g].revision \in Nat /\ grants[g].id \in Nat
  <2>1. RagShape BY DEF RagIInv
  <2>2. /\ rag \in RagRow /\ ragJobs \in Seq(IndexJob) /\ Len(ragJobs) \in Nat
        /\ grants \in [RagNumbers -> GrantRow] /\ consents \in SUBSET Consent
    BY ONLY <2>1 DEF RagShape
  <2>3. g \in Nat /\ grants[g] \in GrantRow BY ONLY <2>2, g \in RagNumbers DEF RagNumbers
  <2> QED BY ONLY <2>2, <2>3 DEF RagRow, GrantRow
<1>1. PICK id \in Nat : id = IF grants[g].revision = 0 THEN g ELSE grants[g].id BY <1>0
<1>2. PICK revision \in Nat : revision = grants[g].revision + 1 BY <1>0
<1>3. PICK provider \in RagProviders : provider = ProviderOf(g) BY ProviderThere DEF CreateRAGIndex
<1>4. PICK n \in Nat : n = Len(ragJobs) + 1 BY <1>0
<1>5. PICK version \in Nat : version = rag.version BY <1>0
<1> DEFINE new == [id |-> id, revision |-> revision, active |-> TRUE, auto |-> auto,
                   provider |-> provider, version |-> version, job |-> n]
           consent == [id |-> id, revision |-> revision, version |-> version,
                       provider |-> provider, auto |-> auto]
<1>6. revision > 0 BY <1>0, <1>2
<1>7. new \in GrantRow /\ consent \in Consent BY DEF GrantRow, Consent
<1>8. /\ grants' = [grants EXCEPT ![g] = new]
      /\ ragJobs' = Append(WithoutIndexes(ragJobs, id), RagJob(new, version))
      /\ rag' = [rag EXCEPT !.queued = StillQueued(g)]
      /\ consents' = consents \cup {consent}
  BY <1>1, <1>2, <1>3, <1>4, <1>5 DEF CreateRAGIndex
<1>9. UNCHANGED <<generations, serving, indexer, proof, sent>> BY DEF CreateRAGIndex
<1>10. PICK queued \in BOOLEAN : queued = StillQueued(g) BY <1>0 DEF StillQueued, RagRow
<1>11. /\ rag' \in RagRow /\ rag'.version = rag.version /\ rag'.since = rag.since
       /\ rag'.queued = queued
  BY <1>0, <1>8, <1>10 DEF RagRow
<1> DEFINE job == RagJob(new, version)
<1>12. /\ job \in IndexJob /\ job.index = NoVectors /\ job.grant = id /\ job.version = version
       /\ job.revision = revision /\ job.provider = provider
  BY NoVectorsStand DEF RagJob, IndexJob
<1>13. new.id = id /\ new.revision = revision /\ new.active /\ new.auto = auto
       /\ new.provider = provider /\ new.version = version /\ new.job = n
  OBVIOUS
<1>14. /\ consents' \in SUBSET Consent /\ consents \subseteq consents' /\ consent \in consents'
       /\ consent.id = id /\ consent.revision = revision /\ consent.version = version
       /\ consent.provider = provider /\ consent.auto = auto
  BY <1>0, <1>7, <1>8
<1>15. ragJobs' = Append(WithoutIndexes(ragJobs, id), job) BY <1>8
<1> HIDE DEF new, consent, job
<1>16. JobMaySend(job, consents') BY <1>12, <1>14 DEF JobMaySend
<1>17. /\ ragJobs' \in Seq(IndexJob) /\ Kept(ragJobs, ragJobs') /\ n \in DOMAIN ragJobs'
       /\ ragJobs'[n] = job /\ \A j \in DOMAIN ragJobs' : JobStands(ragJobs'[j], consents')
  BY <1>4, <1>12, <1>14, <1>15, <1>16, NewJobStands
<1>18. GrantStands(new, ragJobs', rag'.version, consents')
  BY <1>5, <1>6, <1>11, <1>12, <1>13, <1>14, <1>17 DEF GrantStands
<1>19. /\ grants' \in [RagNumbers -> GrantRow] /\ grants'[g] = new
       /\ \A h \in RagNumbers : h # g => grants'[h] = grants[h]
  BY <1>0, <1>7, <1>8
<1>20. RagShape' /\ Pointers' BY <1>9, <1>11, <1>14, <1>17, <1>19 DEF RagIInv, RagShape, Pointers
<1>21. NothingForgotten'
  <2>1. CASE g = serving.active BY <2>1, <1>5, <1>9, <1>11, <1>13, <1>19 DEF NothingForgotten
  <2>2. CASE g # serving.active
    <3>1. serving.active \in RagNumbers /\ grants'[serving.active] = grants[serving.active]
      BY <2>2, <1>19 DEF RagIInv, RagShape
    <3>2. queued = rag.queued BY <2>2, <1>0, <1>10 DEF StillQueued, RagRow
    <3> QED BY <3>1, <3>2, <1>9, <1>11 DEF RagIInv, NothingForgotten
  <2> QED BY <2>1, <2>2
<1>22. \A h \in RagNumbers : \/ grants'[h] = grants[h]
                             \/ GrantStands(grants'[h], ragJobs', rag'.version, consents')
  BY <1>18, <1>19
<1>23. rag.version <= rag'.version BY <1>0, <1>11
<1> QED BY <1>9, <1>14, <1>17, <1>20, <1>21, <1>22, <1>23, IndexGoesOn

LEMMA StepStopRAGIndex ==
  ASSUME RagIInv, NEW g \in RagNumbers, NEW revoke \in BOOLEAN, StopRAGIndex(g, revoke) PROVE RagIInv'
<1>0. /\ rag \in RagRow /\ rag.version \in Nat /\ ragJobs \in Seq(IndexJob)
      /\ grants \in [RagNumbers -> GrantRow] /\ grants[g] \in GrantRow /\ grants[g].revision \in Nat
      /\ GrantStands(grants[g], ragJobs, rag.version, consents)
  BY DEF RagIInv, RagShape, RagRow, GrantRow
<1>1. PICK queued \in BOOLEAN : queued = StillQueued(g) BY <1>0 DEF StillQueued, RagRow
<1>2. PICK revision \in Nat : revision = grants[g].revision + 1 BY <1>0
<1>3. PICK active \in BOOLEAN : active = (grants[g].active /\ ~revoke)
  OBVIOUS
<1> DEFINE old == grants[g]
           new == [old EXCEPT !.active = active, !.auto = FALSE, !.revision = revision]
           stopped == [j \in DOMAIN ragJobs |->
             IF RagLive(j) /\ (j = old.job \/ (ragJobs[j].grant = old.id /\ ragJobs[j].index.status # "none"))
             THEN IndexCancelled(ragJobs[j]) ELSE ragJobs[j]]
           around == [rag EXCEPT !.queued = queued]
<1>4. UNCHANGED <<generations, serving, indexer, proof, sent, consents>> BY DEF StopRAGIndex
<1>5. /\ RagTrouble(around) /\ grants' = [grants EXCEPT ![g] = new]
      /\ ragJobs' = IF revoke THEN WithoutIndexes(stopped, old.id) ELSE stopped
      /\ old.revision > 0
  BY <1>1, <1>2, <1>3 DEF StopRAGIndex
<1>6. /\ around \in RagRow /\ around.version = rag.version /\ around.since = rag.since
      /\ around.queued = queued
  BY <1>0 DEF RagRow
<1>7. /\ new \in GrantRow /\ new.id = old.id /\ new.job = old.job /\ new.provider = old.provider
      /\ ~new.auto /\ new.revision = revision
  BY <1>0 DEF GrantRow
<1>8. SameIndexes(ragJobs, stopped)
  <2>1. ASSUME NEW job \in IndexJob
        PROVE  /\ IndexCancelled(job) \in IndexJob /\ IndexCancelled(job).grant = job.grant
               /\ IndexCancelled(job).version = job.version /\ IndexCancelled(job).revision = job.revision
               /\ IndexCancelled(job).provider = job.provider /\ IndexCancelled(job).index = job.index
    <3>1. PICK ends \in {"pending", "running", "done", "failed", "cancelled"} :
            ends = IF job.status = "pending" THEN "cancelled" ELSE job.status
      BY DEF IndexJob
    <3>2. IndexCancelled(job) = [job EXCEPT !.cancel = TRUE, !.status = ends]
      BY <3>1 DEF IndexCancelled
    <3> QED BY <3>2 DEF IndexJob
  <2>2. \A j \in DOMAIN ragJobs : ragJobs[j] \in IndexJob BY <1>0
  <2>3. /\ DOMAIN stopped = DOMAIN ragJobs /\ stopped = [j \in DOMAIN ragJobs |-> stopped[j]]
        /\ \A j \in DOMAIN ragJobs : stopped[j] = ragJobs[j] \/ stopped[j] = IndexCancelled(ragJobs[j])
    OBVIOUS
  <2> HIDE DEF stopped
  <2>4. \A j \in DOMAIN ragJobs :
          /\ stopped[j] \in IndexJob /\ stopped[j].grant = ragJobs[j].grant
          /\ stopped[j].version = ragJobs[j].version /\ stopped[j].revision = ragJobs[j].revision
          /\ stopped[j].provider = ragJobs[j].provider /\ stopped[j].index = ragJobs[j].index
    BY <2>1, <2>2, <2>3
  <2>5. stopped \in Seq(IndexJob) BY <2>3, <2>4, <1>0, Rewritten
  <2> QED BY <2>3, <2>4, <2>5 DEF SameIndexes, Kept
<1> HIDE DEF new, stopped, around
<1>9. Fewer(ragJobs, ragJobs')
  <2>1. Fewer(ragJobs, stopped) BY <1>8 DEF Fewer, SameIndexes
  <2>2. CASE revoke
    <3>1. Fewer(stopped, ragJobs') BY <2>2, <1>5, <1>8, WithoutIndexesIsFewer DEF SameIndexes
    <3> QED BY <2>1, <3>1 DEF Fewer, Kept
  <2>3. CASE ~revoke BY <2>1, <2>3, <1>5
  <2> QED BY <2>2, <2>3
<1>10. /\ rag' \in RagRow /\ rag'.version = rag.version /\ rag'.since = rag.since
       /\ rag'.queued = queued
  BY <1>5, <1>6, Surroundings
<1>11. /\ grants' \in [RagNumbers -> GrantRow] /\ grants'[g] = new
       /\ \A h \in RagNumbers : h # g => grants'[h] = grants[h]
  BY <1>0, <1>5, <1>7
<1>12. GrantStands(new, ragJobs', rag'.version, consents')
  <2>1. GrantStands(old, ragJobs', rag.version, consents) BY <1>0, <1>9, GrantsStay DEF Fewer
  <2>2. revision > 0 BY <1>0, <1>2
  <2> QED BY <2>1, <2>2, <1>4, <1>5, <1>7, <1>10 DEF GrantStands
<1>13. \A h \in RagNumbers : \/ grants'[h] = grants[h]
                             \/ GrantStands(grants'[h], ragJobs', rag'.version, consents')
  BY <1>11, <1>12
<1>14. RagShape' /\ Pointers' BY <1>4, <1>9, <1>10, <1>11 DEF RagIInv, RagShape, Pointers, Fewer
<1>15. \A j \in DOMAIN ragJobs' : JobStands(ragJobs'[j], consents')
  BY <1>4, <1>9, FewerStand DEF Fewer
<1>16. NothingForgotten'
  <2>1. CASE g = serving.active BY <2>1, <1>4, <1>7, <1>11 DEF NothingForgotten
  <2>2. CASE g # serving.active
    <3>1. serving.active \in RagNumbers /\ grants'[serving.active] = grants[serving.active]
      BY <2>2, <1>11 DEF RagIInv, RagShape
    <3>2. queued = rag.queued BY <2>2, <1>0, <1>1 DEF StillQueued, RagRow
    <3> QED BY <3>1, <3>2, <1>4, <1>10 DEF RagIInv, NothingForgotten
  <2> QED BY <2>1, <2>2
<1>17. Kept(ragJobs, ragJobs') /\ rag.version <= rag'.version /\ consents \subseteq consents'
  BY <1>0, <1>4, <1>9, <1>10 DEF Fewer
<1> QED BY <1>4, <1>13, <1>14, <1>15, <1>16, <1>17, IndexGoesOn

\* The dispatcher writes the grant of the serving generation and takes the
\* document off the queue.
LEMMA StepDispatchRAGDocument == ASSUME RagIInv, DispatchRAGDocument PROVE RagIInv'
<1>0. PICK g \in RagNumbers : g = serving.active BY DEF RagIInv, RagShape
<1>1. /\ rag \in RagRow /\ rag.version \in Nat /\ ragJobs \in Seq(IndexJob) /\ Len(ragJobs) \in Nat
      /\ grants \in [RagNumbers -> GrantRow] /\ grants[g] \in GrantRow
      /\ consents \in SUBSET Consent
      /\ GrantStands(grants[g], ragJobs, rag.version, consents)
  BY DEF RagIInv, RagShape, RagRow
<1>2. UNCHANGED <<generations, serving, indexer, proof, sent, consents>> BY DEF DispatchRAGDocument
<1> DEFINE old == grants[g]
           again == [old EXCEPT !.version = rag.version, !.job = Len(ragJobs) + 1]
<1>3. /\ old.revision > 0
      /\ \/ /\ grants' = [grants EXCEPT ![g].auto = FALSE]
            /\ rag' = [rag EXCEPT !.queued = FALSE] /\ UNCHANGED ragJobs
         \/ /\ RagLive(old.job)
            /\ ragJobs' = IF rag.version = old.version THEN ragJobs
                          ELSE [ragJobs EXCEPT ![old.job] = IndexCancelled(ragJobs[old.job])]
            /\ UNCHANGED <<rag, grants>>
         \/ /\ rag' = [rag EXCEPT !.queued = FALSE]
            /\ rag.version = old.version /\ UNCHANGED <<grants, ragJobs>>
         \/ /\ rag' = [rag EXCEPT !.queued = FALSE]
            /\ old.active /\ old.auto
            /\ grants' = [grants EXCEPT ![g] = again]
            /\ ragJobs' = Append(WithoutIndexes(ragJobs, old.id), RagJob(again, rag.version))
  BY <1>0 DEF DispatchRAGDocument, MayReindex
<1>4. rag.version <= rag.version /\ old.revision \in Nat /\ old.version \in Nat BY <1>1 DEF GrantRow
<1> DEFINE quiet == [rag EXCEPT !.queued = FALSE]
<1>5. quiet \in RagRow /\ quiet.version = rag.version BY <1>1 DEF RagRow
<1>6. CASE /\ grants' = [grants EXCEPT ![g].auto = FALSE]
           /\ rag' = quiet /\ UNCHANGED ragJobs
  <2>1. [old EXCEPT !.auto = FALSE] \in GrantRow BY <1>1 DEF GrantRow
  <2>2. /\ grants' \in [RagNumbers -> GrantRow] /\ grants'[g] = [old EXCEPT !.auto = FALSE]
        /\ \A h \in RagNumbers : h # g => grants'[h] = grants[h]
    BY <2>1, <1>1, <1>6
  <2>3. GrantStands(grants'[g], ragJobs', rag'.version, consents')
    BY <2>2, <1>1, <1>2, <1>5, <1>6 DEF GrantStands, GrantRow
  <2>4. RagShape' /\ Pointers' BY <2>2, <1>2, <1>5, <1>6 DEF RagIInv, RagShape, Pointers
  <2>5. NothingForgotten' BY <2>2, <1>0, <1>1, <1>2 DEF NothingForgotten, GrantRow
  <2>6. /\ Kept(ragJobs, ragJobs') /\ rag.version <= rag'.version /\ consents \subseteq consents'
        /\ UNCHANGED <<ragJobs, indexer, sent, consents>>
    BY <1>1, <1>2, <1>5, <1>6, KeptItself
  <2>7. \A h \in RagNumbers : \/ grants'[h] = grants[h]
                              \/ GrantStands(grants'[h], ragJobs', rag'.version, consents')
    BY <2>2, <2>3
  <2> QED BY <2>4, <2>5, <2>6, <2>7, IndexGoesOn
<1>7. CASE /\ RagLive(old.job)
           /\ ragJobs' = IF rag.version = old.version THEN ragJobs
                         ELSE [ragJobs EXCEPT ![old.job] = IndexCancelled(ragJobs[old.job])]
           /\ UNCHANGED <<rag, grants>>
  <2>1. PICK j \in DOMAIN ragJobs : j = old.job BY <1>1, <1>3, <1>7 DEF GrantStands
  <2>2. ragJobs[j] \in IndexJob BY <1>1
  <2>3. PICK ends \in {"pending", "running", "done", "failed", "cancelled"} :
          ends = IF ragJobs[j].status = "pending" THEN "cancelled" ELSE ragJobs[j].status
    BY <2>2 DEF IndexJob
  <2> DEFINE job == [ragJobs[j] EXCEPT !.cancel = TRUE, !.status = ends]
  <2>4. /\ job \in IndexJob /\ job.grant = ragJobs[j].grant /\ job.version = ragJobs[j].version
        /\ job.revision = ragJobs[j].revision /\ job.provider = ragJobs[j].provider
        /\ job.index = ragJobs[j].index
    BY <2>2 DEF IndexJob
  <2>5. ragJobs' = ragJobs \/ ragJobs' = [ragJobs EXCEPT ![j] = job]
    BY <1>7, <2>1, <2>3 DEF IndexCancelled
  <2> HIDE DEF job
  <2>6. SameIndexes(ragJobs, ragJobs')
    <3>1. SameIndexes(ragJobs, [ragJobs EXCEPT ![j] = job]) BY <2>4, <1>1, OneTouched
    <3>2. SameIndexes(ragJobs, ragJobs) BY <1>1, KeptItself DEF SameIndexes
    <3> QED BY <2>5, <3>1, <3>2
  <2>7. UNCHANGED <<rag, grants, generations, serving, indexer, proof, sent, consents>>
    BY <1>2, <1>7
  <2>8. RagShape' /\ Pointers' /\ NothingForgotten'
    BY <2>6, <2>7 DEF RagIInv, RagShape, Pointers, NothingForgotten, SameIndexes
  <2>9. /\ Kept(ragJobs, ragJobs') /\ rag.version <= rag'.version /\ consents \subseteq consents'
        /\ \A n \in DOMAIN ragJobs' : n \in DOMAIN ragJobs /\ ragJobs'[n].index = ragJobs[n].index
    BY <2>6, <2>7, <1>1 DEF SameIndexes
  <2> QED BY <2>7, <2>8, <2>9, IndexGoesOn
<1>8. CASE rag' = quiet /\ rag.version = old.version /\ UNCHANGED <<grants, ragJobs>>
  <2>1. RagShape' /\ Pointers' BY <1>2, <1>5, <1>8 DEF RagIInv, RagShape, Pointers
  <2>2. NothingForgotten' BY <1>0, <1>2, <1>5, <1>8 DEF NothingForgotten
  <2>3. /\ Kept(ragJobs, ragJobs') /\ rag.version <= rag'.version /\ consents \subseteq consents'
        /\ UNCHANGED <<grants, ragJobs, indexer, sent, consents>>
    BY <1>1, <1>2, <1>5, <1>8, KeptItself
  <2> QED BY <2>1, <2>2, <2>3, IndexGoesOn
<1>9. CASE /\ rag' = quiet
           /\ old.active /\ old.auto
           /\ grants' = [grants EXCEPT ![g] = again]
           /\ ragJobs' = Append(WithoutIndexes(ragJobs, old.id), RagJob(again, rag.version))
  <2>1. PICK n \in Nat : n = Len(ragJobs) + 1 BY <1>1
  <2>2. PICK version \in Nat : version = rag.version BY <1>1
  <2> DEFINE new == [old EXCEPT !.version = version, !.job = n]
  <2>3. /\ again = new /\ new \in GrantRow /\ new.id = old.id /\ new.revision = old.revision
        /\ new.provider = old.provider /\ new.active = old.active /\ new.auto = old.auto
        /\ new.version = version /\ new.job = n
    BY <1>1, <2>1, <2>2 DEF GrantRow
  <2>4. PICK c \in consents : /\ c.id = old.id /\ c.revision = old.revision
                              /\ c.provider = old.provider /\ c.auto /\ c.version <= old.version
    BY <1>1, <1>9 DEF GrantStands
  <2>5. /\ old.provider \in RagProviders /\ c.version \in Nat /\ old.version <= version
    BY <1>1, <1>9, <2>2, <2>4 DEF GrantStands, Consent
  <2>6. c.version <= version /\ (version = c.version \/ version > c.version) BY <2>4, <2>5, <1>4
  <2> HIDE DEF new
  <2> DEFINE job == RagJob(new, version)
  <2>7. /\ job \in IndexJob /\ job.index = NoVectors /\ job.grant = old.id /\ job.version = version
        /\ job.revision = old.revision /\ job.provider = old.provider
    BY <2>3, <2>5, <1>1, NoVectorsStand DEF RagJob, IndexJob, GrantRow
  <2>8. ragJobs' = Append(WithoutIndexes(ragJobs, old.id), job) /\ consents' = consents
    BY <1>2, <1>9, <2>2, <2>3
  <2> HIDE DEF job
  <2>9. JobMaySend(job, consents') BY <2>4, <2>6, <2>7, <2>8 DEF JobMaySend
  <2>10. /\ ragJobs' \in Seq(IndexJob) /\ Kept(ragJobs, ragJobs') /\ n \in DOMAIN ragJobs'
         /\ ragJobs'[n] = job /\ \A j \in DOMAIN ragJobs' : JobStands(ragJobs'[j], consents')
    BY <2>1, <2>7, <2>8, <2>9, NewJobStands
  <2>11. /\ grants' \in [RagNumbers -> GrantRow] /\ grants'[g] = new
         /\ \A h \in RagNumbers : h # g => grants'[h] = grants[h]
    BY <2>3, <1>1, <1>9
  <2>12. rag' \in RagRow /\ rag'.version = version BY <1>5, <1>9, <2>2
  <2>13. GrantStands(new, ragJobs', rag'.version, consents')
    <3>1. new.revision > 0 /\ new.version <= rag'.version BY <1>3, <2>3, <2>12
    <3>2. \E d \in consents' : /\ d.id = new.id /\ d.revision = new.revision /\ d.provider = new.provider
                               /\ d.auto /\ d.version <= new.version
      BY <2>3, <2>4, <2>6, <2>8
    <3>3. /\ new.job \in DOMAIN ragJobs' /\ ragJobs'[new.job].grant = new.id
          /\ ragJobs'[new.job].provider = new.provider
      BY <2>3, <2>7, <2>10
    <3> QED BY <3>1, <3>2, <3>3 DEF GrantStands
  <2>14. RagShape' /\ Pointers' BY <1>2, <2>10, <2>11, <2>12 DEF RagIInv, RagShape, Pointers
  <2>15. NothingForgotten' BY <1>0, <1>2, <2>3, <2>11, <2>12 DEF NothingForgotten
  <2>16. \A h \in RagNumbers : \/ grants'[h] = grants[h]
                               \/ GrantStands(grants'[h], ragJobs', rag'.version, consents')
    BY <2>11, <2>13
  <2>17. rag.version <= rag'.version /\ consents \subseteq consents' BY <1>1, <2>2, <2>8, <2>12
  <2> QED BY <1>2, <2>10, <2>14, <2>15, <2>16, <2>17, IndexGoesOn
<1> QED BY <1>3, <1>6, <1>7, <1>8, <1>9

----------------
(* The generations and the search.                                            *)

LEMMA StepCreateRAGGeneration ==
  ASSUME RagIInv, NEW p \in RagProviders, CreateRAGGeneration(p) PROVE RagIInv'
<1>1. /\ rag \in RagRow /\ rag.version \in Nat /\ rag.provider \in RagProviders
      /\ generations \in Seq(GenRow) /\ grants \in [RagNumbers -> GrantRow]
      /\ serving \in [active : RagNumbers, revision : Nat] /\ proof \in ProofRow
  BY DEF RagIInv, RagShape, RagRow
<1>2. UNCHANGED <<rag, ragJobs, indexer, proof, sent, consents>> BY DEF CreateRAGGeneration
<1> DEFINE next == [status |-> "building", provider |-> p]
           base == [status |-> "active", provider |-> rag.provider]
<1>3. next \in GenRow /\ base \in GenRow BY <1>1 DEF GenRow
<1> HIDE DEF next, base
<1>4. /\ Kept(ragJobs, ragJobs') /\ rag.version <= rag'.version /\ consents \subseteq consents'
  BY <1>1, <1>2, KeptItself
<1>5. CASE serving.active = 0
  <2>1. /\ generations' = <<base, next>> /\ Len(generations') <= MaxGenerations
        /\ serving' = [active |-> 1, revision |-> 1] /\ grants' = GrantsAdopted(grants)
    BY <1>5 DEF CreateRAGGeneration, next, base
  <2>2. generations' \in Seq(GenRow) /\ Len(generations') = 2 /\ 1 \in DOMAIN generations'
    BY <2>1, <1>3
  <2>3. 0 \in RagNumbers /\ 1 \in RagNumbers BY <2>1, <2>2, RagAssumption DEF RagNumbers
  <2>4. serving' \in [active : RagNumbers, revision : Nat] /\ serving'.active = 1 BY <2>1, <2>3
  <2>5. NoGrant \in GrantRow /\ \A jobs, version, agreed : GrantStands(NoGrant, jobs, version, agreed)
    BY DEF NoGrant, GrantRow, GrantStands
  <2>6. /\ grants' \in [RagNumbers -> GrantRow] /\ grants'[1] = grants[0] /\ grants'[0] = NoGrant
        /\ \A h \in RagNumbers : h # 0 /\ h # 1 => grants'[h] = grants[h]
    BY <2>1, <2>3, <2>5, <1>1 DEF GrantsAdopted
  <2>7. proof = NoProof BY <1>5 DEF RagIInv, Pointers
  <2>8. RagShape' /\ Pointers' BY <2>1, <2>2, <2>4, <2>6, <2>7, <1>2 DEF RagIInv, RagShape, Pointers
  <2>9. GrantStands(grants[0], ragJobs', rag'.version, consents') BY <2>3, <1>2 DEF RagIInv
  <2>10. \A h \in RagNumbers : \/ grants'[h] = grants[h]
                               \/ GrantStands(grants'[h], ragJobs', rag'.version, consents')
    BY <2>5, <2>6, <2>9
  <2>11. NothingForgotten' BY <2>4, <2>6, <1>2, <1>5 DEF RagIInv, NothingForgotten
  <2> QED BY <1>2, <1>4, <2>8, <2>10, <2>11, IndexGoesOn
<1>6. CASE serving.active # 0
  <2>1. /\ generations' = Append(generations, next) /\ Len(generations') <= MaxGenerations
        /\ UNCHANGED <<serving, grants>>
    BY <1>6 DEF CreateRAGGeneration, next
  <2>2. generations' \in Seq(GenRow) /\ DOMAIN generations \subseteq DOMAIN generations'
    BY <2>1, <1>1, <1>3
  <2>3. RagShape' /\ Pointers' BY <2>1, <2>2, <1>2, <1>6 DEF RagIInv, RagShape, Pointers
  <2>4. NothingForgotten' BY <2>1, <1>2 DEF RagIInv, NothingForgotten
  <2> QED BY <1>2, <1>4, <2>1, <2>3, <2>4, IndexGoesOn
<1> QED BY <1>5, <1>6

LEMMA StepVerifyRAGGeneration ==
  ASSUME RagIInv, NEW g \in DOMAIN generations, VerifyRAGGeneration(g) PROVE RagIInv'
<1>1. /\ rag \in RagRow /\ rag.version \in Nat /\ rag.provider \in RagProviders
      /\ generations \in Seq(GenRow) /\ grants \in [RagNumbers -> GrantRow]
      /\ serving \in [active : RagNumbers, revision : Nat] /\ g \in Nat
      /\ Len(generations) <= MaxGenerations /\ Len(generations) \in Nat
  BY DEF RagIInv, RagShape, RagRow, Pointers
<1>2. g \in RagNumbers BY <1>1, RagAssumption DEF RagNumbers
<1>3. grants[g].revision \in Nat /\ grants[g].job \in Nat BY <1>1, <1>2 DEF GrantRow
<1>4. CohortOf(g) \in Seq(Nat) BY <1>1, <1>3 DEF CohortOf
<1>5. PICK chosen \in BOOLEAN :
        proof' = [generation |-> g, state |-> serving.revision, provider |-> rag.provider,
                  cohort |-> IF chosen THEN CohortOf(g) ELSE <<>>]
  BY DEF VerifyRAGGeneration
<1>6. PICK cohort \in Seq(Nat) : cohort = IF chosen THEN CohortOf(g) ELSE <<>>
  <2>1. <<>> \in Seq(Nat)
    OBVIOUS
  <2> QED BY <1>4, <2>1, Zenon
<1>7. proof' \in ProofRow /\ proof'.generation = g BY <1>1, <1>5, <1>6 DEF ProofRow
<1>8. UNCHANGED <<rag, generations, serving, grants, ragJobs, indexer, sent, consents>>
  BY DEF VerifyRAGGeneration
<1>9. RagShape' /\ Pointers' /\ NothingForgotten'
  BY <1>7, <1>8 DEF RagIInv, RagShape, Pointers, NothingForgotten
<1>10. rag.version <= rag'.version /\ Kept(ragJobs, ragJobs') BY <1>1, <1>8, KeptItself
<1> QED BY <1>8, <1>9, <1>10, IndexGoesOn

LEMMA NoProofIsARow == NoProof \in ProofRow
  BY DEF NoProof, ProofRow

LEMMA ActivateKeepsJobs == ASSUME RagIInv, ActivateRAGGeneration PROVE SameIndexes(ragJobs, ragJobs')
<1>0. /\ ragJobs \in Seq(IndexJob) /\ grants \in [RagNumbers -> GrantRow]
      /\ serving.active \in RagNumbers
  BY DEF RagIInv, RagShape
<1>1. SameIndexes(ragJobs, ragJobs) BY <1>0, KeptItself DEF SameIndexes
<1>2. CASE ragJobs' = ragJobs BY <1>1, <1>2
<1>3. CASE /\ RagLive(grants[serving.active].job)
           /\ ragJobs' = [ragJobs EXCEPT ![grants[serving.active].job].cancel = TRUE]
  <2>1. GrantStands(grants[serving.active], ragJobs, rag.version, consents) BY <1>0 DEF RagIInv
  <2>2. grants[serving.active].job \in Nat /\ grants[serving.active].job # 0
    BY <1>0, <1>3 DEF GrantRow, RagLive
  <2>3. PICK j \in DOMAIN ragJobs : j = grants[serving.active].job BY <2>1, <2>2 DEF GrantStands
  <2> DEFINE job == [ragJobs[j] EXCEPT !.cancel = TRUE]
  <2>4. ragJobs[j] \in IndexJob BY <1>0
  <2>5. /\ job \in IndexJob /\ job.grant = ragJobs[j].grant /\ job.version = ragJobs[j].version
        /\ job.revision = ragJobs[j].revision /\ job.provider = ragJobs[j].provider
        /\ job.index = ragJobs[j].index
    BY <2>4 DEF IndexJob
  <2>6. ragJobs' = [ragJobs EXCEPT ![j] = job] BY <1>3, <2>3
  <2> HIDE DEF job
  <2>7. SameIndexes(ragJobs, [ragJobs EXCEPT ![j] = job]) BY <1>0, <2>5, OneTouched
  <2> QED BY <2>6, <2>7
<1> QED BY <1>2, <1>3 DEF ActivateRAGGeneration

LEMMA StepActivateRAGGeneration == ASSUME RagIInv, ActivateRAGGeneration PROVE RagIInv'
<1>1. /\ rag \in RagRow /\ rag.version \in Nat /\ ragJobs \in Seq(IndexJob)
      /\ generations \in Seq(GenRow) /\ grants \in [RagNumbers -> GrantRow]
      /\ serving.active \in RagNumbers /\ serving.revision \in Nat
      /\ Len(generations) <= MaxGenerations /\ Len(generations) \in Nat
      /\ proof.generation \in DOMAIN generations
  BY DEF RagIInv, RagShape, RagRow, Pointers, ActivateRAGGeneration
<1>2. PICK g \in DOMAIN generations : g = proof.generation BY <1>1
<1>3. g \in Nat /\ g # 0 /\ g \in RagNumbers /\ generations[g] \in GenRow
  BY <1>1, RagAssumption DEF RagNumbers
<1>4. PICK provider \in RagProviders : provider = generations[g].provider BY <1>3 DEF GenRow
<1>5. UNCHANGED <<grants, indexer, sent, consents>> /\ proof' = NoProof BY DEF ActivateRAGGeneration
<1>6. rag' = [rag EXCEPT !.provider = provider, !.since = rag.version]
  BY <1>2, <1>4 DEF ActivateRAGGeneration
<1>7. rag' \in RagRow /\ rag'.version = rag.version /\ rag'.since = rag.version
  BY <1>1, <1>6 DEF RagRow
<1>8. serving' \in [active : RagNumbers, revision : Nat] /\ serving'.active = g
  <2>1. serving.revision + 1 \in Nat BY <1>1
  <2> QED BY <2>1, <1>2, <1>3 DEF ActivateRAGGeneration
<1>9. generations' \in Seq(GenRow) /\ DOMAIN generations' = DOMAIN generations /\ Len(generations') = Len(generations)
  <2>1. DOMAIN generations = 1 .. Len(generations) BY <1>1
  <2>2. ASSUME NEW n \in DOMAIN generations
        PROVE  /\ [generations[n] EXCEPT !.status = "active"] \in GenRow
               /\ [generations[n] EXCEPT !.status = "retired"] \in GenRow
               /\ generations[n] \in GenRow
    <3>1. generations[n] \in GenRow BY <1>1
    <3> QED BY <3>1 DEF GenRow
  <2>3. generations' \in [1 .. Len(generations) -> GenRow]
    BY <2>1, <2>2, <1>2 DEF ActivateRAGGeneration
  <2> QED BY <2>1, <2>3, <1>1
<1>10. SameIndexes(ragJobs, ragJobs') BY ActivateKeepsJobs
<1>11. RagShape' /\ Pointers'
  BY <1>1, <1>3, <1>5, <1>7, <1>8, <1>9, <1>10, NoProofIsARow
     DEF RagIInv, RagShape, Pointers, SameIndexes
<1>12. NothingForgotten' BY <1>1, <1>7 DEF NothingForgotten
<1>13. /\ Kept(ragJobs, ragJobs') /\ rag.version <= rag'.version /\ consents \subseteq consents'
       /\ \A n \in DOMAIN ragJobs' : n \in DOMAIN ragJobs /\ ragJobs'[n].index = ragJobs[n].index
  BY <1>1, <1>5, <1>7, <1>10 DEF SameIndexes
<1> QED BY <1>5, <1>11, <1>12, <1>13, IndexGoesOn

LEMMA StepDeleteRAGGeneration ==
  ASSUME RagIInv, NEW g \in DOMAIN generations, DeleteRAGGeneration(g) PROVE RagIInv'
<1>1. /\ rag \in RagRow /\ rag.version \in Nat /\ ragJobs \in Seq(IndexJob)
      /\ generations \in Seq(GenRow) /\ grants \in [RagNumbers -> GrantRow]
      /\ Len(generations) <= MaxGenerations /\ Len(generations) \in Nat /\ g \in Nat
      /\ serving.active \in RagNumbers
  BY DEF RagIInv, RagShape, RagRow, Pointers
<1>2. g \in RagNumbers BY <1>1, RagAssumption DEF RagNumbers
<1>3. /\ UNCHANGED <<rag, serving, indexer, sent, consents>>
      /\ grants' = [grants EXCEPT ![g] = NoGrant] /\ serving.active # g
      /\ proof' = proof \/ proof' = NoProof
  BY DEF DeleteRAGGeneration
<1>4. generations' \in Seq(GenRow) /\ DOMAIN generations' = DOMAIN generations /\ Len(generations') = Len(generations)
  <2> DEFINE gone == [generations[g] EXCEPT !.status = "deleted"]
  <2>1. gone \in GenRow
    <3>1. generations[g] \in GenRow BY <1>1
    <3> QED BY <3>1 DEF GenRow
  <2>2. generations' = PutAt(generations, g, gone) BY DEF DeleteRAGGeneration, PutAt
  <2> HIDE DEF gone
  <2> QED BY <2>1, <2>2, <1>1, Replaced
<1>5. Fewer(ragJobs, ragJobs')
  <2>1. Fewer(ragJobs, ragJobs) BY <1>1, KeptItself DEF Fewer
  <2>2. Fewer(ragJobs, WithoutIndexes(ragJobs, grants[g].id)) BY <1>1, WithoutIndexesIsFewer
  <2> QED BY <2>1, <2>2 DEF DeleteRAGGeneration
<1>6. NoGrant \in GrantRow /\ \A jobs, version, agreed : GrantStands(NoGrant, jobs, version, agreed)
  BY DEF NoGrant, GrantRow, GrantStands
<1>7. /\ grants' \in [RagNumbers -> GrantRow] /\ grants'[g] = NoGrant
      /\ \A h \in RagNumbers : h # g => grants'[h] = grants[h]
  BY <1>1, <1>2, <1>3, <1>6
<1>8. RagShape' /\ Pointers'
  <2>1. proof' \in ProofRow /\ (proof' # NoProof => proof' = proof)
    BY <1>3, NoProofIsARow DEF RagIInv, RagShape
  <2>2. Len(generations) = 0 <=> generations = <<>> BY <1>1
  <2>3. Len(generations') = 0 <=> generations' = <<>> BY <1>4
  <2>4. generations = <<>> => generations' = <<>> BY <2>2, <2>3, <1>4
  <2> QED BY <2>1, <2>4, <1>3, <1>4, <1>5, <1>7 DEF RagIInv, RagShape, Pointers, Fewer
<1>9. NothingForgotten'
  <2>1. grants'[serving.active] = grants[serving.active] BY <1>1, <1>3, <1>7
  <2> QED BY <2>1, <1>3 DEF RagIInv, NothingForgotten
<1>10. \A j \in DOMAIN ragJobs' : JobStands(ragJobs'[j], consents')
  BY <1>3, <1>5, FewerStand DEF Fewer
<1>11. \A h \in RagNumbers : \/ grants'[h] = grants[h]
                             \/ GrantStands(grants'[h], ragJobs', rag'.version, consents')
  BY <1>6, <1>7
<1>12. Kept(ragJobs, ragJobs') /\ rag.version <= rag'.version /\ consents \subseteq consents'
  BY <1>1, <1>3, <1>5 DEF Fewer
<1> QED BY <1>3, <1>8, <1>9, <1>10, <1>11, <1>12, IndexGoesOn

LEMMA RagStutter == ASSUME RagIInv, UNCHANGED ragVars PROVE RagIInv'
  BY DEF RagIInv, ragVars, RagShape, Pointers, SentAsConsented, NothingForgotten, Questions,
     QuerySource, Searchable

LEMMA RagStep == ASSUME RagIInv, RagNext PROVE RagIInv'
  BY StepEditIndexed, StepTrashIndexed, StepChangeRag, StepCreateRAGIndex, StepStopRAGIndex,
     StepDispatchRAGDocument, StepActivateRAGGeneration, StepCreateRAGGeneration,
     StepVerifyRAGGeneration, StepDeleteRAGGeneration, StepLoseIndex, StepClaimIndex,
     StepBeginIndex, StepSendBatch, StepStoreBatch, StepCloseIndex, StepSettleIndex, StepFailIndex DEF RagNext

LEMMA RagStart == ASSUME RagInit PROVE RagIInv
<1>1. PICK p \in RagProviders : p = CHOOSE q \in RagProviders : TRUE BY RagAssumption
<1>2. rag = [version |-> 1, deleted |-> FALSE, provider |-> p,
             allowed |-> TRUE, queued |-> FALSE, since |-> 0, troubles |-> 0]
  BY <1>1 DEF RagInit
<1>3. rag \in RagRow BY <1>2 DEF RagRow
<1>4. 0 \in RagNumbers BY RagAssumption DEF RagNumbers
<1>5. NoGrant \in GrantRow /\ \A jobs, version, agreed : GrantStands(NoGrant, jobs, version, agreed)
  BY DEF NoGrant, GrantRow, GrantStands
<1>6. /\ generations = <<>> /\ serving = [active |-> 0, revision |-> 0]
      /\ grants = [g \in RagNumbers |-> NoGrant]
      /\ ragJobs = <<>> /\ indexer = [w \in Indexers |-> NoIndexed]
      /\ proof = NoProof /\ sent = {} /\ consents = {}
  BY DEF RagInit
<1>7. serving \in [active : RagNumbers, revision : Nat] /\ serving.active = 0 BY <1>4, <1>6
<1>8. RagShape BY <1>3, <1>5, <1>6, <1>7, Idle, NoProofIsARow DEF RagShape
<1>9. Pointers BY <1>6, <1>7, RagAssumption DEF Pointers
<1>10. SentAsConsented
  <2>1. Searchable = {} BY <1>4, <1>6, <1>7 DEF Searchable
  <2> QED BY <1>6, <2>1 DEF SentAsConsented, Questions, QuerySource
<1>11. NothingForgotten BY <1>4, <1>6, <1>7 DEF NothingForgotten, NoGrant
<1>12. \A g \in RagNumbers : GrantStands(grants[g], ragJobs, rag.version, consents) BY <1>5, <1>6
<1>13. \A w \in Indexers : KnowsText(indexer[w], ragJobs) BY <1>6, Idle
<1>14. \A j \in DOMAIN ragJobs : JobStands(ragJobs[j], consents) BY <1>6
<1> QED BY <1>8, <1>9, <1>10, <1>11, <1>12, <1>13, <1>14 DEF RagIInv

----------------
(* What the invariant says of the search.                                     *)

LEMMA SearchIsTrue == ASSUME RagIInv PROVE SearchesTheText
<1> SUFFICES ASSUME NEW j \in Searchable
             PROVE  ragJobs[j].index.vectors = [b \in 1 .. Batches |-> <<rag.version, rag.provider>>]
  BY DEF SearchesTheText
<1>1. /\ j \in DOMAIN ragJobs /\ ragJobs[j].index.status = "ready"
      /\ ragJobs[j].version = rag.version /\ ragJobs[j].provider = rag.provider
  BY DEF Searchable
<1>2. ragJobs[j] \in IndexJob /\ OwnVectors(ragJobs[j]) BY <1>1 DEF RagIInv, RagShape, JobStands
<1> DEFINE vectors == ragJobs[j].index.vectors
<1>3. vectors \in Seq(Nat \X RagProviders) BY <1>2 DEF IndexJob, IndexRow
<1>4. Len(vectors) = Batches /\ \A b \in DOMAIN vectors : vectors[b] = <<rag.version, rag.provider>>
  BY <1>1, <1>2 DEF OwnVectors
<1>5. DOMAIN vectors = 1 .. Batches /\ vectors = [b \in DOMAIN vectors |-> vectors[b]] BY <1>3, <1>4
<1> HIDE DEF vectors
<1>6. vectors = [b \in 1 .. Batches |-> <<rag.version, rag.provider>>] BY <1>4, <1>5
<1> QED BY <1>6 DEF vectors

LEMMA FirstKeepsSearch ==
  ASSUME RagIInv, NEW p \in RagProviders, CreateRAGGeneration(p),
                               serving.active = 0, Searchable # {} PROVE Searchable' # {}
<1>1. /\ serving' = [active |-> 1, revision |-> 1] /\ grants' = GrantsAdopted(grants)
      /\ UNCHANGED <<rag, ragJobs>> /\ Len(generations') <= MaxGenerations
      /\ Len(generations') = 2
  BY DEF CreateRAGGeneration
<1>2. 0 \in RagNumbers /\ 1 \in RagNumbers BY <1>1, RagAssumption DEF RagNumbers
<1>3. grants'[1] = grants[0] /\ serving'.active = 1
  BY <1>1, <1>2 DEF GrantsAdopted, RagIInv, RagShape
<1>4. PICK j : j \in Searchable
  OBVIOUS
<1>5. j \in Searchable' BY <1>1, <1>3, <1>4 DEF Searchable
<1> QED BY <1>5

LEMMA ActivateKeepsSearch ==
  ASSUME RagIInv, ActivateRAGGeneration, proof.cohort # <<>> PROVE Searchable' # {}
<1>1. /\ rag \in RagRow /\ serving.active \in RagNumbers
      /\ proof.generation \in DOMAIN generations
      /\ generations \in Seq(GenRow) /\ Len(generations) <= MaxGenerations /\ Len(generations) \in Nat
      /\ grants \in [RagNumbers -> GrantRow]
  BY DEF RagIInv, RagShape, Pointers, ActivateRAGGeneration
<1>2. PICK g \in DOMAIN generations : g = proof.generation BY <1>1
<1>3. g \in RagNumbers BY <1>1, RagAssumption DEF RagNumbers
<1> DEFINE x == grants[g]
<1>4. CohortOf(g) # <<>> BY <1>1, <1>2 DEF ActivateRAGGeneration, StillProved
<1>5. /\ ~rag.deleted /\ x.active /\ rag.allowed
      /\ x.provider = generations[g].provider /\ x.version = rag.version
      /\ ragJobs[x.job].index.status = "ready"
      /\ ragJobs[x.job].version = rag.version /\ ragJobs[x.job].revision = x.revision
  BY <1>4 DEF CohortOf
<1>6. /\ x.revision > 0 /\ x.job \in DOMAIN ragJobs
      /\ ragJobs[x.job].grant = x.id /\ ragJobs[x.job].provider = x.provider
  BY <1>3, <1>5 DEF RagIInv, GrantStands
<1>7. SameIndexes(ragJobs, ragJobs') BY ActivateKeepsJobs
<1>8. /\ rag'.provider = generations[g].provider /\ rag'.version = rag.version
      /\ rag'.deleted = rag.deleted /\ rag'.allowed = rag.allowed
      /\ serving'.active = g /\ grants' = grants
  BY <1>1, <1>2 DEF ActivateRAGGeneration, RagRow
<1>9. x.job \in Searchable' BY <1>5, <1>6, <1>7, <1>8 DEF Searchable, SameIndexes, Kept
<1> QED BY <1>9

\* The pointer of the search moves in two handlers only.
LEMMA SwitchesKeep == ASSUME RagIInv, RagNext PROVE SwitchKeepsSearch
<1>1. \/ serving' = serving
      \/ \E p \in RagProviders : CreateRAGGeneration(p)
      \/ ActivateRAGGeneration
  <2>1. EditIndexed \/ TrashIndexed \/ ChangeRag => serving' = serving
    BY ONLY DEF EditIndexed, TrashIndexed, ChangeRag
  <2>2. ASSUME NEW g \in RagNumbers, NEW yes \in BOOLEAN, CreateRAGIndex(g, yes) \/ StopRAGIndex(g, yes)
        PROVE  serving' = serving
    BY ONLY <2>2 DEF CreateRAGIndex, StopRAGIndex
  <2>3. DispatchRAGDocument => serving' = serving BY ONLY DEF DispatchRAGDocument
  <2>4. ASSUME NEW g \in DOMAIN generations, VerifyRAGGeneration(g) \/ DeleteRAGGeneration(g)
        PROVE  serving' = serving
    BY ONLY <2>4 DEF VerifyRAGGeneration, DeleteRAGGeneration
  <2>5. ASSUME NEW j \in DOMAIN ragJobs, LoseIndex(j) \/ \E w \in Indexers : ClaimIndex(w, j)
        PROVE  serving' = serving
    BY ONLY <2>5 DEF LoseIndex, ClaimIndex
  <2>6. ASSUME NEW w \in Indexers,
               BeginIndex(w) \/ SendBatch(w) \/ StoreBatch(w) \/ CloseIndex(w) \/ SettleIndex(w) \/ FailIndex(w)
        PROVE  serving' = serving
    BY ONLY <2>6 DEF BeginIndex, SendBatch, StoreBatch, CloseIndex, SettleIndex, FailIndex
  <2> QED BY ONLY RagNext, <2>1, <2>2, <2>3, <2>4, <2>5, <2>6 DEF RagNext
<1>2. ASSUME NEW p \in RagProviders, CreateRAGGeneration(p), serving' # serving PROVE SwitchKeepsSearch
  <2>1. proof.cohort = <<>> /\ serving.active = 0
    BY <1>2 DEF CreateRAGGeneration, RagIInv, Pointers, NoProof
  <2> QED BY <1>2, <2>1, FirstKeepsSearch DEF SwitchKeepsSearch
<1>3. ASSUME ActivateRAGGeneration PROVE SwitchKeepsSearch
  <2>1. serving.active # 0 BY <1>3 DEF ActivateRAGGeneration, RagIInv, Pointers
  <2> QED BY <1>3, <2>1, ActivateKeepsSearch DEF SwitchKeepsSearch
<1> QED BY <1>1, <1>2, <1>3 DEF SwitchKeepsSearch

----------------
(* The index: what its type invariant says beyond the shape.                  *)

SentRow == [id : RagNumbers, revision : Nat, version : Nat, provider : RagProviders]

RagBudget == rag.troubles <= RagTroubles
RagQueue  == Len(ragJobs) <= MaxRagJobs /\ \A j \in DOMAIN ragJobs : ragJobs[j].grant \in RagNumbers
RagNames  == (\A g \in RagNumbers : grants[g].id \in RagNumbers) /\ sent \subseteq SentRow
RagSteps  == \A w \in Indexers : indexer[w].job <= MaxRagJobs /\ indexer[w].start <= Batches
RagLimits == RagBudget /\ RagQueue /\ RagNames /\ RagSteps

LEMMA RagLimitsStart == RagInit => RagLimits
<1> SUFFICES ASSUME RagInit PROVE RagLimits
  OBVIOUS
<1>1. RagBudget /\ RagSteps BY RagAssumption DEF RagInit, RagBudget, RagSteps, NoIndexed
<1>2. RagQueue BY RagAssumption DEF RagInit, RagQueue
<1>3. RagNames BY RagAssumption DEF RagInit, RagNames, NoGrant, RagNumbers
<1> QED BY <1>1, <1>2, <1>3 DEF RagLimits

\* The bound on troubles.
LEMMA RagTroubleCounts ==
  ASSUME RagBudget, NEW new \in RagRow, new.troubles = rag.troubles, RagTrouble(new) PROVE RagBudget'
<1>1. PICK n \in Nat : n = new.troubles BY DEF RagRow
<1>2. rag' = [new EXCEPT !.troubles = n + 1] /\ n < RagTroubles BY <1>1 DEF RagTrouble
<1>3. rag'.troubles = n + 1 BY <1>2 DEF RagRow
<1> QED BY <1>2, <1>3, RagAssumption DEF RagBudget

LEMMA RagBudgetSteps == ASSUME RagIInv, RagBudget, RagNext PROVE RagBudget'
<1>0. rag \in RagRow BY DEF RagIInv, RagShape
<1>1. CASE EditIndexed
  <2>1. PICK version \in Nat : version = rag.version + 1 BY <1>0 DEF RagRow
  <2>2. PICK queued \in BOOLEAN :
          queued = (rag.queued \/ \E g \in RagNumbers : grants[g].active /\ grants[g].auto)
    BY <1>0 DEF RagRow
  <2>3. PICK new : new = [rag EXCEPT !.version = version, !.queued = queued]
    OBVIOUS
  <2>4. new \in RagRow /\ new.troubles = rag.troubles BY <1>0, <2>3 DEF RagRow
  <2>5. RagTrouble(new) BY <1>1, <2>1, <2>2, <2>3 DEF EditIndexed
  <2> QED BY <2>4, <2>5, RagTroubleCounts
<1>2. CASE TrashIndexed
  <2>1. PICK new : new = [rag EXCEPT !.deleted = TRUE, !.queued = FALSE]
    OBVIOUS
  <2>2. new \in RagRow /\ new.troubles = rag.troubles BY <1>0, <2>1 DEF RagRow
  <2> QED BY <1>2, <2>1, <2>2, RagTroubleCounts DEF TrashIndexed
<1>3. CASE ChangeRag
  <2>1. PICK p \in RagProviders, yes \in BOOLEAN :
          \/ RagTrouble([rag EXCEPT !.provider = p]) \/ RagTrouble([rag EXCEPT !.allowed = yes])
          \/ RagTrouble([rag EXCEPT !.deleted = FALSE])
    BY <1>0, <1>3 DEF ChangeRag, RagRow
  <2>2. PICK a, b, c : a = [rag EXCEPT !.provider = p] /\ b = [rag EXCEPT !.allowed = yes] /\ c = [rag EXCEPT !.deleted = FALSE]
    OBVIOUS
  <2>3. \A new \in {a, b, c} : new \in RagRow /\ new.troubles = rag.troubles
    BY <1>0, <2>2 DEF RagRow
  <2> QED BY <2>1, <2>2, <2>3, RagTroubleCounts
<1>4. ASSUME NEW g \in RagNumbers, NEW yes \in BOOLEAN, StopRAGIndex(g, yes) PROVE RagBudget'
  <2>1. PICK queued \in BOOLEAN : queued = StillQueued(g) BY <1>0 DEF StillQueued, RagRow
  <2>2. PICK new : new = [rag EXCEPT !.queued = queued]
    OBVIOUS
  <2>3. new \in RagRow /\ new.troubles = rag.troubles BY <1>0, <2>2 DEF RagRow
  <2> QED BY <1>4, <2>1, <2>2, <2>3, RagTroubleCounts DEF StopRAGIndex
<1>5. ASSUME RagTrouble(rag) PROVE RagBudget' BY <1>0, <1>5, RagTroubleCounts
<1>6. ASSUME UNCHANGED rag PROVE RagBudget' BY <1>6 DEF RagBudget
<1>7. ASSUME NEW queued, NEW provider, NEW since,
             \/ rag' = [rag EXCEPT !.queued = queued]
             \/ rag' = [rag EXCEPT !.provider = provider, !.since = since]
      PROVE  RagBudget'
  <2>1. rag'.troubles = rag.troubles BY <1>0, <1>7 DEF RagRow
  <2> QED BY <2>1 DEF RagBudget
<1>8. ASSUME NEW g \in RagNumbers, NEW yes \in BOOLEAN, CreateRAGIndex(g, yes) PROVE RagBudget'
  BY <1>7, <1>8 DEF CreateRAGIndex
<1>9. CASE DispatchRAGDocument BY <1>6, <1>7, <1>9 DEF DispatchRAGDocument
<1>10. CASE ActivateRAGGeneration BY <1>7, <1>10 DEF ActivateRAGGeneration
<1>11. ASSUME NEW j \in DOMAIN ragJobs, LoseIndex(j) \/ \E w \in Indexers : ClaimIndex(w, j) PROVE RagBudget'
  BY <1>5, <1>6, <1>11 DEF LoseIndex, ClaimIndex
<1>12. ASSUME NEW w \in Indexers, FailIndex(w) PROVE RagBudget' BY <1>5, <1>6, <1>12 DEF FailIndex
<1>13. ASSUME NEW w \in Indexers, BeginIndex(w) \/ SendBatch(w) \/ StoreBatch(w) \/ CloseIndex(w)
                                   \/ SettleIndex(w) PROVE RagBudget'
  BY <1>6, <1>13 DEF BeginIndex, SendBatch, StoreBatch, CloseIndex, SettleIndex
<1>14. ASSUME NEW g \in DOMAIN generations, VerifyRAGGeneration(g) \/ DeleteRAGGeneration(g) PROVE RagBudget'
  BY <1>6, <1>14 DEF VerifyRAGGeneration, DeleteRAGGeneration
<1>15. CASE \E p \in RagProviders : CreateRAGGeneration(p) BY <1>6, <1>15 DEF CreateRAGGeneration
<1> QED BY <1>1, <1>2, <1>3, <1>4, <1>8, <1>9, <1>10, <1>11, <1>12, <1>13, <1>14, <1>15 DEF RagNext

\* Jobs that are rewritten in place.
JobsLike(jobs, later) == DOMAIN later = DOMAIN jobs /\ \A j \in DOMAIN jobs : later[j].grant = jobs[j].grant

LEMMA LengthOfDomain ==
  ASSUME NEW m \in Nat, NEW n \in Nat, 1 .. m = 1 .. n PROVE m = n
<1>1. m > 0 => m \in 1 .. n
  OBVIOUS
<1>2. n > 0 => n \in 1 .. m
  OBVIOUS
<1> QED BY <1>1, <1>2

LEMMA RagQueueLike ==
  ASSUME RagIInv, RagIInv', RagQueue, JobsLike(ragJobs, ragJobs') PROVE RagQueue'
<1>1. ragJobs \in Seq(IndexJob) /\ ragJobs' \in Seq(IndexJob) BY DEF RagIInv, RagShape
<1>2. PICK m \in Nat, n \in Nat : m = Len(ragJobs) /\ n = Len(ragJobs') BY <1>1
<1>3. 1 .. m = 1 .. n BY <1>1, <1>2 DEF JobsLike
<1>4. m = n BY <1>3, LengthOfDomain
<1> QED BY <1>2, <1>4 DEF RagQueue, JobsLike

LEMMA RagQueueMore ==
  ASSUME RagIInv, RagQueue, NEW id, NEW job \in IndexJob, job.grant \in RagNumbers, Len(ragJobs) < MaxRagJobs,
         ragJobs' = Append(WithoutIndexes(ragJobs, id), job)
  PROVE  RagQueue'
<1>1. ragJobs \in Seq(IndexJob) BY DEF RagIInv, RagShape
<1>2. PICK cleared : cleared = WithoutIndexes(ragJobs, id)
  OBVIOUS
<1>3. cleared \in Seq(IndexJob) /\ JobsLike(ragJobs, cleared)
  BY <1>1, <1>2, WithoutIndexesIsFewer DEF Fewer, Kept, JobsLike
<1>4. PICK m \in Nat, n \in Nat : m = Len(ragJobs) /\ n = Len(cleared) BY <1>1, <1>3
<1>5. 1 .. m = 1 .. n BY <1>1, <1>3, <1>4 DEF JobsLike
<1>6. m = n BY <1>5, LengthOfDomain
<1>7. /\ ragJobs' = Append(cleared, job) /\ Len(ragJobs') = n + 1
      /\ \A j \in DOMAIN ragJobs' : (j \in DOMAIN cleared /\ ragJobs'[j] = cleared[j]) \/ ragJobs'[j] = job
  BY <1>2, <1>3, <1>4
<1>8. \A j \in DOMAIN ragJobs' : ragJobs'[j].grant \in RagNumbers
  BY <1>3, <1>7 DEF RagQueue, JobsLike
<1> QED BY <1>4, <1>6, <1>7, <1>8, RagAssumption DEF RagQueue

\* One job, or its index, is written.
LEMMA JobsLikeOne ==
  ASSUME NEW jobs \in Seq(IndexJob), NEW j \in DOMAIN jobs, NEW job, job.grant = jobs[j].grant,
         NEW later, later = [jobs EXCEPT ![j] = job]
  PROVE  JobsLike(jobs, later)
  BY DEF JobsLike

LEMMA JobsLikeSettled ==
  ASSUME NEW jobs \in Seq(IndexJob), NEW w \in Indexers, indexer[w].job \in DOMAIN jobs, NEW status
  PROVE  JobsLike(jobs, IndexSettled(w, jobs, status))
<1>1. PICK j \in DOMAIN jobs : j = indexer[w].job
  OBVIOUS
<1>2. PICK ends : ends = IF jobs[j].cancel THEN "cancelled" ELSE status
  OBVIOUS
<1>3. PICK job : job = [jobs[j] EXCEPT !.holder = NoIndexer, !.status = ends]
  OBVIOUS
<1>4. job.grant = jobs[j].grant
  <2>1. jobs[j] \in IndexJob
    OBVIOUS
  <2> QED BY <1>3, <2>1 DEF IndexJob
<1>5. IndexSettled(w, jobs, status) = IF jobs[j].holder # w THEN jobs ELSE [jobs EXCEPT ![j] = job]
  BY <1>1, <1>2, <1>3 DEF IndexSettled
<1>6. JobsLike(jobs, jobs) BY DEF JobsLike
<1>7. JobsLike(jobs, [jobs EXCEPT ![j] = job]) BY <1>4, JobsLikeOne
<1> QED BY <1>5, <1>6, <1>7

LEMMA RagQueueSteps ==
  ASSUME RagIInv, RagIInv', RagQueue, RagNames, RagNext PROVE RagQueue'
<1>0. ragJobs \in Seq(IndexJob) /\ grants \in [RagNumbers -> GrantRow] /\ rag \in RagRow
  BY DEF RagIInv, RagShape
<1>00. \A j \in DOMAIN ragJobs : ragJobs[j] \in IndexJob BY <1>0
<1>1. ASSUME JobsLike(ragJobs, ragJobs') PROVE RagQueue' BY <1>1, RagQueueLike
<1>2. ASSUME UNCHANGED ragJobs PROVE RagQueue' BY <1>2 DEF RagQueue
<1>3. CASE EditIndexed \/ ChangeRag \/ \E p \in RagProviders : CreateRAGGeneration(p)
  BY <1>2, <1>3 DEF EditIndexed, ChangeRag, CreateRAGGeneration
<1>4. CASE TrashIndexed
  <2>1. JobsLike(ragJobs, ragJobs') BY <1>00, <1>4 DEF TrashIndexed, JobsLike, IndexJob
  <2> QED BY <1>1, <2>1
<1>5. ASSUME NEW g \in RagNumbers, NEW yes \in BOOLEAN, CreateRAGIndex(g, yes) PROVE RagQueue'
  <2>1. PICK id \in RagNumbers : id = IF grants[g].revision = 0 THEN g ELSE grants[g].id
    BY DEF RagNames
  <2>2. PICK job : job = ragJobs'[Len(ragJobs')] /\ ragJobs' = Append(WithoutIndexes(ragJobs, id), job) /\ job.grant = id
    <3>1. PICK new : new = [id |-> id, revision |-> grants[g].revision + 1, active |-> TRUE, auto |-> yes,
                            provider |-> ProviderOf(g), version |-> rag.version, job |-> Len(ragJobs) + 1]
      OBVIOUS
    <3>2. PICK job : job = RagJob(new, rag.version)
      OBVIOUS
    <3>3. job.grant = id BY <3>1, <3>2 DEF RagJob
    <3>4. ragJobs' = Append(WithoutIndexes(ragJobs, id), job)
      BY <1>5, <2>1, <3>1, <3>2 DEF CreateRAGIndex
    <3>5. WithoutIndexes(ragJobs, id) \in Seq(IndexJob) BY <1>0, WithoutIndexesIsFewer DEF Fewer
    <3>6. job = ragJobs'[Len(ragJobs')] BY <3>4, <3>5
    <3> QED BY <3>3, <3>4, <3>6
  <2>3. job \in IndexJob
    <3>1. ragJobs' \in Seq(IndexJob) BY DEF RagIInv, RagShape
    <3>2. Len(ragJobs') \in DOMAIN ragJobs'
      <4>1. WithoutIndexes(ragJobs, id) \in Seq(IndexJob) BY <1>0, WithoutIndexesIsFewer DEF Fewer
      <4> QED BY <2>2, <4>1
    <3> QED BY <2>2, <3>1, <3>2
  <2>4. Len(ragJobs) < MaxRagJobs BY <1>5 DEF CreateRAGIndex
  <2> QED BY <2>2, <2>3, <2>4, RagQueueMore
<1>6. ASSUME NEW g \in RagNumbers, NEW yes \in BOOLEAN, StopRAGIndex(g, yes) PROVE RagQueue'
  <2>1. PICK stopped : stopped = [j \in DOMAIN ragJobs |->
          IF RagLive(j) /\ (j = grants[g].job \/ (ragJobs[j].grant = grants[g].id /\ ragJobs[j].index.status # "none"))
          THEN IndexCancelled(ragJobs[j]) ELSE ragJobs[j]]
    OBVIOUS
  <2>2. ragJobs' = IF yes THEN WithoutIndexes(stopped, grants[g].id) ELSE stopped
    BY <1>6, <2>1 DEF StopRAGIndex
  <2>3. \A j \in DOMAIN ragJobs : IndexCancelled(ragJobs[j]) \in IndexJob /\ IndexCancelled(ragJobs[j]).grant = ragJobs[j].grant
    BY <1>00 DEF IndexCancelled, IndexJob
  <2>4. DOMAIN stopped = DOMAIN ragJobs /\ \A j \in DOMAIN ragJobs : stopped[j] \in IndexJob /\ stopped[j].grant = ragJobs[j].grant
    BY <1>00, <2>1, <2>3
  <2>5. JobsLike(ragJobs, WithoutIndexes(stopped, grants[g].id))
    BY <2>4 DEF WithoutIndexes, JobsLike, IndexJob
  <2>6. JobsLike(ragJobs, stopped) BY <2>4 DEF JobsLike
  <2> QED BY <1>1, <2>2, <2>5, <2>6
<1>7. CASE DispatchRAGDocument
  <2> DEFINE g == serving.active
             old == grants[g]
  <2>0. g \in RagNumbers /\ old \in GrantRow /\ old.id \in RagNumbers
    BY <1>0 DEF RagIInv, RagShape, RagNames
  <2>1. CASE UNCHANGED ragJobs BY <1>2, <2>1
  <2>2. CASE RagLive(old.job) /\ ragJobs' = [ragJobs EXCEPT ![old.job] = IndexCancelled(@)]
    <3>1. old.job \in DOMAIN ragJobs
      <4>1. GrantStands(old, ragJobs, rag.version, consents) /\ old.job \in Nat
        BY <2>0 DEF RagIInv, GrantRow
      <4> QED BY <2>2, <4>1 DEF GrantStands, RagLive
    <3>2. PICK job : job = IndexCancelled(ragJobs[old.job])
      OBVIOUS
    <3>3. job.grant = ragJobs[old.job].grant BY <1>00, <3>1, <3>2 DEF IndexCancelled, IndexJob
    <3>4. JobsLike(ragJobs, ragJobs') BY <1>0, <2>2, <3>1, <3>2, <3>3, JobsLikeOne
    <3> QED BY <1>1, <3>4
  <2>3. CASE /\ Len(ragJobs) < MaxRagJobs
             /\ ragJobs' = Append(WithoutIndexes(ragJobs, old.id),
                             RagJob([old EXCEPT !.version = rag.version, !.job = Len(ragJobs) + 1], rag.version))
    <3>1. PICK again : again = [old EXCEPT !.version = rag.version, !.job = Len(ragJobs) + 1]
      OBVIOUS
    <3>2. again.id = old.id BY <2>0, <3>1 DEF GrantRow
    <3>3. PICK job : job = RagJob(again, rag.version)
      OBVIOUS
    <3>4. job.grant \in RagNumbers BY <2>0, <3>2, <3>3 DEF RagJob
    <3>5. ragJobs' = Append(WithoutIndexes(ragJobs, old.id), job) /\ WithoutIndexes(ragJobs, old.id) \in Seq(IndexJob)
      BY <1>0, <2>3, <3>1, <3>3, WithoutIndexesIsFewer DEF Fewer
    <3>6. job = ragJobs'[Len(ragJobs')] /\ Len(ragJobs') \in DOMAIN ragJobs' BY <3>5
    <3>7. job \in IndexJob BY <3>6 DEF RagIInv, RagShape
    <3> QED BY <2>3, <3>4, <3>5, <3>7, RagQueueMore
  <2> QED BY <1>7, <2>1, <2>2, <2>3 DEF DispatchRAGDocument
<1>8. ASSUME NEW j \in DOMAIN ragJobs, LoseIndex(j) \/ \E w \in Indexers : ClaimIndex(w, j) PROVE RagQueue'
  <2>1. PICK status, holder : ragJobs' = [ragJobs EXCEPT ![j] = [ragJobs[j] EXCEPT !.status = status, !.holder = holder]]
    <3>1. CASE LoseIndex(j)
      <4>1. PICK ends : ends = IF ragJobs[j].cancel THEN "cancelled" ELSE "pending"
        OBVIOUS
      <4>2. ragJobs' = [ragJobs EXCEPT ![j] = [ragJobs[j] EXCEPT !.status = ends, !.holder = NoIndexer]]
        BY <1>00, <3>1, <4>1 DEF LoseIndex, IndexJob
      <4> QED BY <4>2
    <3>2. ASSUME NEW w \in Indexers, ClaimIndex(w, j)
          PROVE  ragJobs' = [ragJobs EXCEPT ![j] = [ragJobs[j] EXCEPT !.status = "running", !.holder = w]]
      BY <3>2 DEF ClaimIndex
    <3> QED BY <1>8, <3>1, <3>2
  <2>2. PICK job : job = [ragJobs[j] EXCEPT !.status = status, !.holder = holder]
    OBVIOUS
  <2>3. job.grant = ragJobs[j].grant BY <1>00, <2>2 DEF IndexJob
  <2>4. JobsLike(ragJobs, ragJobs') BY <1>0, <2>1, <2>2, <2>3, JobsLikeOne
  <2> QED BY <1>1, <2>4
<1>9. ASSUME NEW w \in Indexers, BeginIndex(w) \/ SendBatch(w) \/ StoreBatch(w) \/ CloseIndex(w)
                                  \/ SettleIndex(w) \/ FailIndex(w)
      PROVE  RagQueue'
  <2>1. PICK j \in DOMAIN ragJobs : j = indexer[w].job
    BY <1>9 DEF RagIInv, KnowsText, BeginIndex, SendBatch, StoreBatch, CloseIndex, SettleIndex, FailIndex
  <2>2. CASE UNCHANGED ragJobs BY <1>2, <2>2
  <2>3. ASSUME NEW status, ragJobs' = IndexSettled(w, ragJobs, status) PROVE RagQueue'
    BY <1>0, <1>1, <2>1, <2>3, JobsLikeSettled
  <2>4. ASSUME NEW index, ragJobs' = [ragJobs EXCEPT ![j] = [ragJobs[j] EXCEPT !.index = index]] PROVE RagQueue'
    <3>1. PICK job : job = [ragJobs[j] EXCEPT !.index = index]
      OBVIOUS
    <3>2. job.grant = ragJobs[j].grant BY <1>00, <3>1 DEF IndexJob
    <3> QED BY <1>0, <1>1, <2>4, <3>1, <3>2, JobsLikeOne
  <2>5. CASE BeginIndex(w)
    <3>1. CASE UNCHANGED ragJobs BY <2>2, <3>1
    <3>2. CASE ragJobs' = [ragJobs EXCEPT ![j].index.status = "building"]
      <4>1. PICK index : index = [ragJobs[j].index EXCEPT !.status = "building"]
        OBVIOUS
      <4>2. ragJobs' = [ragJobs EXCEPT ![j] = [ragJobs[j] EXCEPT !.index = index]]
        BY <1>00, <3>2, <4>1 DEF IndexJob, IndexRow
      <4> QED BY <2>4, <4>2
    <3> QED BY <2>1, <2>5, <3>1, <3>2 DEF BeginIndex
  <2>6. CASE StoreBatch(w)
    <3>1. ragJobs[j] \in IndexJob /\ ragJobs[j].index \in IndexRow BY <1>00 DEF IndexJob
    <3>2. PICK next, vector : \/ ragJobs' = [ragJobs EXCEPT ![j].index.vectors[next] = vector]
                              \/ ragJobs' = [ragJobs EXCEPT ![j].index.vectors = Append(@, vector)]
      BY <2>1, <2>6 DEF StoreBatch
    <3>3. PICK vectors : ragJobs' = [ragJobs EXCEPT ![j].index.vectors = vectors]
      <4>1. CASE ragJobs' = [ragJobs EXCEPT ![j].index.vectors[next] = vector]
        <5>1. ragJobs' = [ragJobs EXCEPT ![j].index.vectors = [ragJobs[j].index.vectors EXCEPT ![next] = vector]]
          BY <4>1
        <5> QED BY <5>1
      <4>2. CASE ragJobs' = [ragJobs EXCEPT ![j].index.vectors = Append(@, vector)]
        <5>1. ragJobs' = [ragJobs EXCEPT ![j].index.vectors = Append(ragJobs[j].index.vectors, vector)]
          BY <3>1, <4>2 DEF IndexJob, IndexRow
        <5> QED BY <5>1
      <4> QED BY <3>2, <4>1, <4>2
    <3>4. PICK index : index = [ragJobs[j].index EXCEPT !.vectors = vectors]
      OBVIOUS
    <3>5. ragJobs' = [ragJobs EXCEPT ![j] = [ragJobs[j] EXCEPT !.index = index]]
      BY <3>1, <3>3, <3>4 DEF IndexJob, IndexRow
    <3> QED BY <2>4, <3>5
  <2>7. CASE CloseIndex(w)
    <3>1. PICK index : index = [ragJobs[j].index EXCEPT !.status = "ready"]
      OBVIOUS
    <3>2. ragJobs' = [ragJobs EXCEPT ![j] = [ragJobs[j] EXCEPT !.index = index]]
      BY <1>00, <2>1, <2>7, <3>1 DEF CloseIndex, IndexJob, IndexRow
    <3> QED BY <2>4, <3>2
  <2> QED BY <1>9, <2>2, <2>3, <2>5, <2>6, <2>7 DEF SendBatch, SettleIndex, FailIndex
<1>10. CASE ActivateRAGGeneration
  <2>1. CASE UNCHANGED ragJobs BY <1>2, <2>1
  <2>2. CASE ragJobs' = [ragJobs EXCEPT ![grants[serving.active].job].cancel = TRUE]
    <3>1. JobsLike(ragJobs, ragJobs') BY <1>00, <2>2 DEF JobsLike, IndexJob
    <3> QED BY <1>1, <3>1
  <2> QED BY <1>10, <2>1, <2>2 DEF ActivateRAGGeneration
<1>11. ASSUME NEW g \in DOMAIN generations, VerifyRAGGeneration(g) \/ DeleteRAGGeneration(g) PROVE RagQueue'
  <2>1. UNCHANGED ragJobs \/ ragJobs' = WithoutIndexes(ragJobs, grants[g].id)
    BY <1>11 DEF VerifyRAGGeneration, DeleteRAGGeneration
  <2>2. JobsLike(ragJobs, WithoutIndexes(ragJobs, grants[g].id))
    BY <1>00 DEF JobsLike, WithoutIndexes, IndexJob
  <2> QED BY <1>1, <1>2, <2>1, <2>2
<1> QED BY <1>3, <1>4, <1>5, <1>6, <1>7, <1>8, <1>9, <1>10, <1>11 DEF RagNext

LEMMA RagNamesSteps ==
  ASSUME RagIInv, RagQueue, RagNames, RagNext PROVE RagNames'
<1>0. /\ ragJobs \in Seq(IndexJob) /\ grants \in [RagNumbers -> GrantRow] /\ rag \in RagRow
      /\ indexer \in [Indexers -> Place]
  BY DEF RagIInv, RagShape
<1>1. CASE UNCHANGED <<grants, sent>> BY <1>1 DEF RagNames, SentRow
<1>2. ASSUME sent' = sent, \A g \in RagNumbers : grants'[g].id \in RagNumbers PROVE RagNames'
  BY <1>2 DEF RagNames, SentRow
<1>3. ASSUME NEW g \in RagNumbers, NEW new, new.id \in RagNumbers, grants' = [grants EXCEPT ![g] = new], sent' = sent
      PROVE  RagNames'
  <2>1. \A h \in RagNumbers : grants'[h].id \in RagNumbers BY <1>0, <1>3 DEF RagNames
  <2> QED BY <1>2, <1>3, <2>1
<1>4. \A g \in RagNumbers : grants[g] \in GrantRow /\ grants[g].id \in RagNumbers
  BY <1>0 DEF RagNames
<1>5. CASE TrashIndexed
  <2>1. ASSUME NEW g \in RagNumbers PROVE grants'[g].id = grants[g].id
    <3>1. PICK revision : revision = grants[g].revision + 1
      OBVIOUS
    <3>2. grants'[g] = IF grants[g].active THEN [grants[g] EXCEPT !.active = FALSE, !.auto = FALSE, !.revision = revision]
                       ELSE grants[g]
      BY <1>4, <1>5, <3>1 DEF TrashIndexed, GrantRow
    <3> QED BY <1>4, <3>2 DEF GrantRow
  <2> QED BY <1>2, <1>4, <1>5, <2>1 DEF TrashIndexed
<1>6. ASSUME NEW g \in RagNumbers, NEW yes \in BOOLEAN, CreateRAGIndex(g, yes) PROVE RagNames'
  <2>1. PICK id \in RagNumbers : id = IF grants[g].revision = 0 THEN g ELSE grants[g].id BY <1>4
  <2>2. PICK new : new = [id |-> id, revision |-> grants[g].revision + 1, active |-> TRUE, auto |-> yes,
                          provider |-> ProviderOf(g), version |-> rag.version, job |-> Len(ragJobs) + 1]
    OBVIOUS
  <2>3. new.id = id BY <2>2
  <2>4. grants' = [grants EXCEPT ![g] = new] /\ sent' = sent BY <1>6, <2>1, <2>2 DEF CreateRAGIndex
  <2> QED BY <1>3, <2>3, <2>4
<1>7. ASSUME NEW g \in RagNumbers, NEW yes \in BOOLEAN, StopRAGIndex(g, yes) PROVE RagNames'
  <2>1. PICK active, revision : active = (grants[g].active /\ ~yes) /\ revision = grants[g].revision + 1
    OBVIOUS
  <2>2. PICK new : new = [grants[g] EXCEPT !.active = active, !.auto = FALSE, !.revision = revision]
    OBVIOUS
  <2>3. new.id = grants[g].id BY <1>4, <2>2 DEF GrantRow
  <2>4. grants' = [grants EXCEPT ![g] = new] /\ sent' = sent
    BY <1>4, <1>7, <2>1, <2>2 DEF StopRAGIndex, GrantRow
  <2> QED BY <1>3, <1>4, <2>3, <2>4
<1>8. CASE DispatchRAGDocument
  <2>0. serving.active \in RagNumbers BY DEF RagIInv, RagShape
  <2>1. CASE grants' = [grants EXCEPT ![serving.active].auto = FALSE]
    <3>1. PICK new : new = [grants[serving.active] EXCEPT !.auto = FALSE]
      OBVIOUS
    <3>2. new.id = grants[serving.active].id BY <1>4, <2>0, <3>1 DEF GrantRow
    <3>3. grants' = [grants EXCEPT ![serving.active] = new] BY <1>0, <2>0, <2>1, <3>1 DEF GrantRow
    <3> QED BY <1>3, <1>4, <1>8, <2>0, <3>2, <3>3 DEF DispatchRAGDocument
  <2>2. CASE grants' = [grants EXCEPT ![serving.active] =
               [grants[serving.active] EXCEPT !.version = rag.version, !.job = Len(ragJobs) + 1]]
    <3>1. PICK new : new = [grants[serving.active] EXCEPT !.version = rag.version, !.job = Len(ragJobs) + 1]
      OBVIOUS
    <3>2. new.id = grants[serving.active].id BY <1>4, <2>0, <3>1 DEF GrantRow
    <3> QED BY <1>3, <1>4, <1>8, <2>0, <2>2, <3>1, <3>2 DEF DispatchRAGDocument
  <2> QED BY <1>1, <1>8, <2>1, <2>2 DEF DispatchRAGDocument
<1>9. ASSUME NEW p \in RagProviders, CreateRAGGeneration(p) PROVE RagNames'
  <2>1. NoGrant.id \in RagNumbers BY RagAssumption DEF NoGrant, RagNumbers
  <2>2. 0 \in RagNumbers BY RagAssumption DEF RagNumbers
  <2>3. \A h \in RagNumbers : GrantsAdopted(grants)[h].id \in RagNumbers
    BY <1>0, <1>4, <2>1, <2>2 DEF GrantsAdopted
  <2>4. grants' = grants \/ grants' = GrantsAdopted(grants) BY <1>9 DEF CreateRAGGeneration
  <2> QED BY <1>2, <1>4, <1>9, <2>3, <2>4 DEF CreateRAGGeneration
<1>10. ASSUME NEW g \in DOMAIN generations, DeleteRAGGeneration(g) PROVE RagNames'
  <2>1. NoGrant.id \in RagNumbers BY RagAssumption DEF NoGrant, RagNumbers
  <2>2. \A h \in RagNumbers : grants'[h] = grants[h] \/ grants'[h] = NoGrant
    BY <1>0, <1>10 DEF DeleteRAGGeneration
  <2> QED BY <1>2, <1>4, <1>10, <2>1, <2>2 DEF DeleteRAGGeneration
<1>11. ASSUME NEW w \in Indexers, SendBatch(w) PROVE RagNames'
  <2>1. PICK j \in DOMAIN ragJobs : j = indexer[w].job BY <1>11 DEF RagIInv, KnowsText, SendBatch
  <2>2. ragJobs[j] \in IndexJob /\ indexer[w] \in Place /\ ragJobs[j].grant \in RagNumbers
    BY <1>0, <2>1 DEF RagQueue
  <2>3. PICK new : new = [id |-> ragJobs[j].grant, revision |-> ragJobs[j].revision,
                          version |-> indexer[w].text, provider |-> ragJobs[j].provider]
    OBVIOUS
  <2>4. new \in SentRow BY <2>2, <2>3 DEF SentRow, IndexJob, Place
  <2>5. sent' = sent \cup {new} /\ grants' = grants BY <1>11, <2>1, <2>3 DEF SendBatch
  <2> QED BY <2>4, <2>5 DEF RagNames, SentRow
<1>12. CASE EditIndexed \/ ChangeRag \/ ActivateRAGGeneration
            \/ \E g \in DOMAIN generations : VerifyRAGGeneration(g)
  BY <1>1, <1>12 DEF EditIndexed, ChangeRag, ActivateRAGGeneration, VerifyRAGGeneration
<1>13. ASSUME NEW j \in DOMAIN ragJobs, LoseIndex(j) \/ \E w \in Indexers : ClaimIndex(w, j) PROVE RagNames'
  BY <1>1, <1>13 DEF LoseIndex, ClaimIndex
<1>14. ASSUME NEW w \in Indexers, BeginIndex(w) \/ StoreBatch(w) \/ CloseIndex(w)
                                   \/ SettleIndex(w) \/ FailIndex(w) PROVE RagNames'
  BY <1>1, <1>14 DEF BeginIndex, StoreBatch, CloseIndex, SettleIndex, FailIndex
<1> QED BY <1>5, <1>6, <1>7, <1>8, <1>9, <1>10, <1>11, <1>12, <1>13, <1>14 DEF RagNext

LEMMA RagStepsOf ==
  ASSUME RagIInv, RagSteps, NEW w \in Indexers, NEW place, place.job <= MaxRagJobs /\ place.start <= Batches,
         Indexes(w, place)
  PROVE  RagSteps'
<1>1. \A u \in Indexers : indexer'[u] = IF u = w THEN place ELSE indexer[u]
  BY DEF Indexes, RagIInv, RagShape
<1> QED BY <1>1 DEF RagSteps

LEMMA RagStepsSteps == ASSUME RagIInv, RagQueue, RagSteps, RagNext PROVE RagSteps'
<1>0. ragJobs \in Seq(IndexJob) /\ indexer \in [Indexers -> Place] BY DEF RagIInv, RagShape
<1>1. CASE UNCHANGED indexer BY <1>1 DEF RagSteps
<1>2. NoIndexed.job <= MaxRagJobs /\ NoIndexed.start <= Batches BY RagAssumption DEF NoIndexed
<1>3. ASSUME NEW w \in Indexers, Indexes(w, NoIndexed) PROVE RagSteps' BY <1>2, <1>3, RagStepsOf
<1>4. ASSUME NEW j \in DOMAIN ragJobs, NEW w \in Indexers, ClaimIndex(w, j) PROVE RagSteps'
  <2>1. PICK place : place = [NoIndexed EXCEPT !.at = "begin", !.job = j]
    OBVIOUS
  <2>2. place.job = j /\ place.start = 0 BY <2>1 DEF NoIndexed
  <2>3. j \in Nat /\ j <= Len(ragJobs) /\ Len(ragJobs) \in Nat BY <1>0
  <2>4. place.job <= MaxRagJobs /\ place.start <= Batches BY <2>2, <2>3, RagAssumption DEF RagQueue
  <2> QED BY <1>4, <2>1, <2>4, RagStepsOf DEF ClaimIndex
<1>5. ASSUME NEW j \in DOMAIN ragJobs, LoseIndex(j) PROVE RagSteps'
  <2>1. \A u \in Indexers : indexer'[u] = indexer[u] \/ indexer'[u] = NoIndexed
    BY <1>0, <1>5 DEF LoseIndex, Indexes
  <2> QED BY <1>2, <2>1 DEF RagSteps
<1>20. ASSUME NEW w \in Indexers, Indexes(w, [indexer[w] EXCEPT !.at = "settle"]) PROVE RagSteps'
  <2>1. PICK place : place = [indexer[w] EXCEPT !.at = "settle"]
    OBVIOUS
  <2>2. place.job = indexer[w].job /\ place.start = indexer[w].start BY <1>0, <2>1 DEF Place
  <2> QED BY <1>20, <2>1, <2>2, RagStepsOf DEF RagSteps
<1>6. ASSUME NEW w \in Indexers, BeginIndex(w) PROVE RagSteps'
  <2>1. PICK j \in DOMAIN ragJobs : j = indexer[w].job BY <1>6 DEF RagIInv, KnowsText, BeginIndex
  <2>2. ragJobs[j] \in IndexJob /\ OwnVectors(ragJobs[j]) /\ indexer[w] \in Place
    BY <1>0 DEF RagIInv, JobStands
  <2>3. PICK n \in Nat : n = Len(ragJobs[j].index.vectors) BY <2>2 DEF IndexJob, IndexRow
  <2>4. PICK at : at = IF n = Batches THEN "close" ELSE "send"
    OBVIOUS
  <2>5. PICK place : place = [indexer[w] EXCEPT !.text = rag.version, !.start = n, !.at = at]
    OBVIOUS
  <2>6. place.job = indexer[w].job /\ place.start = n BY <2>2, <2>5 DEF Place
  <2>7. Indexes(w, [indexer[w] EXCEPT !.at = "settle"]) \/ Indexes(w, place)
    BY <1>6, <2>1, <2>3, <2>4, <2>5 DEF BeginIndex
  <2>8. place.job <= MaxRagJobs /\ place.start <= Batches
    BY <2>2, <2>3, <2>6 DEF OwnVectors, RagSteps
  <2> QED BY <1>20, <2>7, <2>8, RagStepsOf
<1>7. ASSUME NEW w \in Indexers, SendBatch(w) PROVE RagSteps'
  <2>1. PICK place : place = [indexer[w] EXCEPT !.at = "store"]
    OBVIOUS
  <2>2. place.job = indexer[w].job /\ place.start = indexer[w].start BY <1>0, <2>1 DEF Place
  <2> QED BY <1>7, <2>1, <2>2, RagStepsOf DEF SendBatch, RagSteps
<1>8. ASSUME NEW w \in Indexers, StoreBatch(w) PROVE RagSteps'
  <2>1. PICK n \in Nat : n = indexer[w].start BY <1>0 DEF Place
  <2>2. n < Batches BY <1>8, <2>1 DEF RagIInv, KnowsText, StoreBatch
  <2>3. PICK at : at = IF n + 1 = Batches THEN "close" ELSE "send"
    OBVIOUS
  <2>4. PICK place : place = [indexer[w] EXCEPT !.start = n + 1, !.at = at]
    OBVIOUS
  <2>5. place.job = indexer[w].job /\ place.start = n + 1 BY <1>0, <2>4 DEF Place
  <2>6. Indexes(w, place) BY <1>8, <2>1, <2>3, <2>4 DEF StoreBatch
  <2>7. place.job <= MaxRagJobs /\ place.start <= Batches BY <2>2, <2>5, RagAssumption DEF RagSteps
  <2> QED BY <2>6, <2>7, RagStepsOf
<1>9. ASSUME NEW w \in Indexers, CloseIndex(w) \/ SettleIndex(w) \/ FailIndex(w) PROVE RagSteps'
  BY <1>3, <1>9, <1>20 DEF CloseIndex, SettleIndex, FailIndex
<1>10. CASE \/ EditIndexed \/ TrashIndexed \/ ChangeRag
            \/ DispatchRAGDocument \/ ActivateRAGGeneration
            \/ \E g \in RagNumbers, yes \in BOOLEAN : CreateRAGIndex(g, yes) \/ StopRAGIndex(g, yes)
            \/ \E p \in RagProviders : CreateRAGGeneration(p)
            \/ \E g \in DOMAIN generations : VerifyRAGGeneration(g) \/ DeleteRAGGeneration(g)
  BY <1>1, <1>10 DEF EditIndexed, TrashIndexed, ChangeRag, DispatchRAGDocument,
     ActivateRAGGeneration, CreateRAGIndex, StopRAGIndex, CreateRAGGeneration, VerifyRAGGeneration, DeleteRAGGeneration
<1> QED BY <1>4, <1>5, <1>6, <1>7, <1>8, <1>9, <1>10 DEF RagNext

LEMMA RagLimitsSteps == ASSUME RagIInv, RagIInv', RagLimits, RagNext PROVE RagLimits'
  BY RagBudgetSteps, RagQueueSteps, RagNamesSteps, RagStepsSteps DEF RagLimits

LEMMA RagTyped == ASSUME RagIInv, RagLimits PROVE RagTypeOK
<1>0. RagShape /\ RagBudget /\ RagQueue /\ RagNames /\ RagSteps BY DEF RagIInv, RagLimits
<1>1. PICK m \in Nat : m = Len(ragJobs) BY <1>0 DEF RagShape
<1>2. rag \in [version : Nat, deleted : BOOLEAN, provider : RagProviders, allowed : BOOLEAN,
               queued : BOOLEAN, since : Nat, troubles : 0 .. RagTroubles]
  BY <1>0, RagAssumption DEF RagShape, RagRow, RagBudget
<1>3. grants \in [RagNumbers -> [id : RagNumbers, revision : Nat, active : BOOLEAN, auto : BOOLEAN,
                            provider : RagProviders \cup {0}, version : Nat, job : 0 .. MaxRagJobs]]
  <2>1. ASSUME NEW g \in RagNumbers PROVE grants[g].job \in 0 .. MaxRagJobs
    <3>1. grants[g] \in GrantRow /\ GrantStands(grants[g], ragJobs, rag.version, consents)
      BY <1>0 DEF RagIInv, RagShape
    <3>2. grants[g].job \in Nat /\ (grants[g].job # 0 => grants[g].job \in 1 .. m)
      BY <1>0, <1>1, <3>1 DEF GrantRow, GrantStands, RagShape
    <3> QED BY <1>0, <1>1, <3>2, RagAssumption DEF RagQueue
  <2> QED BY <1>0, <2>1 DEF RagShape, GrantRow, RagNames
<1>4. ragJobs \in Seq([grant : RagNumbers, version : Nat, revision : Nat, provider : RagProviders,
                    status : {"pending", "running", "done", "failed", "cancelled"}, cancel : BOOLEAN,
                    holder : Indexers \cup {NoIndexer},
                    index : [status : {"none", "building", "ready"}, vectors : Seq(Nat \X RagProviders)]])
  <2> DEFINE S == [grant : RagNumbers, version : Nat, revision : Nat, provider : RagProviders,
                    status : {"pending", "running", "done", "failed", "cancelled"}, cancel : BOOLEAN,
                    holder : Indexers \cup {NoIndexer}, index : IndexRow]
  <2>1. ASSUME NEW j \in DOMAIN ragJobs PROVE ragJobs[j] \in S
    <3>1. ragJobs[j] \in IndexJob BY <1>0 DEF RagShape
    <3>2. ragJobs[j].grant \in RagNumbers BY <1>0 DEF RagQueue
    <3> QED BY <3>1, <3>2 DEF IndexJob
  <2>2. ragJobs \in Seq(IndexJob) /\ DOMAIN ragJobs = 1 .. m BY <1>0, <1>1 DEF RagShape
  <2> HIDE DEF S
  <2>3. ragJobs \in [1 .. m -> S] BY <2>1, <2>2
  <2>4. ragJobs \in Seq(S) BY <2>3
  <2> USE DEF S
  <2> QED BY <2>4 DEF IndexRow
<1>5. indexer \in [Indexers -> [at : {"idle", "begin", "send", "store", "close", "settle"},
                             job : 0 .. MaxRagJobs, text : Nat, start : 0 .. Batches]]
  BY <1>0, RagAssumption DEF RagShape, Place, RagSteps
<1>7. sent \subseteq [id : RagNumbers, revision : Nat, version : Nat, provider : RagProviders]
  BY <1>0 DEF RagNames, SentRow
<1>8. /\ generations \in Seq([status : {"building", "active", "retired", "deleted"}, provider : RagProviders])
      /\ serving \in [active : RagNumbers, revision : Nat]
  BY <1>0 DEF RagShape, GenRow
<1> QED BY <1>2, <1>3, <1>4, <1>5, <1>7, <1>8 DEF RagTypeOK

----------------
(* Notifications: the rows, and how the inbox, the wishes of the users, the   *)
(* deliveries and the senders belong together.                                *)

NoteJob    == [status : {"none", "pending", "running", "done", "failed", "cancelled"}, attempts : Nat,
               holder : Senders \cup {"none"}, cancel : {FALSE}]
NoteStatus == {"none", "pending", "sending", "sent", "failed", "skipped"}
NoteRow    == [status : NoteStatus, revision : Nat, job : NoteJob, arrived : Nat, unsure : Nat]
NoteSender == [at : {"idle", "check", "channel", "send", "sent", "failed", "refused", "settle"},
               row : NoteKeys \cup {<<>>}, wanted : BOOLEAN]
NoteWishes == [enabled : BOOLEAN, may : BOOLEAN, revision : [NoteChannels -> Nat],
               chosen : SUBSET NoteChannels, on : SUBSET NoteChannels]

NoteShape ==
  /\ noteRows \in [NoteKeys -> NoteRow]
  /\ noteSenders \in [Senders -> NoteSender]
  /\ noteWishes \in NoteWishes
  /\ noteInbox \in [Notes -> {"none", "new", "dispatched", "new, read", "dispatched, read"}]

\* A goroutine works on a row that was dispatched; an idle one on none.
NotePlaces ==
  \A w \in Senders : LET me == noteSenders[w] IN
    /\ me.at = "idle" => me.row = <<>>
    /\ me.at # "idle" => me.row \in NoteKeys /\ noteRows[me.row].status # "none"
    /\ me.at = "sent" => noteRows[me.row].arrived > 0

\* What is not meant any more is found out before it is sent.
NoteMeant ==
  /\ \A k \in NoteKeys : /\ noteRows[k].revision <= noteWishes.revision[k[2]]
                         /\ noteRows[k].status # "none" => noteInbox[k[1]] # "none"
  /\ \A w \in Senders : LET me == noteSenders[w] IN
       /\ me.at = "check" /\ ~me.wanted =>
            ~Unread(me.row[1]) \/ noteWishes.revision[me.row[2]] # noteRows[me.row].revision
       /\ me.at = "channel" /\ ~me.wanted => noteWishes.revision[me.row[2]] # noteRows[me.row].revision
       /\ me.at = "send" => me.wanted

\* Who may still send, and whether the next claim may.
Trying(k)  == {w \in Senders : noteSenders[w].row = k /\ noteSenders[w].at \in {"check", "channel", "send", "failed"}}
Waiting(k) == IF noteRows[k].job.status = "pending" THEN 1 ELSE 0
ToldAndDone(k) ==
  /\ noteRows[k].status = "sent"
  /\ \A w \in Senders : noteSenders[w].row = k => noteSenders[w].at \in {"check", "settle"}
HasHolder(k) == noteRows[k].job.status = "running" =>
             \E w \in Senders : noteRows[k].job.holder = w /\ noteSenders[w].row = k
InBudget(k) ==
  LET row == noteRows[k] IN
  /\ row.arrived <= 1 + row.unsure
  /\ ToldAndDone(k) \/ row.arrived + Cardinality(Trying(k)) + Waiting(k) <= 1 + row.unsure
  /\ row.status = "sent" => row.arrived > 0
  /\ row.status = "none" => row = NoDelivery
  /\ HasHolder(k)

NoteIInv == NoteShape /\ NotePlaces /\ NoteMeant /\ \A k \in NoteKeys : InBudget(k)


----------------
(* A step of one goroutine on one row.                                        *)

TryingAt == {"check", "channel", "send", "failed"}
Tries(record, k) == record.row = k /\ record.at \in TryingAt

LEMMA NoKey == <<>> \notin NoteKeys
  BY DEF NoteKeys

\* Where one goroutine turns to something else, the count of those that may
\* still send follows.
LEMMA TryingMoves ==
  ASSUME NoteShape, NEW w \in Senders, NEW record \in NoteSender, Sends(w, record), NEW k \in NoteKeys
  PROVE  /\ Cardinality(Trying(k)) \in Nat /\ Cardinality(Trying(k)') \in Nat
         /\ Tries(record, k) /\ ~Tries(noteSenders[w], k) =>
              Cardinality(Trying(k)') = Cardinality(Trying(k)) + 1
         /\ ~Tries(record, k) /\ Tries(noteSenders[w], k) =>
              Cardinality(Trying(k)') = Cardinality(Trying(k)) - 1
         /\ (Tries(record, k) <=> Tries(noteSenders[w], k)) => Trying(k)' = Trying(k)
         /\ Tries(noteSenders[w], k) => Cardinality(Trying(k)) > 0
<1>1. /\ noteSenders' \in [Senders -> NoteSender] /\ noteSenders'[w] = record
      /\ \A u \in Senders \ {w} : noteSenders'[u] = noteSenders[u]
  BY DEF NoteShape, Sends
<1>2. /\ IsFiniteSet(Trying(k)) /\ Cardinality(Trying(k)) \in Nat
      /\ IsFiniteSet(Trying(k)') /\ Cardinality(Trying(k)') \in Nat
  <2>1. Trying(k) \in SUBSET Senders /\ Trying(k)' \in SUBSET Senders BY DEF Trying
  <2> QED BY <2>1, NoteAssumption, FS_Subset, FS_CardinalityType
<1>3. /\ w \in Trying(k) <=> Tries(noteSenders[w], k)
      /\ w \in Trying(k)' <=> Tries(record, k)
  BY <1>1 DEF Trying, Tries, TryingAt
<1>4. \A u \in Senders \ {w} : u \in Trying(k)' <=> u \in Trying(k) BY <1>1 DEF Trying
<1>5. Trying(k) \subseteq Senders /\ Trying(k)' \subseteq Senders BY DEF Trying
<1>6. ASSUME Tries(record, k), ~Tries(noteSenders[w], k)
      PROVE Cardinality(Trying(k)') = Cardinality(Trying(k)) + 1
  <2>1. Trying(k)' = Trying(k) \cup {w} /\ w \notin Trying(k) BY <1>3, <1>4, <1>5, <1>6
  <2> QED BY <2>1, <1>2, FS_AddElement
<1>7. ASSUME ~Tries(record, k), Tries(noteSenders[w], k)
      PROVE Cardinality(Trying(k)') = Cardinality(Trying(k)) - 1
  <2>1. Trying(k)' = Trying(k) \ {w} /\ w \in Trying(k) BY <1>3, <1>4, <1>5, <1>7
  <2> QED BY <2>1, <1>2, FS_RemoveElement
<1>8. ASSUME Tries(record, k) <=> Tries(noteSenders[w], k) PROVE Trying(k)' = Trying(k)
  BY <1>3, <1>4, <1>5, <1>8
<1>9. ASSUME Tries(noteSenders[w], k) PROVE Cardinality(Trying(k)) > 0
  <2>1. Trying(k) # {} BY <1>9, <1>3
  <2>2. Cardinality(Trying(k)) # 0 BY <2>1, <1>2, FS_EmptySet
  <2> QED BY <2>2, <1>2
<1> QED BY <1>2, <1>6, <1>7, <1>8, <1>9

\* Who has the lease of a row keeps it, unless it turns to something else.
LEMMA HeldStays ==
  ASSUME NoteShape, NEW w \in Senders, NEW record \in NoteSender, Sends(w, record),
         NEW k \in NoteKeys, HasHolder(k),
         noteRows'[k].job.status = "running" =>
           /\ noteRows[k].job.status = "running" /\ noteRows'[k].job.holder = noteRows[k].job.holder
           /\ record.row = k \/ noteRows[k].job.holder # w
  PROVE  HasHolder(k)'
<1> SUFFICES ASSUME noteRows'[k].job.status = "running"
             PROVE  \E u \in Senders : noteRows'[k].job.holder = u /\ noteSenders'[u].row = k
  BY DEF HasHolder
<1>1. PICK u \in Senders : noteRows[k].job.holder = u /\ noteSenders[u].row = k BY DEF HasHolder
<1>2. noteSenders'[u] = IF u = w THEN record ELSE noteSenders[u] BY DEF Sends, NoteShape
<1> QED BY <1>1, <1>2

\* Rows whose goroutines stay where they are stay within their budget.
LEMMA OtherRows ==
  ASSUME NoteIInv, NEW w \in Senders, NEW record \in NoteSender, Sends(w, record),
         NEW other \in NoteKeys, record.row # other, noteSenders[w].row # other,
         noteRows'[other] = noteRows[other]
  PROVE  InBudget(other)'
<1>1. Trying(other)' = Trying(other) BY TryingMoves DEF Tries, NoteIInv
<1>2. ToldAndDone(other)' <=> ToldAndDone(other) BY DEF ToldAndDone, Sends, NoteIInv, NoteShape
<1>3. Waiting(other)' = Waiting(other) BY DEF Waiting
<1>4. InBudget(other) BY DEF NoteIInv
<1>5. HasHolder(other)' BY <1>4 DEF InBudget, HasHolder, Sends, NoteIInv, NoteShape
<1> QED BY <1>1, <1>2, <1>3, <1>4, <1>5 DEF InBudget

\* What the invariant asks of a goroutine that turns to row k, which now is row.
FitsIn(record, k, row) ==
  /\ record.row \in {k, <<>>} /\ (record.at = "idle" <=> record.row = <<>>)
  /\ record.at = "sent" => row.arrived > 0
  /\ record.at = "check" /\ ~record.wanted => ~StillMeant(k)
  /\ record.at = "channel" /\ ~record.wanted => noteWishes.revision[k[2]] # noteRows[k].revision
  /\ record.at = "send" => record.wanted

\* A step changes one row and one goroutine, which works on that row.
LEMMA StepOnRow ==
  ASSUME NoteIInv, NEW w \in Senders, NEW record \in NoteSender, Sends(w, record),
         NEW k \in NoteKeys, noteSenders[w].row \in {k, <<>>},
         NEW row \in NoteRow, noteRows' = [noteRows EXCEPT ![k] = row],
         noteRows[k].status # "none", row.status # "none", row.revision = noteRows[k].revision, row.arrived >= noteRows[k].arrived,
         FitsIn(record, k, row), UNCHANGED <<noteInbox, noteWishes>>, InBudget(k)'
  PROVE  NoteIInv'
<1>1. NoteShape' BY DEF NoteIInv, NoteShape, Sends
<1>2. /\ noteSenders'[w] = record /\ noteRows'[k] = row
      /\ \A u \in Senders \ {w} : noteSenders'[u] = noteSenders[u]
      /\ \A n \in NoteKeys \ {k} : noteRows'[n] = noteRows[n]
  BY DEF NoteIInv, NoteShape, Sends
<1>3. \A n \in NoteKeys : /\ noteRows'[n].revision = noteRows[n].revision
                          /\ noteRows'[n].arrived >= noteRows[n].arrived
                          /\ noteRows[n].status # "none" => noteRows'[n].status # "none"
                          /\ noteRows'[n].arrived \in Nat /\ noteRows[n].arrived \in Nat
  <2>1. \A n \in NoteKeys : noteRows[n].arrived \in Nat BY DEF NoteIInv, NoteShape, NoteRow
  <2>2. row.arrived \in Nat BY DEF NoteRow
  <2> QED BY <1>2, <2>1, <2>2
<1>4. NotePlaces'
  <2> SUFFICES ASSUME NEW u \in Senders
               PROVE  /\ noteSenders'[u].at = "idle" => noteSenders'[u].row = <<>>
                      /\ noteSenders'[u].at # "idle" => /\ noteSenders'[u].row \in NoteKeys
                                                        /\ noteRows'[noteSenders'[u].row].status # "none"
                      /\ noteSenders'[u].at = "sent" => noteRows'[noteSenders'[u].row].arrived > 0
    BY DEF NotePlaces
  <2>1. CASE u = w BY <2>1, <1>2, NoKey DEF FitsIn
  <2>2. CASE u # w BY <2>2, <1>2, <1>3 DEF NoteIInv, NotePlaces
  <2> QED BY <2>1, <2>2
<1>5. NoteMeant'
  <2>1. \A n \in NoteKeys : /\ noteRows'[n].revision <= noteWishes'.revision[n[2]]
                            /\ noteRows'[n].status # "none" => noteInbox'[n[1]] # "none"
    BY <1>2, <1>3 DEF NoteIInv, NoteMeant
  <2>2. ASSUME NEW u \in Senders
        PROVE  /\ noteSenders'[u].at = "check" /\ ~noteSenders'[u].wanted =>
                    \/ ~Unread(noteSenders'[u].row[1])
                    \/ noteWishes.revision[noteSenders'[u].row[2]] # noteRows'[noteSenders'[u].row].revision
               /\ noteSenders'[u].at = "channel" /\ ~noteSenders'[u].wanted =>
                    noteWishes.revision[noteSenders'[u].row[2]] # noteRows'[noteSenders'[u].row].revision
               /\ noteSenders'[u].at = "send" => noteSenders'[u].wanted
    <3>1. CASE u = w BY <3>1, <1>2 DEF FitsIn, StillMeant
    <3>2. CASE u # w
      <4>1. noteSenders[u].at # "idle" => noteSenders[u].row \in NoteKeys
        BY DEF NoteIInv, NotePlaces
      <4> QED BY <3>2, <4>1, <1>2, <1>3 DEF NoteIInv, NoteMeant
    <3> QED BY <3>1, <3>2
  <2>3. \A n : Unread(n)' <=> Unread(n) BY DEF Unread
  <2> QED BY <2>1, <2>2, <2>3 DEF NoteMeant
<1>6. ASSUME NEW other \in NoteKeys, other # k PROVE InBudget(other)'
  BY <1>6, <1>2, OtherRows, NoKey DEF FitsIn
<1> QED BY <1>1, <1>4, <1>5, <1>6 DEF NoteIInv

----------------
(* The steps.                                                                 *)

\* A job that has ended does not wait, and only a retry makes it wait.
LEMMA NoteJobSettled ==
  ASSUME NEW job \in NoteJob, NEW w \in Senders, NEW result \in {"done", "failed", "retry"},
         NEW new, new = JobSettled(job, w, result, NoteAttempts)
  PROVE  /\ new \in NoteJob
         /\ result # "retry" /\ new.status = "pending" => job.status = "pending"
         /\ new.status = "pending" => job.status \in {"pending", "running"}
         /\ new.status = "running" => job.status = "running" /\ job.holder # w /\ new.holder = job.holder
         /\ ~LeasedBy(job, w) => new = job
<1>1. CASE LeasedBy(job, w)
  <2>1. job.status = "running" /\ job.holder = w /\ job.cancel = FALSE BY <1>1 DEF LeasedBy, NoteJob
  <2>2. PICK status \in {"pending", "done", "failed"} :
          /\ status = IF result = "retry" THEN Retried(job, NoteAttempts) ELSE result
    BY DEF Retried
  <2>3. JobSettled(job, w, result, NoteAttempts) = [job EXCEPT !.holder = "none", !.status = status]
    BY <2>1, <2>2 DEF JobSettled
  <2> QED BY <2>1, <2>2, <2>3, <1>1 DEF NoteJob
<1>2. CASE ~LeasedBy(job, w)
  <2>1. job.cancel = FALSE BY DEF NoteJob
  <2>2. job.status = "running" => job.holder # w BY <1>2, <2>1 DEF LeasedBy
  <2>3. JobSettled(job, w, result, NoteAttempts) = job BY <2>2 DEF JobSettled
  <2> QED BY <2>2, <2>3
<1> QED BY <1>1, <1>2

\* The end of an attempt.  Nothing is called sent that was not, what was told
\* and done stays so, and only an attempt that may send again is retried.
LEMMA StepEnd ==
  ASSUME NoteIInv, NEW w \in Senders, NEW k \in NoteKeys, noteSenders[w].row = k,
         NEW status \in NoteStatus \ {"none"}, NEW result \in {"done", "failed", "retry"},
         EndNote(w, status, result), UNCHANGED <<noteInbox, noteWishes>>,
         result = "retry" => noteSenders[w].at = "failed",
         status = "sent" => noteRows[k].status = "sent",
         ToldAndDone(k) => status = "sent"
  PROVE  NoteIInv'
<1> DEFINE job == JobSettled(noteRows[k].job, w, result, NoteAttempts)
<1>1. noteRows[k] \in NoteRow /\ noteRows[k].status # "none"
  BY NoKey DEF NoteIInv, NotePlaces, NoteShape
<1>2. noteRows[k].job \in NoteJob BY <1>1 DEF NoteRow
<1>3. /\ job \in NoteJob
      /\ result # "retry" /\ job.status = "pending" => noteRows[k].job.status = "pending"
      /\ job.status = "pending" => noteRows[k].job.status \in {"pending", "running"}
      /\ job.status = "running" => /\ noteRows[k].job.status = "running" /\ noteRows[k].job.holder # w
                                   /\ job.holder = noteRows[k].job.holder
  <2>1. PICK before \in NoteJob : before = noteRows[k].job BY <1>2
  <2>2. PICK after : after = JobSettled(before, w, result, NoteAttempts)
    OBVIOUS
  <2>3. job = after BY <2>1, <2>2
  <2>4. /\ after \in NoteJob
        /\ result # "retry" /\ after.status = "pending" => before.status = "pending"
        /\ after.status = "pending" => before.status \in {"pending", "running"}
        /\ after.status = "running" => /\ before.status = "running" /\ before.holder # w
                                       /\ after.holder = before.holder
    BY <2>2, NoteJobSettled
  <2> HIDE DEF job
  <2> QED BY <2>1, <2>3, <2>4
<1>4. PICK says \in NoteStatus \ {"none"} :
        /\ noteRows' = [noteRows EXCEPT ![k] = [noteRows[k] EXCEPT !.job = job, !.status = says]]
        /\ says \in {status, noteRows[k].status}
  <2>1. CASE noteRows' = [noteRows EXCEPT ![k] =
               [[noteRows[k] EXCEPT !.job = job] EXCEPT !.status = status]]
    BY <2>1
  <2>2. CASE noteRows' = [noteRows EXCEPT ![k] = [noteRows[k] EXCEPT !.job = job]]
    <3>1. [noteRows[k] EXCEPT !.job = job] = [noteRows[k] EXCEPT !.job = job, !.status = noteRows[k].status]
      BY <1>1, <1>3 DEF NoteRow
    <3>2. noteRows[k].status \in NoteStatus \ {"none"} BY <1>1 DEF NoteRow
    <3> HIDE DEF job
    <3> QED BY <2>2, <3>1, <3>2
  <2> QED BY <2>1, <2>2 DEF EndNote
<1> DEFINE row == [noteRows[k] EXCEPT !.job = job, !.status = says]
<1>5. /\ row \in NoteRow /\ row.status = says /\ row.revision = noteRows[k].revision
      /\ row.arrived = noteRows[k].arrived /\ row.unsure = noteRows[k].unsure /\ row.job = job
      /\ row.arrived \in Nat /\ row.unsure \in Nat
  <2> HIDE DEF job
  <2> QED BY <1>1, <1>3 DEF NoteRow
<1>6. noteRows' = [noteRows EXCEPT ![k] = row] /\ noteRows'[k] = row
  BY <1>1, <1>4 DEF NoteIInv, NoteShape
<1> HIDE DEF row, job
<1>7. NotSending \in NoteSender /\ Sends(w, NotSending) BY DEF NotSending, NoteSender, EndNote
<1>8. /\ ~Tries(NotSending, k) /\ Cardinality(Trying(k)) \in Nat /\ Cardinality(Trying(k)') \in Nat
      /\ Tries(noteSenders[w], k) => Cardinality(Trying(k)') = Cardinality(Trying(k)) - 1
      /\ ~Tries(noteSenders[w], k) => Cardinality(Trying(k)') = Cardinality(Trying(k))
  <2>1. ~Tries(NotSending, k) BY DEF Tries, NotSending, TryingAt
  <2> QED BY <2>1, <1>1, <1>7, TryingMoves DEF NoteIInv
<1>9. InBudget(k) BY <1>1 DEF NoteIInv
<1>10. InBudget(k)'
  <2>1. row.arrived <= 1 + row.unsure BY <1>5, <1>9 DEF InBudget
  <2>2. row.status = "sent" => row.arrived > 0 BY <1>4, <1>5, <1>9 DEF InBudget
  <2>3. ASSUME ToldAndDone(k) PROVE ToldAndDone(k)'
    <3>1. row.status = "sent" BY <2>3, <1>4, <1>5 DEF ToldAndDone
    <3>2. \A u \in Senders : noteSenders'[u].row = k => noteSenders'[u].at \in {"check", "settle"}
      <4>1. \A u \in Senders : u # w => noteSenders'[u] = noteSenders[u]
        BY <1>7 DEF Sends, NoteIInv, NoteShape
      <4>2. noteSenders'[w].row # k BY <1>1, <1>7, NoKey DEF Sends, NoteIInv, NoteShape, NotSending
      <4> QED BY <2>3, <4>1, <4>2 DEF ToldAndDone
    <3> QED BY <3>1, <3>2, <1>6 DEF ToldAndDone
  <2>4. ASSUME ~ToldAndDone(k)
        PROVE  row.arrived + Cardinality(Trying(k)') + Waiting(k)' <= 1 + row.unsure
    <3>1. noteRows[k].arrived + Cardinality(Trying(k)) + Waiting(k) <= 1 + noteRows[k].unsure
      BY <2>4, <1>9 DEF InBudget
    <3>2. Waiting(k) \in {0, 1} /\ Waiting(k)' \in {0, 1} BY DEF Waiting
    <3>3. CASE result = "retry"
      <4>1. Tries(noteSenders[w], k) BY <3>3 DEF Tries, TryingAt
      <4>2. Cardinality(Trying(k)') = Cardinality(Trying(k)) - 1 BY <4>1, <1>8
      <4> QED BY <3>1, <3>2, <4>2, <1>5, <1>8
    <3>4. CASE result # "retry"
      <4>1. Waiting(k)' <= Waiting(k) BY <3>4, <1>3, <1>5, <1>6 DEF Waiting
      <4> QED BY <3>1, <3>2, <4>1, <1>5, <1>8
    <3> QED BY <3>3, <3>4
  <2>5. row.status # "none" BY <1>5, <1>4
  <2>6. HasHolder(k)'
    <3>1. HasHolder(k) /\ NoteShape BY <1>9 DEF InBudget, NoteIInv
    <3> QED BY <3>1, <1>3, <1>5, <1>6, <1>7, HeldStays
  <2> QED BY <2>1, <2>2, <2>3, <2>4, <2>5, <2>6, <1>6 DEF InBudget
<1>11. FitsIn(NotSending, k, row) BY DEF FitsIn, NotSending
<1>12. /\ noteSenders[w].row \in {k, <<>>} /\ row \in NoteRow
       /\ noteRows[k].status # "none" /\ row.status # "none"
       /\ row.revision = noteRows[k].revision /\ row.arrived >= noteRows[k].arrived
  BY <1>1, <1>4, <1>5
<1> QED BY <1>6, <1>7, <1>10, <1>11, <1>12, StepOnRow

\* An attempt turns to the next thing it does: it goes on to send only if it
\* could before, and no row is called sent that was not.
GoesOn(w, k, at, status, arrived, unsure) ==
  /\ Sends(w, [noteSenders[w] EXCEPT !.at = at])
  /\ noteRows' = [noteRows EXCEPT ![k] =
       [noteRows[k] EXCEPT !.status = status, !.arrived = arrived, !.unsure = unsure]]
  /\ UNCHANGED <<noteInbox, noteWishes>>
  /\ arrived >= noteRows[k].arrived /\ unsure >= noteRows[k].unsure
  /\ arrived + noteRows[k].unsure <= unsure + noteRows[k].arrived + 1
  /\ at \in TryingAt => arrived + noteRows[k].unsure <= unsure + noteRows[k].arrived
  /\ status = "sent" => noteRows[k].status = "sent"
  /\ ~ToldAndDone(k) /\ noteSenders[w].at \in TryingAt
  /\ at = "sent" => arrived > 0
  /\ at = "channel" /\ ~noteSenders[w].wanted => noteWishes.revision[k[2]] # noteRows[k].revision
  /\ at = "send" => noteSenders[w].wanted

LEMMA StepOn ==
  ASSUME NoteIInv, NEW w \in Senders, NEW k \in NoteKeys, noteSenders[w].row = k,
         NEW at \in {"channel", "send", "sent", "failed", "refused"},
         NEW status \in NoteStatus \ {"none"}, NEW arrived \in Nat, NEW unsure \in Nat,
         GoesOn(w, k, at, status, arrived, unsure)
  PROVE  NoteIInv'
<1> DEFINE record == [noteSenders[w] EXCEPT !.at = at]
           row == [noteRows[k] EXCEPT !.status = status, !.arrived = arrived, !.unsure = unsure]
<1>1. noteRows[k] \in NoteRow /\ noteSenders[w] \in NoteSender
  BY DEF NoteIInv, NotePlaces, NoteShape
<1>2. record \in NoteSender /\ record.at = at /\ record.row = k /\ record.wanted = noteSenders[w].wanted
  BY <1>1 DEF NoteSender
<1>3. /\ row \in NoteRow /\ row.status = status /\ row.revision = noteRows[k].revision
      /\ row.arrived = arrived /\ row.unsure = unsure /\ row.job = noteRows[k].job
      /\ noteRows[k].arrived \in Nat /\ noteRows[k].unsure \in Nat
  BY <1>1 DEF NoteRow
<1>4. noteRows' = [noteRows EXCEPT ![k] = row] /\ noteRows'[k] = row
  BY <1>1 DEF NoteIInv, NoteShape, GoesOn
<1>5. Sends(w, record) /\ UNCHANGED <<noteInbox, noteWishes>> BY DEF GoesOn
<1> HIDE DEF row, record
<1>6. /\ noteSenders[w].at \in TryingAt
      /\ at \in TryingAt => arrived + noteRows[k].unsure <= unsure + noteRows[k].arrived
      /\ arrived + noteRows[k].unsure <= unsure + noteRows[k].arrived + 1
      /\ arrived >= noteRows[k].arrived /\ (at = "sent" => arrived > 0)
  BY DEF GoesOn
<1>7. /\ Cardinality(Trying(k)) \in Nat /\ Cardinality(Trying(k)') \in Nat
      /\ at \in TryingAt => Cardinality(Trying(k)') = Cardinality(Trying(k))
      /\ at \notin TryingAt => Cardinality(Trying(k)') = Cardinality(Trying(k)) - 1
      /\ Cardinality(Trying(k)) > 0
  <2>1. Tries(noteSenders[w], k) /\ (Tries(record, k) <=> at \in TryingAt) BY <1>2, <1>6 DEF Tries
  <2> QED BY <2>1, <1>1, <1>2, <1>5, TryingMoves DEF NoteIInv
<1>8. InBudget(k)'
  <2>1. noteRows[k].arrived + Cardinality(Trying(k)) + Waiting(k) <= 1 + noteRows[k].unsure
    BY <1>1 DEF NoteIInv, InBudget, GoesOn
  <2>2. Waiting(k)' = Waiting(k) /\ Waiting(k) \in {0, 1} BY <1>3, <1>4 DEF Waiting
  <2>3. arrived + Cardinality(Trying(k)') + Waiting(k)' <= 1 + unsure
    BY <2>1, <2>2, <1>3, <1>6, <1>7
  <2>5. arrived <= 1 + unsure BY <2>2, <2>3, <1>7
  <2>6. row.status # "none" /\ (row.status = "sent" => arrived > 0)
    BY <1>3, <1>6 DEF GoesOn, NoteIInv, InBudget
  <2>4. HasHolder(k)'
    <3>1. HasHolder(k) /\ NoteShape BY DEF InBudget, NoteIInv
    <3> QED BY <3>1, <1>2, <1>3, <1>4, <1>5, HeldStays
  <2> QED BY <2>3, <2>4, <2>5, <2>6, <1>3, <1>4 DEF InBudget
<1>9. FitsIn(record, k, row) BY <1>1, <1>2, <1>3, <1>6, NoKey DEF FitsIn, GoesOn
<1>10. /\ noteSenders[w].row \in {k, <<>>} /\ noteRows[k].status # "none" /\ row.status # "none"
       /\ row.revision = noteRows[k].revision /\ row.arrived >= noteRows[k].arrived
  BY <1>3, <1>6, NoKey DEF NoteIInv, NotePlaces, TryingAt
<1> QED BY <1>2, <1>3, <1>4, <1>5, <1>8, <1>9, <1>10, StepOnRow

LEMMA StepClaimNote ==
  ASSUME NoteIInv, NEW w \in Senders, NEW k \in NoteKeys, ClaimNote(w, k)
  PROVE  NoteIInv'
<1> DEFINE record == [at |-> "check", row |-> k, wanted |-> StillMeant(k)]
           row == [noteRows[k] EXCEPT !.job = ClaimedBy(noteRows[k].job, w)]
<1>1. noteRows[k] \in NoteRow /\ noteRows[k].job \in NoteJob BY DEF NoteIInv, NoteShape, NoteRow
<1>2. ClaimedBy(noteRows[k].job, w) \in NoteJob /\ ClaimedBy(noteRows[k].job, w).status = "running"
      /\ ClaimedBy(noteRows[k].job, w).holder = w
  <2>0. noteRows[k].job.attempts \in Nat BY <1>1 DEF NoteJob
  <2>1. PICK more \in Nat : more = noteRows[k].job.attempts + 1 BY <2>0
  <2>2. ClaimedBy(noteRows[k].job, w) =
          [noteRows[k].job EXCEPT !.status = "running", !.attempts = more, !.holder = w]
    BY <2>1 DEF ClaimedBy
  <2> QED BY <1>1, <2>2 DEF NoteJob
<1>3. noteRows[k].job.status = "pending" /\ noteSenders[w].at = "idle" /\ noteSenders[w].row = <<>>
  BY DEF ClaimNote, MayClaim, NoteIInv, NotePlaces
<1>4. noteRows[k].status # "none"
  <2>1. noteRows[k].status = "none" => noteRows[k] = NoDelivery BY DEF NoteIInv, InBudget
  <2> QED BY <2>1, <1>3 DEF NoDelivery, Unqueued
<1>5. /\ row \in NoteRow /\ row.status = noteRows[k].status /\ row.revision = noteRows[k].revision
      /\ row.arrived = noteRows[k].arrived /\ row.unsure = noteRows[k].unsure
      /\ row.job.status = "running" /\ row.job.holder = w /\ row.arrived \in Nat /\ row.unsure \in Nat
  BY <1>1, <1>2 DEF NoteRow
<1>6. /\ noteRows' = [noteRows EXCEPT ![k] = row] /\ noteRows'[k] = row
      /\ Sends(w, record) /\ UNCHANGED <<noteInbox, noteWishes>>
  BY DEF NoteIInv, NoteShape, ClaimNote
<1>7. StillMeant(k) \in BOOLEAN BY DEF StillMeant, Unread
<1>8. /\ record \in NoteSender /\ record.at = "check" /\ record.row = k
      /\ record.wanted = StillMeant(k)
  <2> HIDE DEF row
  <2>1. PICK meant \in BOOLEAN : meant = StillMeant(k) BY <1>7
  <2> QED BY <2>1 DEF NoteSender
<1> HIDE DEF row, record
<1>9. FitsIn(record, k, row) BY <1>8, NoKey DEF FitsIn
<1>10. /\ Cardinality(Trying(k)') = Cardinality(Trying(k)) + 1
       /\ Cardinality(Trying(k)) \in Nat
  <2>1. Tries(record, k) /\ ~Tries(noteSenders[w], k) BY <1>3, <1>8, NoKey DEF Tries, TryingAt
  <2> QED BY <2>1, <1>6, <1>8, TryingMoves DEF NoteIInv
<1>11. InBudget(k)'
  <2>1. Waiting(k) = 1 /\ Waiting(k)' = 0 BY <1>3, <1>5, <1>6 DEF Waiting
  <2>2. ASSUME ToldAndDone(k) PROVE ToldAndDone(k)'
    <3>1. /\ noteSenders'[w] = record
          /\ \A u \in Senders : u # w => noteSenders'[u] = noteSenders[u]
      BY <1>6 DEF Sends, NoteIInv, NoteShape
    <3> QED BY <2>2, <3>1, <1>5, <1>6, <1>8 DEF ToldAndDone
  <2>3. InBudget(k) BY DEF NoteIInv
  <2>4. /\ row.arrived <= 1 + row.unsure
        /\ ToldAndDone(k)' \/ row.arrived + Cardinality(Trying(k)') + Waiting(k)' <= 1 + row.unsure
        /\ row.status = "sent" => row.arrived > 0
    BY <2>1, <2>2, <2>3, <1>5, <1>10 DEF InBudget
  <2>5. HasHolder(k)' BY <1>5, <1>6, <1>8 DEF HasHolder, Sends, NoteIInv, NoteShape
  <2> QED BY <2>4, <2>5, <1>4, <1>5, <1>6 DEF InBudget
<1>12. /\ noteSenders[w].row \in {k, <<>>} /\ row \in NoteRow
       /\ noteRows[k].status # "none" /\ row.status # "none"
       /\ row.revision = noteRows[k].revision /\ row.arrived >= noteRows[k].arrived
  BY <1>3, <1>4, <1>5
<1> QED BY <1>6, <1>8, <1>9, <1>11, <1>12, StepOnRow

\* One row changes while every goroutine stays where it is.
LEMMA StepOfRow ==
  ASSUME NoteIInv, NEW k \in NoteKeys, UNCHANGED <<noteInbox, noteWishes, noteSenders>>,
         NEW row \in NoteRow, noteRows' = [noteRows EXCEPT ![k] = row],
         noteRows[k].status # "none", row.status # "none", row.revision = noteRows[k].revision, row.arrived = noteRows[k].arrived,
         InBudget(k)'
  PROVE  NoteIInv'
<1>1. NoteShape' BY DEF NoteIInv, NoteShape
<1>2. /\ noteRows'[k] = row
      /\ \A n \in NoteKeys \ {k} : noteRows'[n] = noteRows[n]
  BY DEF NoteIInv, NoteShape
<1>3. NotePlaces' BY <1>2 DEF NoteIInv, NotePlaces
<1>4. NoteMeant'
  <2>1. \A n \in NoteKeys : /\ noteRows'[n].revision = noteRows[n].revision
                            /\ noteRows'[n].status # "none" => noteRows[n].status # "none"
    BY <1>2
  <2>2. \A w \in Senders : noteSenders[w].at # "idle" => noteSenders[w].row \in NoteKeys
    BY DEF NoteIInv, NotePlaces
  <2> QED BY <2>1, <2>2 DEF NoteIInv, NoteMeant, Unread
<1>5. ASSUME NEW other \in NoteKeys, other # k PROVE InBudget(other)'
  <2>1. noteRows'[other] = noteRows[other] BY <1>5, <1>2
  <2>2. Trying(other)' = Trying(other) /\ (ToldAndDone(other)' <=> ToldAndDone(other))
    BY <2>1 DEF Trying, ToldAndDone
  <2> QED BY <2>1, <2>2 DEF NoteIInv, InBudget, Waiting, HasHolder
<1> QED BY <1>1, <1>3, <1>4, <1>5 DEF NoteIInv

\* The lease of a row is lost, and with it, maybe, its goroutine.
LEMMA StepLoseNote == ASSUME NoteIInv, NEW k \in NoteKeys, LoseNote(k) PROVE NoteIInv'
<1> DEFINE job == JobLapsed(noteRows[k].job, NoteAttempts)
           sure == ToldAndDone(k)
<1>1. noteRows[k] \in NoteRow /\ noteRows[k].job \in NoteJob BY DEF NoteIInv, NoteShape, NoteRow
<1>2. job \in NoteJob /\ job.status # "running"
  <2>1. PICK status \in {"pending", "failed", "cancelled"} :
          status = IF noteRows[k].job.cancel THEN "cancelled" ELSE Retried(noteRows[k].job, NoteAttempts)
    BY DEF Retried
  <2>2. job = [noteRows[k].job EXCEPT !.holder = "none", !.status = status] BY <2>1 DEF JobLapsed
  <2> QED BY <1>1, <2>2 DEF NoteJob
<1> HIDE DEF job
<1>3. noteRows[k].unsure \in Nat /\ noteRows[k].arrived \in Nat BY <1>1 DEF NoteRow
<1>4. PICK unsure \in Nat : unsure = IF sure THEN noteRows[k].unsure ELSE noteRows[k].unsure + 1
  BY <1>3
<1> DEFINE row == [noteRows[k] EXCEPT !.job = job, !.unsure = unsure]
<1>5. /\ row \in NoteRow /\ row.status = noteRows[k].status /\ row.revision = noteRows[k].revision
      /\ row.arrived = noteRows[k].arrived /\ row.unsure = unsure /\ row.job = job
  BY <1>1, <1>2 DEF NoteRow
<1>6. /\ noteRows' = [noteRows EXCEPT ![k] = row] /\ noteRows'[k] = row
      /\ UNCHANGED <<noteInbox, noteWishes>>
      /\ noteRows[k].job.status = "running"
  <2>1. sure <=> /\ noteRows[k].status = "sent"
                 /\ \A w \in Senders : noteSenders[w].row = k => noteSenders[w].at \in {"check", "settle"}
    BY DEF ToldAndDone
  <2>2. noteRows' = [noteRows EXCEPT ![k] = row]
    <3> HIDE DEF sure
    <3> QED BY <1>1, <1>3, <1>4, <2>1 DEF LoseNote, NoteIInv, NoteShape, job
  <2> QED BY <2>2 DEF LoseNote, NoteIInv, NoteShape
<1>7. noteRows[k].status # "none"
  <2>1. noteRows[k].status = "none" => noteRows[k] = NoDelivery BY DEF NoteIInv, InBudget
  <2> QED BY <2>1, <1>6 DEF NoDelivery, Unqueued
<1> HIDE DEF row, sure
<1>8. Waiting(k) = 0 /\ Waiting(k)' \in {0, 1} BY <1>6 DEF Waiting
<1>9. InBudget(k) /\ NoteShape BY DEF NoteIInv
<1>10. Cardinality(Trying(k)) \in Nat
  <2>1. Trying(k) \in SUBSET Senders BY DEF Trying
  <2> QED BY <2>1, NoteAssumption, FS_Subset, FS_CardinalityType
<1>11. ASSUME sure => ToldAndDone(k)', Cardinality(Trying(k)') \in Nat,
              Cardinality(Trying(k)') <= Cardinality(Trying(k))
       PROVE  InBudget(k)'
  <2>1. /\ row.arrived <= 1 + row.unsure
        /\ ToldAndDone(k)' \/ row.arrived + Cardinality(Trying(k)') + Waiting(k)' <= 1 + row.unsure
        /\ row.status = "sent" => row.arrived > 0
    <3>1. CASE sure BY <3>1, <1>11, <1>3, <1>4, <1>5, <1>9 DEF InBudget
    <3>2. CASE ~sure
      <4>1. noteRows[k].arrived + Cardinality(Trying(k)) + Waiting(k) <= 1 + noteRows[k].unsure
        BY <3>2, <1>9 DEF InBudget, sure
      <4>2. row.arrived + Cardinality(Trying(k)') + Waiting(k)' <= 1 + row.unsure
        BY <3>2, <4>1, <1>3, <1>4, <1>5, <1>8, <1>10, <1>11
      <4>3. /\ row.arrived <= 1 + row.unsure
            /\ row.status = "sent" => row.arrived > 0
        BY <3>2, <1>3, <1>4, <1>5, <1>9 DEF InBudget
      <4> QED BY <4>2, <4>3
    <3> QED BY <3>1, <3>2
  <2>2. HasHolder(k)' BY <1>2, <1>5, <1>6 DEF HasHolder
  <2> QED BY <2>1, <2>2, <1>5, <1>6, <1>7 DEF InBudget
<1>12. CASE noteSenders' = noteSenders
  <2>1. Trying(k)' = Trying(k) /\ (sure <=> ToldAndDone(k)')
    BY <1>5, <1>6, <1>12 DEF ToldAndDone, sure, Trying
  <2>2. InBudget(k)' BY <2>1, <1>10, <1>11
  <2>3. noteRows[k].status # "none" /\ row.status # "none" /\ row.revision = noteRows[k].revision /\ row.arrived = noteRows[k].arrived
    BY <1>5, <1>7
  <2> QED BY <2>2, <2>3, <1>5, <1>6, <1>12, StepOfRow
<1>13. CASE \E w \in Senders : noteSenders[w].row = k /\ Sends(w, NotSending)
  <2>1. PICK w \in Senders : noteSenders[w].row = k /\ Sends(w, NotSending) BY <1>13
  <2>2. NotSending \in NoteSender /\ ~Tries(NotSending, k)
    BY DEF NotSending, NoteSender, Tries, TryingAt
  <2>3. Cardinality(Trying(k)') \in Nat /\ Cardinality(Trying(k)') <= Cardinality(Trying(k))
    BY <2>1, <2>2, <1>9, <1>10, TryingMoves
  <2>4. sure => ToldAndDone(k)'
    <3>1. /\ noteSenders'[w] = NotSending
          /\ \A u \in Senders : u # w => noteSenders'[u] = noteSenders[u]
      BY <2>1, <1>9 DEF Sends, NoteShape
    <3>2. NotSending.row # k BY NoKey DEF NotSending
    <3> QED BY <3>1, <3>2, <1>5, <1>6 DEF ToldAndDone, sure
  <2>5. InBudget(k)' BY <2>3, <2>4, <1>11
  <2>6. FitsIn(NotSending, k, row) BY DEF FitsIn, NotSending
  <2>7. /\ noteSenders[w].row \in {k, <<>>} /\ row \in NoteRow
       /\ noteRows[k].status # "none" /\ row.status # "none"
        /\ row.revision = noteRows[k].revision /\ row.arrived >= noteRows[k].arrived
    BY <2>1, <1>3, <1>5, <1>7
  <2> QED BY <2>1, <2>2, <2>5, <2>6, <2>7, <1>6, StepOnRow
<1>14. CASE noteSenders' # noteSenders
  <2>1. PICK w \in Senders : noteRows[k].job.holder = w /\ noteSenders[w].row = k
    BY <1>6, <1>9 DEF InBudget, HasHolder
  <2>2. Sends(w, NotSending) BY <2>1, <1>14 DEF LoseNote
  <2> QED BY <2>1, <2>2, <1>13
<1> QED BY <1>12, <1>14

LEMMA SameCounts ==
  ASSUME NEW arrived \in Nat, NEW unsure \in Nat
  PROVE  /\ arrived >= arrived /\ unsure >= unsure
         /\ arrived + unsure <= unsure + arrived + 1 /\ arrived + unsure <= unsure + arrived
  OBVIOUS

LEMMA StepCheckNote == ASSUME NoteIInv, NEW w \in Senders, CheckNote(w) PROVE NoteIInv'
<1>0. PICK k \in NoteKeys : k = noteSenders[w].row BY DEF CheckNote, NoteIInv, NotePlaces
<1>1. /\ noteSenders[w].at = "check" /\ noteRows[k] \in NoteRow
      /\ noteRows[k].status # "none" /\ UNCHANGED <<noteInbox, noteWishes>>
  BY <1>0 DEF CheckNote, NoteIInv, NoteShape, NotePlaces
<1>2. CASE AlreadySent(k)
  <2>1. EndNote(w, "sent", "done") /\ noteRows[k].status = "sent"
    BY <1>0, <1>2, <1>1 DEF CheckNote, AlreadySent
  <2> QED BY <2>1, <1>0, <1>1, StepEnd DEF NoteStatus
<1>3. CASE ~AlreadySent(k) /\ ~EligibleNote(k)
  <2>1. EndNote(w, "skipped", "done") /\ ~ToldAndDone(k)
    BY <1>0, <1>3, <1>1 DEF CheckNote, AlreadySent, ToldAndDone
  <2> QED BY <2>1, <1>0, <1>1, StepEnd DEF NoteStatus
<1>4. CASE ~AlreadySent(k) /\ EligibleNote(k)
  <2>1. /\ Sends(w, [noteSenders[w] EXCEPT !.at = "channel"]) /\ noteRows' = noteRows
        /\ noteRows[k].status # "sent"
    BY <1>0, <1>4, <1>1 DEF CheckNote, AlreadySent
  <2>2. noteRows' = [noteRows EXCEPT ![k] = [noteRows[k] EXCEPT !.status = noteRows[k].status,
                        !.arrived = noteRows[k].arrived, !.unsure = noteRows[k].unsure]]
    <3>1. noteRows[k] = [noteRows[k] EXCEPT !.status = noteRows[k].status,
                        !.arrived = noteRows[k].arrived, !.unsure = noteRows[k].unsure]
      BY <1>1 DEF NoteRow
    <3>2. noteRows \in [NoteKeys -> NoteRow] BY DEF NoteIInv, NoteShape
    <3> QED BY <2>1, <3>1, <3>2
  <2>3. ~noteSenders[w].wanted => noteWishes.revision[k[2]] # noteRows[k].revision
    BY <1>0, <1>1, <1>4 DEF NoteIInv, NoteMeant, EligibleNote
  <2>4. /\ noteRows[k].status \in NoteStatus \ {"none"}
        /\ noteRows[k].arrived \in Nat /\ noteRows[k].unsure \in Nat
    BY <1>1, <2>1 DEF NoteRow
  <2>5. GoesOn(w, k, "channel", noteRows[k].status, noteRows[k].arrived, noteRows[k].unsure)
    <3>1. ~ToldAndDone(k) BY <2>1 DEF ToldAndDone
    <3> QED BY <2>1, <2>2, <2>3, <2>4, <3>1, <1>0, <1>1, SameCounts DEF GoesOn, TryingAt
  <2> QED BY <2>4, <2>5, <1>0, StepOn
<1> QED BY <1>2, <1>3, <1>4

LEMMA StepReadChannel == ASSUME NoteIInv, NEW w \in Senders, ReadNoteChannel(w) PROVE NoteIInv'
<1>0. PICK k \in NoteKeys : k = noteSenders[w].row BY DEF ReadNoteChannel, NoteIInv, NotePlaces
<1>1. /\ noteSenders[w].at = "channel" /\ noteRows[k] \in NoteRow
      /\ noteRows[k].arrived \in Nat /\ noteRows[k].unsure \in Nat
      /\ UNCHANGED <<noteInbox, noteWishes>>
  BY <1>0 DEF ReadNoteChannel, NoteIInv, NoteShape, NotePlaces, NoteRow
<1>2. ~ToldAndDone(k) BY <1>0, <1>1 DEF ToldAndDone
<1> DEFINE same == k[2] \in noteWishes.on /\ noteWishes.revision[k[2]] = noteRows[k].revision
<1>3. CASE same
  <2>1. /\ Sends(w, [noteSenders[w] EXCEPT !.at = "send"])
        /\ noteRows' = [noteRows EXCEPT ![k].status = "sending"]
    BY <1>0, <1>3 DEF ReadNoteChannel
  <2>2. noteRows' = [noteRows EXCEPT ![k] = [noteRows[k] EXCEPT !.status = "sending",
                        !.arrived = noteRows[k].arrived, !.unsure = noteRows[k].unsure]]
    BY <2>1, <1>1 DEF NoteRow, NoteIInv, NoteShape
  <2>3. noteSenders[w].wanted BY <1>0, <1>1, <1>3 DEF NoteIInv, NoteMeant, NoteShape, NoteSender
  <2>4. GoesOn(w, k, "send", "sending", noteRows[k].arrived, noteRows[k].unsure)
    BY <2>1, <2>2, <2>3, <1>0, <1>1, <1>2, SameCounts DEF GoesOn, TryingAt
  <2> QED BY <2>4, <1>0, <1>1, StepOn DEF NoteStatus
<1>4. CASE ~same
  <2>1. EndNote(w, "skipped", "done") BY <1>0, <1>4 DEF ReadNoteChannel
  <2> QED BY <2>1, <1>0, <1>1, <1>2, StepEnd DEF NoteStatus
<1> QED BY <1>3, <1>4

LEMMA StepSendNote == ASSUME NoteIInv, NEW w \in Senders, SendNote(w) PROVE NoteIInv'
<1>0. PICK k \in NoteKeys : k = noteSenders[w].row BY DEF SendNote, NoteIInv, NotePlaces
<1>1. /\ noteSenders[w].at = "send" /\ noteRows[k] \in NoteRow
      /\ noteRows[k].arrived \in Nat /\ noteRows[k].unsure \in Nat
      /\ noteRows[k].status \in NoteStatus \ {"none"}
      /\ UNCHANGED <<noteInbox, noteWishes>>
  BY <1>0 DEF SendNote, NoteIInv, NoteShape, NotePlaces, NoteRow
<1>2. ~ToldAndDone(k) /\ noteSenders[w].at \in TryingAt BY <1>0, <1>1 DEF ToldAndDone, TryingAt
<1> PICK more \in Nat : more = noteRows[k].arrived + 1 BY <1>1
<1> PICK doubt \in Nat : doubt = noteRows[k].unsure + 1 BY <1>1
<1>3. /\ more = noteRows[k].arrived + 1 /\ doubt = noteRows[k].unsure + 1
      /\ more >= noteRows[k].arrived /\ doubt >= noteRows[k].unsure /\ more > 0
      /\ more + noteRows[k].unsure <= noteRows[k].unsure + noteRows[k].arrived + 1
      /\ more + noteRows[k].unsure <= doubt + noteRows[k].arrived + 1
      /\ more + noteRows[k].unsure <= doubt + noteRows[k].arrived
  BY <1>1
<1>4. CASE /\ Sends(w, [noteSenders[w] EXCEPT !.at = "sent"])
           /\ noteRows' = [noteRows EXCEPT ![k].arrived = @ + 1]
  <2>1. noteRows' = [noteRows EXCEPT ![k] = [noteRows[k] EXCEPT !.status = noteRows[k].status,
                        !.arrived = more, !.unsure = noteRows[k].unsure]]
    BY <1>1, <1>3, <1>4 DEF NoteRow, NoteIInv, NoteShape
  <2>2. GoesOn(w, k, "sent", noteRows[k].status, more, noteRows[k].unsure)
    BY <2>1, <1>0, <1>1, <1>2, <1>3, <1>4, SameCounts DEF GoesOn, TryingAt
  <2> QED BY <2>2, <1>0, <1>1, StepOn
<1>5. CASE /\ Sends(w, [noteSenders[w] EXCEPT !.at = "failed"])
           /\ noteRows' = [noteRows EXCEPT ![k].arrived = @ + 1, ![k].unsure = @ + 1]
  <2>1. noteRows' = [noteRows EXCEPT ![k] = [noteRows[k] EXCEPT !.status = noteRows[k].status,
                        !.arrived = more, !.unsure = doubt]]
    BY <1>1, <1>3, <1>5 DEF NoteRow, NoteIInv, NoteShape
  <2>2. GoesOn(w, k, "failed", noteRows[k].status, more, doubt)
    BY <2>1, <1>0, <1>1, <1>2, <1>3, <1>5, SameCounts DEF GoesOn, TryingAt
  <2> QED BY <2>2, <1>0, <1>1, <1>3, StepOn
<1>6. ASSUME NEW at \in {"failed", "refused"},
             Sends(w, [noteSenders[w] EXCEPT !.at = at]), noteRows' = noteRows
      PROVE  NoteIInv'
  <2>1. noteRows' = [noteRows EXCEPT ![k] = [noteRows[k] EXCEPT !.status = noteRows[k].status,
                        !.arrived = noteRows[k].arrived, !.unsure = noteRows[k].unsure]]
    <3>1. noteRows[k] = [noteRows[k] EXCEPT !.status = noteRows[k].status,
                        !.arrived = noteRows[k].arrived, !.unsure = noteRows[k].unsure]
      BY <1>1 DEF NoteRow
    <3>2. noteRows \in [NoteKeys -> NoteRow] BY DEF NoteIInv, NoteShape
    <3> QED BY <1>6, <3>1, <3>2
  <2>2. GoesOn(w, k, at, noteRows[k].status, noteRows[k].arrived, noteRows[k].unsure)
    BY <2>1, <1>0, <1>1, <1>2, <1>6, SameCounts DEF GoesOn
  <2> QED BY <2>2, <1>0, <1>1, StepOn
<1> QED BY <1>0, <1>4, <1>5, <1>6 DEF SendNote

LEMMA StepFinishNote == ASSUME NoteIInv, NEW w \in Senders, FinishNote(w) PROVE NoteIInv'
<1>0. PICK k \in NoteKeys : k = noteSenders[w].row BY DEF FinishNote, NoteIInv, NotePlaces
<1>1. /\ noteSenders[w].at \in {"sent", "failed", "refused"} /\ noteRows[k] \in NoteRow
      /\ noteRows[k].arrived \in Nat /\ noteRows[k].unsure \in Nat
      /\ noteRows[k].status # "none" /\ UNCHANGED <<noteInbox, noteWishes>>
      /\ noteSenders[w] \in NoteSender
  BY <1>0 DEF FinishNote, NoteIInv, NoteShape, NotePlaces, NoteRow
<1>2. ~ToldAndDone(k) BY <1>0, <1>1 DEF ToldAndDone
<1>3. CASE noteSenders[w].at # "sent"
  <2>1. PICK result \in {"failed", "retry"} :
          /\ EndNote(w, "failed", result)
          /\ result = "retry" => noteSenders[w].at = "failed"
    BY <1>1, <1>3 DEF FinishNote
  <2> QED BY <2>1, <1>0, <1>1, <1>2, StepEnd DEF NoteStatus
<1>4. CASE noteSenders[w].at = "sent"
  <2> DEFINE record == [noteSenders[w] EXCEPT !.at = "settle"]
             row == [noteRows[k] EXCEPT !.status = "sent"]
  <2>1. /\ Sends(w, record) /\ noteRows' = [noteRows EXCEPT ![k] = row] /\ noteRows'[k] = row
    BY <1>0, <1>4 DEF FinishNote, NoteIInv, NoteShape
  <2>2. record \in NoteSender /\ record.at = "settle" /\ record.row = k BY <1>0, <1>1 DEF NoteSender
  <2>3. /\ row \in NoteRow /\ row.status = "sent" /\ row.revision = noteRows[k].revision
        /\ row.arrived = noteRows[k].arrived /\ row.unsure = noteRows[k].unsure
        /\ row.job = noteRows[k].job /\ row.arrived > 0
    BY <1>0, <1>1, <1>4 DEF NoteRow, NoteStatus, NoteIInv, NotePlaces
  <2> HIDE DEF record, row
  <2>4. Trying(k)' = Trying(k) /\ Cardinality(Trying(k)) \in Nat
    <3>1. ~Tries(record, k) /\ ~Tries(noteSenders[w], k) BY <2>2, <1>4 DEF Tries, TryingAt
    <3> QED BY <3>1, <2>1, <2>2, TryingMoves DEF NoteIInv
  <2>5. InBudget(k)'
    <3>1. noteRows[k].arrived + Cardinality(Trying(k)) + Waiting(k) <= 1 + noteRows[k].unsure
      BY <1>2 DEF NoteIInv, InBudget
    <3>2. Waiting(k)' = Waiting(k) /\ Waiting(k) \in {0, 1} BY <2>1, <2>3 DEF Waiting
    <3>3. row.arrived + Cardinality(Trying(k)') + Waiting(k)' <= 1 + row.unsure
      BY <3>1, <3>2, <2>3, <2>4
    <3>4. HasHolder(k)'
      <4>1. HasHolder(k) /\ NoteShape BY DEF InBudget, NoteIInv
      <4> QED BY <4>1, <2>1, <2>2, <2>3, HeldStays
    <3>5. row.arrived <= 1 + row.unsure BY <1>1, <2>3, <2>4, <3>2, <3>3
    <3> QED BY <3>3, <3>4, <3>5, <2>1, <2>3 DEF InBudget
  <2>6. FitsIn(record, k, row) BY <2>2, NoKey DEF FitsIn
  <2>7. /\ noteSenders[w].row \in {k, <<>>} /\ noteRows[k].status # "none" /\ row.status # "none"
        /\ row.revision = noteRows[k].revision /\ row.arrived >= noteRows[k].arrived
    BY <1>0, <1>1, <2>3
  <2> QED BY <1>1, <2>1, <2>2, <2>3, <2>5, <2>6, <2>7, StepOnRow
<1> QED BY <1>3, <1>4

LEMMA StepSettleNote == ASSUME NoteIInv, NEW w \in Senders, SettleNote(w) PROVE NoteIInv'
<1>0. PICK k \in NoteKeys : k = noteSenders[w].row BY DEF SettleNote, NoteIInv, NotePlaces
<1>1. /\ noteRows[k].status \in NoteStatus \ {"none"} /\ UNCHANGED <<noteInbox, noteWishes>>
      /\ EndNote(w, noteRows[k].status, "done")
  BY <1>0 DEF SettleNote, NoteIInv, NoteShape, NotePlaces, NoteRow
<1>2. ToldAndDone(k) => noteRows[k].status = "sent" BY DEF ToldAndDone
<1> QED BY <1>0, <1>1, <1>2, StepEnd

\* New rows have nobody who works on them.
LEMMA StepDispatch == ASSUME NoteIInv, NEW n \in Notes, DispatchNote(n) PROVE NoteIInv'
<1>1. /\ noteRows \in [NoteKeys -> NoteRow] /\ noteSenders' = noteSenders /\ noteWishes' = noteWishes
      /\ noteInbox[n] \in {"new", "new, read"}
      /\ noteInbox' = [noteInbox EXCEPT ![n] = IF @ = "new" THEN "dispatched" ELSE "dispatched, read"]
  BY DEF DispatchNote, NoteIInv, NoteShape
<1> DEFINE Made(k) == [NoDelivery EXCEPT !.status = "pending", !.revision = noteWishes.revision[k[2]],
                                         !.job = NewJob]
<1>2. \A k \in NoteKeys : k[1] \in Notes /\ k[2] \in NoteChannels BY DEF NoteKeys
<1>3. ASSUME NEW k \in NoteKeys
      PROVE  /\ Made(k) \in NoteRow /\ Made(k).status = "pending" /\ Made(k).arrived = 0
             /\ Made(k).unsure = 0 /\ Made(k).revision = noteWishes.revision[k[2]]
             /\ Made(k).job.status = "pending"
  <2>1. noteWishes.revision[k[2]] \in Nat BY <1>2 DEF NoteIInv, NoteShape, NoteWishes
  <2> QED BY <2>1 DEF NoteRow, NoteJob, NoDelivery, NewJob, Unqueued, NoteStatus
<1>4. \A k \in NoteKeys : \/ noteRows'[k] = noteRows[k]
                          \/ noteRows'[k] = Made(k) /\ noteRows[k].status = "none"
  BY DEF DispatchNote, Delivers
<1> HIDE DEF Made
<1>5. noteRows' \in [NoteKeys -> NoteRow]
  <2>1. noteRows' = [k \in NoteKeys |-> noteRows'[k]] BY DEF DispatchNote
  <2> QED BY <2>1, <1>1, <1>3, <1>4
<1>6. /\ NoteShape'
      /\ \A m \in Notes : Unread(m)' <=> Unread(m)
  <2>1. noteInbox' \in [Notes -> {"none", "new", "dispatched", "new, read", "dispatched, read"}]
    BY <1>1 DEF NoteIInv, NoteShape
  <2>2. \A m \in Notes : Unread(m)' <=> Unread(m) BY <1>1 DEF NoteIInv, NoteShape, Unread
  <2> QED BY <1>1, <1>5, <2>1, <2>2 DEF NoteIInv, NoteShape
<1>7. \A w \in Senders : noteSenders[w].at # "idle" =>
        /\ noteSenders[w].row \in NoteKeys /\ noteRows[noteSenders[w].row].status # "none"
        /\ noteRows'[noteSenders[w].row] = noteRows[noteSenders[w].row]
  BY <1>4 DEF NoteIInv, NotePlaces
<1>8. NotePlaces' BY <1>1, <1>7 DEF NoteIInv, NotePlaces
<1>9. NoteMeant'
  <2>1. ASSUME NEW k \in NoteKeys PROVE noteRows'[k].revision <= noteWishes.revision[k[2]]
    <3>1. noteWishes.revision[k[2]] \in Nat BY <1>2 DEF NoteIInv, NoteShape, NoteWishes
    <3> QED BY <3>1, <1>3, <1>4 DEF NoteIInv, NoteMeant
  <2>2. ASSUME NEW k \in NoteKeys, noteRows'[k].status # "none" PROVE noteInbox'[k[1]] # "none"
    <3>1. CASE k[1] = n BY <3>1, <1>1, <1>2 DEF NoteIInv, NoteShape
    <3>2. CASE k[1] # n
      <4>1. noteRows'[k] = noteRows[k] BY <3>2 DEF DispatchNote
      <4>2. noteInbox'[k[1]] = noteInbox[k[1]] BY <3>2, <1>1, <1>2 DEF NoteIInv, NoteShape
      <4> QED BY <2>2, <4>1, <4>2 DEF NoteIInv, NoteMeant
    <3> QED BY <3>1, <3>2
  <2>3. ASSUME NEW w \in Senders
        PROVE  /\ noteSenders[w].at = "check" /\ ~noteSenders[w].wanted =>
                    \/ ~Unread(noteSenders[w].row[1])
                    \/ noteWishes.revision[noteSenders[w].row[2]] # noteRows'[noteSenders[w].row].revision
               /\ noteSenders[w].at = "channel" /\ ~noteSenders[w].wanted =>
                    noteWishes.revision[noteSenders[w].row[2]] # noteRows'[noteSenders[w].row].revision
               /\ noteSenders[w].at = "send" => noteSenders[w].wanted
    BY <1>7 DEF NoteIInv, NoteMeant
  <2>4. \A w \in Senders : noteSenders[w].at # "idle" =>
          (Unread(noteSenders[w].row[1])' <=> Unread(noteSenders[w].row[1]))
    BY <1>1, <1>2, <1>6, <1>7
  <2> QED BY <2>1, <2>2, <2>3, <2>4, <1>1 DEF NoteMeant
<1>10. ASSUME NEW k \in NoteKeys PROVE InBudget(k)'
  <2>1. CASE noteRows'[k] = noteRows[k]
    <3>1. Trying(k)' = Trying(k) /\ (ToldAndDone(k)' <=> ToldAndDone(k))
      BY <2>1, <1>1 DEF Trying, ToldAndDone
    <3>2. Waiting(k)' = Waiting(k) /\ (HasHolder(k) => HasHolder(k)')
      BY <2>1, <1>1 DEF Waiting, HasHolder
    <3>3. InBudget(k) BY DEF NoteIInv
    <3> QED BY ONLY <2>1, <3>1, <3>2, <3>3 DEF InBudget
  <2>2. CASE noteRows'[k] = Made(k) /\ noteRows[k].status = "none"
    <3>1. Trying(k)' = {} BY <2>2, <1>1, <1>7, NoKey DEF Trying
    <3>2. Cardinality(Trying(k)') = 0 BY <3>1, FS_EmptySet
    <3>3. Waiting(k)' = 1 BY <2>2, <1>3 DEF Waiting
    <3>4. /\ noteRows'[k].status = "pending" /\ noteRows'[k].arrived = 0 /\ noteRows'[k].unsure = 0
          /\ noteRows'[k].job.status = "pending"
      BY <2>2, <1>3
    <3>5. HasHolder(k)' BY <3>4 DEF HasHolder
    <3> QED BY <3>2, <3>3, <3>4, <3>5 DEF InBudget
  <2> QED BY <2>1, <2>2, <1>4
<1> QED BY <1>6, <1>8, <1>9, <1>10 DEF NoteIInv

RevisionsGrow == \A c \in NoteChannels : noteWishes.revision[c] <= noteWishes'.revision[c]

LEMMA Grows ==
  ASSUME NEW low \in Nat, NEW was \in Nat, NEW is \in Nat, low <= was, was <= is
  PROVE  low <= is /\ (was # low => is # low)
  OBVIOUS

\* Users and administrators touch no row.
LEMMA StepAround ==
  ASSUME NoteIInv, UNCHANGED <<noteRows, noteSenders>>,
         noteInbox' \in [Notes -> {"none", "new", "dispatched", "new, read", "dispatched, read"}],
         noteWishes' \in NoteWishes,
         \A n \in Notes : Unread(n)' /\ ~Unread(n) => noteInbox[n] = "none",
         \A n \in Notes : noteInbox[n] # "none" => noteInbox'[n] # "none", RevisionsGrow
  PROVE  NoteIInv'
<1>1. NoteShape' /\ NotePlaces' BY DEF NoteIInv, NoteShape, NotePlaces
<1>2. \A k \in NoteKeys : k[1] \in Notes /\ k[2] \in NoteChannels BY DEF NoteKeys
<1>3. \A c \in NoteChannels : noteWishes.revision[c] \in Nat /\ noteWishes'.revision[c] \in Nat
  BY DEF NoteIInv, NoteShape, NoteWishes
<1>4. \A k \in NoteKeys : noteRows[k].revision \in Nat BY DEF NoteIInv, NoteShape, NoteRow
<1>5. NoteMeant'
  <2>1. ASSUME NEW k \in NoteKeys
        PROVE  /\ noteRows'[k].revision <= noteWishes'.revision[k[2]]
               /\ noteRows'[k].status # "none" => noteInbox'[k[1]] # "none"
    <3>1. /\ noteRows[k].revision <= noteWishes.revision[k[2]]
          /\ noteRows[k].status # "none" => noteInbox[k[1]] # "none"
      BY DEF NoteIInv, NoteMeant
    <3>2. noteWishes.revision[k[2]] <= noteWishes'.revision[k[2]] BY <1>2 DEF RevisionsGrow
    <3> DEFINE was == noteWishes.revision[k[2]]
               is == noteWishes'.revision[k[2]]
               low == noteRows[k].revision
    <3>3. was \in Nat /\ is \in Nat /\ low \in Nat BY <1>2, <1>3, <1>4
    <3>4. low <= was /\ was <= is BY <3>1, <3>2
    <3>5. low <= is
      <4> HIDE DEF was, is, low
      <4> QED BY <3>3, <3>4, Grows
    <3>6. k[1] \in Notes BY <1>2
    <3> QED BY <3>1, <3>5, <3>6
  <2>2. ASSUME NEW w \in Senders, noteSenders[w].at # "idle",
               noteWishes.revision[noteSenders[w].row[2]] # noteRows[noteSenders[w].row].revision
        PROVE  noteWishes'.revision[noteSenders[w].row[2]] # noteRows[noteSenders[w].row].revision
    <3> DEFINE k == noteSenders[w].row
    <3>1. k \in NoteKeys BY <2>2 DEF NoteIInv, NotePlaces
    <3>2. /\ noteRows[k].revision \in Nat /\ noteWishes.revision[k[2]] \in Nat
          /\ noteWishes'.revision[k[2]] \in Nat
          /\ noteWishes.revision[k[2]] <= noteWishes'.revision[k[2]]
      BY <3>1, <1>2, <1>3, <1>4 DEF RevisionsGrow
    <3>3. noteRows[k].revision <= noteWishes.revision[k[2]] BY <3>1 DEF NoteIInv, NoteMeant
    <3> HIDE DEF k
    <3>4. noteWishes.revision[k[2]] # noteRows[k].revision BY <2>2 DEF k
    <3> DEFINE was == noteWishes.revision[k[2]]
               is == noteWishes'.revision[k[2]]
               low == noteRows[k].revision
    <3>5. is # low
      <4>1. was \in Nat /\ is \in Nat /\ low \in Nat /\ low <= was /\ was <= is /\ was # low
        BY <3>2, <3>3, <3>4
      <4> HIDE DEF was, is, low
      <4> QED BY <4>1, Grows
    <3> QED BY <3>5 DEF k
  <2>3. ASSUME NEW w \in Senders, noteSenders[w].at # "idle", ~Unread(noteSenders[w].row[1])
        PROVE  ~Unread(noteSenders[w].row[1])'
    <3>1. noteSenders[w].row \in NoteKeys /\ noteRows[noteSenders[w].row].status # "none"
      BY <2>3 DEF NoteIInv, NotePlaces
    <3>2. noteInbox[noteSenders[w].row[1]] # "none" /\ noteSenders[w].row[1] \in Notes
      BY <3>1, <1>2 DEF NoteIInv, NoteMeant
    <3> QED BY <2>3, <3>2
  <2>4. ASSUME NEW w \in Senders
        PROVE  /\ noteSenders[w].at = "check" /\ ~noteSenders[w].wanted =>
                    \/ ~Unread(noteSenders[w].row[1])'
                    \/ noteWishes'.revision[noteSenders[w].row[2]] # noteRows[noteSenders[w].row].revision
               /\ noteSenders[w].at = "channel" /\ ~noteSenders[w].wanted =>
                    noteWishes'.revision[noteSenders[w].row[2]] # noteRows[noteSenders[w].row].revision
               /\ noteSenders[w].at = "send" => noteSenders[w].wanted
    BY <2>2, <2>3 DEF NoteIInv, NoteMeant
  <2> QED BY <2>1, <2>4 DEF NoteMeant
<1>6. ASSUME NEW k \in NoteKeys PROVE InBudget(k)'
  <2>1. Trying(k)' = Trying(k) /\ (ToldAndDone(k)' <=> ToldAndDone(k)) BY DEF Trying, ToldAndDone
  <2> QED BY <2>1 DEF NoteIInv, InBudget, Waiting, HasHolder
<1> QED BY <1>1, <1>5, <1>6 DEF NoteIInv

LEMMA StepsOfUsers ==
  ASSUME NoteIInv,
         \/ \E n \in Notes : Notify(n) \/ ReadNote(n)
         \/ \E c \in NoteChannels, on \in BOOLEAN : SaveNoteChannel(c, on)
         \/ ChangeWishes
  PROVE  NoteIInv'
<1>0. /\ noteInbox \in [Notes -> {"none", "new", "dispatched", "new, read", "dispatched, read"}]
      /\ noteWishes \in NoteWishes
  BY DEF NoteIInv, NoteShape
<1>10. noteWishes.revision \in [NoteChannels -> Nat] BY <1>0 DEF NoteWishes
<1>11. \A c \in NoteChannels : noteWishes.revision[c] <= noteWishes.revision[c] BY <1>10
<1>1. CASE \E n \in Notes : Notify(n) \/ ReadNote(n)
  <2>1. PICK n \in Notes, was \in {"new", "new, read", "dispatched, read"} :
          /\ noteInbox' = [noteInbox EXCEPT ![n] = was]
          /\ was = "new" => noteInbox[n] = "none"
    BY <1>0, <1>1 DEF Notify, ReadNote
  <2>2. UNCHANGED <<noteRows, noteSenders, noteWishes>> BY <1>1 DEF Notify, ReadNote
  <2>3. /\ noteInbox' \in [Notes -> {"none", "new", "dispatched", "new, read", "dispatched, read"}]
        /\ \A m \in Notes : Unread(m)' /\ ~Unread(m) => noteInbox[m] = "none"
        /\ \A m \in Notes : noteInbox[m] # "none" => noteInbox'[m] # "none"
    <3>1. \A m \in Notes : noteInbox'[m] = IF m = n THEN was ELSE noteInbox[m] BY <1>0, <2>1
    <3>2. noteInbox' \in [Notes -> {"none", "new", "dispatched", "new, read", "dispatched, read"}]
      BY <1>0, <2>1
    <3> QED BY <2>1, <3>1, <3>2 DEF Unread
  <2>4. \A c \in NoteChannels : noteWishes.revision[c] <= noteWishes'.revision[c] BY <1>11, <2>2
  <2> QED BY <1>0, <2>2, <2>3, <2>4, StepAround DEF RevisionsGrow
<1>2. CASE \/ \E c \in NoteChannels, on \in BOOLEAN : SaveNoteChannel(c, on)
           \/ ChangeWishes
  <2>1. UNCHANGED <<noteRows, noteSenders, noteInbox>> BY <1>2 DEF SaveNoteChannel, ChangeWishes
  <2>2. /\ noteWishes' \in NoteWishes
        /\ \A c \in NoteChannels : noteWishes.revision[c] <= noteWishes'.revision[c]
    <3>1. CASE ChangeWishes
      <4>1. noteWishes'.revision = noteWishes.revision /\ noteWishes' \in NoteWishes
        <5>1. CASE \E c \in NoteChannels : noteWishes' =
                     [noteWishes EXCEPT !.chosen = IF c \in @ THEN @ \ {c} ELSE @ \cup {c}]
          <6>1. PICK chosen \in SUBSET NoteChannels : noteWishes' = [noteWishes EXCEPT !.chosen = chosen]
            <7>1. PICK c \in NoteChannels : noteWishes' =
                      [noteWishes EXCEPT !.chosen = IF c \in @ THEN @ \ {c} ELSE @ \cup {c}]
              BY <5>1
            <7>2. PICK chosen : chosen = IF c \in noteWishes.chosen THEN noteWishes.chosen \ {c}
                                         ELSE noteWishes.chosen \cup {c}
              OBVIOUS
            <7>3. noteWishes.chosen \in SUBSET NoteChannels BY <1>0 DEF NoteWishes
            <7>4. chosen \in SUBSET NoteChannels BY ONLY <7>2, <7>3, c \in NoteChannels
            <7> QED BY <7>1, <7>2, <7>4
          <6> QED BY <6>1, <1>0 DEF NoteWishes
        <5>2. CASE noteWishes' = [noteWishes EXCEPT !.enabled = ~@] BY <5>2, <1>0 DEF NoteWishes
        <5>3. CASE noteWishes' = [noteWishes EXCEPT !.may = ~@] BY <5>3, <1>0 DEF NoteWishes
        <5> QED BY <3>1, <5>1, <5>2, <5>3 DEF ChangeWishes
      <4> QED BY <4>1, <1>11
    <3>2. CASE \E c \in NoteChannels, on \in BOOLEAN : SaveNoteChannel(c, on)
      <4>1. PICK c \in NoteChannels, on \in BOOLEAN : SaveNoteChannel(c, on) BY <3>2
      <4>2. noteWishes.revision[c] \in Nat BY <1>10
      <4>3. PICK next \in Nat : next = noteWishes.revision[c] + 1 BY <4>2
      <4>4. PICK on2 \in SUBSET NoteChannels :
              on2 = IF on THEN noteWishes.on \cup {c} ELSE noteWishes.on \ {c}
        BY <1>0 DEF NoteWishes
      <4>5. noteWishes' = [noteWishes EXCEPT !.revision = [noteWishes.revision EXCEPT ![c] = next],
                                             !.on = on2]
        BY <4>1, <4>3, <4>4, <1>0 DEF SaveNoteChannel, NoteWishes
      <4>7. /\ [noteWishes.revision EXCEPT ![c] = next] \in [NoteChannels -> Nat]
            /\ \A d \in NoteChannels :
                 noteWishes.revision[d] <= [noteWishes.revision EXCEPT ![c] = next][d]
        BY <4>2, <4>3, <1>10
      <4> QED BY <4>5, <4>7, <1>0 DEF NoteWishes
    <3> QED BY <1>2, <3>1, <3>2
  <2>3. \A n : Unread(n)' <=> Unread(n) BY <2>1 DEF Unread
  <2> QED BY <1>0, <2>1, <2>2, <2>3, StepAround DEF RevisionsGrow
<1> QED BY <1>1, <1>2

LEMMA NotesStart == ASSUME NoteInit PROVE NoteIInv
<1>1. noteRows = [k \in NoteKeys |-> NoDelivery] /\ NoDelivery \in NoteRow
  BY DEF NoteInit, NoDelivery, NoteRow, NoteJob, NoteStatus, Unqueued
<1>2. noteSenders = [w \in Senders |-> NotSending] /\ NotSending \in NoteSender
  BY DEF NoteInit, NotSending, NoteSender
<1>3. /\ noteWishes \in NoteWishes
      /\ noteInbox \in [Notes -> {"none", "new", "dispatched", "new, read", "dispatched, read"}]
      /\ \A c \in NoteChannels : noteWishes.revision[c] = 1
  BY DEF NoteInit, NoteWishes
<1>4. NotSending.at = "idle" /\ NotSending.row = <<>> BY DEF NotSending
<1>5. /\ NoDelivery.status = "none" /\ NoDelivery.revision = 0 /\ NoDelivery.arrived = 0
      /\ NoDelivery.unsure = 0 /\ NoDelivery.job.status = "none"
  BY DEF NoDelivery, Unqueued
<1>6. \A k \in NoteKeys : k[2] \in NoteChannels BY DEF NoteKeys
<1> HIDE DEF NoDelivery, NotSending
<1>7. NoteShape /\ NotePlaces /\ NoteMeant
  <2>1. \A w \in Senders : noteSenders[w].at = "idle" /\ noteSenders[w].row = <<>> BY <1>2, <1>4
  <2>2. NoteShape BY <1>1, <1>2, <1>3 DEF NoteShape
  <2>3. NotePlaces BY <2>1 DEF NotePlaces
  <2>4. \A k \in NoteKeys : noteRows[k].revision = 0 /\ noteRows[k].status = "none"
                            /\ noteWishes.revision[k[2]] = 1
    BY <1>1, <1>3, <1>5, <1>6
  <2>5. \A k \in NoteKeys : noteRows[k].revision <= noteWishes.revision[k[2]] BY <2>4
  <2> QED BY <2>1, <2>2, <2>3, <2>4, <2>5 DEF NoteMeant
<1>8. ASSUME NEW k \in NoteKeys PROVE InBudget(k)
  <2>1. Trying(k) = {} BY <1>2, <1>4, NoKey DEF Trying
  <2>2. Cardinality(Trying(k)) = 0 BY <2>1, FS_EmptySet
  <2> QED BY <2>2, <1>1, <1>5 DEF InBudget, Waiting, HasHolder
<1> QED BY <1>7, <1>8 DEF NoteIInv

LEMMA NotesStep == ASSUME NoteIInv, NoteNext PROVE NoteIInv'
  BY StepsOfUsers, StepDispatch, StepLoseNote, StepClaimNote, StepCheckNote, StepReadChannel,
     StepSendNote, StepFinishNote, StepSettleNote DEF NoteNext

LEMMA NotesStutter == ASSUME NoteIInv, UNCHANGED noteVars PROVE NoteIInv'
<1>1. UNCHANGED <<noteInbox, noteWishes, noteRows, noteSenders>> BY DEF noteVars
<1>2. \A k : Trying(k)' = Trying(k) /\ (InBudget(k)' <=> InBudget(k))
  BY <1>1 DEF Trying, InBudget, ToldAndDone, Waiting, HasHolder
<1> QED BY <1>1, <1>2 DEF NoteIInv, NoteShape, NotePlaces, NoteMeant, Unread

LEMMA NotesTold == ASSUME NoteIInv PROVE ToldOnce
  BY DEF NoteIInv, InBudget, ToldOnce

\* Only an attempt that was wanted when it began makes something arrive.
LEMMA NotesWished == ASSUME NoteIInv, NoteNext PROVE AsWished
<1> SUFFICES ASSUME NEW k \in NoteKeys, noteRows'[k].arrived > noteRows[k].arrived
             PROVE  \E w \in Senders :
                      noteSenders[w].row = k /\ noteSenders[w].at = "send" /\ noteSenders[w].wanted
  BY DEF AsWished
<1>0. noteRows \in [NoteKeys -> NoteRow] /\ noteRows[k].arrived \in Nat
  BY DEF NoteIInv, NoteShape, NoteRow
<1> DEFINE same == noteRows'[k].arrived = noteRows[k].arrived
<1>1. ~same BY <1>0
<1>2. ASSUME NEW w \in Senders, NEW status, NEW result, EndNote(w, status, result) PROVE same
  <2>1. PICK j, row : noteRows' = [noteRows EXCEPT ![j] = row] /\ row.arrived = noteRows[j].arrived
    <3> DEFINE j == noteSenders[w].row
               ended == [noteRows[j] EXCEPT !.job = JobSettled(@, w, result, NoteAttempts)]
               told  == [ended EXCEPT !.status = status]
    <3>1. noteRows' = [noteRows EXCEPT ![j] = told] \/ noteRows' = [noteRows EXCEPT ![j] = ended]
      BY <1>2 DEF EndNote
    <3>2. ended.arrived = noteRows[j].arrived /\ told.arrived = noteRows[j].arrived
      OBVIOUS
    <3> HIDE DEF told, ended
    <3> QED BY ONLY <3>1, <3>2
  <2> QED BY ONLY <1>0, <2>1, k \in NoteKeys
<1>3. ASSUME NEW w \in Senders, SendNote(w) PROVE same \/ noteSenders[w].row = k
  BY <1>0, <1>3 DEF SendNote, NoteRow
<1>4. ASSUME NEW w \in Senders, SendNote(w) PROVE noteSenders[w].at = "send" /\ noteSenders[w].wanted
  BY <1>4 DEF SendNote, NoteIInv, NoteMeant
<1>5. ASSUME NEW w \in Senders, CheckNote(w) \/ ReadNoteChannel(w) \/ FinishNote(w) \/ SettleNote(w)
      PROVE  same
  BY <1>0, <1>2, <1>5 DEF CheckNote, ReadNoteChannel, FinishNote, SettleNote, NoteRow
<1>6. ASSUME NEW n \in NoteKeys, LoseNote(n) \/ \E w \in Senders : ClaimNote(w, n) PROVE same
  BY <1>0, <1>6 DEF LoseNote, ClaimNote, NoteRow
<1>7. ASSUME NEW n \in Notes, DispatchNote(n) PROVE same
  <2>1. noteRows[k].status = "none" => noteRows[k].arrived = 0 BY DEF NoteIInv, InBudget, NoDelivery
  <2> QED BY <2>1, <1>7 DEF DispatchNote, Delivers, NoDelivery
<1>8. UNCHANGED noteRows => same
  OBVIOUS
<1> QED BY <1>1, <1>3, <1>4, <1>5, <1>6, <1>7, <1>8
        DEF NoteNext, Notify, ReadNote, SaveNoteChannel, ChangeWishes

----------------
(* Deliveries: what their type invariant says beyond the shape.               *)

NoteTried(row) ==
  /\ row.job.attempts <= NoteAttempts
  /\ row.job.status = "pending" => row.job.attempts < NoteAttempts
  /\ row.status = "none" <=> row.job.status = "none"
NoteDispatched == \A k \in NoteKeys : noteRows[k].status # "none" =>
                    noteInbox[k[1]] \in {"dispatched", "dispatched, read"}
NoteBudget == (\A k \in NoteKeys : NoteTried(noteRows[k])) /\ NoteDispatched

LEMMA NoteBudgetStarts == NoteInit => NoteBudget
<1> SUFFICES ASSUME NoteInit PROVE NoteBudget
  OBVIOUS
<1>1. NoDelivery.status = "none" /\ NoteTried(NoDelivery)
  BY NoteAssumption DEF NoteTried, NoDelivery, Unqueued
<1>2. \A k \in NoteKeys : noteRows[k] = NoDelivery BY DEF NoteInit
<1> QED BY <1>1, <1>2 DEF NoteBudget, NoteDispatched

\* One row changes, of a note that was dispatched.
LEMMA NoteBudgetOfRow ==
  ASSUME NoteIInv, NoteBudget, NEW k \in NoteKeys, NEW row, noteRows' = [noteRows EXCEPT ![k] = row],
         noteInbox' = noteInbox, noteRows[k].status # "none", NoteTried(row)
  PROVE  NoteBudget'
<1>1. DOMAIN noteRows = NoteKeys BY DEF NoteIInv, NoteShape
<1>2. ASSUME NEW n \in NoteKeys
      PROVE  NoteTried(noteRows[n])' /\ (noteRows'[n].status # "none" => noteRows[n].status # "none")
  <2>1. noteRows'[n] = IF n = k THEN row ELSE noteRows[n] BY <1>1
  <2>2. NoteTried(noteRows'[n]) BY <2>1 DEF NoteBudget
  <2> QED BY <2>1, <2>2 DEF NoteTried
<1> QED BY <1>2 DEF NoteBudget, NoteDispatched

\* The inbox alone changes: what was dispatched stays so.
LEMMA NoteBudgetOfInbox ==
  ASSUME NoteIInv, NoteBudget, noteRows' = noteRows,
         \A n \in Notes : noteInbox[n] \in {"dispatched", "dispatched, read"} =>
                            noteInbox'[n] \in {"dispatched", "dispatched, read"}
  PROVE  NoteBudget'
<1>1. \A k \in NoteKeys : k[1] \in Notes BY DEF NoteKeys
<1> QED BY <1>1 DEF NoteBudget, NoteDispatched, NoteTried

LEMMA NoteBudgetOfUser ==
  ASSUME NoteIInv, NoteBudget,
         \/ \E n \in Notes : Notify(n) \/ ReadNote(n)
         \/ \E c \in NoteChannels, on \in BOOLEAN : SaveNoteChannel(c, on)
         \/ ChangeWishes
  PROVE  NoteBudget'
<1>0. noteInbox \in [Notes -> {"none", "new", "dispatched", "new, read", "dispatched, read"}]
  BY DEF NoteIInv, NoteShape
<1>1. ASSUME NEW n \in Notes, Notify(n) \/ ReadNote(n) PROVE NoteBudget'
  <2>1. \A m \in Notes : noteInbox[m] \in {"dispatched", "dispatched, read"} =>
                           noteInbox'[m] \in {"dispatched", "dispatched, read"}
    BY <1>0, <1>1 DEF Notify, ReadNote
  <2> QED BY <1>1, <2>1, NoteBudgetOfInbox DEF Notify, ReadNote
<1>2. ASSUME UNCHANGED <<noteInbox, noteRows>> PROVE NoteBudget' BY <1>2, NoteBudgetOfInbox
<1> QED BY <1>1, <1>2 DEF SaveNoteChannel, ChangeWishes

LEMMA NoteBudgetOfDispatch ==
  ASSUME NoteIInv, NoteBudget, NEW n \in Notes, DispatchNote(n)
  PROVE  NoteBudget'
<1> DEFINE new(k) == [NoDelivery EXCEPT !.status = "pending", !.revision = noteWishes.revision[k[2]], !.job = NewJob]
<1>0. noteInbox \in [Notes -> {"none", "new", "dispatched", "new, read", "dispatched, read"}]
  BY DEF NoteIInv, NoteShape
<1>1. \A k \in NoteKeys : k[1] \in Notes BY DEF NoteKeys
<1>2. /\ noteInbox'[n] \in {"dispatched", "dispatched, read"}
      /\ \A m \in Notes : m # n => noteInbox'[m] = noteInbox[m]
  BY <1>0 DEF DispatchNote
<1>3. ASSUME NEW k \in NoteKeys
      PROVE  NoteTried(noteRows[k])' /\ (k[1] # n => noteRows'[k] = noteRows[k])
  <2>1. noteRows'[k] = IF k[1] # n \/ ~Delivers(k) THEN noteRows[k] ELSE new(k) BY DEF DispatchNote
  <2>2. new(k).status = "pending" /\ new(k).job = NewJob BY DEF NoDelivery
  <2>3. NewJob.status = "pending" /\ NewJob.attempts = 0 BY DEF NewJob, Unqueued
  <2>4. NoteTried(new(k)) BY <2>2, <2>3, NoteAssumption DEF NoteTried
  <2>5. NoteTried(noteRows'[k]) BY <2>1, <2>4 DEF NoteBudget
  <2> QED BY <2>1, <2>5 DEF NoteTried
<1> QED BY <1>1, <1>2, <1>3 DEF NoteBudget, NoteDispatched

LEMMA NoteJobTried ==
  ASSUME NEW job \in NoteJob, job.attempts <= NoteAttempts,
         job.status = "pending" => job.attempts < NoteAttempts
  PROVE  /\ \A w \in Senders, result \in {"done", "failed", "retry"} :
              LET now == JobSettled(job, w, result, NoteAttempts) IN
              /\ now.attempts <= NoteAttempts /\ (now.status = "none" <=> job.status = "none")
              /\ now.status = "pending" => now.attempts < NoteAttempts
         /\ job.status # "none" => LET now == JobLapsed(job, NoteAttempts) IN
              /\ now.attempts <= NoteAttempts /\ now.status # "none"
              /\ now.status = "pending" => now.attempts < NoteAttempts
  BY DEF NoteJob, JobSettled, JobLapsed, Retried

LEMMA NoteBudgetOfEnd ==
  ASSUME NoteIInv, NoteBudget, NEW w \in Senders, noteSenders[w].at # "idle", noteInbox' = noteInbox,
         NEW status \in NoteStatus \ {"none"}, NEW result \in {"done", "failed", "retry"}, EndNote(w, status, result)
  PROVE  NoteBudget'
<1> DEFINE k == noteSenders[w].row
           old == noteRows[k]
<1>1. k \in NoteKeys /\ old \in NoteRow /\ old.status # "none" /\ NoteTried(old) /\ old.job \in NoteJob
  BY DEF NoteIInv, NoteShape, NotePlaces, NoteBudget, NoteRow
<1>2. PICK job : job = JobSettled(old.job, w, result, NoteAttempts)
  OBVIOUS
<1>3. /\ job.attempts <= NoteAttempts /\ job.status # "none"
      /\ job.status = "pending" => job.attempts < NoteAttempts
  BY <1>1, <1>2, NoteJobTried DEF NoteTried
<1>4. PICK ended : ended = [old EXCEPT !.job = job]
  OBVIOUS
<1>5. PICK row : row = [ended EXCEPT !.status = status]
  OBVIOUS
<1>6. ended.job = job /\ ended.status = old.status /\ row.job = job /\ row.status = status
  BY <1>1, <1>4, <1>5 DEF NoteRow
<1>7. NoteTried(ended) /\ NoteTried(row) BY <1>1, <1>3, <1>6 DEF NoteTried
<1>8. noteRows' = [noteRows EXCEPT ![k] = row] \/ noteRows' = [noteRows EXCEPT ![k] = ended]
  BY <1>2, <1>4, <1>5 DEF EndNote
<1> QED BY <1>1, <1>7, <1>8, NoteBudgetOfRow

LEMMA NoteBudgetOfQueue ==
  ASSUME NoteIInv, NoteBudget, NEW k \in NoteKeys, LoseNote(k) \/ \E w \in Senders : ClaimNote(w, k)
  PROVE  NoteBudget'
<1> DEFINE old == noteRows[k]
<1>1. /\ old \in NoteRow /\ NoteTried(old) /\ old.job \in NoteJob /\ noteRows \in [NoteKeys -> NoteRow]
      /\ old.unsure \in Nat
  BY DEF NoteIInv, NoteShape, NoteBudget, NoteRow
<1>2. CASE LoseNote(k)
  <2>1. PICK n \in Nat : n = old.unsure BY <1>1
  <2>2. PICK unsure \in {n, n + 1} : noteRows' = [noteRows EXCEPT ![k] = [old EXCEPT !.job = JobLapsed(old.job, NoteAttempts), !.unsure = unsure]]
    BY <1>1, <1>2, <2>1 DEF LoseNote
  <2>3. PICK job : job = JobLapsed(old.job, NoteAttempts)
    OBVIOUS
  <2>4. PICK row : row = [old EXCEPT !.job = job, !.unsure = unsure]
    OBVIOUS
  <2>5. row.job = job /\ row.status = old.status BY <1>1, <2>4 DEF NoteRow
  <2>6. old.job.status # "none" /\ old.status # "none" /\ noteInbox' = noteInbox
    BY <1>1, <1>2 DEF LoseNote, NoteTried
  <2>7. NoteTried(row) BY <1>1, <2>3, <2>5, <2>6, NoteJobTried DEF NoteTried
  <2>8. noteRows' = [noteRows EXCEPT ![k] = row] BY <2>2, <2>3, <2>4
  <2> QED BY <2>6, <2>7, <2>8, NoteBudgetOfRow
<1>3. ASSUME NEW w \in Senders, ClaimNote(w, k) PROVE NoteBudget'
  <2>1. PICK n \in Nat : n = old.job.attempts BY <1>1 DEF NoteJob
  <2>2. PICK job : job = [old.job EXCEPT !.status = "running", !.attempts = n + 1, !.holder = w]
    OBVIOUS
  <2>3. job.status = "running" /\ job.attempts = n + 1 BY <1>1, <2>2 DEF NoteJob
  <2>4. old.job.status = "pending" /\ n < NoteAttempts /\ old.status # "none" /\ noteInbox' = noteInbox
    BY <1>1, <1>3, <2>1 DEF ClaimNote, MayClaim, NoteTried
  <2>5. PICK row : row = [old EXCEPT !.job = job]
    OBVIOUS
  <2>6. row.job = job /\ row.status = old.status BY <1>1, <2>5 DEF NoteRow
  <2>7. NoteTried(row) BY <2>3, <2>4, <2>6, NoteAssumption DEF NoteTried
  <2>8. noteRows' = [noteRows EXCEPT ![k] = row]
    BY <1>1, <1>3, <2>1, <2>2, <2>5 DEF ClaimNote, ClaimedBy
  <2> QED BY <2>4, <2>7, <2>8, NoteBudgetOfRow
<1> QED BY <1>2, <1>3

LEMMA NoteBudgetOfSender ==
  ASSUME NoteIInv, NoteBudget, NEW w \in Senders,
         CheckNote(w) \/ ReadNoteChannel(w) \/ SendNote(w) \/ FinishNote(w) \/ SettleNote(w)
  PROVE  NoteBudget'
<1> DEFINE k == noteSenders[w].row
           old == noteRows[k]
<1>1. noteSenders[w].at # "idle" /\ noteInbox' = noteInbox
  BY DEF CheckNote, ReadNoteChannel, SendNote, FinishNote, SettleNote
<1>2. /\ k \in NoteKeys /\ old \in NoteRow /\ old.status \in NoteStatus \ {"none"} /\ NoteTried(old)
      /\ old.job \in NoteJob /\ noteRows \in [NoteKeys -> NoteRow] /\ old.arrived \in Nat /\ old.unsure \in Nat
  BY <1>1 DEF NoteIInv, NoteShape, NotePlaces, NoteBudget, NoteRow
<1>3. CASE \E status \in {"sent", "skipped", "failed"}, result \in {"done", "failed", "retry"} : EndNote(w, status, result)
  BY <1>1, <1>3, NoteBudgetOfEnd DEF NoteStatus
<1>4. CASE noteRows' = noteRows BY <1>1, <1>4, NoteBudgetOfInbox
<1>5. ASSUME NEW status \in {"sending", "sent"}, noteRows' = [noteRows EXCEPT ![k].status = status] PROVE NoteBudget'
  <2>1. PICK row : row = [old EXCEPT !.status = status]
    OBVIOUS
  <2>2. row.status = status /\ row.job = old.job BY <1>2, <2>1 DEF NoteRow
  <2>3. NoteTried(row) BY <1>2, <2>2 DEF NoteTried
  <2>4. noteRows' = [noteRows EXCEPT ![k] = row] BY <1>2, <1>5, <2>1
  <2> QED BY <1>1, <1>2, <2>3, <2>4, NoteBudgetOfRow
<1>6. CASE CheckNote(w) BY <1>3, <1>4, <1>6 DEF CheckNote
<1>7. CASE ReadNoteChannel(w) BY <1>3, <1>5, <1>7 DEF ReadNoteChannel
<1>8. CASE SendNote(w)
  <2>1. PICK arrived, unsure : \/ noteRows' = noteRows
                               \/ noteRows' = [noteRows EXCEPT ![k] = [old EXCEPT !.arrived = arrived]]
                               \/ noteRows' = [noteRows EXCEPT ![k] = [old EXCEPT !.arrived = arrived, !.unsure = unsure]]
    <3>1. PICK a \in Nat : a = old.arrived BY <1>2
    <3>2. PICK u \in Nat : u = old.unsure BY <1>2
    <3>3. \/ noteRows' = noteRows
          \/ noteRows' = [noteRows EXCEPT ![k] = [old EXCEPT !.arrived = a + 1]]
          \/ noteRows' = [noteRows EXCEPT ![k] = [old EXCEPT !.arrived = a + 1, !.unsure = u + 1]]
      BY <1>2, <1>8, <3>1, <3>2 DEF SendNote
    <3> QED BY <3>3
  <2>2. PICK one : one = [old EXCEPT !.arrived = arrived]
    OBVIOUS
  <2>3. PICK two : two = [old EXCEPT !.arrived = arrived, !.unsure = unsure]
    OBVIOUS
  <2>4. one.job = old.job /\ one.status = old.status /\ two.job = old.job /\ two.status = old.status
    BY <1>2, <2>2, <2>3 DEF NoteRow
  <2>5. NoteTried(one) /\ NoteTried(two) BY <1>2, <2>4 DEF NoteTried
  <2> QED BY <1>1, <1>2, <1>4, <2>1, <2>2, <2>3, <2>5, NoteBudgetOfRow
<1>9. CASE FinishNote(w) BY <1>3, <1>5, <1>9 DEF FinishNote
<1>10. CASE SettleNote(w) BY <1>1, <1>2, <1>10, NoteBudgetOfEnd DEF SettleNote
<1> QED BY <1>6, <1>7, <1>8, <1>9, <1>10

LEMMA NoteBudgetSteps == ASSUME NoteIInv, NoteBudget, NoteNext PROVE NoteBudget'
  BY NoteBudgetOfUser, NoteBudgetOfDispatch, NoteBudgetOfQueue, NoteBudgetOfSender DEF NoteNext

LEMMA NoteTyped == ASSUME NoteIInv, NoteBudget PROVE NoteTypeOK
<1>1. ASSUME NEW k \in NoteKeys
      PROVE  /\ noteRows[k].status \in {"none", "pending", "sending", "sent", "failed", "skipped"}
             /\ noteRows[k].job.attempts \in 0 .. NoteAttempts
             /\ noteRows[k].status = "none" <=> noteRows[k].job.status = "none"
             /\ noteRows[k].status # "none" => noteInbox[k[1]] \in {"dispatched", "dispatched, read"}
  <2>1. noteRows[k] \in NoteRow /\ NoteTried(noteRows[k]) BY DEF NoteIInv, NoteShape, NoteBudget
  <2>2. noteRows[k].job.attempts \in Nat BY <2>1 DEF NoteRow, NoteJob
  <2>3. noteRows[k].job.attempts \in 0 .. NoteAttempts BY <2>1, <2>2, NoteAssumption DEF NoteTried
  <2> QED BY <2>1, <2>3 DEF NoteRow, NoteStatus, NoteTried, NoteBudget, NoteDispatched
<1>2. \A n \in Notes : noteInbox[n] \in {"none", "new", "dispatched", "new, read", "dispatched, read"}
  BY DEF NoteIInv, NoteShape
<1>3. \A w \in Senders : noteSenders[w].at \in {"idle", "check", "channel", "send", "sent", "failed", "refused", "settle"}
  BY DEF NoteIInv, NoteShape, NoteSender
<1> QED BY <1>1, <1>2, <1>3 DEF NoteTypeOK

----------------
(* The scenes together.                                                       *)

ExchangeInv == /\ scene = "index" => RagIInv
               /\ scene = "git" => GitIInv
               /\ scene = "notes" => NoteIInv
               /\ scene = "inbound" => InIInv
               /\ scene = "migration" => MigIInv

LEMMA ExchangeStarts == ExchangeInit => ExchangeInv
  BY RagStart, GitStart, NotesStart, InStart, MigStart DEF ExchangeInit, ExchangeInv

LEMMA ExchangeSteps == ExchangeInv /\ [ExchangeNext]_exchangeVars => ExchangeInv'
<1> SUFFICES ASSUME ExchangeInv, [ExchangeNext]_exchangeVars PROVE ExchangeInv'
  OBVIOUS
<1>1. scene' = scene BY DEF ExchangeNext, exchangeVars
<1>2. ASSUME scene = "index" PROVE RagIInv'
  <2>1. RagIInv /\ (RagNext \/ UNCHANGED ragVars)
    BY <1>2 DEF ExchangeInv, ExchangeNext, exchangeVars
  <2> QED BY <2>1, RagStep, RagStutter
<1>3. ASSUME scene = "notes" PROVE NoteIInv'
  <2>1. NoteIInv /\ (NoteNext \/ UNCHANGED noteVars)
    BY <1>3 DEF ExchangeInv, ExchangeNext, exchangeVars
  <2> QED BY <2>1, NotesStep, NotesStutter
<1>4. ASSUME scene = "git" PROVE GitIInv'
  <2>1. GitIInv /\ (GitNext \/ UNCHANGED gitVars)
    BY <1>4 DEF ExchangeInv, ExchangeNext, exchangeVars
  <2> QED BY <2>1, GitStep, GitStutter
<1>5. ASSUME scene = "inbound" PROVE InIInv'
  <2>1. InIInv /\ (InNext \/ UNCHANGED inVars) BY <1>5 DEF ExchangeInv, ExchangeNext, exchangeVars
  <2> QED BY <2>1, InStep, InStutter
<1>6. ASSUME scene = "migration" PROVE MigIInv'
  <2>1. MigIInv /\ (MigNext \/ UNCHANGED migVars)
    BY <1>6 DEF ExchangeInv, ExchangeNext, exchangeVars
  <2> QED BY <2>1, MigStep, MigStutter
<1> QED BY <1>1, <1>2, <1>3, <1>4, <1>5, <1>6 DEF ExchangeInv

LEMMA ExchangeKeeps == ExchangeSpec => []ExchangeInv
  BY ExchangeStarts, ExchangeSteps, PTL DEF ExchangeSpec

\* For any goroutines, batches, providers, generations and troubles: a version
\* goes to a provider only under a consent that covers it, the search finds only
\* complete vectors of the text as it is now, and a version that its consent wants
\* indexed stays queued until it is (createRAGIndex, the jobs of rag.index,
\* dispatchRAGDocument, activateRAGGeneration, ragVectorEligible).
THEOREM IndexIsTrue == ExchangeSpec => []IndexHolds
<1>1. ExchangeInv => IndexHolds BY SearchIsTrue DEF ExchangeInv, IndexHolds, IndexFitsText, RagIInv
<1> QED BY <1>1, ExchangeKeeps, PTL

\* The first generation loses no document the search found, and an activation none
\* of those it was verified with; others it may lose, which is confirmed
\* (createRAGGeneration adopts the grants, activateRAGGeneration compares the
\* receipt with what is now).
THEOREM SwitchesKeepSearch == ExchangeSpec => SwitchHolds
<1>1. ExchangeInv /\ [ExchangeNext]_exchangeVars => [scene = "index" => SwitchKeepsSearch]_ragVars
  <2> SUFFICES ASSUME ExchangeInv, ExchangeNext, scene = "index" PROVE SwitchKeepsSearch
    BY DEF exchangeVars
  <2>1. RagIInv /\ RagNext BY DEF ExchangeInv, ExchangeNext
  <2> QED BY <2>1, SwitchesKeep
<1> QED BY <1>1, ExchangeKeeps, PTL DEF ExchangeSpec, SwitchHolds

\* For any goroutines, runs, paths, attempts and troubles: a push changes the branch
\* once, from the commit the user was shown, over nothing but what was exchanged; a
\* pull saves over a document only at a version that was exchanged; and what a run
\* says of the remote is true, or that nobody knows (queueGitSyncPreview and
\* confirmGitSync, gitSyncPush with its beforeLaunch, gitSyncFinishPush,
\* gitSyncApplyPull, the deferred update of runGitSyncJob, inspectGitSync).
THEOREM GitIsKept == ExchangeSpec => GitHolds
<1>1. ExchangeInv /\ ExchangeInv' /\ [ExchangeNext]_exchangeVars => [scene = "git" => GitIsTrue]_gitVars
  <2> SUFFICES ASSUME ExchangeInv, ExchangeInv', ExchangeNext, scene = "git" PROVE GitIsTrue
    BY DEF exchangeVars
  <2>1. GitIInv /\ GitNext /\ GitIInv' BY DEF ExchangeInv, ExchangeNext
  <2>2. NothingOverwritten BY <2>1, GitOverwrites
  <2>3. ResultIsTrue' BY <2>1 DEF GitIInv, GitRows, RunSays, Exchanged, ResultIsTrue
  <2> QED BY <2>2, <2>3 DEF GitIsTrue
<1> QED BY <1>1, ExchangeKeeps, PTL DEF ExchangeSpec, GitHolds

\* For any goroutines, users and channels: a notification arrives once, and once
\* more for each attempt whose outcome nobody knows, a delivery that is marked sent
\* did arrive, and nothing arrives by an attempt that began after the notification
\* was read or its channel saved (dispatchNotification, notificationDeliveryHandler).
THEOREM NotesAreTrue == ExchangeSpec => NotesHold
<1>1. ExchangeInv => (scene = "notes" => ToldOnce) BY NotesTold DEF ExchangeInv
<1>2. /\ ExchangeInv /\ (scene = "notes" => ToldOnce)' /\ [ExchangeNext]_exchangeVars
      => [scene = "notes" => NotesAreTold]_noteVars
  <2> SUFFICES ASSUME ExchangeInv, (scene = "notes" => ToldOnce)', ExchangeNext, scene = "notes"
               PROVE  NotesAreTold
    BY DEF exchangeVars
  <2>1. NoteIInv /\ NoteNext /\ scene' = "notes" BY DEF ExchangeInv, ExchangeNext
  <2> QED BY <2>1, NotesWished DEF NotesAreTold
<1>3. ExchangeSpec => [](ExchangeInv /\ (scene = "notes" => ToldOnce)) BY <1>1, ExchangeKeeps, PTL
<1> QED BY <1>2, <1>3, PTL DEF ExchangeSpec, NotesHold

\* For any goroutines, mails, batches, quotas, attempts and troubles: a mail that
\* the checkpoint has passed is among the messages, through new UIDs, expunged mails
\* and polls that lost their lease; a message is one document with its objects, and
\* a Message-ID one message; the checkpoint never goes back, and a document is made
\* only under the channel its message came by (pollInboundIMAP, stageInboundContent,
\* advanceInboundCheckpoint, ingestInboundCapture).
THEOREM CaptureIsTrue == ExchangeSpec => CaptureHolds
<1>1. ExchangeInv => (scene = "inbound" => MailIsKept /\ OneDocument) BY CaptureTold DEF ExchangeInv
<1>2. /\ ExchangeInv /\ (scene = "inbound" => MailIsKept /\ OneDocument)' /\ [ExchangeNext]_exchangeVars
      => [scene = "inbound" => CaptureIsWhole]_inVars
  <2> SUFFICES ASSUME ExchangeInv, (scene = "inbound" => MailIsKept /\ OneDocument)', ExchangeNext, scene = "inbound"
               PROVE  CaptureIsWhole
    BY DEF exchangeVars
  <2>1. InIInv /\ InNext /\ scene' = "inbound" BY DEF ExchangeInv, ExchangeNext
  <2> QED BY <2>1, CaptureForward DEF CaptureIsWhole
<1>3. ExchangeSpec => [](ExchangeInv /\ (scene = "inbound" => MailIsKept /\ OneDocument))
  BY <1>1, ExchangeKeeps, PTL
<1> QED BY <1>2, <1>3, PTL DEF ExchangeSpec, CaptureHolds

\* For any goroutines, sessions, documents, objects, attempts and troubles: nothing of
\* a session shows before the whole of what was confirmed does, a document of the
\* source exists once, whatever sessions, retries and stale goroutines have brought
\* it; every attachment has its whole object, and every object is named by an entry;
\* and a document is replaced only at the version the review has shown
\* (prepareMigrationSessionItems, commitMigrationSessionAtomic, cleanupMigrationObjects).
THEOREM MigrationIsKept == ExchangeSpec => MigrationHolds
<1>1. ExchangeInv => (scene = "migration" => PublishedOnce /\ FilesKept)
  BY MigrationTold DEF ExchangeInv
<1>2. /\ ExchangeInv /\ (scene = "migration" => PublishedOnce /\ FilesKept)' /\ [ExchangeNext]_exchangeVars
      => [scene = "migration" => MigrationIsWhole]_migVars
  <2> SUFFICES ASSUME ExchangeInv, (scene = "migration" => PublishedOnce /\ FilesKept)', ExchangeNext,
                      scene = "migration"
               PROVE  MigrationIsWhole
    BY DEF exchangeVars
  <2>1. MigIInv /\ MigNext /\ scene' = "migration" BY DEF ExchangeInv, ExchangeNext
  <2> QED BY <2>1, EditsStand DEF MigrationIsWhole
<1>3. ExchangeSpec => [](ExchangeInv /\ (scene = "migration" => PublishedOnce /\ FilesKept))
  BY <1>1, ExchangeKeeps, PTL
<1> QED BY <1>2, <1>3, PTL DEF ExchangeSpec, MigrationHolds

----------------
(* Every row of every scene has its type.                                     *)

ExchangeLimits == /\ scene = "index" => RagLimits
                  /\ scene = "git" => GitBudget
                  /\ scene = "notes" => NoteBudget

LEMMA LimitsStart == ExchangeInit => ExchangeLimits
  BY RagLimitsStart, GitBudgetStarts, NoteBudgetStarts DEF ExchangeInit, ExchangeLimits

LEMMA LimitsSteps == ExchangeInv /\ ExchangeInv' /\ ExchangeLimits /\ [ExchangeNext]_exchangeVars => ExchangeLimits'
<1> SUFFICES ASSUME ExchangeInv, ExchangeInv', ExchangeLimits, [ExchangeNext]_exchangeVars PROVE ExchangeLimits'
  OBVIOUS
<1>1. scene' = scene BY DEF ExchangeNext, exchangeVars
<1>2. ASSUME scene = "index" PROVE RagLimits'
  <2>1. RagIInv /\ RagIInv' /\ RagLimits /\ (RagNext \/ UNCHANGED ragVars)
    BY <1>1, <1>2 DEF ExchangeInv, ExchangeLimits, ExchangeNext, exchangeVars
  <2>2. CASE RagNext BY <2>1, <2>2, RagLimitsSteps
  <2>3. CASE UNCHANGED ragVars
    BY <2>1, <2>3 DEF ragVars, RagLimits, RagBudget, RagQueue, RagNames, RagSteps, SentRow
  <2> QED BY <2>1, <2>2, <2>3
<1>3. ASSUME scene = "git" PROVE GitBudget'
  <2>1. GitIInv /\ GitBudget /\ (GitNext \/ UNCHANGED gitVars)
    BY <1>3 DEF ExchangeInv, ExchangeLimits, ExchangeNext, exchangeVars
  <2>2. CASE UNCHANGED gitVars BY <2>1, <2>2, GitBudgetStays DEF gitVars
  <2> QED BY <2>1, <2>2, GitBudgetSteps
<1>4. ASSUME scene = "notes" PROVE NoteBudget'
  <2>1. NoteIInv /\ NoteBudget /\ (NoteNext \/ UNCHANGED noteVars)
    BY <1>4 DEF ExchangeInv, ExchangeLimits, ExchangeNext, exchangeVars
  <2>2. CASE UNCHANGED noteVars BY <2>1, <2>2, NoteBudgetOfInbox DEF noteVars
  <2> QED BY <2>1, <2>2, NoteBudgetSteps
<1> QED BY <1>1, <1>2, <1>3, <1>4 DEF ExchangeLimits

\* For any goroutines, bounds and numbers of rows: every row has the shape its table and
\* its handlers give it.  A job is tried as often as it may be, a run of Git is at work
\* only once it is confirmed and launched only as a push, a delivery has a job exactly
\* when it was dispatched, and a version goes out under the grant of a generation.
THEOREM ExchangeIsTyped == ExchangeSpec => []ExchangeTypeOK
<1>1. ExchangeInv /\ ExchangeLimits => ExchangeTypeOK
  BY RagTyped, GitTyped, NoteTyped, CaptureTold, MigrationTold DEF ExchangeInv, ExchangeLimits, ExchangeTypeOK
<1>2. ExchangeSpec => [](ExchangeInv /\ ExchangeLimits)
  BY ExchangeStarts, ExchangeSteps, LimitsStart, LimitsSteps, PTL DEF ExchangeSpec
<1> QED BY <1>1, <1>2, PTL
==============================================================================
