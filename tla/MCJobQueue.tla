----------------------------- MODULE MCJobQueue ------------------------------
(* What must come to an end: the jobs of the queue, and the edits of a tab. A *)
(* behaviour is of one of these, its scene, and fair to its processes; the    *)
(* states of the scenes add up instead of multiplying.                        *)
EXTENDS JobQueue

CONSTANTS Clients, Root, MaxClock, MaxErased, MaxEpoch, MaxDrops, MaxTurns

VARIABLES scene, epoch, log, rights, tab, socket, up, down, made, drops, turns

Tabs == INSTANCE CollaborationSession

tabVars == <<epoch, log, rights, tab, socket, up, down, made, drops, turns>>
settlingVars == <<scene, vars, tabVars>>

SettlingInit ==
  /\ scene \in {"jobs", "tabs"}
  /\ Init /\ Tabs!Init /\ (scene = "jobs" => rights = {})

SettlingNext ==
  /\ UNCHANGED scene
  /\ \/ scene = "jobs" /\ Next /\ UNCHANGED tabVars
     \/ scene = "tabs" /\ Tabs!Next /\ UNCHANGED vars
     \/ scene = "tabs" /\ UNCHANGED settlingVars

\* The fairness of JobQueue and of CollaborationSession, each in its scene.
OfJobs == scene = "jobs"
OfTabs == scene = "tabs"
SettlingSpec ==
  /\ SettlingInit /\ [][SettlingNext]_settlingVars
  /\ \A w \in Workers :
       /\ WF_vars(OfJobs /\ Poll(w)) /\ WF_vars(OfJobs /\ \E j \in Jobs : Claim(w, j))
       /\ WF_vars(OfJobs /\ ClaimNothing(w)) /\ WF_vars(OfJobs /\ Authorize(w)) /\ WF_vars(OfJobs /\ Deadline(w))
       /\ WF_vars(OfJobs /\ run[w].phase = "stopping" /\ HandlerReturns(w)) /\ WF_vars(OfJobs /\ Finish(w))
  /\ \A j \in Jobs : WF_vars(OfJobs /\ LeaseRunsOut(j)) /\ WF_vars(OfJobs /\ BackoffEnds(j))
  /\ WF_vars(OfJobs /\ Sweep({}))
  /\ \A c \in Clients :
       /\ WF_tabVars(OfTabs /\ Tabs!Connect(c)) /\ WF_tabVars(OfTabs /\ Tabs!Handle(c)) /\ WF_tabVars(OfTabs /\ Tabs!Poll(c))
       /\ WF_tabVars(OfTabs /\ Tabs!Receive(c)) /\ WF_tabVars(OfTabs /\ Tabs!Flush(c))

\* Edits settle (CollaborationSession).
EditsSettle == Tabs!EditsSettle
==============================================================================
