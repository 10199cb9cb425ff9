-------------------------- MODULE OperationsProofs --------------------------
(* Theorems about the parts of MCOperations, for any goroutines, bounds and   *)
(* numbers of rows.  A scene never changes and its rows are changed by its    *)
(* own module only, so what a part keeps is kept by the whole.                *)
EXTENDS MCOperations, ApprovalProofs, FiniteSetTheorems, TLAPS

----------------
(* Workspace agents: the rows, and how runs, jobs, actions, goroutines and    *)
(* changes of the document belong together.                                   *)

ActionRow == [status : {"planned", "confirmed", "rejected", "applied", "cancelled", "failed"},
              expected : Nat, job : Nat]
Minds     == [at : {"idle", "begin", "turn", "commit", "act", "report"},
              job : Nat, choice : {"answer", "read", "propose"}, seen : Nat]
RunRow    == [status : Active \cup {"none", "succeeded", "failed", "cancelled"},
              revision : Nat, job : Nat, step : Nat, source : Nat]
DeedRow   == [action : Nat, onto : Nat, status : Active]
Grounds   == [revision : Nat, allowed : BOOLEAN, version : Nat, troubles : Nat]

AgentShape ==
  /\ ground \in Grounds
  /\ agentRun \in RunRow
  /\ agentJobs \in Seq(JobRow)
  /\ actions \in Seq(ActionRow)
  /\ mind \in [Agents -> Minds]
  /\ deeds \in Seq(DeedRow)
  /\ agreed \in SUBSET Nat

RunHasJob == agentRun.status # "none" => agentRun.job \in DOMAIN agentJobs
MindHasJob ==
  \A w \in Agents : mind[w].at # "idle" =>
    /\ mind[w].job \in DOMAIN agentJobs
    /\ mind[w].at \in {"act", "report"} => agentJobs[mind[w].job].kind = "action"
    /\ mind[w].at = "report" => agentJobs[mind[w].job].receipt
JobHasAction ==
  \A j \in DOMAIN agentJobs :
    /\ agentJobs[j].kind = "action" => /\ agentJobs[j].action \in DOMAIN actions
                                       /\ actions[agentJobs[j].action].job = j
    /\ agentJobs[j].kind = "run" => ~agentJobs[j].receipt
ActionHasJob ==
  \A n \in DOMAIN actions :
    /\ actions[n].job # 0 => /\ actions[n].job \in DOMAIN agentJobs
                             /\ agentJobs[actions[n].job].kind = "action"
                             /\ agentJobs[actions[n].job].action = n
                             /\ n \in agreed
    /\ actions[n].status \in {"planned", "rejected"} => actions[n].job = 0
    /\ actions[n].status \in {"confirmed", "applied", "failed"} => actions[n].job # 0
    /\ actions[n].status = "applied" => agentJobs[actions[n].job].receipt
    /\ actions[n].status = "failed" => ~agentJobs[actions[n].job].receipt
DeedHasReceipt ==
  /\ \A i \in DOMAIN deeds : LET n == deeds[i].action IN
       n \in DOMAIN actions /\ actions[n].job # 0 /\ agentJobs[actions[n].job].receipt
  /\ \A j \in DOMAIN agentJobs : agentJobs[j].receipt =>
       \E i \in DOMAIN deeds : deeds[i].action = agentJobs[j].action
AgentIInv == AgentShape /\ RunHasJob /\ MindHasJob /\ JobHasAction /\ ActionHasJob /\ DeedHasReceipt /\ WritesAsAgreed

----------------
(* What each kind of change leaves standing.                                  *)

\* Rows of jobs: their kind, action and receipt stay, and new rows are of runs.
SameWork(j) == /\ agentJobs'[j].kind = agentJobs[j].kind
               /\ agentJobs'[j].action = agentJobs[j].action
               /\ agentJobs'[j].receipt = agentJobs[j].receipt
JobsStay == /\ DOMAIN agentJobs \subseteq DOMAIN agentJobs'
            /\ \A j \in DOMAIN agentJobs : SameWork(j)
RunsAdded == \A j \in DOMAIN agentJobs' \ DOMAIN agentJobs :
               agentJobs'[j].kind = "run" /\ ~agentJobs'[j].receipt

AgentFacts == JobHasAction /\ ActionHasJob /\ DeedHasReceipt /\ WritesAsAgreed

\* Where no action, deed or consent changes and the jobs only go on, what is
\* said of them stays true.
LEMMA FactsStay ==
  ASSUME AgentShape, AgentShape', AgentFacts, JobsStay, RunsAdded, deeds' = deeds,
         agreed' = agreed, actions' = actions
  PROVE  AgentFacts'
<1> USE DEF AgentFacts, JobsStay, SameWork
<1>1. JobHasAction'
  <2> SUFFICES ASSUME NEW j \in DOMAIN agentJobs'
               PROVE  /\ agentJobs'[j].kind = "action" => /\ agentJobs'[j].action \in DOMAIN actions
                                                          /\ actions[agentJobs'[j].action].job = j
                      /\ agentJobs'[j].kind = "run" => ~agentJobs'[j].receipt
    BY DEF JobHasAction
  <2>1. CASE j \in DOMAIN agentJobs BY <2>1 DEF JobHasAction
  <2>2. CASE j \notin DOMAIN agentJobs BY <2>2 DEF RunsAdded
  <2> QED BY <2>1, <2>2
<1>2. ActionHasJob' BY DEF ActionHasJob
<1>3. DeedHasReceipt'
  <2>1. \A i \in DOMAIN deeds' : LET n == deeds'[i].action IN
          n \in DOMAIN actions' /\ actions'[n].job # 0 /\ agentJobs'[actions'[n].job].receipt
    BY DEF DeedHasReceipt, ActionHasJob
  <2>2. \A j \in DOMAIN agentJobs' : agentJobs'[j].receipt =>
          \E i \in DOMAIN deeds' : deeds'[i].action = agentJobs'[j].action
    BY DEF DeedHasReceipt, RunsAdded
  <2> QED BY <2>1, <2>2 DEF DeedHasReceipt
<1>4. WritesAsAgreed' BY DEF WritesAsAgreed
<1> QED BY <1>1, <1>2, <1>3, <1>4

\* Enqueueing a job adds one pending row.
LEMMA JobAppended ==
  ASSUME AgentShape, NEW kind \in {"run", "action"}, NEW action \in Nat, Enqueued(kind, action)
  PROVE  /\ agentJobs' \in Seq(JobRow) /\ Len(agentJobs') = Len(agentJobs) + 1
         /\ DOMAIN agentJobs' = DOMAIN agentJobs \cup {Len(agentJobs) + 1}
         /\ \A j \in DOMAIN agentJobs : agentJobs'[j] = agentJobs[j]
         /\ agentJobs'[Len(agentJobs) + 1] = NewAgentJob(kind, action)
         /\ Len(agentJobs) + 1 \in Nat /\ Len(agentJobs) + 1 \notin DOMAIN agentJobs
         /\ 0 \notin DOMAIN agentJobs' /\ 1 \in DOMAIN agentJobs'
<1>1. NewAgentJob(kind, action) \in JobRow BY DEF NewAgentJob, JobRow
<1> QED BY <1>1 DEF Enqueued, AgentShape

\* Giving a job back changes neither its work nor its receipt.
LEMMA JobReleased ==
  ASSUME AgentShape, NEW w \in Agents, mind[w].job \in DOMAIN agentJobs
  PROVE  /\ Released(w, agentJobs) \in Seq(JobRow)
         /\ Len(Released(w, agentJobs)) = Len(agentJobs)
         /\ DOMAIN Released(w, agentJobs) = DOMAIN agentJobs
         /\ \A j \in DOMAIN agentJobs : /\ Released(w, agentJobs)[j].kind = agentJobs[j].kind
                                        /\ Released(w, agentJobs)[j].action = agentJobs[j].action
                                        /\ Released(w, agentJobs)[j].receipt = agentJobs[j].receipt
<1> DEFINE j == mind[w].job
           new == [agentJobs[j] EXCEPT !.holder = NoAgent,
       !.status = IF @ = "running" THEN "done" ELSE @]
<1>1. agentJobs \in Seq(JobRow) /\ agentJobs[j] \in JobRow BY DEF AgentShape
<1>2. new \in JobRow /\ new.kind = agentJobs[j].kind
      /\ new.action = agentJobs[j].action /\ new.receipt = agentJobs[j].receipt
  BY <1>1 DEF JobRow
<1>3. CASE agentJobs[j].holder # w BY <1>3, <1>1 DEF Released
<1>4. CASE agentJobs[j].holder = w
  <2>1. Released(w, agentJobs) = [agentJobs EXCEPT ![j] = new]
    <3> HIDE DEF new
    <3> QED BY <1>4 DEF Released, new
  <2> HIDE DEF new
  <2> QED BY <2>1, <1>1, <1>2
<1> QED BY <1>3, <1>4

\* A row whose work and receipt stay may change otherwise.
LEMMA JobChanged ==
  ASSUME AgentShape, NEW j \in DOMAIN agentJobs, NEW new \in JobRow,
         new.kind = agentJobs[j].kind, new.action = agentJobs[j].action,
         new.receipt = agentJobs[j].receipt,
         agentJobs' = [agentJobs EXCEPT ![j] = new]
  PROVE  /\ agentJobs' \in Seq(JobRow) /\ DOMAIN agentJobs' = DOMAIN agentJobs
         /\ JobsStay /\ RunsAdded
<1>1. agentJobs' \in Seq(JobRow) /\ DOMAIN agentJobs' = DOMAIN agentJobs BY DEF AgentShape
<1>2. JobsStay BY <1>1 DEF JobsStay, SameWork
<1> QED BY <1>1, <1>2 DEF RunsAdded

\* One action is replaced by another row.
LEMMA OneAction ==
  ASSUME AgentShape, NEW n \in DOMAIN actions, NEW row,
         row \in ActionRow
  PROVE  /\ [actions EXCEPT ![n] = row] \in Seq(ActionRow)
         /\ DOMAIN [actions EXCEPT ![n] = row] = DOMAIN actions
         /\ \A m \in DOMAIN actions : [actions EXCEPT ![n] = row][m] = IF m = n THEN row ELSE actions[m]
  BY DEF AgentShape

\* A goroutine goes on to another place.
LEMMA ThinksTyped ==
  ASSUME AgentShape, NEW w, NEW place,
         place \in Minds,
         Thinks(w, place)
  PROVE  /\ mind' \in [Agents -> Minds]
         /\ \A v \in Agents : mind'[v] = IF v = w THEN place ELSE mind[v]
  BY DEF AgentShape, Thinks

\* The others are where they were.
LEMMA MindsStay ==
  ASSUME AgentShape, MindHasJob, JobsStay, NEW w,
         \A v \in Agents : v # w => mind'[v] = mind[v],
         w \in Agents => \/ mind'[w].at = "idle"
                         \/ /\ mind'[w].job \in DOMAIN agentJobs'
                            /\ mind'[w].at \in {"act", "report"} => agentJobs'[mind'[w].job].kind = "action"
                            /\ mind'[w].at = "report" => agentJobs'[mind'[w].job].receipt
  PROVE  MindHasJob'
  BY DEF MindHasJob, JobsStay, SameWork

\* An idle goroutine is one.
LEMMA NoMindTyped ==
  NoMind \in Minds
  BY DEF NoMind, Minds

\* Steps that write no row.
LEMMA FactsStayHere ==
  ASSUME AgentIInv, AgentShape', UNCHANGED <<agentJobs, deeds, agreed, actions>>
  PROVE  AgentFacts' /\ JobsStay
<1>1. JobsStay /\ RunsAdded BY DEF JobsStay, SameWork, RunsAdded
<1> QED BY <1>1, FactsStay DEF AgentIInv, AgentFacts

----------------
(* The steps.                                                                 *)

\* What changes around the run.
LEMMA TroubleTyped == ASSUME NEW new \in Grounds, AgentTrouble(new) PROVE ground' \in Grounds
  BY DEF AgentTrouble, Grounds

\* Settings, rights and documents change around the run.
LEMMA StepAround == ASSUME AgentIInv, Around PROVE AgentIInv'
<1>0. ground' \in Grounds
  <2>0. ground \in Grounds BY DEF AgentIInv, AgentShape, Grounds
  <2>1. /\ [ground EXCEPT !.revision = @ + 1] \in Grounds
        /\ [ground EXCEPT !.version = @ + 1] \in Grounds
    BY <2>0 DEF Grounds
  <2>5. [ground EXCEPT !.allowed = ~@] \in Grounds BY <2>0 DEF Grounds
  <2>2. CASE SaveWorkspaceAgent BY <2>1, <2>2, TroubleTyped DEF SaveWorkspaceAgent
  <2>3. CASE ChangeAuthority BY <2>5, <2>3, TroubleTyped DEF ChangeAuthority
  <2>4. CASE EditReadDocument BY <2>1, <2>4, TroubleTyped DEF EditReadDocument
  <2> QED BY <2>2, <2>3, <2>4 DEF Around
<1>1. AgentShape' BY <1>0 DEF Around, AgentIInv, AgentShape, Grounds
<1>2. AgentFacts' /\ JobsStay BY <1>1, FactsStayHere DEF Around
<1>3. RunHasJob' /\ MindHasJob' BY DEF Around, AgentIInv, RunHasJob, MindHasJob
<1> QED BY <1>1, <1>2, <1>3 DEF AgentIInv, AgentFacts

LEMMA StepCreate == ASSUME AgentIInv, CreateAgentRun PROVE AgentIInv'
<1> USE DEF AgentIInv, CreateAgentRun
<1>1. PICK one \in Nat : one = Len(agentJobs) + 1 BY DEF AgentShape
<1>2. /\ agentJobs' \in Seq(JobRow) /\ 1 \in DOMAIN agentJobs'
      /\ JobsStay /\ RunsAdded
  <2>1. /\ agentJobs' \in Seq(JobRow) /\ 1 \in DOMAIN agentJobs'
        /\ DOMAIN agentJobs' = DOMAIN agentJobs \cup {one}
        /\ \A j \in DOMAIN agentJobs : agentJobs'[j] = agentJobs[j]
        /\ agentJobs'[one] = NewAgentJob("run", 0)
    BY <1>1, JobAppended
  <2>2. NewAgentJob("run", 0).kind = "run" /\ ~NewAgentJob("run", 0).receipt BY DEF NewAgentJob
  <2>3. JobsStay BY <2>1 DEF JobsStay, SameWork
  <2>4. RunsAdded BY <2>1, <2>2 DEF RunsAdded
  <2> QED BY <2>1, <2>3, <2>4
<1>3. AgentShape'
  <2>1. agentRun' \in RunRow BY DEF AgentShape, RunRow, Grounds, Active
  <2> QED BY <1>2, <2>1 DEF AgentShape
<1>4. AgentFacts' BY <1>2, <1>3, FactsStay DEF AgentFacts
<1>5. RunHasJob' /\ MindHasJob'
  <2>1. agentRun'.job = 1 BY DEF AgentShape, RunRow
  <2> QED BY <1>2, <2>1 DEF RunHasJob, MindHasJob, JobsStay, SameWork
<1> QED BY <1>3, <1>4, <1>5 DEF AgentFacts

LEMMA StepClaim ==
  ASSUME AgentIInv, NEW w \in Agents, NEW j \in DOMAIN agentJobs, ClaimAgentJob(w, j)
  PROVE  AgentIInv'
<1>0. PICK more \in Nat : more = agentJobs[j].attempts + 1
  <2>1. agentJobs[j] \in JobRow BY DEF AgentIInv, AgentShape
  <2>2. agentJobs[j].attempts \in Nat BY <2>1 DEF JobRow
  <2> QED BY <2>2
<1> DEFINE new == [agentJobs[j] EXCEPT !.status = "running", !.holder = w, !.attempts = more]
           place == [NoMind EXCEPT !.at = "begin", !.job = j]
<1> USE DEF AgentIInv
<1>1. agentJobs[j] \in JobRow /\ j \in Nat BY DEF AgentShape
<1>2. new \in JobRow /\ new.kind = agentJobs[j].kind
      /\ new.action = agentJobs[j].action /\ new.receipt = agentJobs[j].receipt
  BY <1>1 DEF JobRow
<1>3. agentJobs' = [agentJobs EXCEPT ![j] = new] BY <1>0 DEF ClaimAgentJob
<1> HIDE DEF new
<1>4. /\ agentJobs' \in Seq(JobRow) /\ DOMAIN agentJobs' = DOMAIN agentJobs
      /\ JobsStay /\ RunsAdded
  BY <1>2, <1>3, JobChanged
<1>6. place \in Minds
      /\ place.at = "begin" /\ place.job = j
  BY <1>1 DEF NoMind, Minds
<1> HIDE DEF place
<1>7. /\ mind' \in [Agents -> Minds]
      /\ \A v \in Agents : mind'[v] = IF v = w THEN place ELSE mind[v]
  BY <1>6, ThinksTyped DEF ClaimAgentJob, place
<1>8. AgentShape' BY <1>4, <1>7 DEF AgentShape, ClaimAgentJob
<1>9. AgentFacts' BY <1>4, <1>8, FactsStay DEF AgentFacts, ClaimAgentJob
<1>10. MindHasJob' BY <1>4, <1>6, <1>7, MindsStay
<1>11. RunHasJob' BY <1>4 DEF RunHasJob, ClaimAgentJob
<1> QED BY <1>8, <1>9, <1>10, <1>11 DEF AgentFacts

LEMMA StepLose ==
  ASSUME AgentIInv, NEW j \in DOMAIN agentJobs, LoseAgentJob(j)
  PROVE  AgentIInv'
<1> USE DEF AgentIInv, LoseAgentJob
<1> DEFINE new == [agentJobs[j] EXCEPT !.status = "pending", !.holder = NoAgent]
<1>1. agentJobs[j] \in JobRow /\ j \in Nat BY DEF AgentShape
<1>2. new \in JobRow /\ new.kind = agentJobs[j].kind
      /\ new.action = agentJobs[j].action /\ new.receipt = agentJobs[j].receipt
  BY <1>1 DEF JobRow
<1>3. agentJobs' = [agentJobs EXCEPT ![j] = new]
  OBVIOUS
<1> HIDE DEF new
<1>4. /\ agentJobs' \in Seq(JobRow) /\ DOMAIN agentJobs' = DOMAIN agentJobs
      /\ JobsStay /\ RunsAdded
  BY <1>2, <1>3, JobChanged
<1>6. /\ mind' \in [Agents -> Minds]
      /\ \A v \in Agents : mind'[v] \in {mind[v], NoMind}
  <2>1. CASE UNCHANGED mind BY <2>1 DEF AgentShape
  <2>2. CASE Thinks(agentJobs[j].holder, NoMind) BY <2>2, ThinksTyped, NoMindTyped
  <2> QED BY <2>1, <2>2
<1>7. AgentShape'
  <2>1. ground' \in Grounds BY TroubleTyped DEF AgentShape
  <2> QED BY <1>4, <1>6, <2>1 DEF AgentShape
<1>8. AgentFacts' BY <1>4, <1>7, FactsStay DEF AgentFacts
<1>9. MindHasJob' BY <1>4, <1>6 DEF MindHasJob, JobsStay, SameWork, NoMind
<1>10. RunHasJob' BY <1>4 DEF RunHasJob
<1> QED BY <1>7, <1>8, <1>9, <1>10 DEF AgentFacts

LEMMA StepCancel == ASSUME AgentIInv, CancelAgentRun PROVE AgentIInv'
<1> USE DEF AgentIInv
<1> DEFINE j == agentRun.job
           new == [agentJobs[j] EXCEPT !.status = IF @ \in {"pending", "running"} THEN "cancelled" ELSE @]
<1>1. j \in DOMAIN agentJobs /\ agentJobs[j] \in JobRow
  BY DEF AgentShape, RunHasJob, CancelAgentRun, Active
<1>2. new \in JobRow /\ new.kind = agentJobs[j].kind
      /\ new.action = agentJobs[j].action /\ new.receipt = agentJobs[j].receipt
  BY <1>1 DEF JobRow
<1>3. agentJobs' = [agentJobs EXCEPT ![j] = new] BY DEF CancelAgentRun
<1> HIDE DEF new
<1>4. /\ agentJobs' \in Seq(JobRow) /\ DOMAIN agentJobs' = DOMAIN agentJobs
      /\ JobsStay /\ RunsAdded
  BY <1>1, <1>2, <1>3, JobChanged
<1>5. \A n \in DOMAIN actions : actions[n] \in ActionRow BY DEF AgentShape
<1>6. /\ DOMAIN actions' = DOMAIN actions
      /\ \A n \in DOMAIN actions :
           /\ actions'[n] \in ActionRow
           /\ actions'[n].job = actions[n].job /\ actions'[n].expected = actions[n].expected
           /\ actions'[n].status = actions[n].status \/ actions'[n].status = "cancelled"
  BY <1>5 DEF CancelAgentRun, ActionRow
<1>7. actions' \in Seq(ActionRow)
  <2>1. DOMAIN actions = 1 .. Len(actions) /\ Len(actions) \in Nat BY DEF AgentShape
  <2>2. actions' = [n \in 1 .. Len(actions) |-> actions'[n]] BY <2>1, <1>6 DEF CancelAgentRun
  <2> QED BY <2>1, <2>2, <1>6
<1>8. AgentShape'
  <2>1. agentRun' \in RunRow BY DEF AgentShape, RunRow, CancelAgentRun
  <2> QED BY <1>4, <1>7, <2>1 DEF AgentShape, CancelAgentRun
<1>9. JobHasAction' BY <1>4, <1>6 DEF JobHasAction, JobsStay, SameWork
<1>10. ActionHasJob' BY <1>4, <1>6 DEF ActionHasJob, JobsStay, SameWork, CancelAgentRun
<1>11. DeedHasReceipt'
  BY <1>4, <1>6 DEF DeedHasReceipt, ActionHasJob, JobsStay, SameWork, CancelAgentRun
<1>12. WritesAsAgreed' BY <1>6 DEF WritesAsAgreed, DeedHasReceipt, CancelAgentRun
<1>13. RunHasJob' /\ MindHasJob'
  <2>1. agentRun'.job = j BY DEF CancelAgentRun, AgentShape, RunRow
  <2> QED BY <1>1, <1>4, <2>1 DEF RunHasJob, MindHasJob, JobsStay, SameWork, CancelAgentRun
<1> QED BY <1>8, <1>9, <1>10, <1>11, <1>12, <1>13

LEMMA StepDecide ==
  ASSUME AgentIInv, NEW n \in DOMAIN actions, NEW agrees \in BOOLEAN, DecideAgentAction(n, agrees)
  PROVE  AgentIInv'
<1> USE DEF AgentIInv
<1>1. PICK one \in Nat : one = Len(agentJobs) + 1 BY DEF AgentShape
<1>2. PICK kind \in {"run", "action"} : kind = IF agrees THEN "action" ELSE "run"
  OBVIOUS
<1>3. PICK action \in Nat : action = IF agrees THEN n ELSE 0 BY DEF AgentShape
<1>4. Enqueued(kind, action) BY <1>2, <1>3 DEF DecideAgentAction
<1>5. /\ agentJobs' \in Seq(JobRow) /\ DOMAIN agentJobs' = DOMAIN agentJobs \cup {one}
      /\ \A j \in DOMAIN agentJobs : agentJobs'[j] = agentJobs[j]
      /\ agentJobs'[one] = NewAgentJob(kind, action) /\ one \notin DOMAIN agentJobs /\ one # 0
      /\ 0 \notin DOMAIN agentJobs
  BY <1>1, <1>4, JobAppended
<1>6. agentJobs'[one].kind = kind /\ agentJobs'[one].action = action
      /\ ~agentJobs'[one].receipt
  BY <1>5 DEF NewAgentJob
<1>7. actions[n].status = "planned" /\ actions[n].job = 0 /\ actions[n] \in ActionRow
  BY DEF DecideAgentAction, ActionHasJob, AgentShape
<1>8. PICK row \in ActionRow : /\ row.status = IF agrees THEN "confirmed" ELSE "rejected"
                               /\ row.job = IF agrees THEN one ELSE 0
                               /\ row.expected = actions[n].expected
                               /\ actions' = [actions EXCEPT ![n] = row]
  <2> DEFINE row == [actions[n] EXCEPT !.status = IF agrees THEN "confirmed" ELSE "rejected",
                                       !.job = IF agrees THEN one ELSE actions[n].job]
  <2>1. row \in ActionRow BY <1>7 DEF ActionRow
  <2>2. /\ row.status = IF agrees THEN "confirmed" ELSE "rejected"
        /\ row.job = IF agrees THEN one ELSE 0
        /\ row.expected = actions[n].expected
    BY <1>7 DEF ActionRow
  <2>3. actions' = [actions EXCEPT ![n] = row] BY <1>1 DEF DecideAgentAction
  <2> QED BY <2>1, <2>2, <2>3
<1>9. /\ actions' \in Seq(ActionRow) /\ DOMAIN actions' = DOMAIN actions
      /\ \A m \in DOMAIN actions : actions'[m] = IF m = n THEN row ELSE actions[m]
  BY <1>8, OneAction
<1>10. AgentShape'
  <2>1. agentRun' \in RunRow BY <1>1 DEF AgentShape, DecideAgentAction, RunRow, Active
  <2>2. agreed' \in SUBSET Nat BY <1>3 DEF AgentShape, DecideAgentAction
  <2> QED BY <1>5, <1>9, <2>1, <2>2 DEF AgentShape, DecideAgentAction
<1>11. /\ agreed \subseteq agreed' /\ (agrees => n \in agreed')
       /\ deeds' = deeds /\ mind' = mind /\ agentRun'.job = one
  BY <1>1 DEF DecideAgentAction, AgentShape
<1>12. \A i \in DOMAIN deeds : deeds[i].action # n BY <1>7 DEF DeedHasReceipt
<1>13. JobHasAction'
  <2> SUFFICES ASSUME NEW j \in DOMAIN agentJobs'
               PROVE  /\ agentJobs'[j].kind = "action" => /\ agentJobs'[j].action \in DOMAIN actions'
                                                          /\ actions'[agentJobs'[j].action].job = j
                      /\ agentJobs'[j].kind = "run" => ~agentJobs'[j].receipt
    BY DEF JobHasAction
  <2>1. CASE j = one BY <2>1, <1>2, <1>3, <1>6, <1>8, <1>9
  <2>2. CASE j # one BY <2>2, <1>5, <1>7, <1>9 DEF JobHasAction
  <2> QED BY <2>1, <2>2
<1>14. ActionHasJob'
  <2> SUFFICES ASSUME NEW m \in DOMAIN actions
               PROVE  /\ actions'[m].job # 0 => /\ actions'[m].job \in DOMAIN agentJobs'
                                                /\ agentJobs'[actions'[m].job].kind = "action"
                                                /\ agentJobs'[actions'[m].job].action = m
                                                /\ m \in agreed'
                      /\ actions'[m].status \in {"planned", "rejected"} => actions'[m].job = 0
                      /\ actions'[m].status \in {"confirmed", "applied", "failed"} => actions'[m].job # 0
                      /\ actions'[m].status = "applied" => agentJobs'[actions'[m].job].receipt
                      /\ actions'[m].status = "failed" => ~agentJobs'[actions'[m].job].receipt
    BY <1>9 DEF ActionHasJob
  <2>1. CASE m = n BY <2>1, <1>2, <1>3, <1>5, <1>6, <1>8, <1>9, <1>11
  <2>2. CASE m # n BY <2>2, <1>5, <1>9, <1>11 DEF ActionHasJob
  <2> QED BY <2>1, <2>2
<1>15. DeedHasReceipt'
  <2>1. \A i \in DOMAIN deeds' : LET m == deeds'[i].action IN
          m \in DOMAIN actions' /\ actions'[m].job # 0 /\ agentJobs'[actions'[m].job].receipt
    BY <1>5, <1>9, <1>11, <1>12 DEF DeedHasReceipt, ActionHasJob
  <2>2. \A j \in DOMAIN agentJobs' : agentJobs'[j].receipt =>
          \E i \in DOMAIN deeds' : deeds'[i].action = agentJobs'[j].action
    BY <1>5, <1>6, <1>11 DEF DeedHasReceipt
  <2> QED BY <2>1, <2>2 DEF DeedHasReceipt
<1>16. WritesAsAgreed' BY <1>9, <1>11, <1>12 DEF WritesAsAgreed, DeedHasReceipt
<1>17. RunHasJob' /\ MindHasJob' BY <1>5, <1>11 DEF RunHasJob, MindHasJob
<1> QED BY <1>10, <1>13, <1>14, <1>15, <1>16, <1>17

\* What a goroutine that lets its job go leaves of the jobs.
\* Released rows are rows.
LEMMA AfterRelease ==
  ASSUME AgentShape, NEW w \in Agents, mind[w].job \in DOMAIN agentJobs,
         agentJobs' = Released(w, agentJobs)
  PROVE  /\ agentJobs' \in Seq(JobRow) /\ DOMAIN agentJobs' = DOMAIN agentJobs
         /\ JobsStay /\ RunsAdded
  BY JobReleased DEF JobsStay, SameWork, RunsAdded

LEMMA StepFail == ASSUME AgentIInv, NEW w \in Agents, FailAgentRun(w) PROVE AgentIInv'
<1> USE DEF AgentIInv
<1> DEFINE j == mind[w].job
<1>1. j \in DOMAIN agentJobs BY DEF FailAgentRun, MindHasJob
<1>2. /\ agentJobs' \in Seq(JobRow) /\ DOMAIN agentJobs' = DOMAIN agentJobs
      /\ JobsStay /\ RunsAdded
  BY <1>1, AfterRelease DEF FailAgentRun
<1>3. /\ mind' \in [Agents -> Minds]
      /\ \A v \in Agents : mind'[v] = IF v = w THEN NoMind ELSE mind[v]
  BY ThinksTyped, NoMindTyped DEF FailAgentRun
<1>4. MindHasJob' BY <1>2, <1>3, MindsStay DEF NoMind
<1>5. agentRun' \in RunRow /\ agentRun'.job = agentRun.job /\ (agentRun'.status # "none" => agentRun.status # "none")
  BY DEF FailAgentRun, AgentShape, RunRow
<1>6. RunHasJob' BY <1>2, <1>5 DEF RunHasJob
<1>7. \A n \in DOMAIN actions : actions[n] \in ActionRow BY DEF AgentShape
<1>8. /\ DOMAIN actions' = DOMAIN actions
      /\ \A n \in DOMAIN actions :
           /\ actions'[n] \in ActionRow
           /\ actions'[n].job = actions[n].job /\ actions'[n].expected = actions[n].expected
           /\ \/ actions'[n].status = actions[n].status
              \/ /\ actions[n].status = "confirmed" /\ actions[n].job = j
                 /\ actions'[n].status = LeftStatus(n, j)
  <2>1. \A n \in DOMAIN actions : LeftStatus(n, j) \in {"applied", "failed"} BY DEF LeftStatus
  <2> QED BY <1>7, <2>1 DEF FailAgentRun, ActionRow
<1>9. actions' \in Seq(ActionRow)
  <2>1. DOMAIN actions = 1 .. Len(actions) /\ Len(actions) \in Nat BY DEF AgentShape
  <2>2. actions' = [n \in 1 .. Len(actions) |-> actions'[n]]
    BY <2>1, <1>8 DEF FailAgentRun, AgentShape
  <2> QED BY <2>1, <2>2, <1>8
<1>10. AgentShape' BY <1>2, <1>3, <1>5, <1>9 DEF AgentShape, FailAgentRun
<1>11. JobHasAction' BY <1>2, <1>8 DEF JobHasAction, JobsStay, SameWork
<1>12. deeds' = deeds /\ agreed' = agreed BY DEF FailAgentRun
<1>13. ActionHasJob'
  <2> SUFFICES ASSUME NEW n \in DOMAIN actions
               PROVE  /\ actions'[n].job # 0 => /\ actions'[n].job \in DOMAIN agentJobs'
                                                /\ agentJobs'[actions'[n].job].kind = "action"
                                                /\ agentJobs'[actions'[n].job].action = n
                                                /\ n \in agreed'
                      /\ actions'[n].status \in {"planned", "rejected"} => actions'[n].job = 0
                      /\ actions'[n].status \in {"confirmed", "applied", "failed"} => actions'[n].job # 0
                      /\ actions'[n].status = "applied" => agentJobs'[actions'[n].job].receipt
                      /\ actions'[n].status = "failed" => ~agentJobs'[actions'[n].job].receipt
    BY <1>8 DEF ActionHasJob
  <2>1. CASE actions'[n].status = actions[n].status
    BY <2>1, <1>2, <1>8, <1>12 DEF ActionHasJob, JobsStay, SameWork
  <2>2. CASE actions[n].status = "confirmed" /\ actions[n].job = j /\ actions'[n].status = LeftStatus(n, j)
    BY <2>2, <1>2, <1>8, <1>12 DEF ActionHasJob, JobsStay, SameWork, LeftStatus
  <2> QED BY <1>8, <2>1, <2>2
<1>14. DeedHasReceipt' BY <1>2, <1>8, <1>12 DEF DeedHasReceipt, ActionHasJob, JobsStay, SameWork
<1>15. WritesAsAgreed' BY <1>8, <1>12 DEF WritesAsAgreed, DeedHasReceipt
<1> QED BY <1>4, <1>6, <1>10, <1>11, <1>13, <1>14, <1>15

\* Steps of a goroutine that touch nothing but its mind and the row of the run.
LEMMA StepThinks ==
  ASSUME AgentIInv, NEW w \in Agents, NEW place \in Minds, Thinks(w, place),
         UNCHANGED <<ground, agentJobs, actions, deeds, agreed>>,
         agentRun' \in RunRow, agentRun'.job = agentRun.job,
         agentRun.status # "none" \/ UNCHANGED agentRun,
         place.job \in DOMAIN agentJobs,
         place.at \in {"act", "report"} => agentJobs[place.job].kind = "action",
         place.at = "report" => agentJobs[place.job].receipt
  PROVE  AgentIInv'
<1> USE DEF AgentIInv
<1>1. /\ mind' \in [Agents -> Minds]
      /\ \A v \in Agents : mind'[v] = IF v = w THEN place ELSE mind[v]
  BY ThinksTyped
<1>2. AgentShape' BY <1>1 DEF AgentShape
<1>3. AgentFacts' /\ JobsStay BY <1>2, FactsStayHere
<1>4. MindHasJob' BY <1>1, <1>3, MindsStay
<1>5. RunHasJob' BY DEF RunHasJob
<1> QED BY <1>2, <1>3, <1>4, <1>5 DEF AgentFacts

LEMMA StepBegin == ASSUME AgentIInv, NEW w \in Agents, BeginAgentStep(w) PROVE AgentIInv'
<1> DEFINE place == [mind[w] EXCEPT !.at = "turn"]
<1>1. mind[w] \in Minds /\ mind[w].job \in DOMAIN agentJobs
  BY DEF AgentIInv, AgentShape, MindHasJob, BeginAgentStep
<1>2. place \in Minds /\ place.at = "turn" /\ place.job = mind[w].job BY <1>1 DEF Minds
<1>3. agentRun' \in RunRow /\ agentRun'.job = agentRun.job /\ agentRun.status # "none"
  BY DEF AgentIInv, AgentShape, BeginAgentStep, AgentGuard, AgentCurrent, Active, RunRow
<1>4. Thinks(w, place) /\ UNCHANGED <<ground, agentJobs, actions, deeds, agreed>>
  BY DEF BeginAgentStep
<1> HIDE DEF place
<1> QED BY <1>1, <1>2, <1>3, <1>4, StepThinks

LEMMA StepTurn ==
  ASSUME AgentIInv, NEW w \in Agents, NEW choice \in {"answer", "read", "propose"},
         ModelTurn(w, choice)
  PROVE  AgentIInv'
<1> DEFINE place == [mind[w] EXCEPT !.at = "commit", !.choice = choice, !.seen = ReadByTool(choice)]
<1>1. mind[w] \in Minds /\ mind[w].job \in DOMAIN agentJobs /\ agentRun \in RunRow
  BY DEF AgentIInv, AgentShape, MindHasJob, ModelTurn
<1>2. ReadByTool(choice) \in Nat BY DEF ReadByTool, AgentIInv, AgentShape, Grounds
<1>3. place \in Minds /\ place.at = "commit" /\ place.job = mind[w].job BY <1>1, <1>2 DEF Minds
<1>4. Thinks(w, place) /\ UNCHANGED <<ground, agentJobs, actions, deeds, agreed>>
      /\ UNCHANGED agentRun
  BY DEF ModelTurn
<1> HIDE DEF place
<1> QED BY <1>1, <1>3, <1>4, StepThinks

LEMMA StepBeginAction == ASSUME AgentIInv, NEW w \in Agents, BeginAgentAction(w) PROVE AgentIInv'
<1> DEFINE j == mind[w].job
           place == [mind[w] EXCEPT !.at = IF agentJobs[j].receipt THEN "report" ELSE "act"]
<1>1. mind[w] \in Minds /\ j \in DOMAIN agentJobs /\ agentRun \in RunRow
      /\ agentJobs[j].kind = "action"
  BY DEF AgentIInv, AgentShape, MindHasJob, BeginAgentAction
<1>2. /\ place \in Minds /\ place.job = j
      /\ place.at = IF agentJobs[j].receipt THEN "report" ELSE "act"
  BY <1>1 DEF Minds
<1>3. Thinks(w, place) /\ UNCHANGED <<ground, agentJobs, actions, deeds, agreed>>
      /\ UNCHANGED agentRun
  BY DEF BeginAgentAction
<1> HIDE DEF place
<1> QED BY <1>1, <1>2, <1>3, StepThinks

LEMMA StepCommit == ASSUME AgentIInv, NEW w \in Agents, CommitAgentStep(w) PROVE AgentIInv'
<1> USE DEF AgentIInv
<1> DEFINE j == mind[w].job
           choice == mind[w].choice
           source == IF choice = "read" THEN mind[w].seen ELSE agentRun.source
<1>1. /\ mind[w] \in Minds /\ j \in DOMAIN agentJobs /\ j \in Nat
      /\ mind[w].seen \in Nat /\ choice \in {"answer", "read", "propose"} /\ source \in Nat
  <2>1. mind[w] \in Minds /\ j \in DOMAIN agentJobs /\ agentRun \in RunRow
    BY DEF AgentShape, MindHasJob, CommitAgentStep
  <2>2. mind[w].seen \in Nat /\ choice \in {"answer", "read", "propose"}
        /\ agentRun.source \in Nat /\ j \in Nat
    BY <2>1 DEF Minds, RunRow
  <2> QED BY <2>1, <2>2
<1>2. /\ agentRun' \in RunRow /\ agentRun'.job = agentRun.job /\ agentRun.job = j
  <2>1. agentRun \in RunRow /\ agentRun.step \in Nat BY DEF AgentShape, RunRow
  <2>2. PICK more \in Nat : more = agentRun.step + 1 BY <2>1
  <2>3. PICK s \in Active \cup {"succeeded"} :
          agentRun' = [agentRun EXCEPT !.step = more, !.source = source, !.status = s]
    <3>1. (CASE choice = "answer"  -> "succeeded"
             [] choice = "read"    -> "running"
             [] choice = "propose" -> "awaiting_confirmation") \in Active \cup {"succeeded"}
      BY <1>1 DEF Active
    <3> QED BY <2>2, <3>1 DEF CommitAgentStep
  <2> HIDE DEF source
  <2> QED BY <2>1, <2>2, <2>3, <1>1 DEF RunRow, CommitAgentStep
<1>3. /\ agentJobs' \in Seq(JobRow) /\ DOMAIN agentJobs' = DOMAIN agentJobs
      /\ JobsStay /\ RunsAdded
  <2>1. CASE choice = "read" BY <2>1 DEF CommitAgentStep, AgentShape, JobsStay, SameWork, RunsAdded
  <2>2. CASE choice # "read" BY <2>2, <1>1, AfterRelease DEF CommitAgentStep
  <2> QED BY <2>1, <2>2
<1>4. PICK place \in Minds : /\ Thinks(w, place)
                             /\ place.at = "idle" \/ (place.at = "begin" /\ place.job = j)
  <2>1. CASE choice = "read"
    <3>1. /\ [NoMind EXCEPT !.at = "begin", !.job = j] \in Minds
          /\ [NoMind EXCEPT !.at = "begin", !.job = j].at = "begin"
          /\ [NoMind EXCEPT !.at = "begin", !.job = j].job = j
      BY <1>1 DEF NoMind, Minds
    <3> QED BY <2>1, <3>1 DEF CommitAgentStep
  <2>2. CASE choice # "read" BY <2>2, NoMindTyped DEF CommitAgentStep, NoMind
  <2> QED BY <2>1, <2>2
<1>5. /\ mind' \in [Agents -> Minds]
      /\ \A v \in Agents : mind'[v] = IF v = w THEN place ELSE mind[v]
  BY <1>4, ThinksTyped
<1>6. MindHasJob' BY <1>1, <1>3, <1>4, <1>5, MindsStay
<1>7. RunHasJob' BY <1>1, <1>2, <1>3 DEF RunHasJob
<1>8. deeds' = deeds /\ agreed' = agreed /\ ground' = ground BY DEF CommitAgentStep
<1>9. CASE choice = "propose"
  <2> DEFINE new == [status |-> "planned", expected |-> mind[w].seen, job |-> 0]
  <2>1. PICK next \in Nat : next = Len(actions) + 1 BY DEF AgentShape
  <2>2. new \in ActionRow /\ new.status = "planned" /\ new.job = 0 BY <1>1 DEF ActionRow
  <2>3. actions' = Append(actions, new) BY <1>9 DEF CommitAgentStep
  <2> HIDE DEF new
  <2>4. /\ actions' \in Seq(ActionRow) /\ DOMAIN actions' = DOMAIN actions \cup {next}
        /\ next \notin DOMAIN actions
        /\ \A n \in DOMAIN actions : actions'[n] = actions[n]
        /\ actions'[next] = new
    BY <2>1, <2>2, <2>3 DEF AgentShape
  <2>5. AgentShape' BY <1>2, <1>3, <1>5, <1>8, <2>4 DEF AgentShape
  <2>6. JobHasAction' BY <1>3, <2>4 DEF JobHasAction, JobsStay, SameWork
  <2>7. ActionHasJob' BY <1>3, <1>8, <2>2, <2>4 DEF ActionHasJob, JobsStay, SameWork
  <2>8. DeedHasReceipt' BY <1>3, <1>8, <2>4 DEF DeedHasReceipt, ActionHasJob, JobsStay, SameWork
  <2>9. WritesAsAgreed' BY <1>8, <2>4 DEF WritesAsAgreed, DeedHasReceipt
  <2> QED BY <1>6, <1>7, <2>5, <2>6, <2>7, <2>8, <2>9
<1>10. CASE choice # "propose"
  <2>1. actions' = actions BY <1>10 DEF CommitAgentStep
  <2>2. AgentShape' BY <1>2, <1>3, <1>5, <1>8, <2>1 DEF AgentShape
  <2>3. AgentFacts' BY <1>3, <1>8, <2>1, <2>2, FactsStay DEF AgentFacts
  <2> QED BY <1>6, <1>7, <2>2, <2>3 DEF AgentFacts
<1> QED BY <1>9, <1>10

LEMMA StepApply == ASSUME AgentIInv, NEW w \in Agents, ApplyAgentAction(w) PROVE AgentIInv'
<1> USE DEF AgentIInv
<1> DEFINE j == mind[w].job
           n == agentJobs[j].action
           new == [agentJobs[j] EXCEPT !.receipt = TRUE]
           place == [mind[w] EXCEPT !.at = "report"]
<1>1. /\ mind[w] \in Minds /\ j \in DOMAIN agentJobs /\ agentJobs[j] \in JobRow
      /\ agentJobs[j].kind = "action" /\ ~agentJobs[j].receipt
  BY DEF AgentShape, MindHasJob, ApplyAgentAction
<1>2. /\ n \in DOMAIN actions /\ actions[n].job = j /\ n \in Nat
      /\ actions[n].status = "confirmed" /\ n \in agreed /\ j # 0
  BY <1>1 DEF JobHasAction, ActionHasJob, ApplyAgentAction, MayAct, AgentShape
<1>3. new \in JobRow /\ new.kind = "action" /\ new.action = n /\ new.receipt = TRUE
  BY <1>1 DEF JobRow
<1>4. agentJobs' = [agentJobs EXCEPT ![j] = new] BY DEF ApplyAgentAction
<1> HIDE DEF new
<1>5. /\ agentJobs' \in Seq(JobRow) /\ DOMAIN agentJobs' = DOMAIN agentJobs
      /\ \A k \in DOMAIN agentJobs : agentJobs'[k] = IF k = j THEN new ELSE agentJobs[k]
  BY <1>1, <1>3, <1>4 DEF AgentShape
<1>6. place \in Minds /\ place.at = "report" /\ place.job = j BY <1>1 DEF Minds
<1>7. Thinks(w, place) BY DEF ApplyAgentAction
<1> HIDE DEF place
<1>8. /\ mind' \in [Agents -> Minds]
      /\ \A v \in Agents : mind'[v] = IF v = w THEN place ELSE mind[v]
  BY <1>6, <1>7, ThinksTyped
<1>9. /\ ground \in Grounds /\ ground.version \in Nat /\ agentRun \in RunRow
      /\ agentRun.status \in Active
      /\ ground.version = actions[n].expected
  BY DEF AgentShape, Grounds, ApplyAgentAction, MayAct, AgentCurrent, PlanValid
<1>10. PICK more \in Nat : more = ground.version + 1 BY <1>9
<1>11. ground' \in Grounds
  <2>1. ground' = [ground EXCEPT !.version = more] BY <1>10 DEF ApplyAgentAction
  <2> QED BY <2>1, <1>9, <1>10 DEF Grounds
<1>12. agentRun' \in RunRow /\ agentRun'.job = agentRun.job
  <2>1. PICK s \in Nat : agentRun' = [agentRun EXCEPT !.source = s]
    BY <1>9, <1>10 DEF ApplyAgentAction, RunRow
  <2> QED BY <2>1, <1>9 DEF RunRow
<1> DEFINE deed == [action |-> n, onto |-> ground.version, status |-> agentRun.status]
<1>13. PICK next \in Nat : next = Len(deeds) + 1 BY DEF AgentShape
<1>14. /\ deed \in DeedRow
       /\ deed.action = n /\ deed.onto = actions[n].expected /\ deed.status \in Active
  <2>1. n \in Nat /\ ground.version \in Nat /\ agentRun.status \in Active BY <1>2, <1>9
  <2>2. deed.action = n /\ deed.onto = ground.version /\ deed.status = agentRun.status
    OBVIOUS
  <2>3. deed \in DeedRow BY <2>1 DEF DeedRow
  <2> HIDE DEF deed
  <2> QED BY <1>9, <2>1, <2>2, <2>3
<1>15. deeds' = Append(deeds, deed) BY DEF ApplyAgentAction
<1> HIDE DEF deed
<1>16. /\ deeds' \in Seq(DeedRow)
       /\ DOMAIN deeds' = DOMAIN deeds \cup {next} /\ next \notin DOMAIN deeds
       /\ \A i \in DOMAIN deeds : deeds'[i] = deeds[i]
       /\ deeds'[next] = deed
  BY <1>13, <1>14, <1>15 DEF AgentShape
<1>17. actions' = actions /\ agreed' = agreed BY DEF ApplyAgentAction
<1>18. AgentShape' BY <1>5, <1>8, <1>11, <1>12, <1>16, <1>17 DEF AgentShape
<1>19. \A i \in DOMAIN deeds : deeds[i].action # n BY <1>1, <1>2 DEF DeedHasReceipt
<1>20. JobHasAction' BY <1>1, <1>2, <1>3, <1>5, <1>17 DEF JobHasAction
<1>21. ActionHasJob' BY <1>2, <1>3, <1>5, <1>17 DEF ActionHasJob
<1>22. DeedHasReceipt'
  <2>1. \A i \in DOMAIN deeds' : LET m == deeds'[i].action IN
          m \in DOMAIN actions' /\ actions'[m].job # 0 /\ agentJobs'[actions'[m].job].receipt
    <3> SUFFICES ASSUME NEW i \in DOMAIN deeds'
                 PROVE  /\ deeds'[i].action \in DOMAIN actions /\ actions[deeds'[i].action].job # 0
                        /\ agentJobs'[actions[deeds'[i].action].job].receipt
      BY <1>17
    <3>1. CASE i = next BY <3>1, <1>2, <1>3, <1>5, <1>14, <1>16, <1>1
    <3>2. CASE i \in DOMAIN deeds BY <3>2, <1>3, <1>5, <1>16 DEF DeedHasReceipt, ActionHasJob
    <3> QED BY <3>1, <3>2, <1>16
  <2>2. \A k \in DOMAIN agentJobs' : agentJobs'[k].receipt =>
          \E i \in DOMAIN deeds' : deeds'[i].action = agentJobs'[k].action
    <3> SUFFICES ASSUME NEW k \in DOMAIN agentJobs, agentJobs'[k].receipt
                 PROVE  \E i \in DOMAIN deeds' : deeds'[i].action = agentJobs'[k].action
      BY <1>5
    <3>1. CASE k = j BY <3>1, <1>1, <1>3, <1>5, <1>14, <1>16
    <3>2. CASE k # j
      <4>1. PICK i \in DOMAIN deeds : deeds[i].action = agentJobs[k].action
        BY <3>2, <1>5 DEF DeedHasReceipt
      <4> QED BY <4>1, <3>2, <1>5, <1>16
    <3> QED BY <3>1, <3>2
  <2> QED BY <2>1, <2>2 DEF DeedHasReceipt
<1>23. WritesAsAgreed' BY <1>2, <1>14, <1>16, <1>17, <1>19 DEF WritesAsAgreed
<1>24. MindHasJob' BY <1>1, <1>3, <1>5, <1>6, <1>8 DEF MindHasJob
<1>25. RunHasJob' BY <1>5, <1>9, <1>12 DEF RunHasJob, Active
<1> QED BY <1>18, <1>20, <1>21, <1>22, <1>23, <1>24, <1>25

LEMMA StepReport == ASSUME AgentIInv, NEW w \in Agents, ReportAgentAction(w) PROVE AgentIInv'
<1> USE DEF AgentIInv
<1> DEFINE j == mind[w].job
           n == agentJobs[j].action
           left == Released(w, agentJobs)
<1>1. /\ j \in DOMAIN agentJobs /\ agentJobs[j].kind = "action" /\ agentJobs[j].receipt
  BY DEF MindHasJob, ReportAgentAction
<1>2. n \in DOMAIN actions /\ actions[n].job = j /\ actions[n] \in ActionRow
  BY <1>1 DEF JobHasAction, AgentShape
<1>3. PICK one \in Nat : one = Len(agentJobs) + 1 BY DEF AgentShape
<1>4. NewAgentJob("run", 0) \in JobRow /\ NewAgentJob("run", 0).kind = "run"
      /\ ~NewAgentJob("run", 0).receipt
  BY DEF NewAgentJob, JobRow
<1>5. /\ left \in Seq(JobRow) /\ Len(left) = Len(agentJobs)
      /\ DOMAIN left = DOMAIN agentJobs
      /\ \A k \in DOMAIN agentJobs : /\ left[k].kind = agentJobs[k].kind /\ left[k].action = agentJobs[k].action
                                     /\ left[k].receipt = agentJobs[k].receipt
  BY <1>1, JobReleased
<1>6. agentJobs' = Append(left, NewAgentJob("run", 0)) BY DEF ReportAgentAction
<1> HIDE DEF left
<1>7. /\ agentJobs' \in Seq(JobRow) /\ DOMAIN agentJobs' = DOMAIN agentJobs \cup {one}
      /\ one \notin DOMAIN agentJobs
      /\ \A k \in DOMAIN agentJobs : agentJobs'[k] = left[k]
      /\ agentJobs'[one] = NewAgentJob("run", 0)
  <2>1. one = Len(left) + 1 /\ Len(left) \in Nat /\ DOMAIN left = 1 .. Len(left) BY <1>3, <1>5
  <2> QED BY <1>4, <1>5, <1>6, <2>1
<1>8. JobsStay /\ RunsAdded BY <1>4, <1>5, <1>7 DEF JobsStay, SameWork, RunsAdded
<1>9. PICK row \in ActionRow : /\ actions' = [actions EXCEPT ![n] = row]
                               /\ row.job = j /\ row.expected = actions[n].expected
                               /\ row.status = IF actions[n].status = "confirmed" THEN "applied" ELSE actions[n].status
  <2> DEFINE row == [actions[n] EXCEPT !.status = IF @ = "confirmed" THEN "applied" ELSE @]
  <2>1. /\ row \in ActionRow /\ row.job = j /\ row.expected = actions[n].expected
        /\ row.status = IF actions[n].status = "confirmed" THEN "applied" ELSE actions[n].status
    BY <1>2 DEF ActionRow
  <2>2. actions' = [actions EXCEPT ![n] = row] BY DEF ReportAgentAction
  <2> QED BY <2>1, <2>2
<1>10. /\ actions' \in Seq(ActionRow) /\ DOMAIN actions' = DOMAIN actions
       /\ \A m \in DOMAIN actions : actions'[m] = IF m = n THEN row ELSE actions[m]
  BY <1>2, <1>9, OneAction
<1>11. agentRun' \in RunRow /\ agentRun'.job = one
  <2>1. agentRun \in RunRow /\ ground.version \in Nat BY DEF AgentShape, Grounds
  <2>2. agentRun' = [agentRun EXCEPT !.status = "pending", !.source = ground.version, !.job = one]
    BY <1>3 DEF ReportAgentAction
  <2> QED BY <2>1, <2>2, <1>3 DEF RunRow, Active
<1>12. /\ mind' \in [Agents -> Minds]
       /\ \A v \in Agents : mind'[v] = IF v = w THEN NoMind ELSE mind[v]
  BY ThinksTyped, NoMindTyped DEF ReportAgentAction
<1>13. ground' = ground /\ deeds' = deeds /\ agreed' = agreed BY DEF ReportAgentAction
<1>14. AgentShape' BY <1>7, <1>10, <1>11, <1>12, <1>13 DEF AgentShape
<1>15. JobHasAction'
  <2> SUFFICES ASSUME NEW k \in DOMAIN agentJobs'
               PROVE  /\ agentJobs'[k].kind = "action" => /\ agentJobs'[k].action \in DOMAIN actions'
                                                          /\ actions'[agentJobs'[k].action].job = k
                      /\ agentJobs'[k].kind = "run" => ~agentJobs'[k].receipt
    BY DEF JobHasAction
  <2>1. CASE k = one BY <2>1, <1>4, <1>7
  <2>2. CASE k \in DOMAIN agentJobs
    BY <2>2, <1>2, <1>8, <1>9, <1>10 DEF JobHasAction, JobsStay, SameWork
  <2> QED BY <2>1, <2>2, <1>7
<1>16. ActionHasJob'
  <2> SUFFICES ASSUME NEW m \in DOMAIN actions
               PROVE  /\ actions'[m].job # 0 => /\ actions'[m].job \in DOMAIN agentJobs'
                                                /\ agentJobs'[actions'[m].job].kind = "action"
                                                /\ agentJobs'[actions'[m].job].action = m
                                                /\ m \in agreed'
                      /\ actions'[m].status \in {"planned", "rejected"} => actions'[m].job = 0
                      /\ actions'[m].status \in {"confirmed", "applied", "failed"} => actions'[m].job # 0
                      /\ actions'[m].status = "applied" => agentJobs'[actions'[m].job].receipt
                      /\ actions'[m].status = "failed" => ~agentJobs'[actions'[m].job].receipt
    BY <1>10 DEF ActionHasJob
  <2>1. CASE m = n
    BY <2>1, <1>1, <1>2, <1>8, <1>9, <1>10, <1>13 DEF ActionHasJob, JobsStay, SameWork
  <2>2. CASE m # n BY <2>2, <1>8, <1>10, <1>13 DEF ActionHasJob, JobsStay, SameWork
  <2> QED BY <2>1, <2>2
<1>17. DeedHasReceipt'
  <2>1. \A m \in DOMAIN actions : actions'[m].job = actions[m].job /\ actions'[m].expected = actions[m].expected
    BY <1>2, <1>9, <1>10
  <2>2. \A i \in DOMAIN deeds' : LET m == deeds'[i].action IN
          m \in DOMAIN actions' /\ actions'[m].job # 0 /\ agentJobs'[actions'[m].job].receipt
    BY <2>1, <1>8, <1>10, <1>13 DEF DeedHasReceipt, ActionHasJob, JobsStay, SameWork
  <2>3. \A k \in DOMAIN agentJobs' : agentJobs'[k].receipt =>
          \E i \in DOMAIN deeds' : deeds'[i].action = agentJobs'[k].action
    BY <1>8, <1>13 DEF DeedHasReceipt, JobsStay, SameWork, RunsAdded
  <2> QED BY <2>2, <2>3 DEF DeedHasReceipt
<1>18. WritesAsAgreed'
  <2>1. /\ deeds' = deeds /\ agreed' = agreed
        /\ \A m \in DOMAIN actions : actions'[m].expected = actions[m].expected
    BY <1>2, <1>9, <1>10, <1>13
  <2>2. WritesAsAgreed /\ \A i \in DOMAIN deeds : deeds[i].action \in DOMAIN actions
    BY DEF DeedHasReceipt
  <2> QED BY ONLY <2>1, <2>2 DEF WritesAsAgreed
<1>19. MindHasJob' BY <1>8, <1>12, MindsStay DEF NoMind
<1>20. RunHasJob' BY <1>7, <1>11 DEF RunHasJob
<1> QED BY <1>14, <1>15, <1>16, <1>17, <1>18, <1>19, <1>20

----------------
(* The invariant.                                                             *)

\* Nothing has been asked yet.
LEMMA AgentStarts == ASSUME AgentInit PROVE AgentIInv
<1> USE DEF AgentInit
<1>1. ground \in Grounds /\ agentRun \in RunRow BY DEF Grounds, RunRow
<1>2. mind \in [Agents -> Minds] BY NoMindTyped
<1>3. AgentShape BY <1>1, <1>2 DEF AgentShape
<1>4. RunHasJob /\ MindHasJob BY DEF RunHasJob, MindHasJob, NoMind
<1>5. JobHasAction /\ ActionHasJob /\ DeedHasReceipt /\ WritesAsAgreed
  BY DEF JobHasAction, ActionHasJob, DeedHasReceipt, WritesAsAgreed
<1> QED BY <1>3, <1>4, <1>5 DEF AgentIInv

\* Every step of the scene.
LEMMA AgentStep == ASSUME AgentIInv, AgentNext PROVE AgentIInv'
  BY StepAround, StepCreate, StepCancel, StepDecide, StepLose, StepClaim, StepFail, StepBegin,
     StepCommit, StepBeginAction, StepApply, StepReport, StepTurn DEF AgentNext

\* And none.
LEMMA AgentStutter == ASSUME AgentIInv, UNCHANGED agentVars PROVE AgentIInv'
<1>1. AgentShape' /\ RunHasJob' /\ MindHasJob'
  BY DEF AgentIInv, agentVars, AgentShape, RunHasJob, MindHasJob
<1>2. JobHasAction' /\ ActionHasJob' BY DEF AgentIInv, agentVars, JobHasAction, ActionHasJob
<1>3. DeedHasReceipt' /\ WritesAsAgreed' BY DEF AgentIInv, agentVars, DeedHasReceipt, WritesAsAgreed
<1> QED BY <1>1, <1>2, <1>3 DEF AgentIInv

\* What the invariant was for.
LEMMA AgentTrue == ASSUME AgentIInv PROVE AgentIsTrue
<1> USE DEF AgentIInv
<1>1. ToldAsDone
  <2> SUFFICES ASSUME NEW n \in DOMAIN actions
               PROVE  /\ actions[n].status \in {"failed", "rejected", "planned"} =>
                           n \notin {deeds[i].action : i \in DOMAIN deeds}
                      /\ actions[n].status = "applied" => n \in {deeds[i].action : i \in DOMAIN deeds}
    BY DEF ToldAsDone
  <2>1. actions[n].status \in {"failed", "rejected", "planned"} => \A i \in DOMAIN deeds : deeds[i].action # n
    BY DEF ActionHasJob, DeedHasReceipt
  <2>2. actions[n].status = "applied" => \E i \in DOMAIN deeds : deeds[i].action = n
    BY DEF ActionHasJob, DeedHasReceipt
  <2> QED BY <2>1, <2>2
<1> QED BY <1>1 DEF AgentIsTrue
\* The scene of the agents.
OpsAgentInv == scene = "agent" => AgentIInv

\* Whatever the settings, the rights, the documents and the leases do: a run of
\* an agent changes a document only as the user has agreed, once for each
\* action, onto the version it was planned for and while the run is active, and
\* an action is told as applied exactly when it was (applyWorkspaceAgentAction,
\* finishWorkspaceAgentAction).
THEOREM AgentsAreTrue == OperationsSpec => []AgentsHold
<1>1. OperationsInit => OpsAgentInv BY AgentStarts DEF OperationsInit, OpsAgentInv
<1>2. OpsAgentInv /\ [OperationsNext]_operationsVars => OpsAgentInv'
  <2> SUFFICES ASSUME OpsAgentInv, [OperationsNext]_operationsVars, scene' = "agent"
               PROVE  AgentIInv'
    BY DEF OpsAgentInv
  <2>1. scene = "agent" /\ AgentIInv BY DEF OpsAgentInv, OperationsNext, operationsVars
  <2>2. AgentNext \/ UNCHANGED agentVars BY <2>1 DEF OperationsNext, operationsVars
  <2> QED BY <2>1, <2>2, AgentStep, AgentStutter
<1>3. OpsAgentInv => AgentsHold BY AgentTrue DEF OpsAgentInv, AgentsHold
<1> QED BY <1>1, <1>2, <1>3, PTL DEF OperationsSpec



----------------
(* Accounts of people: memberships are owed to groups or to hands, and an     *)
(* open transaction of identities will write what it may.                     *)

AccountRow == [is : {"absent", "user", "admin"}, disabled : BOOLEAN,
               scim : {"no", "active", "inactive", "deleted"}]
LinkRow    == [user : {"none", "ann", "ben"}, group : BOOLEAN]
LinkRows   == [verified : LinkRow, other : LinkRow, scim : BOOLEAN]
RoleOrNone == Levels \cup {"none"}
Mappings   == [epoch : Nat, sso : RoleOrNone, scim : RoleOrNone]
Grants     == [sso : RoleOrNone, scim : RoleOrNone, base : RoleOrNone]
MemberRow  == [role : RoleOrNone, managed : RoleOrNone, grants : Grants,
               hand : Levels \cup {"no", "removed"}, raced : BOOLEAN]

AccountShape ==
  /\ accounts \in [People -> AccountRow]
  /\ idLinks \in LinkRows
  /\ idSettings \in Mappings
  /\ member \in MemberRow
  /\ handTx # NoTx => handTx.role \in RoleOrNone
  /\ adminTx \in [People -> {NoTx} \cup [by : {"admin"}, is : {"user", "admin"}, disabled : BOOLEAN]]

\* An open transaction of identities will write what it may.
TxRow == [by : SignIns \cup {"scim", "group", "link", "unlink", "settings"}, rows : SUBSET People,
          syncs : BOOLEAN, account : AccountRow, links : LinkRows, settings : Mappings,
          grants : Grants, read : BOOLEAN, role : RoleOrNone, managed : RoleOrNone]
TxShape == idTx \in TxRow
TxGrants ==
    /\ idTx.grants = GrantsOf(idTx.links, idTx.settings, idTx.account.scim)
    /\ ~idTx.syncs => idTx.grants = member.grants
    /\ idTx.by # "settings" => idTx.settings.sso = idSettings.sso /\ idTx.settings.scim = idSettings.scim
    /\ "ben" \notin idTx.rows => idTx.account.scim = accounts["ben"].scim
TxAdmin ==
    "ben" \in idTx.rows => /\ adminTx["ben"] = NoTx
                           /\ idTx.account = accounts["ben"] \/ accounts["ben"].is # "admin"
TxMarker ==
    idTx.read /\ idTx.syncs =>
      /\ member.managed \in {idTx.managed, "none"}
      /\ idTx.managed # "none" /\ member.managed = "none" /\ member.role = idTx.managed =>
           member.raced
TxHonest == idTx # NoTx => TxShape /\ TxGrants /\ TxAdmin /\ TxMarker
AdminsApart ==
  /\ \A u, v \in People : adminTx[u] # NoTx /\ adminTx[v] # NoTx => u = v
  /\ \A u \in People : adminTx[u] # NoTx /\ (adminTx[u].is # "admin" \/ adminTx[u].disabled) =>
       \E v \in People \ {u} : Administers(v)


\* A membership, whatever its grants are owed to.
MemberTrue(m) ==
  /\ m.managed # "none" => /\ m.role = m.managed
                           /\ \E g \in Grantors : Rank[m.grants[g]] = Rank[m.role]
                           /\ \A g \in Grantors : Rank[m.grants[g]] <= Rank[m.role]
  /\ m.role = "none" /\ m.hand # "removed" => \A g \in Grantors : m.grants[g] = "none"
  /\ m.role # "none" /\ m.managed = "none" => m.hand # "no"
  /\ m.hand \in Levels /\ ~m.raced => m.role = m.hand /\ m.managed = "none"

GrantsAsOwed == member.grants = GrantsOf(idLinks, idSettings, accounts["ben"].scim)

\* Ranks are numbers.
LEMMA RankIs == Rank["none"] = 0 /\ Rank["viewer"] = 1 /\ Rank["editor"] = 2
  BY DEF Rank

\* Grants are roles or nothing, and only nothing ranks zero.
LEMMA GrantsAre == ASSUME NEW grants \in Grants
                   PROVE  /\ \A g \in Grantors : grants[g] \in RoleOrNone /\ Rank[grants[g]] \in 0 .. 2
                          /\ \A g \in Grantors : Rank[grants[g]] = 0 <=> grants[g] = "none"
  BY RankIs DEF Grants, Grantors, RoleOrNone, Levels

\* What FollowsGroups and HandStands say, in terms of the membership alone.
LEMMA TrueMeans ==
  ASSUME AccountShape
  PROVE  FollowsGroups /\ HandStands <=> GrantsAsOwed /\ MemberTrue(member)
<1> DEFINE ranks == {Rank[member.grants[g]] : g \in Grantors}
<1>1. member.grants \in Grants BY DEF AccountShape, MemberRow
<1>2. "base" \in Grantors BY DEF Grantors
<1>3. ranks # {0} <=> \E g \in Grantors : Rank[member.grants[g]] # 0 BY <1>2
<1>4. ranks # {0} <=> \E g \in Grantors : member.grants[g] # "none" BY <1>1, <1>3, GrantsAre
<1>5. Rank[member.role] \in ranks <=> \E g \in Grantors : Rank[member.grants[g]] = Rank[member.role]
  OBVIOUS
<1>6. (\A r \in ranks : r <= Rank[member.role]) <=> \A g \in Grantors : Rank[member.grants[g]] <= Rank[member.role]
  OBVIOUS
<1> HIDE DEF ranks
<1> QED BY <1>4, <1>5, <1>6 DEF FollowsGroups, HandStands, GrantsAsOwed, MemberTrue, ranks

\* Links and mappings make grants.
LEMMA OwedGrants ==
  ASSUME NEW links \in LinkRows, NEW mappings \in Mappings, NEW scim
  PROVE  GrantsOf(links, mappings, scim) \in Grants
  BY DEF GrantsOf, Grants, Mappings, RoleOrNone, Levels

\* There is a highest grant.
LEMMA HighestIs ==
  ASSUME NEW grants \in Grants
  PROVE  /\ HighestGrant(grants) \in RoleOrNone
         /\ \E g \in Grantors : grants[g] = HighestGrant(grants)
         /\ \A g \in Grantors : Rank[grants[g]] <= Rank[HighestGrant(grants)]
<1> DEFINE Best(r) == /\ \E g \in Grantors : grants[g] = r
                      /\ \A g \in Grantors : Rank[grants[g]] <= Rank[r]
<1>1. \E h \in Grantors : \A g \in Grantors : Rank[grants[g]] <= Rank[grants[h]]
  BY GrantsAre DEF Grantors
<1>2. \E r \in RoleOrNone : Best(r) BY <1>1, GrantsAre
<1>3. HighestGrant(grants) = CHOOSE r \in RoleOrNone : Best(r) BY DEF HighestGrant, RoleOrNone
<1> HIDE DEF Best
<1>4. HighestGrant(grants) \in RoleOrNone /\ Best(HighestGrant(grants)) BY <1>2, <1>3
<1> QED BY <1>4 DEF Best

\* identityReconcileMember leaves a true membership, although its marker may be
\* older than the row: whoever removed the marker meanwhile set the role by hand.
LEMMA ReconciledTrue ==
  ASSUME AccountShape, MemberTrue(member), TxShape, TxMarker, idTx.read, idTx.syncs,
         idTx.grants \in Grants
  PROVE  LET m == Reconciled(HighestGrant(idTx.grants)) IN
         m \in MemberRow /\ m.grants = idTx.grants /\ MemberTrue(m)
<1>1. PICK level \in RoleOrNone : level = HighestGrant(idTx.grants) BY HighestIs
<1>2. /\ \E g \in Grantors : Rank[idTx.grants[g]] = Rank[level]
      /\ \A g \in Grantors : Rank[idTx.grants[g]] <= Rank[level]
      /\ level = "none" => \A g \in Grantors : idTx.grants[g] = "none"
  BY <1>1, HighestIs, GrantsAre, RankIs
<1> DEFINE now == [member EXCEPT !.grants = idTx.grants]
<1>3. member \in MemberRow /\ idTx.managed \in RoleOrNone BY DEF AccountShape, TxShape, TxRow
<1>4. now \in MemberRow /\ now.grants = idTx.grants /\ now.role = member.role
      /\ now.managed = member.managed /\ now.hand = member.hand /\ now.raced = member.raced
  BY <1>3 DEF MemberRow
<1>5. CASE member.role = "none" /\ level = "none"
  <2>1. Reconciled(level) = now BY <1>5 DEF Reconciled
  <2>2. MemberTrue(now) BY <1>2, <1>4, <1>5 DEF MemberTrue
  <2> QED BY <1>1, <1>4, <2>1, <2>2
<1>6. CASE member.role = "none" /\ level # "none"
  <2> DEFINE joined == [now EXCEPT !.role = level, !.managed = level, !.hand = "no", !.raced = FALSE]
  <2>1. Reconciled(level) = joined BY <1>6 DEF Reconciled
  <2>2. joined \in MemberRow /\ joined.grants = idTx.grants /\ joined.role = level
        /\ joined.managed = level /\ joined.hand = "no"
    BY <1>4 DEF MemberRow
  <2> HIDE DEF joined
  <2>3. MemberTrue(joined) BY <1>2, <1>6, <2>2 DEF MemberTrue, Levels
  <2> QED BY <1>1, <2>1, <2>2, <2>3
<1>7. CASE member.role # "none" /\ idTx.managed = "none"
  <2>1. Reconciled(level) = now BY <1>7 DEF Reconciled
  <2>2. MemberTrue(now) BY <1>2, <1>4, <1>7 DEF MemberTrue, TxMarker
  <2> QED BY <1>1, <1>4, <2>1, <2>2
<1>8. CASE member.role # "none" /\ idTx.managed # "none" /\ ~ManagedStill
  <2> DEFINE left == [now EXCEPT !.managed = "none"]
  <2>1. Reconciled(level) = left BY <1>8 DEF Reconciled
  <2>2. left \in MemberRow /\ left.grants = idTx.grants /\ left.role = member.role
        /\ left.managed = "none" /\ left.hand = member.hand /\ left.raced = member.raced
    BY <1>4 DEF MemberRow, RoleOrNone
  <2> HIDE DEF left
  <2>3. MemberTrue(left) BY <1>8, <2>2 DEF MemberTrue, TxMarker, ManagedStill
  <2> QED BY <1>1, <2>1, <2>2, <2>3
<1>9. CASE member.role # "none" /\ ManagedStill /\ level = "none"
  <2> DEFINE left == [now EXCEPT !.role = "none", !.managed = "none"]
  <2>1. Reconciled(level) = left BY <1>9 DEF Reconciled, ManagedStill
  <2>2. left \in MemberRow /\ left.grants = idTx.grants /\ left.role = "none"
        /\ left.managed = "none" /\ left.hand = member.hand /\ left.raced = member.raced
    BY <1>4 DEF MemberRow, RoleOrNone
  <2> HIDE DEF left
  <2>3. MemberTrue(left) BY <1>2, <1>9, <2>2 DEF MemberTrue, TxMarker, ManagedStill, Levels
  <2> QED BY <1>1, <2>1, <2>2, <2>3
<1>10. CASE member.role # "none" /\ ManagedStill /\ level # "none"
  <2> DEFINE kept == [now EXCEPT !.role = level, !.managed = IF @ = "none" THEN @ ELSE level]
  <2>1. Reconciled(level) = kept BY <1>10 DEF Reconciled, ManagedStill
  <2>2. kept \in MemberRow /\ kept.grants = idTx.grants /\ kept.role = level
        /\ kept.managed = (IF member.managed = "none" THEN "none" ELSE level)
        /\ kept.hand = member.hand /\ kept.raced = member.raced
    BY <1>4 DEF MemberRow, RoleOrNone
  <2> HIDE DEF kept
  <2>3. MemberTrue(kept) BY <1>2, <1>10, <2>2 DEF MemberTrue, TxMarker, ManagedStill, Levels
  <2> QED BY <1>1, <2>1, <2>2, <2>3
<1> QED BY <1>5, <1>6, <1>7, <1>8, <1>9, <1>10 DEF ManagedStill

AccountsIInv == AccountShape /\ TxHonest /\ AdminsApart /\ AdminRemains
                /\ GrantsAsOwed /\ MemberTrue(member)

rowVars == <<accounts, idSettings, idLinks, member, idTx, handTx, adminTx>>

\* Steps that touch only sign-ins.
LEMMA RowsStay == ASSUME AccountsIInv, UNCHANGED rowVars PROVE AccountsIInv'
<1>1. AccountShape' BY DEF AccountsIInv, rowVars, AccountShape
<1>2. TxHonest' BY DEF AccountsIInv, rowVars, TxHonest, TxShape, TxGrants, TxAdmin, TxMarker
<1>3. AdminsApart' /\ AdminRemains'
  BY DEF AccountsIInv, rowVars, AdminsApart, AdminRemains, Administers
<1>4. GrantsAsOwed' /\ MemberTrue(member)' BY DEF AccountsIInv, rowVars, GrantsAsOwed
<1> QED BY <1>1, <1>2, <1>3, <1>4 DEF AccountsIInv

\* A transaction of identities opens.
LEMMA OpensRight ==
  ASSUME AccountsIInv, NEW rows \in SUBSET People,
         NEW by \in SignIns \cup {"scim", "group", "link", "unlink", "settings"}, NEW syncs \in BOOLEAN,
         NEW row \in AccountRow, NEW links \in LinkRows, NEW mappings \in Mappings,
         Opens(by, rows, syncs, row, links, mappings),
         ~syncs => GrantsOf(links, mappings, row.scim) = member.grants,
         by # "settings" => mappings.sso = idSettings.sso /\ mappings.scim = idSettings.scim,
         "ben" \notin rows => row.scim = accounts["ben"].scim,
         "ben" \in rows => row = accounts["ben"] \/ accounts["ben"].is # "admin"
  PROVE  AccountsIInv'
<1> DEFINE tx == [by |-> by, rows |-> rows, syncs |-> syncs, account |-> row,
                  links |-> links, settings |-> mappings,
                  grants |-> GrantsOf(links, mappings, row.scim),
                  read |-> ~syncs, role |-> "none", managed |-> "none"]
<1>1. /\ idTx' = tx /\ \A u \in rows : adminTx[u] = NoTx
      /\ UNCHANGED <<accounts, idSettings, idLinks, member, handTx, adminTx>>
  BY DEF Opens
<1>2. /\ tx.by = by /\ tx.rows = rows /\ tx.syncs = syncs /\ tx.account = row
      /\ tx.links = links /\ tx.settings = mappings
      /\ tx.grants = GrantsOf(links, mappings, row.scim)
      /\ tx.read = ~syncs /\ tx.managed = "none"
  OBVIOUS
<1>0. tx \in TxRow BY OwedGrants DEF TxRow, RoleOrNone
<1> HIDE DEF tx
<1>3. TxShape' BY <1>0, <1>1 DEF TxShape
<1>4. TxGrants' BY <1>1, <1>2 DEF TxGrants
<1>5. TxAdmin' BY <1>1, <1>2 DEF TxAdmin
<1>6. TxMarker' BY <1>1, <1>2 DEF TxMarker
<1>7. AccountShape' /\ AdminsApart' /\ AdminRemains'
  BY <1>1 DEF AccountsIInv, AccountShape, AdminsApart, AdminRemains, Administers
<1>8. GrantsAsOwed' /\ MemberTrue(member)' BY <1>1 DEF AccountsIInv, GrantsAsOwed
<1> QED BY <1>3, <1>4, <1>5, <1>6, <1>7, <1>8 DEF AccountsIInv, TxHonest

LEMMA StepRead == ASSUME AccountsIInv, ReadMember PROVE AccountsIInv'
<1> DEFINE tx == [idTx EXCEPT !.read = TRUE, !.role = member.role, !.managed = member.managed]
<1>1. idTx # NoTx /\ idTx \in TxRow /\ TxGrants /\ TxAdmin /\ member \in MemberRow
  BY DEF ReadMember, AccountsIInv, TxHonest, TxShape, AccountShape
<1>2. idTx' = tx /\ UNCHANGED <<accounts, idSettings, idLinks, member, handTx, adminTx>>
  BY DEF ReadMember
<1>3. /\ tx \in TxRow /\ tx.by = idTx.by /\ tx.rows = idTx.rows /\ tx.syncs = idTx.syncs
      /\ tx.account = idTx.account /\ tx.links = idTx.links /\ tx.settings = idTx.settings
      /\ tx.grants = idTx.grants /\ tx.managed = member.managed
  BY <1>1 DEF MemberRow, TxRow
<1> HIDE DEF tx
<1>4. TxShape' /\ TxGrants' /\ TxAdmin' BY <1>1, <1>2, <1>3 DEF TxShape, TxGrants, TxAdmin
<1>5. TxMarker' BY <1>1, <1>2, <1>3 DEF TxMarker
<1>6. AccountShape' /\ AdminsApart' /\ AdminRemains'
  BY <1>2 DEF AccountsIInv, AccountShape, AdminsApart, AdminRemains, Administers
<1>7. GrantsAsOwed' /\ MemberTrue(member)' BY <1>2 DEF AccountsIInv, GrantsAsOwed
<1> QED BY <1>4, <1>5, <1>6, <1>7 DEF AccountsIInv, TxHonest

\* It commits; whatever changed meanwhile, administrators stay.
LEMMA StepCommitIdentity == ASSUME AccountsIInv, CommitIdentity PROVE AccountsIInv'
<1>1. /\ idTx \in TxRow /\ TxShape /\ TxGrants /\ TxAdmin /\ TxMarker /\ idTx.read
      /\ AccountShape /\ MemberTrue(member) /\ GrantsAsOwed
  BY DEF CommitIdentity, AccountsIInv, TxHonest, TxShape
<1>2. idTx' = NoTx /\ UNCHANGED <<handTx, adminTx>> BY DEF CommitIdentity
<1>3. /\ accounts' \in [People -> AccountRow] /\ accounts'["ann"] = accounts["ann"]
      /\ accounts'["ben"] = (IF "ben" \in idTx.rows THEN idTx.account ELSE accounts["ben"])
  BY <1>1 DEF CommitIdentity, AccountShape, TxRow, People
<1>4. idLinks' \in LinkRows /\ idLinks' = idTx.links BY <1>1 DEF CommitIdentity, TxRow
<1>5. /\ idSettings' \in Mappings
      /\ idSettings'.sso = idTx.settings.sso /\ idSettings'.scim = idTx.settings.scim
  BY <1>1 DEF CommitIdentity, TxRow, TxGrants, AccountShape
<1>6. /\ member' \in MemberRow /\ member'.grants = idTx.grants /\ MemberTrue(member')
  <2>1. CASE idTx.syncs
    <3>1. idTx.grants \in Grants BY <1>1 DEF TxRow
    <3> QED BY <1>1, <2>1, <3>1, ReconciledTrue DEF CommitIdentity
  <2>2. CASE ~idTx.syncs BY <1>1, <2>2 DEF CommitIdentity, AccountShape, TxGrants
  <2> QED BY <2>1, <2>2
<1>7. AccountShape' BY <1>1, <1>2, <1>3, <1>4, <1>5, <1>6 DEF AccountShape
<1>8. GrantsAsOwed'
  <2>1. accounts'["ben"].scim = idTx.account.scim BY <1>1, <1>3 DEF TxGrants
  <2>2. member'.grants = GrantsOf(idTx.links, idTx.settings, idTx.account.scim)
    BY <1>1, <1>6 DEF TxGrants
  <2> QED BY <1>4, <1>5, <2>1, <2>2 DEF GrantsAsOwed, GrantsOf
<1>9. \A u \in People : Administers(u) => Administers(u)'
  BY <1>1, <1>3 DEF Administers, TxAdmin, People
<1>10. AdminsApart' /\ AdminRemains' BY <1>2, <1>9 DEF AccountsIInv, AdminsApart, AdminRemains
<1> QED BY <1>2, <1>6, <1>7, <1>8, <1>10 DEF AccountsIInv, TxHonest

\* Accounts, links and mappings as they are, under whatever a step sets anew.
LEMMA RowsTyped ==
  ASSUME AccountShape
  PROVE  /\ \A u \in People : accounts[u] \in AccountRow
         /\ \A s \in Subjects : idLinks[s] \in LinkRow
         /\ \A s \in Subjects, new \in LinkRow :
              /\ [idLinks EXCEPT ![s] = new] \in LinkRows
              /\ [idLinks EXCEPT ![s] = new].scim = idLinks.scim
              /\ \A t \in Subjects : [idLinks EXCEPT ![s] = new][t] = IF t = s THEN new ELSE idLinks[t]
         /\ \A holds \in BOOLEAN : [idLinks EXCEPT !.scim = holds] \in LinkRows
         /\ \A g \in {"sso", "scim"}, level \in RoleOrNone : [idSettings EXCEPT ![g] = level] \in Mappings
  BY DEF AccountShape, LinkRows, Subjects, Mappings

\* A sign-in binds an account, or is refused.
LEMMA StepProved ==
  ASSUME AccountsIInv, NEW i \in SignIns, NEW s \in Subjects, NEW group \in BOOLEAN, Proved(i, s, group)
  PROVE  AccountsIInv'
<1> DEFINE u == AccountOf(s)
           row == IF accounts["ben"].is = "absent" /\ u = "ben" THEN [accounts["ben"] EXCEPT !.is = "user"]
                  ELSE accounts["ben"]
           links == [idLinks EXCEPT ![s] = [user |-> u, group |-> group]]
<1>1. CASE UNCHANGED <<accounts, idSettings, idLinks, member, idTx, handTx, adminTx>>
  BY <1>1, RowsStay DEF rowVars
<1>2. CASE u # "none" /\ Opens(i, {u}, u = "ben", row, links, SettingsFor(i))
  <2>1. /\ AccountShape /\ accounts["ben"] \in AccountRow /\ idLinks \in LinkRows
        /\ idSettings \in Mappings /\ GrantsAsOwed
    BY RowsTyped DEF AccountsIInv, AccountShape, People
  <2>2. u \in People BY <1>2, <2>1, RowsTyped DEF AccountOf, LinkRow, People
  <2>3. row \in AccountRow /\ row.scim = accounts["ben"].scim
        /\ (row = accounts["ben"] \/ accounts["ben"].is = "absent")
    BY <2>1 DEF AccountRow
  <2>4. [user |-> u, group |-> group] \in LinkRow BY <2>2 DEF LinkRow, People
  <2>5. /\ links \in LinkRows /\ links.scim = idLinks.scim
        /\ \A t \in Subjects : links[t] = IF t = s THEN [user |-> u, group |-> group] ELSE idLinks[t]
    BY <2>1, <2>4, RowsTyped
  <2>6. u # "ben" => idLinks[s].user = u BY <1>2 DEF AccountOf
  <2> HIDE DEF u, row, links
  <2>7. u # "ben" => GrantsOf(links, SettingsFor(i), row.scim) = member.grants
    <3> SUFFICES ASSUME u # "ben"
                 PROVE  GrantsOf(links, idSettings, accounts["ben"].scim)
                          = GrantsOf(idLinks, idSettings, accounts["ben"].scim)
      BY <2>1, <2>3 DEF GrantsAsOwed, SettingsFor
    <3>1. (\E t \in Subjects : links[t].user = "ben" /\ links[t].group)
            <=> (\E t \in Subjects : idLinks[t].user = "ben" /\ idLinks[t].group)
      BY <2>5, <2>6
    <3> QED BY <2>5, <3>1 DEF GrantsOf
  <2> QED BY <1>2, <2>1, <2>2, <2>3, <2>5, <2>7, OpensRight DEF SettingsFor
<1> QED BY <1>1, <1>2 DEF Proved

LEMMA StepScimUser ==
  ASSUME AccountsIInv, NEW to \in {"created", "active", "inactive", "deleted"}, ScimUser(to)
  PROVE  AccountsIInv'
<1> DEFINE row == [accounts["ben"] EXCEPT !.is = IF to = "created" THEN "user" ELSE @,
                                          !.scim = IF to = "created" THEN "active" ELSE to,
                                          !.disabled = to \in {"inactive", "deleted"}]
           links == [idLinks EXCEPT !.scim = @ /\ to # "deleted"]
<1>1. /\ AccountShape /\ accounts["ben"] \in AccountRow /\ idLinks \in LinkRows
      /\ idSettings \in Mappings
  BY RowsTyped DEF AccountsIInv, AccountShape, People
<1>2. row \in AccountRow
  <2> DEFINE disabled == to \in {"inactive", "deleted"}
  <2>1. disabled \in BOOLEAN
    OBVIOUS
  <2> HIDE DEF disabled
  <2>2. PICK is \in {"absent", "user", "admin"} : is = IF to = "created" THEN "user" ELSE accounts["ben"].is
    BY <1>1 DEF AccountRow
  <2>3. PICK scim \in {"active", "inactive", "deleted"} : scim = IF to = "created" THEN "active" ELSE to
    OBVIOUS
  <2>4. row = [accounts["ben"] EXCEPT !.is = is, !.scim = scim, !.disabled = disabled]
    BY <2>2, <2>3 DEF disabled
  <2> QED BY <1>1, <2>1, <2>4 DEF AccountRow
<1>3. links \in LinkRows BY <1>1 DEF LinkRows
<1>4. accounts["ben"].is # "admin" /\ Opens("scim", {"ben"}, TRUE, row, links, idSettings)
  BY DEF ScimUser, Writable
<1> HIDE DEF row, links
<1> QED BY <1>1, <1>2, <1>3, <1>4, OpensRight DEF People

LEMMA StepScimGroup ==
  ASSUME AccountsIInv, NEW holds \in BOOLEAN, ScimGroup(holds) PROVE AccountsIInv'
<1>1. /\ AccountShape /\ accounts["ben"] \in AccountRow /\ idSettings \in Mappings
      /\ [idLinks EXCEPT !.scim = holds] \in LinkRows
  BY RowsTyped DEF AccountsIInv, AccountShape, People
<1> QED BY <1>1, OpensRight DEF ScimGroup

LEMMA StepLink ==
  ASSUME AccountsIInv, NEW s \in Subjects, NEW u \in People, Link(s, u) PROVE AccountsIInv'
<1> DEFINE new == [user |-> u, group |-> FALSE]
           links == [idLinks EXCEPT ![s] = new]
<1>1. /\ AccountShape /\ accounts["ben"] \in AccountRow /\ idSettings \in Mappings /\ GrantsAsOwed
  BY RowsTyped DEF AccountsIInv, AccountShape, People
<1>2. new \in LinkRow BY DEF LinkRow, People
<1>3. /\ links \in LinkRows /\ links.scim = idLinks.scim
      /\ \A t \in Subjects : links[t] = IF t = s THEN new ELSE idLinks[t]
  BY <1>1, <1>2, RowsTyped
<1>4. idLinks[s].user = "none" /\ Opens("link", {u}, FALSE, accounts["ben"], links, idSettings)
  BY DEF Link
<1> HIDE DEF links
<1>5. GrantsOf(links, idSettings, accounts["ben"].scim) = member.grants
  <2>1. (\E t \in Subjects : links[t].user = "ben" /\ links[t].group)
          <=> (\E t \in Subjects : idLinks[t].user = "ben" /\ idLinks[t].group)
    BY <1>3, <1>4
  <2> QED BY <1>1, <1>3, <2>1 DEF GrantsAsOwed, GrantsOf
<1> QED BY <1>1, <1>3, <1>4, <1>5, OpensRight

LEMMA StepUnlink == ASSUME AccountsIInv, NEW s \in Subjects, Unlink(s) PROVE AccountsIInv'
<1>1. /\ AccountShape /\ accounts["ben"] \in AccountRow /\ idSettings \in Mappings
  BY RowsTyped DEF AccountsIInv, AccountShape, People
<1>2. [idLinks EXCEPT ![s] = Unlinked] \in LinkRows BY <1>1, RowsTyped DEF Unlinked, LinkRow
<1> QED BY <1>1, <1>2, OpensRight DEF Unlink

LEMMA StepMapping ==
  ASSUME AccountsIInv, NEW g \in {"sso", "scim"}, NEW level \in RoleOrNone, ChangeMapping(g, level)
  PROVE  AccountsIInv'
<1> DEFINE mappings == [idSettings EXCEPT ![g] = level]
<1>1. /\ AccountShape /\ accounts["ben"] \in AccountRow /\ GrantsAsOwed /\ mappings \in Mappings
      /\ idLinks \in LinkRows
  BY RowsTyped DEF AccountsIInv, AccountShape, People
<1>2. Opens("settings", {}, LinkedToBen, accounts["ben"], idLinks, mappings) BY DEF ChangeMapping
<1> HIDE DEF mappings
<1>3. ~LinkedToBen => GrantsOf(idLinks, mappings, accounts["ben"].scim) = member.grants
  BY <1>1 DEF GrantsAsOwed, GrantsOf, LinkedToBen
<1>4. LinkedToBen \in BOOLEAN BY DEF LinkedToBen
<1> QED BY <1>1, <1>2, <1>3, <1>4, OpensRight

LEMMA StepProvider == ASSUME AccountsIInv, ChangeProvider PROVE AccountsIInv'
<1>1. /\ idSettings' \in Mappings /\ idSettings'.sso = idSettings.sso /\ idSettings'.scim = idSettings.scim
      /\ UNCHANGED <<accounts, idLinks, member, idTx, handTx, adminTx>>
  BY DEF ChangeProvider, AccountsIInv, AccountShape, Mappings
<1>2. AccountShape' /\ AdminsApart' /\ AdminRemains' /\ MemberTrue(member)'
  BY <1>1 DEF AccountsIInv, AccountShape, AdminsApart, AdminRemains, Administers
<1>3. GrantsAsOwed' BY <1>1 DEF AccountsIInv, GrantsAsOwed, GrantsOf
<1>4. TxHonest' BY <1>1 DEF AccountsIInv, TxHonest, TxShape, TxGrants, TxAdmin, TxMarker
<1> QED BY <1>2, <1>3, <1>4 DEF AccountsIInv

LEMMA StepOpenHand ==
  ASSUME AccountsIInv, NEW level \in RoleOrNone, OpenHand(level) PROVE AccountsIInv'
<1>1. handTx'.role = level /\ UNCHANGED <<accounts, idSettings, idLinks, member, idTx, adminTx>>
  BY DEF OpenHand
<1>2. AccountShape' /\ AdminsApart' /\ AdminRemains' /\ MemberTrue(member)' /\ GrantsAsOwed'
  BY <1>1 DEF AccountsIInv, AccountShape, AdminsApart, AdminRemains, Administers, GrantsAsOwed
<1>3. TxHonest' BY <1>1 DEF AccountsIInv, TxHonest, TxShape, TxGrants, TxAdmin, TxMarker
<1> QED BY <1>2, <1>3 DEF AccountsIInv

\* What is set by hand stands, but for a synchronization that took it for its own.
LEMMA StepCommitHand == ASSUME AccountsIInv, CommitHand PROVE AccountsIInv'
<1> DEFINE hand == IF handTx.role = "none" THEN "removed" ELSE handTx.role
<1>0. PICK raced \in BOOLEAN :
        raced = (idTx # NoTx /\ idTx.read /\ idTx.syncs /\ idTx.managed = handTx.role)
  OBVIOUS
<1>1. /\ member \in MemberRow /\ handTx.role \in RoleOrNone /\ handTx' = NoTx
      /\ UNCHANGED <<accounts, idSettings, idLinks, idTx, adminTx>>
  BY DEF CommitHand, AccountsIInv, AccountShape
<1>2. member' = [member EXCEPT !.role = handTx.role, !.managed = "none", !.hand = hand, !.raced = raced]
  BY <1>0 DEF CommitHand, MarkerGone
<1>3. /\ member' \in MemberRow /\ member'.role = handTx.role /\ member'.managed = "none"
      /\ member'.grants = member.grants /\ member'.hand = hand /\ member'.raced = raced
  BY <1>1, <1>2 DEF MemberRow, RoleOrNone
<1>4. MemberTrue(member') BY <1>1, <1>3 DEF MemberTrue, RoleOrNone, Levels
<1>5. AccountShape' /\ AdminsApart' /\ AdminRemains' /\ GrantsAsOwed'
  BY <1>1, <1>3 DEF AccountsIInv, AccountShape, AdminsApart, AdminRemains, Administers, GrantsAsOwed
<1>6. TxHonest'
  <2>1. idTx # NoTx => TxShape' /\ TxGrants' /\ TxAdmin'
    BY <1>1, <1>3 DEF AccountsIInv, TxHonest, TxShape, TxGrants, TxAdmin
  <2>2. idTx # NoTx => TxMarker' BY <1>0, <1>1, <1>3 DEF TxMarker
  <2> QED BY <1>1, <2>1, <2>2 DEF TxHonest
<1> QED BY <1>4, <1>5, <1>6 DEF AccountsIInv

LEMMA StepCreateUser == ASSUME AccountsIInv, CreateUser PROVE AccountsIInv'
<1>1. /\ accounts \in [People -> AccountRow] /\ accounts["ben"].is = "absent" /\ idTx = NoTx
      /\ UNCHANGED <<idSettings, idLinks, member, idTx, handTx, adminTx>>
  BY DEF CreateUser, AccountsIInv, AccountShape
<1>2. /\ accounts' \in [People -> AccountRow] /\ accounts'["ben"].scim = accounts["ben"].scim
      /\ accounts'["ann"] = accounts["ann"]
  BY <1>1 DEF CreateUser, People, AccountRow
<1>3. \A u \in People : Administers(u) => Administers(u)' BY <1>1, <1>2 DEF Administers, People
<1>4. AccountShape' /\ AdminsApart' /\ AdminRemains' /\ GrantsAsOwed' /\ MemberTrue(member)'
  BY <1>1, <1>2, <1>3 DEF AccountsIInv, AccountShape, AdminsApart, AdminRemains, GrantsAsOwed
<1> QED BY <1>1, <1>4 DEF AccountsIInv, TxHonest

\* The last administrator is looked for under the lock of administrators ...
LEMMA StepOpenAdmin ==
  ASSUME AccountsIInv, NEW u \in People, NEW is \in {"user", "admin"}, NEW disabled \in BOOLEAN,
         OpenAdmin(u, is, disabled)
  PROVE  AccountsIInv'
<1> DEFINE tx == [by |-> "admin", is |-> is, disabled |-> disabled]
<1>1. /\ AdminLockFree /\ adminTx' = [adminTx EXCEPT ![u] = tx]
      /\ idTx # NoTx => u \notin idTx.rows
      /\ is # "admin" \/ disabled => \E v \in People \ {u} : Administers(v)
      /\ UNCHANGED <<accounts, idSettings, idLinks, member, idTx, handTx>>
  BY DEF OpenAdmin
<1>2. AccountShape /\ AccountShape' BY <1>1 DEF AccountsIInv, AccountShape
<1>3. \A v \in People : adminTx'[v] = IF v = u THEN tx ELSE NoTx
  BY <1>1, <1>2 DEF AdminLockFree, AccountShape
<1>4. AdminsApart' BY <1>1, <1>3 DEF AdminsApart, Administers
<1>5. AdminRemains' /\ GrantsAsOwed' /\ MemberTrue(member)'
  BY <1>1 DEF AccountsIInv, AdminRemains, Administers, GrantsAsOwed
<1>6. TxHonest'
  <2>1. idTx # NoTx => TxShape' /\ TxGrants' /\ TxMarker'
    BY <1>1 DEF AccountsIInv, TxHonest, TxShape, TxGrants, TxMarker
  <2>2. idTx # NoTx => TxAdmin' BY <1>1, <1>3 DEF AccountsIInv, TxHonest, TxAdmin, People
  <2> QED BY <1>1, <2>1, <2>2 DEF TxHonest
<1> QED BY <1>2, <1>4, <1>5, <1>6 DEF AccountsIInv

\* ... and is still there when the edit commits.
LEMMA StepCommitAdmin == ASSUME AccountsIInv, NEW u \in People, CommitAdmin(u) PROVE AccountsIInv'
<1>1. /\ adminTx[u] \in [by : {"admin"}, is : {"user", "admin"}, disabled : BOOLEAN]
      /\ accounts \in [People -> AccountRow] /\ AccountShape
      /\ UNCHANGED <<idSettings, idLinks, member, idTx, handTx>>
  BY DEF CommitAdmin, AccountsIInv, AccountShape
<1> DEFINE row == [accounts[u] EXCEPT !.is = adminTx[u].is, !.disabled = adminTx[u].disabled]
<1>2. accounts[u] \in AccountRow BY <1>1
<1>3. row \in AccountRow /\ row.is = adminTx[u].is /\ row.disabled = adminTx[u].disabled
      /\ row.scim = accounts[u].scim
  BY <1>1, <1>2 DEF AccountRow
<1>4. accounts' = [accounts EXCEPT ![u] = row] BY <1>1, <1>2 DEF CommitAdmin, AccountRow
<1> HIDE DEF row
<1>5. /\ accounts' \in [People -> AccountRow]
      /\ \A v \in People : accounts'[v] = IF v = u THEN row ELSE accounts[v]
  BY <1>1, <1>3, <1>4
<1>6. adminTx' = [adminTx EXCEPT ![u] = NoTx] /\ \A v \in People : adminTx'[v] = NoTx
  BY <1>1 DEF CommitAdmin, AccountsIInv, AdminsApart, AccountShape
<1>7. AccountShape' BY <1>1, <1>5, <1>6 DEF AccountShape
<1>8. AdminsApart' BY <1>6 DEF AdminsApart
<1>9. AdminRemains'
  <2>1. CASE row.is = "admin" /\ ~row.disabled BY <1>5, <2>1 DEF AdminRemains, Administers
  <2>2. CASE row.is # "admin" \/ row.disabled
    <3>1. PICK v \in People \ {u} : Administers(v)
      BY <1>3, <2>2 DEF CommitAdmin, AccountsIInv, AdminsApart
    <3> QED BY <1>5, <3>1 DEF AdminRemains, Administers
  <2> QED BY <2>1, <2>2
<1>10. accounts'["ben"].scim = accounts["ben"].scim BY <1>3, <1>5 DEF People
<1>11. GrantsAsOwed' /\ MemberTrue(member)' BY <1>1, <1>10 DEF AccountsIInv, GrantsAsOwed
<1>12. TxHonest'
  <2>1. idTx # NoTx => TxShape' /\ TxGrants' /\ TxMarker'
    BY <1>1, <1>10 DEF AccountsIInv, TxHonest, TxShape, TxGrants, TxMarker
  <2>2. idTx # NoTx => TxAdmin'
    BY <1>1, <1>5, <1>6 DEF AccountsIInv, TxHonest, TxAdmin, People, CommitAdmin
  <2> QED BY <1>1, <2>1, <2>2 DEF TxHonest
<1> QED BY <1>7, <1>8, <1>9, <1>11, <1>12 DEF AccountsIInv

\* The first administrator, and nothing else.
LEMMA AccountsStart == ASSUME IdInit PROVE AccountsIInv
<1>1. AccountShape
  <2>1. PICK kind \in {"absent", "user", "admin"} :
          accounts = [ann |-> [is |-> "admin", disabled |-> FALSE, scim |-> "no"],
                      ben |-> [is |-> kind, disabled |-> FALSE, scim |-> "no"]]
    BY DEF IdInit
  <2>2. accounts \in [People -> AccountRow]
    <3>1. accounts = [u \in People |-> accounts[u]] BY <2>1 DEF People
    <3>2. accounts["ann"] \in AccountRow /\ accounts["ben"] \in AccountRow BY <2>1 DEF AccountRow
    <3> QED BY <3>1, <3>2 DEF People
  <2>3. idLinks \in LinkRows /\ idSettings \in Mappings
    BY DEF IdInit, LinkRows, LinkRow, Unlinked, Mappings, RoleOrNone, Levels
  <2>4. [g \in Grantors |-> "none"] \in Grants BY DEF Grants, Grantors, RoleOrNone
  <2>5. member \in MemberRow BY <2>4 DEF IdInit, MemberRow, RoleOrNone
  <2>6. handTx = NoTx /\ adminTx \in [People -> {NoTx}] BY DEF IdInit
  <2> QED BY <2>2, <2>3, <2>5, <2>6 DEF AccountShape
<1>2. GrantsAsOwed /\ MemberTrue(member)
  BY DEF IdInit, GrantsAsOwed, GrantsOf, Grantors, MemberTrue, Unlinked, Subjects, Levels
<1>3. TxHonest /\ AdminsApart /\ AdminRemains
  BY DEF IdInit, TxHonest, AdminsApart, AdminRemains, Administers, People
<1> QED BY <1>1, <1>2, <1>3 DEF AccountsIInv

\* Sign-ins that change no account.
LEMMA SignInsOnly ==
  ASSUME AccountsIInv, NEW i \in SignIns,
         \/ StartSignIn(i) \/ CreateSession(i) \/ ChangePassword(i)
         \/ \E u \in People : PasswordSignIn(i, u)
  PROVE  AccountsIInv'
  BY RowsStay DEF rowVars, StartSignIn, CreateSession, ChangePassword, PasswordSignIn

\* Every step of the scene.
LEMMA AccountsStep == ASSUME AccountsIInv, IdNext PROVE AccountsIInv'
  BY StepRead, StepCommitIdentity, SignInsOnly, StepProved, StepScimUser, StepScimGroup, StepLink,
     StepUnlink, StepMapping, StepProvider, StepCommitHand, StepCreateUser, StepOpenHand,
     StepOpenAdmin, StepCommitAdmin DEF IdNext, RoleOrNone

----------------
(* API keys: the counter counts what was let through.                         *)

KeyRows    == [secret : Nat, revoked : BOOLEAN, disabled : BOOLEAN, limit : Limits, count : Nat,
               term : Terms, passed : SUBSET Terms]
KeyWindows == [minute : Nat, through : Nat, limit : Limits]
KeyEdits   == [at : {"none"}]
              \cup [at : {"read", "done", "refused"}, edit : {"update", "rotate", "revoke"},
                    limit : Limits, term : Terms]

\* The counter of the row counts what was let through, and the limit is not
\* above the highest that the minute has seen.
KeyIInv ==
  /\ keyRow \in KeyRows /\ keyWindow \in KeyWindows
  /\ keyEdits \in [KeyEditors -> KeyEdits]
  /\ keyWindow.through = keyRow.count
  /\ keyRow.limit <= keyWindow.limit
  /\ keyWindow.through <= keyWindow.limit

\* The numbers of a key.
LEMMA KeyNumbers ==
  ASSUME KeyIInv
  PROVE  /\ keyRow.secret \in Nat /\ keyRow.count \in Nat /\ keyRow.limit \in Limits
         /\ keyRow.term \in Terms /\ keyWindow.minute \in Nat /\ keyWindow.limit \in Limits
         /\ keyRow.secret + 1 \in Nat /\ keyRow.count + 1 \in Nat /\ keyWindow.minute + 1 \in Nat
         /\ \A l \in Limits : l \in Nat
  BY DEF KeyIInv, KeyRows, KeyWindows, Limits

\* What a step says of a revoked key when neither the key nor the count change.
LEMMA KeyStays ==
  ASSUME KeyIInv, keyEdits' \in [KeyEditors -> KeyEdits], UNCHANGED <<keyRow, keyWindow>>
  PROVE  KeyIInv' /\ KeysHold
  BY DEF KeyIInv, KeysHold, RateIsKept, RevokedForGood, KeyRows, KeyWindows, Limits

LEMMA StepCountCall ==
  ASSUME KeyIInv, NEW c \in KeyCalls, CountCall(c) PROVE KeyIInv' /\ KeysHold
<1> DEFINE lets == ~keyRow.revoked /\ ~Expired /\ CountNow(c)
<1>1. CASE lets
  <2>1. PICK more \in Nat : more = keyRow.count + 1 BY KeyNumbers
  <2>2. /\ keyRow' = [keyRow EXCEPT !.count = more]
        /\ keyWindow' = [keyWindow EXCEPT !.through = more] /\ keyEdits' = keyEdits
    BY <1>1, <2>1 DEF CountCall, KeyIInv
  <2>3. /\ keyRow' \in KeyRows /\ keyRow'.count = more /\ keyRow'.limit = keyRow.limit
        /\ keyRow'.revoked = keyRow.revoked
    BY <2>2 DEF KeyIInv, KeyRows
  <2>4. keyWindow' \in KeyWindows /\ keyWindow'.through = more /\ keyWindow'.limit = keyWindow.limit
    BY <2>2 DEF KeyIInv, KeyWindows
  <2>5. more <= keyWindow.limit BY <1>1, <2>1, KeyNumbers DEF KeyIInv, CountNow
  <2> QED BY <1>1, <2>2, <2>3, <2>4, <2>5 DEF KeyIInv, KeysHold, RateIsKept, RevokedForGood
<1>2. CASE ~lets BY <1>2, KeyStays DEF CountCall, KeyIInv
<1> QED BY <1>1, <1>2

LEMMA StepNextMinute == ASSUME KeyIInv, NextMinute PROVE KeyIInv' /\ KeysHold
<1>1. /\ keyRow' = [keyRow EXCEPT !.count = 0] /\ keyEdits' = keyEdits
      /\ keyWindow' = [minute |-> keyWindow.minute + 1, through |-> 0, limit |-> keyRow.limit]
  BY DEF NextMinute
<1>2. /\ keyRow' \in KeyRows /\ keyRow'.count = 0 /\ keyRow'.limit = keyRow.limit
      /\ keyRow'.revoked = keyRow.revoked /\ keyRow'.secret = keyRow.secret
  BY <1>1 DEF KeyIInv, KeyRows
<1>3. keyWindow' \in KeyWindows /\ keyWindow'.through = 0 /\ keyWindow'.limit = keyRow.limit
  BY <1>1, KeyNumbers DEF KeyWindows
<1>4. keyWindow.through \in Nat BY DEF KeyIInv, KeyWindows
<1> QED BY <1>1, <1>2, <1>3, <1>4, KeyNumbers DEF KeyIInv, KeysHold, RateIsKept, RevokedForGood

LEMMA StepReadKey ==
  ASSUME KeyIInv, NEW e \in KeyEditors, NEW edit \in {"update", "rotate", "revoke"},
         NEW limit \in Limits, NEW term \in Terms, ReadKey(e, edit, limit, term)
  PROVE  KeyIInv' /\ KeysHold
<1>1. [at |-> "read", edit |-> edit, limit |-> limit, term |-> term] \in KeyEdits BY DEF KeyEdits
<1> QED BY <1>1, KeyStays DEF ReadKey, KeyIInv

LEMMA StepWriteKey == ASSUME KeyIInv, NEW e \in KeyEditors, WriteKey(e) PROVE KeyIInv' /\ KeysHold
<1> DEFINE edit == keyEdits[e]
<1>1. /\ edit.at = "read" /\ edit \in KeyEdits /\ edit.edit \in {"update", "rotate", "revoke"}
      /\ edit.limit \in Limits /\ edit.term \in Terms
  BY DEF WriteKey, KeyIInv, KeyEdits
<1>2. keyEdits' \in [KeyEditors -> KeyEdits]
  <2>1. PICK end \in {"done", "refused"} : end = IF WritableNow(edit.edit) THEN "done" ELSE "refused"
    OBVIOUS
  <2>2. [edit EXCEPT !.at = end] \in KeyEdits BY <1>1 DEF KeyEdits
  <2> QED BY <2>1, <2>2 DEF WriteKey, KeyIInv
<1> HIDE DEF edit
<1>3. CASE ~WritableNow(edit.edit) BY <1>2, <1>3, KeyStays DEF WriteKey, edit
<1>4. CASE WritableNow(edit.edit) /\ edit.edit = "update"
  <2>1. PICK limit \in Limits : limit = IF edit.limit > keyWindow.limit THEN edit.limit ELSE keyWindow.limit
    BY <1>1, KeyNumbers
  <2>2. /\ keyRow' = [keyRow EXCEPT !.limit = edit.limit, !.term = edit.term]
        /\ keyWindow' = [keyWindow EXCEPT !.limit = limit]
    BY <1>4, <2>1 DEF WriteKey, edit
  <2>3. keyRow' \in KeyRows /\ keyRow'.count = keyRow.count /\ keyRow'.limit = edit.limit
    BY <1>1, <2>2 DEF KeyIInv, KeyRows
  <2>4. keyWindow' \in KeyWindows /\ keyWindow'.limit = limit /\ keyWindow'.through = keyWindow.through
    BY <2>2 DEF KeyIInv, KeyWindows
  <2>5. edit.limit <= limit /\ keyWindow.limit <= limit /\ ~keyRow.revoked
    BY <1>1, <1>4, <2>1, KeyNumbers DEF WritableNow
  <2>6. keyWindow.through \in Nat BY DEF KeyIInv, KeyWindows
  <2> QED BY <1>1, <1>2, <2>1, <2>3, <2>4, <2>5, <2>6, KeyNumbers
          DEF KeyIInv, KeysHold, RateIsKept, RevokedForGood
<1>5. CASE WritableNow(edit.edit) /\ edit.edit = "rotate"
  <2>1. PICK secret \in Nat : secret = keyRow.secret + 1 BY KeyNumbers
  <2>2. /\ keyRow' = [keyRow EXCEPT !.secret = secret, !.count = 0]
        /\ keyWindow' = [keyWindow EXCEPT !.through = 0, !.limit = keyRow.limit]
    BY <1>5, <2>1 DEF WriteKey, edit
  <2>3. keyRow' \in KeyRows /\ keyRow'.count = 0 /\ keyRow'.limit = keyRow.limit
    BY <2>2 DEF KeyIInv, KeyRows
  <2>4. keyWindow' \in KeyWindows /\ keyWindow'.limit = keyRow.limit /\ keyWindow'.through = 0
    BY <2>2, KeyNumbers DEF KeyIInv, KeyWindows
  <2>5. ~keyRow.revoked BY <1>5 DEF WritableNow
  <2> QED BY <1>2, <2>3, <2>4, <2>5, KeyNumbers DEF KeyIInv, KeysHold, RateIsKept, RevokedForGood
<1>6. CASE WritableNow(edit.edit) /\ edit.edit = "revoke"
  <2>1. keyRow' = [keyRow EXCEPT !.revoked = TRUE] /\ keyWindow' = keyWindow
    BY <1>6 DEF WriteKey, edit
  <2>2. /\ keyRow' \in KeyRows /\ keyRow'.count = keyRow.count /\ keyRow'.limit = keyRow.limit
        /\ keyRow'.secret = keyRow.secret /\ keyRow'.revoked
    BY <2>1 DEF KeyIInv, KeyRows
  <2>3. keyWindow.through \in Nat BY DEF KeyIInv, KeyWindows
  <2> QED BY <1>2, <2>1, <2>2, <2>3 DEF KeyIInv, KeysHold, RateIsKept, RevokedForGood
<1> QED BY <1>1, <1>3, <1>4, <1>5, <1>6

\* The expiry and the owner.
LEMMA StepsAroundKey == ASSUME KeyIInv, ExpireKey \/ DisableOwner PROVE KeyIInv' /\ KeysHold
<1>1. /\ keyRow' \in KeyRows /\ keyRow'.count = keyRow.count /\ keyRow'.limit = keyRow.limit
      /\ keyRow'.revoked = keyRow.revoked /\ keyRow'.secret = keyRow.secret
  <2>1. CASE ExpireKey
    <3>1. 1 .. keyRow.term \in SUBSET Terms BY KeyNumbers DEF Terms
    <3> QED BY <2>1, <3>1 DEF ExpireKey, KeyIInv, KeyRows
  <2>2. CASE DisableOwner BY <2>2 DEF DisableOwner, KeyIInv, KeyRows
  <2> QED BY <2>1, <2>2
<1>2. UNCHANGED <<keyEdits, keyWindow>> BY DEF ExpireKey, DisableOwner
<1>3. keyWindow.through \in Nat BY DEF KeyIInv, KeyWindows
<1> QED BY <1>1, <1>2, <1>3 DEF KeyIInv, KeysHold, RateIsKept, RevokedForGood

\* A new key.
LEMMA KeysStart == ASSUME KeyInit PROVE KeyIInv
  BY DEF KeyInit, KeyIInv, KeyRows, KeyWindows, KeyEdits, Limits, Terms

\* Every step of the scene.
LEMMA KeysStep == ASSUME KeyIInv, KeyNext PROVE KeyIInv' /\ KeysHold
<1>1. ASSUME NEW c \in KeyCalls, NEW secret, PresentKey(c, secret) PROVE KeyIInv' /\ KeysHold
  BY <1>1, KeyStays DEF PresentKey, KeyIInv
<1> QED BY <1>1, StepCountCall, StepWriteKey, StepReadKey, StepNextMinute, StepsAroundKey DEF KeyNext

----------------
(* Both scenes.                                                               *)

OpsAccountsInv == /\ scene = "accounts" => AccountsIInv
                  /\ scene = "keys" => KeyIInv
OpsFollows     == scene = "accounts" => FollowsGroups /\ HandStands /\ AdminRemains

\* For any sign-ins and however the transactions of providers, SCIM,
\* administrators and hands interleave: a managed membership has the highest of
\* the roles that groups and mappings grant, what was set by hand stands but for
\* the one race that HandStands names, and somebody can administer the service
\* (identityReconcileMember, updateMember, updateUser); for any requests and
\* editors a key lets no more through in a minute than its limit was, and once
\* revoked stays so (tokenPrincipal, updateKey, rotateKey).
THEOREM AccountsAreKept == OperationsSpec => AccountsHold
<1>1. OperationsInit => OpsAccountsInv
  BY AccountsStart, KeysStart DEF OperationsInit, OpsAccountsInv
<1>2. OpsAccountsInv /\ [OperationsNext]_operationsVars => OpsAccountsInv'
  <2> SUFFICES ASSUME OpsAccountsInv, [OperationsNext]_operationsVars
               PROVE  OpsAccountsInv'
    OBVIOUS
  <2>1. scene' = scene BY DEF OperationsNext, operationsVars
  <2>2. ASSUME scene = "accounts" PROVE AccountsIInv'
    <3>1. AccountsIInv /\ (IdNext \/ UNCHANGED rowVars)
      BY <2>2 DEF OpsAccountsInv, OperationsNext, operationsVars, idVars, rowVars
    <3> QED BY <3>1, AccountsStep, RowsStay
  <2>3. ASSUME scene = "keys" PROVE KeyIInv'
    <3>1. KeyIInv /\ (KeyNext \/ UNCHANGED keyVars)
      BY <2>3 DEF OpsAccountsInv, OperationsNext, operationsVars
    <3>2. CASE UNCHANGED keyVars BY <3>1, <3>2 DEF keyVars, KeyIInv
    <3> QED BY <3>1, <3>2, KeysStep
  <2> QED BY <2>1, <2>2, <2>3 DEF OpsAccountsInv
<1>3. OpsAccountsInv => OpsFollows BY TrueMeans DEF OpsAccountsInv, OpsFollows, AccountsIInv
<1>4. /\ OpsAccountsInv /\ OpsFollows' /\ [OperationsNext]_operationsVars
      => [/\ scene = "accounts" => AccountsFollow
          /\ scene = "keys" => KeysHold]_operationsVars
  <2> SUFFICES ASSUME OpsAccountsInv, OpsFollows', OperationsNext
               PROVE  /\ scene = "accounts" => AccountsFollow
                      /\ scene = "keys" => KeysHold
    OBVIOUS
  <2>1. scene = "accounts" => AccountsFollow BY DEF OpsFollows, AccountsFollow, OperationsNext
  <2>2. scene = "keys" => KeysHold BY KeysStep DEF OpsAccountsInv, OperationsNext
  <2> QED BY <2>1, <2>2
<1>5. OperationsSpec => [](OpsAccountsInv /\ OpsFollows) BY <1>1, <1>2, <1>3, PTL DEF OperationsSpec
<1> QED BY <1>4, <1>5, PTL DEF OperationsSpec, AccountsHold

----------------
(* Runbooks.                                                                  *)

ExecutionRow ==
  [status : Statuses, plan : Plan, required : BOOLEAN, cancel : BOOLEAN,
   ticket : {"none", "pending", "approved", "consumed", "rejected", "cancelled"},
   job : {"none", "queued", "running", "succeeded", "failed", "cancelled"},
   holder : Runners \cup {None}, attempts : Nat]
StepRow     == [state : StepStates, external : Nat]
RemoteRow   == [state : {"none", "running"} \cup ClosedStates, launches : Nat, removed : Nat, done : BOOLEAN]
SourcesRow  == [plan : Plan, approvals : BOOLEAN]
NotedRow    == [queued : [Executions -> Nat], attested : SUBSET Executions, troubles : Nat]

RunShape ==
  /\ sources \in SourcesRow
  /\ execution \in [Executions -> ExecutionRow]
  /\ step \in [Executions -> [Numbers -> StepRow]]
  /\ confirm \in [Confirmations -> Executions \cup {None}]
  /\ at \in [Goroutines -> Goroutine]
  /\ remote \in [Executions -> [Numbers -> RemoteRow]]
  /\ noted \in NotedRow

\* The places at which a goroutine still leads its execution forward.
Forward == {"read", "launch", "call", "persist", "watch", "record"}

AllDone(rem)       == \A n \in Numbers : rem[n].done
DoneBefore(rem, n) == \A m \in 1 .. n - 1 : rem[m].done

\* An execution has a job from its confirmation on, and only then it is open or
\* has ended by its steps.
RowFits(row, queued, rem) ==
  /\ queued = IF row.job = "none" THEN 0 ELSE 1
  /\ row.status \in OpenStates \cup {"succeeded", "failed"} => row.job # "none"
  /\ row.status = "none" => row.job = "none"
  /\ row.required /\ row.job # "none" => row.ticket = "consumed"
  /\ row.status = "succeeded" => AllDone(rem)

\* A runner has one job of a step at a time, and AWX never another.
RemoteFits(job, kind) ==
  /\ job.launches = (IF job.state = "none" THEN 0 ELSE 1) + (IF kind = "awx" THEN 0 ELSE job.removed)
  /\ job.state = "succeeded" => job.done

\* What the row of a step says of its runner.
StepFits(st, rem, n) ==
  /\ RemoteFits(rem[n], Kind[n])
  /\ rem[n].launches # 0 => DoneBefore(rem, n)
  /\ st[n].state = "succeeded" => rem[n].done
  /\ Kind[n] = "awx" /\ st[n].state = "queued" => rem[n].launches = 0

\* What a goroutine at work knows of its execution: the steps before the one it
\* is at are done, and whoever launches on AWX does it for the first time.
PlaceFits(g, row, st, rem) ==
  /\ g.x \in Executions /\ g.n \in 1 .. Last + 1 /\ (g.n = Last + 1 => g.at = "read")
  /\ row.job # "none"
  /\ g.halts => g.at \in {"halt", "stop", "save"} /\ g.result \in {"cancelled", "unknown"}
  /\ g.at = "begin" => g.n = 1
  /\ g.at = "halt" => g.halts
  /\ g.at = "launch" => g.state \in {"queued", "launching"} /\ (g.state = "launching" => Kind[g.n] = "kubernetes")
  /\ g.at = "save" => g.state \in {"cancelled", "unknown"}
  /\ g.at = "record" => g.result \in ClosedStates /\ (g.result = "succeeded" => rem[g.n].done)
  /\ g.at = "finish" => g.result \in ClosedStates \cup {"unknown"} /\ (g.result = "succeeded" => AllDone(rem))
  /\ g.at = "return" => g.result \in {"succeeded", "failed", "retry"}
  /\ g.at \in Forward => DoneBefore(rem, g.n)
  /\ g.at = "call" /\ Kind[g.n] = "awx" => rem[g.n].launches = 0 /\ st[g.n].state # "queued"

CallsAwx(g) == g.at = "call" /\ Kind[g.n] = "awx"

RunRows   == \A x \in Executions : RowFits(execution[x], noted.queued[x], remote[x])
RunSteps  == \A x \in Executions : \A n \in Numbers : StepFits(step[x], remote[x], n)
RunPlaces == \A p \in Goroutines : at[p].at # "idle" =>
               PlaceFits(at[p], execution[at[p].x], step[at[p].x], remote[at[p].x])
\* One goroutine at a time launches a step on AWX.
RunCalls  == \A p, q \in Goroutines :
               p # q /\ CallsAwx(at[p]) /\ CallsAwx(at[q]) => at[p].x # at[q].x \/ at[p].n # at[q].n
\* A confirmation under way holds an execution that has no job, for itself.
RunLocks  == /\ \A r \in Confirmations : confirm[r] # None => execution[confirm[r]].job = "none"
             /\ \A r, s \in Confirmations : r # s /\ confirm[r] # None => confirm[r] # confirm[s]

RunIInv == RunShape /\ RunRows /\ RunSteps /\ RunPlaces /\ RunCalls /\ RunLocks

\* What has succeeded on a runner, or has been taken up, stays so.
RemoteGrows(rem, new) == \A n \in Numbers : rem[n].done => new[n].done
StepsGrow(st, new)    == \A n \in Numbers : st[n].state # "queued" => new[n].state # "queued"

LEMMA DoneStays ==
  ASSUME NEW rem, NEW new, RemoteGrows(rem, new), NEW n \in 1 .. Last + 1
  PROVE  /\ DoneBefore(rem, n) => DoneBefore(new, n)
         /\ AllDone(rem) => AllDone(new)
<1>1. Last \in Nat /\ 1 .. n - 1 \subseteq Numbers BY RunbookAssumption DEF Numbers
<1>2. \A m \in Numbers : rem[m].done => new[m].done BY DEF RemoteGrows
<1> QED BY <1>1, <1>2 DEF DoneBefore, AllDone

\* What a goroutine knows stays true while others work.
LEMMA PlaceStays ==
  ASSUME NEW g, NEW row, NEW row2, NEW st, NEW st2, NEW rem, NEW rem2,
         PlaceFits(g, row, st, rem), row.job # "none" => row2.job # "none",
         StepsGrow(st, st2), RemoteGrows(rem, rem2),
         CallsAwx(g) => rem2[g.n].launches = 0
  PROVE  PlaceFits(g, row2, st2, rem2)
<1>1. /\ g.at \in Forward => DoneBefore(rem2, g.n)
      /\ g.at = "finish" /\ g.result = "succeeded" => AllDone(rem2)
  BY DoneStays DEF PlaceFits
<1>2. Last \in Nat /\ (g.n # Last + 1 => g.n \in Numbers)
  BY RunbookAssumption DEF PlaceFits, Numbers
<1>3. g.at = "record" => g.result \in ClosedStates /\ (g.result = "succeeded" => rem2[g.n].done)
  BY <1>2 DEF PlaceFits, RemoteGrows
<1>4. g.at = "call" /\ Kind[g.n] = "awx" => rem2[g.n].launches = 0 /\ st2[g.n].state # "queued"
  BY <1>2 DEF PlaceFits, StepsGrow, CallsAwx
<1> QED BY <1>1, <1>3, <1>4 DEF PlaceFits

StepsKept ==
  /\ step' \in [Executions -> [Numbers -> StepRow]]
  /\ remote' \in [Executions -> [Numbers -> RemoteRow]]
  /\ \A y \in Executions :
       /\ StepsGrow(step[y], step'[y]) /\ RemoteGrows(remote[y], remote'[y])
       /\ \A n \in Numbers : StepFits(step'[y], remote'[y], n)

LaunchesAlone(p, g) ==
  CallsAwx(g) => \A q \in Goroutines \ {p} : CallsAwx(at[q]) => at[q].x # g.x \/ at[q].n # g.n

Undisturbed(p) ==
  \A q \in Goroutines \ {p} : CallsAwx(at[q]) => remote'[at[q].x][at[q].n].launches = 0

RowKept(x, row) ==
  /\ row \in ExecutionRow
  /\ RowFits(row, noted.queued[x], remote'[x])
  /\ row.job = "none" <=> execution[x].job = "none"

PlaceKept(g) == g.at # "idle" => PlaceFits(g, execution'[g.x], step'[g.x], remote'[g.x])

\* A goroutine moves and writes a row: what the others rely on is not disturbed.
LEMMA MoveKeeps ==
  ASSUME RunIInv, NEW p \in Goroutines, NEW g \in Goroutine, NEW x \in Executions, NEW row,
         at' = [at EXCEPT ![p] = g], execution' = [execution EXCEPT ![x] = row],
         confirm' = confirm, sources' \in SourcesRow, noted' \in NotedRow, noted'.queued = noted.queued,
         RowKept(x, row), StepsKept, PlaceKept(g), LaunchesAlone(p, g), Undisturbed(p)
  PROVE  RunIInv'
<1> USE DEF RunIInv
<1>1. /\ execution' \in [Executions -> ExecutionRow] /\ execution'[x] = row
      /\ \A y \in Executions \ {x} : execution'[y] = execution[y]
  BY DEF RowKept, RunShape
<1>2. at' \in [Goroutines -> Goroutine] /\ at'[p] = g /\ \A q \in Goroutines \ {p} : at'[q] = at[q]
  BY DEF RunShape
<1>3. RunShape' BY <1>1, <1>2 DEF RunShape, StepsKept
<1>4. RunRows'
  <2> SUFFICES ASSUME NEW y \in Executions PROVE RowFits(execution'[y], noted'.queued[y], remote'[y])
    BY DEF RunRows
  <2>1. CASE y = x BY <1>1, <2>1 DEF RowKept
  <2>2. CASE y # x
    <3>1. RowFits(execution[y], noted.queued[y], remote[y]) /\ execution'[y] = execution[y]
      BY <1>1, <2>2 DEF RunRows
    <3>2. AllDone(remote[y]) => AllDone(remote'[y])
      <4>1. RemoteGrows(remote[y], remote'[y]) BY DEF StepsKept
      <4>2. 1 \in 1 .. Last + 1 BY RunbookAssumption
      <4> QED BY <4>1, <4>2, DoneStays
    <3> QED BY <3>1, <3>2 DEF RowFits
  <2> QED BY <2>1, <2>2
<1>5. RunSteps' BY DEF StepsKept, RunSteps
<1>6. RunPlaces'
  <2> SUFFICES ASSUME NEW q \in Goroutines, at'[q].at # "idle"
               PROVE  PlaceFits(at'[q], execution'[at'[q].x], step'[at'[q].x], remote'[at'[q].x])
    BY DEF RunPlaces
  <2>1. CASE q = p BY <1>2, <2>1 DEF PlaceKept
  <2>2. CASE q # p
    <3> DEFINE y == at[q].x
    <3>1. at'[q] = at[q] /\ PlaceFits(at[q], execution[y], step[y], remote[y]) /\ y \in Executions
      BY <1>2, <2>2 DEF RunPlaces, PlaceFits
    <3>2. execution[y].job # "none" => execution'[y].job # "none" BY <1>1, <3>1 DEF RowKept
    <3>3. StepsGrow(step[y], step'[y]) /\ RemoteGrows(remote[y], remote'[y]) BY <3>1 DEF StepsKept
    <3>4. CallsAwx(at[q]) => remote'[y][at[q].n].launches = 0 BY <2>2 DEF Undisturbed
    <3>5. PlaceFits(at[q], execution'[y], step'[y], remote'[y])
      BY <3>1, <3>2, <3>3, <3>4, PlaceStays
    <3> QED BY <3>1, <3>5
  <2> QED BY <2>1, <2>2
<1>7. RunCalls' BY <1>2 DEF RunCalls, LaunchesAlone
<1>8. RunLocks'
  <2>1. \A r \in Confirmations : confirm[r] # None => execution'[confirm[r]].job = "none"
    BY <1>1 DEF RunLocks, RowKept, RunShape
  <2> QED BY <2>1 DEF RunLocks
<1> QED BY <1>3, <1>4, <1>5, <1>6, <1>7, <1>8
\* What a goroutine at work knows.
LEMMA WorksOn ==
  ASSUME RunIInv, NEW p \in Goroutines, at[p].at # "idle"
  PROVE  /\ at[p].x \in Executions
         /\ PlaceFits(at[p], execution[at[p].x], step[at[p].x], remote[at[p].x])
  BY DEF RunIInv, RunPlaces, PlaceFits

\* The steps and the runners are left alone.
LEMMA StepsSame ==
  ASSUME RunIInv, UNCHANGED <<step, remote>>, NEW p \in Goroutines
  PROVE  StepsKept /\ Undisturbed(p)
<1>1. step' = step /\ remote' = remote
  OBVIOUS
<1>2. Undisturbed(p)
  <2> SUFFICES ASSUME NEW q \in Goroutines, CallsAwx(at[q]) PROVE remote[at[q].x][at[q].n].launches = 0
    BY <1>1 DEF Undisturbed
  <2> QED BY WorksOn DEF PlaceFits, CallsAwx
<1>3. StepsKept BY <1>1 DEF RunIInv, RunShape, StepsKept, StepsGrow, RemoteGrows, RunSteps
<1> QED BY <1>2, <1>3

\* The row of a step is written.
LEMMA StepWritten ==
  ASSUME RunIInv, remote' = remote, NEW p \in Goroutines, NEW x \in Executions, NEW n \in Numbers,
         NEW row \in StepRow, step' = [step EXCEPT ![x][n] = row], row.state # "queued",
         row.state = "succeeded" => remote[x][n].done
  PROVE  StepsKept /\ Undisturbed(p)
<1>1. Undisturbed(p)
  <2> SUFFICES ASSUME NEW q \in Goroutines, CallsAwx(at[q]) PROVE remote[at[q].x][at[q].n].launches = 0
    BY DEF Undisturbed
  <2> QED BY WorksOn DEF PlaceFits, CallsAwx
<1>2. /\ step' \in [Executions -> [Numbers -> StepRow]] /\ step'[x][n] = row
      /\ \A y \in Executions : \A m \in Numbers : y # x \/ m # n => step'[y][m] = step[y][m]
  BY DEF RunIInv, RunShape
<1>3. ASSUME NEW y \in Executions, NEW m \in Numbers
      PROVE  StepFits(step'[y], remote[y], m) /\ (step[y][m].state # "queued" => step'[y][m].state # "queued")
  <2>1. StepFits(step[y], remote[y], m) BY DEF RunIInv, RunSteps
  <2>2. CASE y = x /\ m = n BY <2>1, <2>2, <1>2 DEF StepFits
  <2>3. CASE y # x \/ m # n BY <2>1, <2>3, <1>2 DEF StepFits
  <2> QED BY <2>2, <2>3
<1>4. StepsKept BY <1>2, <1>3 DEF RunIInv, RunShape, StepsKept, StepsGrow, RemoteGrows
<1> QED BY <1>1, <1>4

\* The row of an execution is left alone.
LEMMA RowSame ==
  ASSUME RunIInv, remote' = remote, NEW x \in Executions
  PROVE  RowKept(x, execution[x])
  BY DEF RunIInv, RunShape, RunRows, RowKept

\* A goroutine moves and no row of an execution is written.
LEMMA WalkKeeps ==
  ASSUME RunIInv, NEW p \in Goroutines, at[p].at # "idle", NEW g \in Goroutine,
         at' = [at EXCEPT ![p] = g], UNCHANGED <<sources, execution, confirm, remote>>,
         noted' \in NotedRow, noted'.queued = noted.queued,
         StepsKept, PlaceKept(g), LaunchesAlone(p, g), Undisturbed(p)
  PROVE  RunIInv'
<1>1. PICK x \in Executions : x = at[p].x BY WorksOn
<1>2. execution' = [execution EXCEPT ![x] = execution[x]] BY DEF RunIInv, RunShape
<1>3. RowKept(x, execution[x]) /\ sources' \in SourcesRow /\ confirm' = confirm
  BY RowSame DEF RunIInv, RunShape
<1> QED BY <1>2, <1>3, MoveKeeps

\* Nobody moves.
LEMMA StayKeeps ==
  ASSUME RunIInv, at' = at, NEW x \in Executions, NEW row, execution' = [execution EXCEPT ![x] = row],
         confirm' = confirm, sources' \in SourcesRow, noted' \in NotedRow, noted'.queued = noted.queued,
         RowKept(x, row), StepsKept,
         \A p \in Goroutines : CallsAwx(at[p]) => remote'[at[p].x][at[p].n].launches = 0
  PROVE  RunIInv'
<1> DEFINE p == Reconciler  g == at[p]
<1>1. p \in Goroutines /\ g \in Goroutine /\ at' = [at EXCEPT ![p] = g]
  BY DEF Goroutines, RunIInv, RunShape
<1>2. LaunchesAlone(p, g) /\ Undisturbed(p)
  BY <1>1 DEF RunIInv, RunCalls, LaunchesAlone, Undisturbed
<1>3. PlaceKept(g)
  <2> SUFFICES ASSUME g.at # "idle"
               PROVE  PlaceFits(g, execution'[g.x], step'[g.x], remote'[g.x])
    BY DEF PlaceKept
  <2>1. PlaceFits(g, execution[g.x], step[g.x], remote[g.x]) /\ g.x \in Executions BY <1>1, WorksOn
  <2>2. execution[g.x].job # "none" => execution'[g.x].job # "none"
    BY <2>1 DEF RowKept, RunIInv, RunShape
  <2>3. StepsGrow(step[g.x], step'[g.x]) /\ RemoteGrows(remote[g.x], remote'[g.x])
    BY <2>1 DEF StepsKept
  <2>4. CallsAwx(g) => remote'[g.x][g.n].launches = 0 BY <1>1
  <2> HIDE DEF g
  <2> QED BY <2>1, <2>2, <2>3, <2>4, PlaceStays
<1> HIDE DEF p, g
<1> QED BY <1>1, <1>2, <1>3, MoveKeeps
----------------
(* People, the clock and the queue.                                           *)

\* What a plan is built from changes.
LEMMA StepAroundRun ==
  ASSUME RunIInv, NEW plan \in Plan, NEW approvals \in BOOLEAN, ChangeSources(plan, approvals)
  PROVE  RunIInv'
<1>0. sources' \in SourcesRow BY DEF ChangeSources, SourcesRow
<1>1. sources' \in SourcesRow /\ noted' \in NotedRow /\ noted'.queued = noted.queued
  <2>1. noted \in NotedRow /\ noted' = [noted EXCEPT !.troubles = @ + 1]
    BY DEF RunIInv, RunShape, ChangeSources, Trouble
  <2> QED BY ONLY <1>0, <2>1 DEF NotedRow
<1>2. UNCHANGED <<execution, step, confirm, at, remote>> BY DEF ChangeSources
<1>3. RunShape' /\ RunRows' /\ RunSteps' BY <1>1, <1>2 DEF RunIInv, RunShape, RunRows, RunSteps
<1>4. RunPlaces' /\ RunCalls' /\ RunLocks' BY <1>2 DEF RunIInv, RunPlaces, RunCalls, RunLocks
<1> QED BY <1>3, <1>4 DEF RunIInv

LEMMA SourcesTyped ==
  ASSUME RunIInv
  PROVE  /\ sources.plan \in Plan /\ Revised \in Plan /\ sources.approvals \in BOOLEAN
         /\ [sources.plan EXCEPT !.allowed = ~@] \in Plan
<1>1. sources \in SourcesRow BY DEF RunIInv, RunShape
<1>2. sources.plan \in Plan /\ sources.approvals \in BOOLEAN BY <1>1 DEF SourcesRow
<1>3. PICK allowed \in BOOLEAN : allowed = ~sources.plan.allowed
  OBVIOUS
<1>4. [sources.plan EXCEPT !.allowed = allowed] \in Plan BY <1>2 DEF Plan
<1> QED BY <1>2, <1>3, <1>4 DEF Plan, Revised

\* Nobody moves and only the row of an execution is written.
LEMMA RowKeeps ==
  ASSUME RunIInv, NEW x \in Executions, NEW row, execution' = [execution EXCEPT ![x] = row],
         UNCHANGED <<sources, step, confirm, at, remote>>, RowKept(x, row),
         noted' \in NotedRow, noted'.queued = noted.queued
  PROVE  RunIInv'
<1>1. StepsKept BY StepsSame DEF Goroutines
<1>2. \A p \in Goroutines : CallsAwx(at[p]) => remote'[at[p].x][at[p].n].launches = 0
  BY WorksOn DEF CallsAwx, PlaceFits
<1>3. sources' \in SourcesRow /\ confirm' = confirm /\ at' = at BY DEF RunIInv, RunShape
<1> QED BY <1>1, <1>2, <1>3, StayKeeps

LEMMA RowIs ==
  ASSUME RunIInv, NEW x \in Executions
  PROVE  /\ execution[x] \in ExecutionRow /\ RowFits(execution[x], noted.queued[x], remote[x])
         /\ noted \in NotedRow
  BY DEF RunIInv, RunShape, RunRows

\* prepareRunbook.
LEMMA StepPrepare == ASSUME RunIInv, NEW x \in Executions, PrepareRunbook(x) PROVE RunIInv'
<1>1. PICK row : row = [execution[x] EXCEPT !.status = "prepared", !.plan = sources.plan, !.required = sources.approvals]
  OBVIOUS
<1>0. execution[x].job = "none" /\ execution[x] \in ExecutionRow
  BY RowIs DEF RowFits, PrepareRunbook
<1>2. row \in ExecutionRow /\ row.status = "prepared" /\ row.job = "none" /\ execution[x].job = "none"
  BY <1>0, <1>1, SourcesTyped DEF ExecutionRow, Statuses
<1>3. remote' = remote BY DEF PrepareRunbook
<1>4. RowKept(x, row) BY <1>2, <1>3, RowIs DEF RowFits, RowKept, OpenStates
<1> QED BY <1>1, <1>4, RowIs, RowKeeps DEF PrepareRunbook

\* submitRunbookApproval.
LEMMA StepSubmit == ASSUME RunIInv, NEW x \in Executions, SubmitApproval(x) PROVE RunIInv'
<1>1. PICK row : row = [execution[x] EXCEPT !.status = "review", !.ticket = "pending"]
  OBVIOUS
<1>2. row \in ExecutionRow /\ row.status = "review" /\ row.job = "none" /\ execution[x].job = "none"
  BY <1>1, RowIs DEF ExecutionRow, Statuses, SubmitApproval
<1>3. remote' = remote BY DEF SubmitApproval
<1>4. RowKept(x, row) BY <1>2, <1>3, RowIs DEF RowFits, RowKept, OpenStates
<1> QED BY <1>1, <1>4, RowIs, RowKeeps DEF SubmitApproval

\* A decision: who has a job has spent the approval, and none is pending.
LEMMA StepDecideRun ==
  ASSUME RunIInv, NEW x \in Executions, NEW outcome \in {"approved", "rejected", "cancelled"},
         DecideApproval(x, outcome)
  PROVE  RunIInv'
<1> DEFINE old == execution[x]
<1>1. PICK row : row = [old EXCEPT !.ticket = outcome,
                                   !.status = IF @ = "review" /\ old.job = "none" THEN outcome ELSE @]
  OBVIOUS
<1>2. old \in ExecutionRow /\ RowFits(old, noted.queued[x], remote[x]) /\ old.ticket = "pending"
  BY RowIs DEF DecideApproval
<1>3. /\ row \in ExecutionRow /\ row.job = old.job /\ row.required = old.required
      /\ row.status = old.status \/ (row.job = "none" /\ row.status \in {"approved", "rejected", "cancelled"})
  <2>1. PICK status : status = IF old.status = "review" /\ old.job = "none" THEN outcome ELSE old.status
    OBVIOUS
  <2>2. row = [old EXCEPT !.ticket = outcome, !.status = status] BY <1>1, <2>1
  <2>3. status \in Statuses BY <1>2, <2>1 DEF ExecutionRow, Statuses, ClosedStates
  <2> HIDE DEF old
  <2> QED BY ONLY <1>2, <2>1, <2>2, <2>3, outcome \in {"approved", "rejected", "cancelled"} DEF ExecutionRow
<1>4. remote' = remote BY DEF DecideApproval
<1>5. RowKept(x, row) BY <1>2, <1>3, <1>4 DEF RowFits, RowKept, OpenStates
<1> QED BY <1>1, <1>5, RowIs, RowKeeps DEF DecideApproval

\* cancelRunbookExecution.
LEMMA StepCancelRun == ASSUME RunIInv, NEW x \in Executions, CancelExecution(x) PROVE RunIInv'
<1>1. PICK row : row = [execution[x] EXCEPT !.cancel = TRUE]
  OBVIOUS
<1>2. /\ row \in ExecutionRow /\ row.status = execution[x].status /\ row.job = execution[x].job
      /\ row.required = execution[x].required /\ row.ticket = execution[x].ticket
  BY <1>1, RowIs DEF ExecutionRow
<1>3. remote' = remote BY DEF CancelExecution
<1>4. RowKept(x, row) BY <1>2, <1>3, RowIs DEF RowFits, RowKept
<1> QED BY <1>1, <1>4, RowIs, RowKeeps DEF CancelExecution

\* resolveRunbookExecution: the steps that are open are closed.
LEMMA StepResolve == ASSUME RunIInv, NEW x \in Executions, ResolveUncertain(x) PROVE RunIInv'
<1>1. PICK row : row = [execution[x] EXCEPT !.status = "cancelled", !.cancel = TRUE]
  OBVIOUS
<1>2. /\ row \in ExecutionRow /\ row.status = "cancelled" /\ row.job = execution[x].job
      /\ row.required = execution[x].required /\ row.ticket = execution[x].ticket
      /\ execution[x].status = "unknown"
  <2>1. execution[x] \in ExecutionRow /\ "cancelled" \in Statuses
    BY RowIs DEF Statuses, ClosedStates
  <2>2. execution[x].status = "unknown" BY DEF ResolveUncertain
  <2> QED BY ONLY <1>1, <2>1, <2>2 DEF ExecutionRow
<1>3. remote' = remote /\ at' = at /\ confirm' = confirm /\ sources' \in SourcesRow
  BY DEF ResolveUncertain, RunIInv, RunShape
<1>4. RowKept(x, row) BY <1>2, <1>3, RowIs DEF RowFits, RowKept, OpenStates
<1>5. noted' \in NotedRow /\ noted'.queued = noted.queued BY RowIs DEF NotedRow, ResolveUncertain
<1>6. \A p \in Goroutines : CallsAwx(at[p]) => remote'[at[p].x][at[p].n].launches = 0
  BY <1>3, WorksOn DEF CallsAwx, PlaceFits
<1>7. StepsKept
  <2>1. /\ step \in [Executions -> [Numbers -> StepRow]] /\ remote \in [Executions -> [Numbers -> RemoteRow]]
        /\ \A y \in Executions : \A n \in Numbers : StepFits(step[y], remote[y], n)
    BY DEF RunIInv, RunShape, RunSteps
  <2> DEFINE new == [n \in Numbers |-> IF step[x][n].state \in ClosedStates THEN step[x][n]
                                      ELSE [step[x][n] EXCEPT !.state = "cancelled"]]
  <2>0. ASSUME NEW n \in Numbers PROVE new[n] \in StepRow /\ new[n].state \in {step[x][n].state, "cancelled"}
    <3>1. step[x][n] \in StepRow /\ "cancelled" \in StepStates BY <2>1 DEF StepStates, ClosedStates
    <3>2. PICK closed : closed = [step[x][n] EXCEPT !.state = "cancelled"]
      OBVIOUS
    <3>3. closed \in StepRow /\ closed.state = "cancelled" BY <3>1, <3>2 DEF StepRow
    <3>4. new[n] = IF step[x][n].state \in ClosedStates THEN step[x][n] ELSE closed BY <3>2
    <3> HIDE DEF new
    <3> QED BY <3>1, <3>3, <3>4
  <2>9. step' = [step EXCEPT ![x] = new] /\ new \in [Numbers -> StepRow]
    BY <2>0 DEF ResolveUncertain
  <2>2. /\ \A y \in Executions \ {x} : step'[y] = step[y]
        /\ \A n \in Numbers : step'[x][n] = new[n]
        /\ step' \in [Executions -> [Numbers -> StepRow]]
    <3> HIDE DEF new
    <3> QED BY <2>9, <2>1
  <2>3. \A n \in Numbers : step'[x][n].state = step[x][n].state \/ step'[x][n].state = "cancelled"
    BY <2>0, <2>2
  <2>4. ASSUME NEW y \in Executions, NEW n \in Numbers PROVE StepFits(step'[y], remote'[y], n)
    <3>1. remote'[y] = remote[y] /\ StepFits(step[y], remote[y], n) BY <2>1, <1>3
    <3>2. step'[y][n].state \in {step[y][n].state, "cancelled"} BY ONLY <2>2, <2>3
    <3> QED BY ONLY <3>1, <3>2 DEF StepFits
  <2>5. \A y \in Executions : StepsGrow(step[y], step'[y]) /\ RemoteGrows(remote[y], remote'[y])
    BY <2>2, <2>3, <1>3 DEF StepsGrow, RemoteGrows
  <2> QED BY <2>1, <2>2, <2>4, <2>5, <1>3 DEF StepsKept
<1> QED BY <1>1, <1>3, <1>4, <1>5, <1>6, <1>7, StayKeeps DEF ResolveUncertain
\* Only a confirmation changes, or an execution that one of them holds.
LEMMA NobodyMoves ==
  ASSUME RunIInv, UNCHANGED <<step, remote, at>>,
         \A x \in Executions : execution[x].job # "none" => execution'[x].job # "none"
  PROVE  RunSteps' /\ RunPlaces' /\ RunCalls'
<1>1. step' = step /\ remote' = remote /\ at' = at
  OBVIOUS
<1>2. RunSteps' /\ RunCalls' BY <1>1 DEF RunIInv, RunSteps, RunCalls
<1>3. RunPlaces'
  <2> SUFFICES ASSUME NEW q \in Goroutines, at[q].at # "idle"
               PROVE  PlaceFits(at[q], execution'[at[q].x], step[at[q].x], remote[at[q].x])
    BY <1>1 DEF RunPlaces
  <2>1. at[q].x \in Executions /\ PlaceFits(at[q], execution[at[q].x], step[at[q].x], remote[at[q].x])
    BY WorksOn
  <2> QED BY <2>1 DEF PlaceFits
<1> QED BY <1>2, <1>3

\* A confirmation locks an execution that has no job.
LEMMA StepBeginConfirm ==
  ASSUME RunIInv, NEW r \in Confirmations, NEW x \in Executions, BeginConfirm(r, x)
  PROVE  RunIInv'
<1>1. /\ confirm' = [confirm EXCEPT ![r] = x] /\ Unlocked(x) /\ execution[x].job = "none"
      /\ UNCHANGED <<sources, execution, step, at, remote, noted>>
  BY DEF BeginConfirm, LocksRow
<1>2. RunSteps' /\ RunPlaces' /\ RunCalls' BY <1>1, NobodyMoves
<1>3. RunShape' /\ RunRows' BY <1>1 DEF RunIInv, RunShape, RunRows
<1>4. RunLocks' BY <1>1 DEF RunIInv, RunShape, RunLocks, Unlocked
<1> QED BY <1>2, <1>3, <1>4 DEF RunIInv

LEMMA StepRollback == ASSUME RunIInv, NEW r \in Confirmations, RollbackConfirm(r) PROVE RunIInv'
<1>1. /\ confirm' = [confirm EXCEPT ![r] = None]
      /\ UNCHANGED <<sources, execution, step, at, remote, noted>>
  BY DEF RollbackConfirm
<1>2. RunSteps' /\ RunPlaces' /\ RunCalls' BY <1>1, NobodyMoves
<1>3. RunShape' /\ RunRows' BY <1>1 DEF RunIInv, RunShape, RunRows
<1>4. RunLocks' BY <1>1 DEF RunIInv, RunShape, RunLocks
<1> QED BY <1>2, <1>3, <1>4 DEF RunIInv

\* The commit spends the approval and queues the job of an execution that had
\* none; no other confirmation holds it.
LEMMA StepCommitConfirm == ASSUME RunIInv, NEW r \in Confirmations, CommitConfirm(r) PROVE RunIInv'
<1>1. PICK x \in Executions : x = confirm[r] BY DEF RunIInv, RunShape, CommitConfirm
<1>2. PICK row : row = [execution[x] EXCEPT !.status = "queued", !.job = "queued", !.ticket = SpendTicket(x)]
  OBVIOUS
<1>3. /\ execution' = [execution EXCEPT ![x] = row] /\ confirm' = [confirm EXCEPT ![r] = None]
      /\ noted' = [noted EXCEPT !.queued[x] = @ + 1] /\ UNCHANGED <<sources, step, at, remote>>
  BY <1>1, <1>2 DEF CommitConfirm
<1>4. execution[x] \in ExecutionRow /\ execution[x].job = "none" /\ noted.queued[x] = 0 /\ x # None
  BY <1>1, RowIs, RunbookAssumption DEF RunIInv, RunLocks, RowFits
<1>5. SpendTicket(x) \in {"none", "pending", "approved", "consumed", "rejected", "cancelled"}
  BY <1>4 DEF SpendTicket, ExecutionRow
<1>6. /\ row \in ExecutionRow /\ row.status = "queued" /\ row.job = "queued"
      /\ row.required => row.ticket = "consumed"
  BY <1>2, <1>4, <1>5 DEF ExecutionRow, Statuses, OpenStates, SpendTicket
<1>7. /\ execution' \in [Executions -> ExecutionRow] /\ execution'[x] = row
      /\ \A y \in Executions \ {x} : execution'[y] = execution[y]
  BY <1>3, <1>6 DEF RunIInv, RunShape
<1>8. /\ noted' \in NotedRow /\ noted'.queued[x] = 1
      /\ \A y \in Executions \ {x} : noted'.queued[y] = noted.queued[y]
  <2>1. noted \in NotedRow BY RowIs
  <2> QED BY <1>3, <1>4, <2>1 DEF NotedRow
<1>9. RunSteps' /\ RunPlaces' /\ RunCalls' BY <1>3, <1>6, <1>7, NobodyMoves
<1>10. RunShape' BY <1>3, <1>7, <1>8 DEF RunIInv, RunShape
<1>11. RunRows'
  <2> SUFFICES ASSUME NEW y \in Executions PROVE RowFits(execution'[y], noted'.queued[y], remote[y])
    BY <1>3 DEF RunRows
  <2>1. CASE y = x BY <1>6, <1>7, <1>8, <2>1 DEF RowFits
  <2>2. CASE y # x BY <1>7, <1>8, <2>2, RowIs
  <2> QED BY <2>1, <2>2
<1>12. RunLocks' BY <1>1, <1>3, <1>4, <1>7 DEF RunIInv, RunShape, RunLocks
<1> QED BY <1>9, <1>10, <1>11, <1>12 DEF RunIInv

LEMMA IdleTyped ==
  /\ Idle \in Goroutine /\ Idle.at = "idle" /\ Idle.n = 1 /\ Idle.halts = FALSE /\ Idle.state = "queued"
  /\ Idle.result = "none"
  BY DEF Idle, Goroutine, StepStates, OpenStates, Statuses

\* The job is claimed, or cancelled instead.
LEMMA StepClaimRun ==
  ASSUME RunIInv, NEW p \in Runners, NEW x \in Executions, ClaimRun(p, x)
  PROVE  RunIInv'
<1>1. /\ execution[x] \in ExecutionRow /\ RowFits(execution[x], noted.queued[x], remote[x])
      /\ execution[x].job = "queued" /\ p \in Goroutines
  BY RowIs DEF ClaimRun, Goroutines
<1>2. CASE execution[x].cancel
  <2>1. PICK row : row = [execution[x] EXCEPT !.job = "cancelled"]
    OBVIOUS
  <2>2. /\ row \in ExecutionRow /\ row.status = execution[x].status /\ row.job = "cancelled"
        /\ row.required = execution[x].required /\ row.ticket = execution[x].ticket
    BY <1>1, <2>1 DEF ExecutionRow
  <2>3. /\ execution' = [execution EXCEPT ![x] = row]
        /\ UNCHANGED <<sources, step, confirm, at, remote, noted>>
    BY <1>2, <2>1 DEF ClaimRun
  <2>4. RowKept(x, row) BY <1>1, <2>2, <2>3 DEF RowFits, RowKept
  <2> QED BY <2>3, <2>4, RowKeeps, RowIs
<1>3. CASE ~execution[x].cancel
  <2>0. PICK attempts \in Nat : attempts = execution[x].attempts + 1 BY <1>1 DEF ExecutionRow
  <2>1. PICK row : row = [execution[x] EXCEPT !.job = "running", !.holder = p, !.attempts = attempts]
    OBVIOUS
  <2>2. /\ row \in ExecutionRow /\ row.status = execution[x].status /\ row.job = "running"
        /\ row.required = execution[x].required /\ row.ticket = execution[x].ticket
    BY <1>1, <2>0, <2>1 DEF ExecutionRow
  <2>3. PICK g : g = [Idle EXCEPT !.at = "begin", !.x = x]
    OBVIOUS
  <2>4. /\ g \in Goroutine /\ g.at = "begin" /\ g.x = x /\ g.n = 1 /\ ~g.halts
    BY <2>3, IdleTyped DEF Goroutine
  <2>5. /\ execution' = [execution EXCEPT ![x] = row] /\ at' = [at EXCEPT ![p] = g]
        /\ UNCHANGED <<sources, step, confirm, remote, noted>>
    BY <1>3, <2>0, <2>1, <2>3 DEF ClaimRun, Goes
  <2>6. RowKept(x, row) /\ StepsKept /\ Undisturbed(p) /\ LaunchesAlone(p, g)
    BY <1>1, <2>2, <2>4, <2>5, StepsSame DEF RowFits, RowKept, LaunchesAlone, CallsAwx
  <2>7. PlaceKept(g)
    <3>1. execution'[x] = row /\ 1 \in 1 .. Last + 1 /\ Last + 1 # 1
      BY <2>5, RunbookAssumption DEF RunIInv, RunShape
    <3> QED BY <3>1, <2>2, <2>4 DEF PlaceKept, PlaceFits, Forward
  <2>8. sources' \in SourcesRow /\ confirm' = confirm /\ noted' \in NotedRow /\ noted'.queued = noted.queued
    BY <2>5, RowIs DEF RunIInv, RunShape
  <2> QED BY <1>1, <2>4, <2>5, <2>6, <2>7, <2>8, MoveKeeps
<1> QED BY <1>2, <1>3

\* What the runners say of an execution that is left alone only grows.
LEMMA RowSameGrown ==
  ASSUME RunIInv, StepsKept, NEW x \in Executions
  PROVE  RowKept(x, execution[x])
<1>1. execution[x] \in ExecutionRow /\ RowFits(execution[x], noted.queued[x], remote[x]) BY RowIs
<1>2. AllDone(remote[x]) => AllDone(remote'[x])
  <2>1. RemoteGrows(remote[x], remote'[x]) /\ 1 \in 1 .. Last + 1 BY RunbookAssumption DEF StepsKept
  <2> QED BY <2>1, DoneStays
<1> QED BY <1>1, <1>2 DEF RowFits, RowKept

LEMMA NotesTyped ==
  ASSUME RunIInv, UNCHANGED noted \/ Trouble
  PROVE  noted' \in NotedRow /\ noted'.queued = noted.queued
<1>1. noted \in NotedRow BY DEF RunIInv, RunShape
<1>2. CASE UNCHANGED noted BY <1>1, <1>2
<1>3. CASE Trouble
  <2>1. noted' = [noted EXCEPT !.troubles = @ + 1] BY <1>3 DEF Trouble
  <2> QED BY ONLY <1>1, <2>1 DEF NotedRow
<1> QED BY <1>2, <1>3

\* The lease of a running job is lost, or its process.
LEMMA StepLoseRun == ASSUME RunIInv, NEW x \in Executions, LoseRun(x) PROVE RunIInv'
<1>1. /\ execution[x] \in ExecutionRow /\ RowFits(execution[x], noted.queued[x], remote[x])
      /\ execution[x].job = "running"
  BY RowIs DEF LoseRun
<1>2. PICK job \in {"queued", "failed"} : job = Requeued(x) BY DEF Requeued
<1>3. PICK row : row = [execution[x] EXCEPT !.job = job, !.holder = None]
  OBVIOUS
<1>4. /\ row \in ExecutionRow /\ row.status = execution[x].status /\ row.job # "none"
      /\ row.required = execution[x].required /\ row.ticket = execution[x].ticket
  BY <1>1, <1>2, <1>3 DEF ExecutionRow
<1>5. /\ execution' = [execution EXCEPT ![x] = row] /\ Trouble
      /\ UNCHANGED at \/ Goes(execution[x].holder, Idle)
      /\ UNCHANGED <<sources, step, confirm, remote>>
  BY <1>2, <1>3 DEF LoseRun
<1>6. RowKept(x, row) BY <1>1, <1>4, <1>5 DEF RowFits, RowKept
<1>7. noted' \in NotedRow /\ noted'.queued = noted.queued BY <1>5, NotesTyped
<1>8. CASE UNCHANGED at BY <1>5, <1>6, <1>7, <1>8, RowKeeps
<1>9. CASE Goes(execution[x].holder, Idle)
  <2>1. CASE execution[x].holder \notin Goroutines
    <3>1. UNCHANGED at BY <1>9, <2>1 DEF Goes, RunIInv, RunShape
    <3> QED BY <3>1, <1>8
  <2>2. CASE execution[x].holder \in Goroutines
    <3>1. PICK p \in Goroutines : p = execution[x].holder BY <2>2
    <3>2. at' = [at EXCEPT ![p] = Idle] /\ Idle \in Goroutine /\ Idle.at = "idle"
      BY <1>9, <3>1, IdleTyped DEF Goes
    <3>3. StepsKept /\ Undisturbed(p) /\ LaunchesAlone(p, Idle) /\ PlaceKept(Idle)
      BY <1>5, <3>2, StepsSame DEF LaunchesAlone, CallsAwx, PlaceKept
    <3>4. sources' \in SourcesRow /\ confirm' = confirm BY <1>5 DEF RunIInv, RunShape
    <3> QED BY <1>5, <1>6, <1>7, <3>2, <3>3, <3>4, MoveKeeps
  <2> QED BY <2>1, <2>2
<1> QED BY <1>5, <1>8, <1>9

\* The reconciler starts on an execution: it is open, so it has a job.
LEMMA StepReconcile == ASSUME RunIInv, NEW x \in Executions, Reconcile(x) PROVE RunIInv'
<1>1. /\ execution[x].status \in OpenStates /\ Reconciler \in Goroutines
      /\ UNCHANGED <<sources, execution, step, confirm, remote, noted>>
  BY DEF Reconcile, Goroutines
<1>2. PICK g : g = [Idle EXCEPT !.at = "halt", !.x = x, !.halts = TRUE, !.result = "cancelled"]
  OBVIOUS
<1>3. /\ g \in Goroutine /\ g.at = "halt" /\ g.x = x /\ g.n = 1 /\ g.halts /\ g.result = "cancelled"
  <2>1. "cancelled" \in Statuses \cup {"retry"} BY DEF Statuses, ClosedStates
  <2> QED BY <1>2, <2>1, IdleTyped DEF Goroutine
<1>4. at' = [at EXCEPT ![Reconciler] = g] BY <1>2 DEF Reconcile, Goes
<1>5. execution[x].job # "none" BY <1>1, RowIs DEF RowFits
<1>6. PlaceKept(g)
  <2>1. execution'[x] = execution[x] /\ 1 \in 1 .. Last + 1 /\ Last + 1 # 1
    BY <1>1, RunbookAssumption
  <2> QED BY <2>1, <1>3, <1>5 DEF PlaceKept, PlaceFits, Forward
<1>7. StepsKept /\ Undisturbed(Reconciler) /\ LaunchesAlone(Reconciler, g)
  BY <1>1, <1>3, StepsSame DEF LaunchesAlone, CallsAwx
<1>8. execution' = [execution EXCEPT ![x] = execution[x]] /\ RowKept(x, execution[x])
  BY <1>1, RowSame DEF RunIInv, RunShape
<1>9. sources' \in SourcesRow /\ confirm' = confirm /\ noted' \in NotedRow /\ noted'.queued = noted.queued
  BY <1>1, RowIs DEF RunIInv, RunShape
<1> QED BY <1>1, <1>3, <1>4, <1>6, <1>7, <1>8, <1>9, MoveKeeps

\* What a runner says of a step, and the row of the step with it, are written.
LEMMA RemoteWritten ==
  ASSUME RunIInv, NEW x \in Executions, NEW n \in Numbers, NEW job \in RemoteRow, NEW row \in StepRow,
         remote' = [remote EXCEPT ![x][n] = job], step' = [step EXCEPT ![x][n] = row],
         remote[x][n].done => job.done, RemoteFits(job, Kind[n]),
         job.launches # 0 => DoneBefore(remote[x], n),
         step[x][n].state # "queued" => row.state # "queued",
         row.state = "succeeded" => job.done,
         Kind[n] = "awx" /\ row.state = "queued" => job.launches = 0
  PROVE  StepsKept
<1>1. /\ step' \in [Executions -> [Numbers -> StepRow]] /\ step'[x][n] = row
      /\ \A y \in Executions : \A m \in Numbers : y # x \/ m # n => step'[y][m] = step[y][m]
  BY DEF RunIInv, RunShape
<1>2. /\ remote' \in [Executions -> [Numbers -> RemoteRow]] /\ remote'[x][n] = job
      /\ \A y \in Executions : \A m \in Numbers : y # x \/ m # n => remote'[y][m] = remote[y][m]
  BY DEF RunIInv, RunShape
<1>3. ASSUME NEW y \in Executions PROVE StepsGrow(step[y], step'[y]) /\ RemoteGrows(remote[y], remote'[y])
  <2>1. StepsGrow(step[y], step'[y]) BY <1>1 DEF StepsGrow
  <2>2. RemoteGrows(remote[y], remote'[y]) BY <1>2 DEF RemoteGrows
  <2> QED BY <2>1, <2>2
<1>4. ASSUME NEW y \in Executions, NEW m \in Numbers
      PROVE  StepFits(step'[y], remote'[y], m)
  <2>1. StepFits(step[y], remote[y], m) /\ m \in 1 .. Last + 1
    BY RunbookAssumption DEF RunIInv, RunSteps, Numbers
  <2>2. DoneBefore(remote[y], m) => DoneBefore(remote'[y], m) BY <1>3, <2>1, DoneStays
  <2>3. CASE y = x /\ m = n BY <2>2, <2>3, <1>1, <1>2 DEF StepFits
  <2>4. CASE y # x \/ m # n BY <2>1, <2>2, <2>4, <1>1, <1>2 DEF StepFits
  <2> QED BY <2>3, <2>4
<1> QED BY <1>1, <1>2, <1>3, <1>4 DEF StepsKept

\* External: a running job ends.
LEMMA StepRemoteEnds ==
  ASSUME RunIInv, NEW x \in Executions, NEW n \in Numbers, RemoteEnds(x, n)
  PROVE  RunIInv'
<1>1. PICK end \in {"succeeded", "failed"} :
        remote' = [remote EXCEPT ![x][n].state = end, ![x][n].done = @ \/ end = "succeeded"]
  BY DEF RemoteEnds
<1>0. PICK done \in BOOLEAN : done = (remote[x][n].done \/ end = "succeeded")
  OBVIOUS
<1>2. PICK job : job = [remote[x][n] EXCEPT !.state = end, !.done = done]
  OBVIOUS
<1>3. remote[x][n] \in RemoteRow /\ step[x][n] \in StepRow /\ StepFits(step[x], remote[x], n)
  BY DEF RunIInv, RunShape, RunSteps
<1>4. /\ job \in RemoteRow /\ job.state = end /\ job.launches = remote[x][n].launches
      /\ job.removed = remote[x][n].removed /\ job.done = done
      /\ remote[x][n].state = "running" /\ remote' = [remote EXCEPT ![x][n] = job]
  <2>1. remote[x][n].state = "running" /\ remote \in [Executions -> [Numbers -> RemoteRow]]
    BY DEF RemoteEnds, RunIInv, RunShape
  <2>2. remote' = [remote EXCEPT ![x][n] = job] BY <1>0, <1>1, <1>2, <2>1
  <2> QED BY <1>2, <1>3, <2>1, <2>2 DEF RemoteRow, ClosedStates
<1>5. /\ step' = [step EXCEPT ![x][n] = step[x][n]] /\ execution' = [execution EXCEPT ![x] = execution[x]]
      /\ UNCHANGED <<sources, confirm, at, noted>>
  BY DEF RemoteEnds, RunIInv, RunShape
<1>6. StepsKept
  <2>1. RemoteFits(job, Kind[n]) /\ (remote[x][n].done => job.done)
    BY <1>0, <1>3, <1>4 DEF RemoteFits, StepFits
  <2>2. /\ job.launches # 0 => DoneBefore(remote[x], n)
        /\ step[x][n].state = "succeeded" => job.done
        /\ Kind[n] = "awx" /\ step[x][n].state = "queued" => job.launches = 0
    BY <1>3, <1>4, <2>1 DEF StepFits
  <2> QED BY <1>3, <1>4, <1>5, <2>1, <2>2, RemoteWritten
<1>7. \A p \in Goroutines : CallsAwx(at[p]) => remote'[at[p].x][at[p].n].launches = 0
  <2> SUFFICES ASSUME NEW p \in Goroutines, CallsAwx(at[p]) PROVE remote'[at[p].x][at[p].n].launches = 0
    OBVIOUS
  <2>1. at[p].x \in Executions /\ at[p].n \in Numbers /\ remote[at[p].x][at[p].n].launches = 0
    BY WorksOn, RunbookAssumption DEF PlaceFits, CallsAwx, Numbers
  <2> QED BY <2>1, <1>4 DEF RunIInv, RunShape
<1>8. RowKept(x, execution[x]) BY <1>6, RowSameGrown
<1>9. sources' \in SourcesRow /\ confirm' = confirm /\ noted' \in NotedRow /\ noted'.queued = noted.queued
      /\ at' = at
  BY <1>5, RowIs DEF RunIInv, RunShape
<1> QED BY <1>5, <1>6, <1>7, <1>8, <1>9, StayKeeps

----------------
(* A goroutine at work.                                                       *)

\* A goroutine moves on with its execution, and launches nothing on AWX next.
Moves(p, g) == /\ g \in Goroutine /\ at' = [at EXCEPT ![p] = g]
               /\ g.x = at[p].x /\ g.at # "idle" /\ ~CallsAwx(g)

LEMMA TurnKeeps ==
  ASSUME RunIInv, NEW p \in Goroutines, at[p].at # "idle", NEW g, Moves(p, g),
         UNCHANGED <<sources, confirm>>, UNCHANGED execution \/ MarkRunning(at[p].x),
         UNCHANGED noted \/ Trouble, StepsKept, Undisturbed(p),
         PlaceFits(g, execution[g.x], step'[g.x], remote'[g.x])
  PROVE  RunIInv'
<1>1. PICK x \in Executions : x = at[p].x /\ x = g.x BY WorksOn DEF Moves
<1>2. execution[x] \in ExecutionRow /\ RowFits(execution[x], noted.queued[x], remote[x])
      /\ execution[x].job # "none"
  BY <1>1, RowIs DEF PlaceFits
<1>3. PICK row : /\ execution' = [execution EXCEPT ![x] = row] /\ RowKept(x, row)
  <2>1. CASE UNCHANGED execution
    <3>1. execution' = [execution EXCEPT ![x] = execution[x]] BY <2>1 DEF RunIInv, RunShape
    <3> QED BY <3>1, RowSameGrown
  <2>2. CASE MarkRunning(x)
    <3>1. PICK row : row = [execution[x] EXCEPT !.status = "running"]
      OBVIOUS
    <3>2. /\ row \in ExecutionRow /\ row.status = "running" /\ row.job = execution[x].job
          /\ row.required = execution[x].required /\ row.ticket = execution[x].ticket
      BY <1>2, <3>1 DEF ExecutionRow, Statuses, OpenStates
    <3>3. execution' = [execution EXCEPT ![x] = row] BY <2>2, <3>1 DEF MarkRunning
    <3>4. RowKept(x, row) BY <1>2, <3>2 DEF RowFits, RowKept
    <3> QED BY <3>3, <3>4
  <2> QED BY <1>1, <2>1, <2>2
<1>4. PlaceKept(g)
  <2>1. execution'[x].job # "none" BY <1>2, <1>3 DEF RowKept, RunIInv, RunShape
  <2> QED BY <1>1, <2>1 DEF PlaceKept, PlaceFits
<1>5. LaunchesAlone(p, g) /\ g \in Goroutine /\ at' = [at EXCEPT ![p] = g]
  BY DEF LaunchesAlone, Moves
<1>6. noted' \in NotedRow /\ noted'.queued = noted.queued BY NotesTyped
<1>7. sources' \in SourcesRow /\ confirm' = confirm BY DEF RunIInv, RunShape
<1> QED BY <1>3, <1>4, <1>5, <1>6, <1>7, MoveKeeps

\* The places that need no knowledge of the steps.
LEMMA ToReturn ==
  ASSUME RunIInv, NEW p \in Goroutines, at[p].at # "idle",
         NEW result \in {"succeeded", "failed", "retry"}, Returns(p, result)
  PROVE  \E g : Moves(p, g) /\ \A st, rem : PlaceFits(g, execution[g.x], st, rem)
<1>1. PICK g : g = [Idle EXCEPT !.at = "return", !.x = at[p].x, !.result = result]
  OBVIOUS
<1>2. /\ at[p].x \in Executions /\ execution[at[p].x].job # "none" /\ 1 \in 1 .. Last + 1 /\ Last + 1 # 1
      /\ result \in Statuses \cup {"retry"}
  BY WorksOn, RunbookAssumption DEF PlaceFits, Statuses, ClosedStates
<1>3. /\ g \in Goroutine /\ g.at = "return" /\ g.x = at[p].x /\ g.n = 1 /\ g.halts = FALSE
      /\ g.result = result
  BY <1>1, <1>2, IdleTyped DEF Goroutine
<1>4. Moves(p, g) BY <1>1, <1>3 DEF Moves, Returns, Goes, CallsAwx
<1>5. \A st, rem : PlaceFits(g, execution[g.x], st, rem) BY <1>2, <1>3 DEF PlaceFits, Forward
<1> QED BY <1>4, <1>5

LEMMA ToFinish ==
  ASSUME RunIInv, NEW p \in Goroutines, at[p].at # "idle",
         NEW result \in ClosedStates \cup {"unknown"}, Finishes(p, result)
  PROVE  \E g : /\ Moves(p, g)
                /\ \A st, rem : (result = "succeeded" => AllDone(rem)) => PlaceFits(g, execution[g.x], st, rem)
<1>1. PICK g : g = [Idle EXCEPT !.at = "finish", !.x = at[p].x, !.result = result]
  OBVIOUS
<1>2. /\ at[p].x \in Executions /\ execution[at[p].x].job # "none" /\ 1 \in 1 .. Last + 1 /\ Last + 1 # 1
      /\ result \in Statuses \cup {"retry"}
  BY WorksOn, RunbookAssumption DEF PlaceFits, Statuses, ClosedStates, OpenStates
<1>3. /\ g \in Goroutine /\ g.at = "finish" /\ g.x = at[p].x /\ g.n = 1 /\ g.halts = FALSE
      /\ g.result = result
  BY <1>1, <1>2, IdleTyped DEF Goroutine
<1>4. Moves(p, g) BY <1>1, <1>3 DEF Moves, Finishes, Goes, CallsAwx
<1>5. \A st, rem : (result = "succeeded" => AllDone(rem)) => PlaceFits(g, execution[g.x], st, rem)
  BY <1>2, <1>3 DEF PlaceFits, Forward
<1> QED BY <1>4, <1>5

\* The next step: the one before it is done.
LEMMA ToNext ==
  ASSUME RunIInv, NEW p \in Goroutines, at[p].at \in Forward, at[p].n \in Numbers, NextStep(p)
  PROVE  \E g : /\ Moves(p, g)
                /\ \A st, rem : DoneBefore(rem, at[p].n) /\ rem[at[p].n].done
                                  => PlaceFits(g, execution[g.x], st, rem)
<1>1. PICK n \in Numbers : n = at[p].n
  OBVIOUS
<1>0. PICK next \in Nat : next = n + 1 BY <1>1, RunbookAssumption DEF Numbers
<1>2. PICK g : g = [Idle EXCEPT !.at = "read", !.x = at[p].x, !.n = next]
  OBVIOUS
<1>3. Last \in Nat /\ n \in Nat /\ next \in 1 .. Last + 1
  BY <1>0, <1>1, RunbookAssumption DEF Numbers
<1>4. at[p].x \in Executions /\ execution[at[p].x].job # "none" BY WorksOn DEF PlaceFits, Forward
<1>5. g \in Goroutine /\ g.at = "read" /\ g.x = at[p].x /\ g.n = next /\ g.halts = FALSE
  BY <1>2, <1>3, <1>4, IdleTyped DEF Goroutine
<1>6. Moves(p, g) BY <1>0, <1>1, <1>2, <1>5 DEF Moves, NextStep, Goes, CallsAwx
<1>7. ASSUME NEW st, NEW rem, DoneBefore(rem, n), rem[n].done
      PROVE  PlaceFits(g, execution[g.x], st, rem)
  <2>1. DoneBefore(rem, next) BY <1>0, <1>3, <1>7 DEF DoneBefore
  <2> QED BY <1>3, <1>4, <1>5, <2>1 DEF PlaceFits, Forward
<1> QED BY <1>1, <1>6, <1>7

\* The next step to halt, or the end.
LEMMA ToHaltNext ==
  ASSUME RunIInv, NEW p \in Goroutines, at[p].at # "idle", at[p].n \in Numbers,
         NEW result \in {"cancelled", "unknown"}, HaltsNext(p, result)
  PROVE  \E g : Moves(p, g) /\ \A st, rem : PlaceFits(g, execution[g.x], st, rem)
<1>1. PICK n \in Numbers : n = at[p].n
  OBVIOUS
<1>2. CASE n = Last
  <2>1. Finishes(p, result) /\ result \in ClosedStates \cup {"unknown"} /\ result # "succeeded"
    BY <1>1, <1>2 DEF HaltsNext, ClosedStates
  <2> QED BY <2>1, ToFinish
<1>3. CASE n # Last
  <2>1. PICK g : g = [Idle EXCEPT !.at = "halt", !.x = at[p].x, !.n = n + 1, !.halts = TRUE, !.result = result]
    OBVIOUS
  <2>2. /\ n + 1 \in Nat /\ n + 1 \in 1 .. Last + 1 /\ n + 1 # Last + 1
        /\ result \in Statuses \cup {"retry"}
    BY <1>3, RunbookAssumption DEF Numbers, Statuses, ClosedStates, OpenStates
  <2>3. at[p].x \in Executions /\ execution[at[p].x].job # "none" BY WorksOn DEF PlaceFits
  <2>4. /\ g \in Goroutine /\ g.at = "halt" /\ g.x = at[p].x /\ g.n = n + 1 /\ g.halts = TRUE
        /\ g.result = result
    BY <2>1, <2>2, <2>3, IdleTyped DEF Goroutine
  <2>5. Moves(p, g) BY <1>1, <1>3, <2>1, <2>4 DEF Moves, HaltsNext, Goes, CallsAwx
  <2>6. \A st, rem : PlaceFits(g, execution[g.x], st, rem)
    BY <2>2, <2>3, <2>4 DEF PlaceFits, Forward
  <2> QED BY <2>5, <2>6
<1> QED BY <1>2, <1>3

LEMMA PlaceTyped == ASSUME RunIInv, NEW p \in Goroutines PROVE at[p] \in Goroutine
  BY DEF RunIInv, RunShape

\* executeRunbookJob begins with the first step, or not at all.
LEMMA StepBeginRun == ASSUME RunIInv, NEW p \in Goroutines, BeginRun(p) PROVE RunIInv'
<1> DEFINE x == at[p].x  status == execution[x].status
<1>1. /\ at[p].at = "begin" /\ at[p].at # "idle" /\ at[p] \in Goroutine
      /\ UNCHANGED <<sources, step, confirm, remote>> /\ UNCHANGED <<sources, confirm>>
  BY PlaceTyped DEF BeginRun
<1>2. x \in Executions /\ PlaceFits(at[p], execution[x], step[x], remote[x]) /\ at[p].n = 1
      /\ at[p].halts = FALSE
  BY <1>1, WorksOn DEF PlaceFits, Goroutine
<1>3. StepsKept /\ Undisturbed(p) BY <1>1, StepsSame
<1>4. ASSUME Returns(p, "succeeded") \/ Returns(p, "failed"), UNCHANGED <<execution, noted>>
      PROVE  RunIInv'
  <2>1. PICK g : Moves(p, g) /\ \A st, rem : PlaceFits(g, execution[g.x], st, rem)
    BY <1>1, <1>4, ToReturn
  <2> QED BY <1>1, <1>3, <1>4, <2>1, TurnKeeps
<1>5. ASSUME MarkRunning(x), UNCHANGED noted, Goes(p, [at[p] EXCEPT !.at = "read"])
      PROVE  RunIInv'
  <2>1. PICK g : g = [at[p] EXCEPT !.at = "read"]
    OBVIOUS
  <2>2. g \in Goroutine /\ g.at = "read" /\ g.x = x /\ g.n = 1 /\ g.halts = FALSE
    BY <1>1, <1>2, <2>1 DEF Goroutine
  <2>3. Moves(p, g) BY <1>5, <2>1, <2>2 DEF Moves, Goes, CallsAwx
  <2>4. DoneBefore(remote[x], 1) BY DEF DoneBefore
  <2>5. PlaceFits(g, execution[g.x], step'[g.x], remote'[g.x])
    BY <1>1, <1>2, <2>2, <2>4 DEF PlaceFits
  <2> QED BY <1>1, <1>3, <1>5, <2>3, <2>5, TurnKeeps
<1>6. ASSUME Refused(p), UNCHANGED execution,
             Goes(p, [at[p] EXCEPT !.at = "halt", !.halts = TRUE, !.result = "cancelled"])
      PROVE  RunIInv'
  <2>1. PICK g : g = [at[p] EXCEPT !.at = "halt", !.halts = TRUE, !.result = "cancelled"]
    OBVIOUS
  <2>2. /\ g \in Goroutine /\ g.at = "halt" /\ g.x = x /\ g.n = 1 /\ g.halts = TRUE
        /\ g.result = "cancelled"
    <3>1. "cancelled" \in Statuses BY DEF Statuses, ClosedStates
    <3> QED BY <3>1, <1>1, <1>2, <2>1 DEF Goroutine
  <2>3. Moves(p, g) BY <1>6, <2>1, <2>2 DEF Moves, Goes, CallsAwx
  <2>4. PlaceFits(g, execution[g.x], step'[g.x], remote'[g.x])
    BY <1>1, <1>2, <2>2 DEF PlaceFits, Forward
  <2>5. UNCHANGED noted \/ Trouble BY <1>6 DEF Refused
  <2> QED BY <1>1, <1>3, <1>6, <2>3, <2>4, <2>5, TurnKeeps
<1> QED BY <1>4, <1>5, <1>6 DEF BeginRun

\* The state of a step is written.
LEMMA StepSet ==
  ASSUME RunIInv, remote' = remote, NEW p \in Goroutines, at[p].x \in Executions, at[p].n \in Numbers,
         NEW state \in StepStates \ {"queued"}, SetStep(p, state),
         state = "succeeded" => remote[at[p].x][at[p].n].done
  PROVE  StepsKept /\ Undisturbed(p)
<1>1. PICK x \in Executions, n \in Numbers : x = at[p].x /\ n = at[p].n
  OBVIOUS
<1>2. PICK row : row = [step[x][n] EXCEPT !.state = state]
  OBVIOUS
<1>3. step[x][n] \in StepRow BY DEF RunIInv, RunShape
<1>4. row \in StepRow /\ row.state = state BY <1>2, <1>3 DEF StepRow
<1>5. step' = [step EXCEPT ![x][n] = row] BY <1>1, <1>2 DEF SetStep
<1> QED BY <1>1, <1>4, <1>5, StepWritten

\* runRunbookStep: done, ended, launched, watched, or stopped.
LEMMA StepCheck == ASSUME RunIInv, NEW p \in Goroutines, CheckStep(p) PROVE RunIInv'
<1> DEFINE x == at[p].x  n == at[p].n  row == step[x][n]
<1>1. /\ at[p].at = "read" /\ at[p].at # "idle" /\ at[p] \in Goroutine /\ n \in Numbers
      /\ UNCHANGED <<sources, confirm>> /\ remote' = remote
  BY PlaceTyped DEF CheckStep
<1>2. /\ x \in Executions /\ PlaceFits(at[p], execution[x], step[x], remote[x])
      /\ DoneBefore(remote[x], n) /\ at[p].halts = FALSE /\ row \in StepRow
      /\ StepFits(step[x], remote[x], n) /\ n # Last + 1
  <2>1. x \in Executions /\ PlaceFits(at[p], execution[x], step[x], remote[x]) BY <1>1, WorksOn
  <2>2. DoneBefore(remote[x], n) /\ at[p].halts = FALSE /\ n # Last + 1
    BY <1>1, <2>1, RunbookAssumption DEF PlaceFits, Forward, Goroutine, Numbers
  <2> QED BY <1>1, <2>1, <2>2 DEF RunIInv, RunShape, RunSteps
<1>3. ASSUME step' = step PROVE StepsKept /\ Undisturbed(p) BY <1>1, <1>3, StepsSame
<1>4. ASSUME DoneStep(row.state), NextStep(p), UNCHANGED <<execution, step, noted>> PROVE RunIInv'
  <2>1. remote[x][n].done BY <1>2, <1>4 DEF DoneStep, StepFits
  <2>2. PICK g : /\ Moves(p, g)
                 /\ \A st, rem : DoneBefore(rem, n) /\ rem[n].done
                                   => PlaceFits(g, execution[g.x], st, rem)
    BY <1>1, <1>4, ToNext DEF Forward
  <2>3. PlaceFits(g, execution[g.x], step'[g.x], remote'[g.x]) BY <1>1, <1>2, <2>1, <2>2 DEF Moves
  <2> QED BY <1>1, <1>3, <1>4, <2>2, <2>3, TurnKeeps
<1>5. ASSUME NEW result \in {"failed", "cancelled", "unknown"}, Finishes(p, result),
             UNCHANGED execution \/ MarkRunning(x), UNCHANGED noted \/ Trouble,
             StepsKept, Undisturbed(p)
      PROVE  RunIInv'
  <2>1. result \in ClosedStates \cup {"unknown"} /\ result # "succeeded" BY DEF ClosedStates
  <2>2. PICK g : /\ Moves(p, g)
                 /\ \A st, rem : (result = "succeeded" => AllDone(rem)) => PlaceFits(g, execution[g.x], st, rem)
    BY <1>1, <1>5, <2>1, ToFinish
  <2> QED BY <1>1, <1>5, <2>1, <2>2, TurnKeeps
<1>6. ASSUME row.state \in {"queued", "launching", "running"}, MarkRunning(x), UNCHANGED noted,
             row.state = "queued" \/ MayLaunch(x, n),
             Goes(p, [at[p] EXCEPT !.at = "launch", !.state = row.state]), UNCHANGED step
      PROVE  RunIInv'
  <2>1. PICK state : state = row.state
    OBVIOUS
  <2>2. state \in StepStates /\ state \in {"queued", "launching"} /\ (state = "launching" => Kind[n] = "kubernetes")
    BY <1>6, <2>1 DEF MayLaunch, StepStates, OpenStates
  <2>3. PICK g : g = [at[p] EXCEPT !.at = "launch", !.state = state]
    OBVIOUS
  <2>4. g \in Goroutine /\ g.at = "launch" /\ g.x = x /\ g.n = n /\ g.halts = FALSE /\ g.state = state
    BY <1>1, <1>2, <2>2, <2>3 DEF Goroutine
  <2>5. Moves(p, g) BY <1>6, <2>1, <2>3, <2>4 DEF Moves, Goes, CallsAwx
  <2>6. PlaceFits(g, execution[g.x], step'[g.x], remote'[g.x])
    BY <1>1, <1>2, <2>2, <2>4 DEF PlaceFits
  <2> QED BY <1>1, <1>3, <1>6, <2>5, <2>6, TurnKeeps
<1>7. ASSUME MarkRunning(x), UNCHANGED noted, UNCHANGED step,
             Goes(p, [at[p] EXCEPT !.at = "watch", !.known = row.external])
      PROVE  RunIInv'
  <2>0. PICK known \in Nat : known = row.external BY <1>2 DEF StepRow
  <2>1. PICK g : g = [at[p] EXCEPT !.at = "watch", !.known = known]
    OBVIOUS
  <2>2. g \in Goroutine /\ g.at = "watch" /\ g.x = x /\ g.n = n /\ g.halts = FALSE
    BY <1>1, <1>2, <2>1 DEF Goroutine
  <2>3. Moves(p, g) BY <1>7, <2>0, <2>1, <2>2 DEF Moves, Goes, CallsAwx
  <2>4. PlaceFits(g, execution[g.x], step'[g.x], remote'[g.x]) BY <1>1, <1>2, <2>2 DEF PlaceFits
  <2> QED BY <1>1, <1>3, <1>7, <2>3, <2>4, TurnKeeps
<1>8. ASSUME Refused(p), UNCHANGED <<execution, step>>,
             Goes(p, [at[p] EXCEPT !.at = "stop", !.known = row.external])
      PROVE  RunIInv'
  <2>1. PICK known \in Nat : known = row.external BY <1>2 DEF StepRow
  <2>2. PICK g : g = [at[p] EXCEPT !.at = "stop", !.known = known]
    OBVIOUS
  <2>3. g \in Goroutine /\ g.at = "stop" /\ g.x = x /\ g.n = n /\ g.halts = FALSE
    BY <1>1, <1>2, <2>2 DEF Goroutine
  <2>4. Moves(p, g) BY <1>8, <2>1, <2>2, <2>3 DEF Moves, Goes, CallsAwx
  <2>5. PlaceFits(g, execution[g.x], step'[g.x], remote'[g.x])
    BY <1>1, <1>2, <2>3 DEF PlaceFits, Forward
  <2>6. UNCHANGED noted \/ Trouble BY <1>8 DEF Refused
  <2> QED BY <1>1, <1>3, <1>8, <2>4, <2>5, <2>6, TurnKeeps
<1>9. ASSUME NEW state \in {"unknown", "failed"}, SetStep(p, state) PROVE StepsKept /\ Undisturbed(p)
  <2>1. state \in StepStates \ {"queued"} /\ state # "succeeded"
    BY DEF StepStates, OpenStates, ClosedStates
  <2> QED BY <1>1, <1>2, <1>9, <2>1, StepSet
<1>10. ASSUME Refused(p) PROVE UNCHANGED noted \/ Trouble BY <1>10 DEF Refused
<1>11. CASE row.state \in {"failed", "cancelled", "unknown"} /\ Finishes(p, row.state)
            /\ UNCHANGED <<execution, step, noted>>
  <2>1. PICK result \in {"failed", "cancelled", "unknown"} : result = row.state BY <1>11
  <2> QED BY <1>3, <1>5, <1>11, <2>1
<1>12. CASE SetStep(p, "unknown") /\ Finishes(p, "unknown") /\ MarkRunning(x) /\ UNCHANGED noted
  BY <1>5, <1>9, <1>12
<1>13. CASE Refused(p) /\ SetStep(p, "failed") /\ Finishes(p, "failed") /\ UNCHANGED execution
  BY <1>5, <1>9, <1>10, <1>13
<1> QED BY <1>4, <1>6, <1>7, <1>8, <1>11, <1>12, <1>13 DEF CheckStep

LEMMA ReturnKeeps ==
  ASSUME RunIInv, NEW p \in Goroutines, at[p].at # "idle",
         NEW result \in {"succeeded", "failed", "retry"}, Returns(p, result),
         UNCHANGED <<sources, confirm>>, UNCHANGED execution \/ MarkRunning(at[p].x),
         UNCHANGED noted \/ Trouble, StepsKept, Undisturbed(p)
  PROVE  RunIInv'
<1>1. PICK g : Moves(p, g) /\ \A st, rem : PlaceFits(g, execution[g.x], st, rem) BY ToReturn
<1> QED BY <1>1, TurnKeeps

LEMMA FinishKeeps ==
  ASSUME RunIInv, NEW p \in Goroutines, at[p].at # "idle",
         NEW result \in ClosedStates \cup {"unknown"}, Finishes(p, result),
         result = "succeeded" => AllDone(remote'[at[p].x]),
         UNCHANGED <<sources, confirm>>, UNCHANGED execution \/ MarkRunning(at[p].x),
         UNCHANGED noted \/ Trouble, StepsKept, Undisturbed(p)
  PROVE  RunIInv'
<1>1. PICK g : /\ Moves(p, g)
               /\ \A st, rem : (result = "succeeded" => AllDone(rem)) => PlaceFits(g, execution[g.x], st, rem)
  BY ToFinish
<1>2. PlaceFits(g, execution[g.x], step'[g.x], remote'[g.x]) BY <1>1 DEF Moves
<1> QED BY <1>1, <1>2, TurnKeeps

LEMMA HaltKeeps ==
  ASSUME RunIInv, NEW p \in Goroutines, at[p].at # "idle", at[p].n \in Numbers,
         NEW result \in {"cancelled", "unknown"}, HaltsNext(p, result),
         UNCHANGED <<sources, execution, confirm, noted>>, StepsKept, Undisturbed(p)
  PROVE  RunIInv'
<1>1. PICK g : Moves(p, g) /\ \A st, rem : PlaceFits(g, execution[g.x], st, rem) BY ToHaltNext
<1>2. UNCHANGED <<sources, confirm>>
  OBVIOUS
<1> QED BY <1>1, <1>2, TurnKeeps

\* Whoever is at a step and not past the last one.
LEMMA AtStep ==
  ASSUME RunIInv, NEW p \in Goroutines, at[p].at \notin {"idle", "read"}
  PROVE  /\ at[p] \in Goroutine /\ at[p].x \in Executions /\ at[p].n \in Numbers /\ at[p].n # Last + 1
         /\ PlaceFits(at[p], execution[at[p].x], step[at[p].x], remote[at[p].x])
         /\ StepFits(step[at[p].x], remote[at[p].x], at[p].n)
         /\ step[at[p].x][at[p].n] \in StepRow /\ remote[at[p].x][at[p].n] \in RemoteRow
<1>1. /\ at[p] \in Goroutine /\ at[p].x \in Executions
      /\ PlaceFits(at[p], execution[at[p].x], step[at[p].x], remote[at[p].x])
  BY WorksOn, PlaceTyped
<1>2. at[p].n \in Numbers /\ at[p].n # Last + 1 BY <1>1, RunbookAssumption DEF PlaceFits, Numbers
<1> QED BY <1>1, <1>2 DEF RunIInv, RunShape, RunSteps

\* The launch is claimed: nobody else is about to launch this step.
LEMMA StepLaunch == ASSUME RunIInv, NEW p \in Goroutines, LaunchStep(p) PROVE RunIInv'
<1> DEFINE x == at[p].x  n == at[p].n
<1>1. /\ at[p].at = "launch" /\ at[p].at # "idle" /\ at[p].at \notin {"idle", "read"}
      /\ UNCHANGED <<sources, confirm>> /\ remote' = remote
      /\ UNCHANGED <<sources, execution, confirm, remote>> /\ UNCHANGED noted /\ UNCHANGED execution
  BY DEF LaunchStep
<1>2. /\ at[p] \in Goroutine /\ x \in Executions /\ n \in Numbers /\ n # Last + 1
      /\ PlaceFits(at[p], execution[x], step[x], remote[x]) /\ StepFits(step[x], remote[x], n)
      /\ DoneBefore(remote[x], n) /\ at[p].halts = FALSE
  <2>1. DoneBefore(remote[x], n) /\ at[p].halts = FALSE
    BY <1>1, AtStep DEF PlaceFits, Forward, Goroutine
  <2> QED BY <1>1, <2>1, AtStep
<1>3. ASSUME step' = step PROVE StepsKept /\ Undisturbed(p) BY <1>1, <1>3, StepsSame
<1>4. ASSUME NEW state \in {"launching", "failed"}, SetStep(p, state) PROVE StepsKept /\ Undisturbed(p)
  <2>1. state \in StepStates \ {"queued"} /\ state # "succeeded"
    BY DEF StepStates, OpenStates, ClosedStates
  <2> QED BY <1>1, <1>2, <1>4, <2>1, StepSet
<1>5. PICK g : g = [at[p] EXCEPT !.at = "call"]
  OBVIOUS
<1>6. g \in Goroutine /\ g.at = "call" /\ g.x = x /\ g.n = n /\ g.halts = FALSE
  BY <1>1, <1>2, <1>5 DEF Goroutine
<1>7. ASSUME ClaimStep(p), Goes(p, [at[p] EXCEPT !.at = "call"]) PROVE RunIInv'
  <2>1. StepsKept /\ Undisturbed(p) /\ step[x][n].state = "queued" /\ at' = [at EXCEPT ![p] = g]
    BY <1>4, <1>5, <1>7 DEF ClaimStep, Goes
  <2>2. LaunchesAlone(p, g)
    <3> SUFFICES ASSUME NEW q \in Goroutines \ {p}, CallsAwx(at[q]), at[q].x = x, at[q].n = n
                 PROVE  FALSE
      BY <1>6 DEF LaunchesAlone
    <3> QED BY <2>1, WorksOn DEF PlaceFits, CallsAwx
  <2>3. step'[x][n].state # "queued"
    BY <1>2, <1>7 DEF ClaimStep, SetStep, RunIInv, RunShape, StepRow
  <2>4. Kind[n] = "awx" => remote[x][n].launches = 0 BY <1>2, <2>1 DEF StepFits
  <2>5. PlaceFits(g, execution'[g.x], step'[g.x], remote'[g.x])
    BY <1>1, <1>2, <1>6, <2>3, <2>4 DEF PlaceFits
  <2>6. noted' \in NotedRow /\ noted'.queued = noted.queued BY <1>1, NotesTyped
  <2> QED BY <1>1, <1>6, <2>1, <2>2, <2>5, <2>6, WalkKeeps DEF PlaceKept
<1>8. ASSUME at[p].state = "launching", Goes(p, [at[p] EXCEPT !.at = "call"]), UNCHANGED step
      PROVE  RunIInv'
  <2>1. Kind[n] = "kubernetes" BY <1>1, <1>2, <1>8 DEF PlaceFits
  <2>2. Moves(p, g) BY <1>5, <1>6, <1>8, <2>1 DEF Moves, Goes, CallsAwx
  <2>3. PlaceFits(g, execution[g.x], step'[g.x], remote'[g.x])
    BY <1>1, <1>2, <1>6, <2>1 DEF PlaceFits
  <2> QED BY <1>1, <1>3, <1>8, <2>2, <2>3, TurnKeeps
<1>9. ASSUME Returns(p, "retry"), UNCHANGED step PROVE RunIInv' BY <1>1, <1>3, <1>9, ReturnKeeps
<1>10. ASSUME SetStep(p, "failed") \/ UNCHANGED step, Finishes(p, "failed") PROVE RunIInv'
  <2>1. StepsKept /\ Undisturbed(p) BY <1>3, <1>4, <1>10
  <2>2. "failed" \in ClosedStates \cup {"unknown"} /\ "failed" # "succeeded" BY DEF ClosedStates
  <2> QED BY <1>1, <1>10, <2>1, <2>2, FinishKeeps
<1> QED BY <1>7, <1>8, <1>9, <1>10 DEF LaunchStep

\* The request: what it starts is the only job of its step at the time.
LEMMA Calls ==
  ASSUME RunIInv, NEW p \in Goroutines, at[p].at = "call",
         remote' = [remote EXCEPT ![at[p].x][at[p].n] = Started(at[p].x, at[p].n)] \/ remote' = remote,
         UNCHANGED step \/ SetStep(p, "unknown")
  PROVE  StepsKept /\ Undisturbed(p)
<1>1. PICK x \in Executions, n \in Numbers : x = at[p].x /\ n = at[p].n BY AtStep
<1>2. /\ PlaceFits(at[p], execution[x], step[x], remote[x]) /\ StepFits(step[x], remote[x], n)
      /\ step[x][n] \in StepRow /\ remote[x][n] \in RemoteRow
      /\ DoneBefore(remote[x], n) /\ (Kind[n] = "awx" => remote[x][n].launches = 0 /\ step[x][n].state # "queued")
  <2>1. /\ PlaceFits(at[p], execution[x], step[x], remote[x]) /\ StepFits(step[x], remote[x], n)
        /\ step[x][n] \in StepRow /\ remote[x][n] \in RemoteRow
    BY <1>1, AtStep
  <2> QED BY <1>1, <2>1 DEF PlaceFits, Forward
<1>3. Kind[n] \in {"awx", "kubernetes"} BY RunbookAssumption
<1>4. PICK job : remote' = [remote EXCEPT ![x][n] = job] /\ job \in {remote[x][n], Started(x, n)}
  <2>1. remote = [remote EXCEPT ![x][n] = remote[x][n]] BY DEF RunIInv, RunShape
  <2> QED BY <1>1, <2>1
<1>5. /\ job \in RemoteRow /\ RemoteFits(job, Kind[n]) /\ job.done = remote[x][n].done
      /\ job = remote[x][n] \/ job = Started(x, n)
  <2>1. CASE job = remote[x][n] BY <1>2, <2>1 DEF StepFits
  <2>2. CASE job # remote[x][n]
    <3>1. /\ job = [remote[x][n] EXCEPT !.state = "running", !.launches = @ + 1]
          /\ RemoteFits(remote[x][n], Kind[n]) /\ remote[x][n].state = "none"
      BY <1>2, <1>3, <1>4, <2>2 DEF Started, StepFits, RemoteFits
    <3>3. remote[x][n].launches \in Nat /\ remote[x][n].removed \in Nat BY <1>2 DEF RemoteRow
    <3>4. PICK next \in Nat : next = remote[x][n].launches + 1 BY <3>3
    <3>2. /\ job \in RemoteRow /\ job.state = "running" /\ job.launches = next
          /\ job.removed = remote[x][n].removed /\ job.done = remote[x][n].done
      BY <1>2, <3>1, <3>4 DEF RemoteRow
    <3> QED BY <1>4, <3>1, <3>2, <3>3, <3>4 DEF RemoteFits
  <2> QED BY <2>1, <2>2
<1>6. PICK row \in StepRow : step' = [step EXCEPT ![x][n] = row] /\ (row = step[x][n] \/ row.state = "unknown")
  <2>1. CASE UNCHANGED step
    <3>1. step' = [step EXCEPT ![x][n] = step[x][n]] BY <2>1 DEF RunIInv, RunShape
    <3> QED BY <1>2, <3>1
  <2>2. CASE SetStep(p, "unknown")
    <3>1. PICK row : row = [step[x][n] EXCEPT !.state = "unknown"]
      OBVIOUS
    <3>2. row \in StepRow /\ row.state = "unknown" BY <1>2, <3>1 DEF StepRow, StepStates, OpenStates
    <3> QED BY <1>1, <2>2, <3>1, <3>2 DEF SetStep
  <2> QED BY <2>1, <2>2
<1>7. StepsKept
  <2>1. /\ step[x][n].state # "queued" => row.state # "queued"
        /\ row.state = "succeeded" => job.done
        /\ Kind[n] = "awx" /\ row.state = "queued" => job.launches = 0
        /\ job.launches # 0 => DoneBefore(remote[x], n)
        /\ remote[x][n].done => job.done
    BY <1>2, <1>5, <1>6 DEF StepFits
  <2> QED BY <1>4, <1>5, <1>6, <2>1, RemoteWritten
<1>8. Undisturbed(p)
  <2> SUFFICES ASSUME NEW q \in Goroutines \ {p}, CallsAwx(at[q])
               PROVE  remote'[at[q].x][at[q].n].launches = 0
    BY DEF Undisturbed
  <2>1. at[q].x \in Executions /\ at[q].n \in Numbers /\ remote[at[q].x][at[q].n].launches = 0
    BY AtStep DEF CallsAwx, PlaceFits
  <2>2. at[q].x # x \/ at[q].n # n
    <3>1. SUFFICES ASSUME at[q].x = x, at[q].n = n PROVE FALSE
      OBVIOUS
    <3>2. CallsAwx(at[p]) BY <1>1, <3>1 DEF CallsAwx
    <3> QED BY <1>1, <3>1, <3>2 DEF RunIInv, RunCalls
  <2> QED BY <1>4, <2>1, <2>2 DEF RunIInv, RunShape
<1> QED BY <1>7, <1>8

\* The launch: answered, or not.
LEMMA StepCallRemote == ASSUME RunIInv, NEW p \in Goroutines, CallRemote(p) PROVE RunIInv'
<1> DEFINE x == at[p].x  n == at[p].n
<1>1. /\ at[p].at = "call" /\ at[p].at # "idle" /\ at[p].at \notin {"idle", "read"}
      /\ UNCHANGED <<sources, confirm>> /\ UNCHANGED noted /\ UNCHANGED execution
      /\ remote' = [remote EXCEPT ![x][n] = Started(x, n)] \/ remote' = remote
      /\ UNCHANGED step \/ SetStep(p, "unknown")
  BY DEF CallRemote
<1>2. StepsKept /\ Undisturbed(p) BY <1>1, Calls
<1>3. /\ at[p] \in Goroutine /\ x \in Executions /\ n \in Numbers /\ n # Last + 1
      /\ PlaceFits(at[p], execution[x], step[x], remote[x]) /\ at[p].halts = FALSE
      /\ DoneBefore(remote'[x], n)
  <2>1. /\ at[p] \in Goroutine /\ x \in Executions /\ n \in Numbers /\ n # Last + 1
        /\ PlaceFits(at[p], execution[x], step[x], remote[x])
    BY <1>1, AtStep
  <2>2. DoneBefore(remote[x], n) /\ at[p].halts = FALSE
    BY <1>1, <2>1 DEF PlaceFits, Forward, Goroutine
  <2>3. RemoteGrows(remote[x], remote'[x]) /\ n \in 1 .. Last + 1
    BY <1>2, <2>1 DEF StepsKept, PlaceFits
  <2>4. DoneBefore(remote'[x], n) BY <2>2, <2>3, DoneStays
  <2> QED BY <2>1, <2>2, <2>4
<1>9. Started(x, n).launches \in Nat
  <2>1. remote[x][n] \in RemoteRow BY <1>1, AtStep
  <2>2. remote[x][n].launches \in Nat BY <2>1 DEF RemoteRow
  <2> QED BY <2>1, <2>2 DEF Started, RemoteRow
<1>10. PICK id \in Nat : id = Started(x, n).launches BY <1>9
<1>4. ASSUME Goes(p, [at[p] EXCEPT !.at = "persist", !.known = id]) PROVE RunIInv'
  <2>1. PICK g : g = [at[p] EXCEPT !.at = "persist", !.known = id]
    OBVIOUS
  <2>2. g \in Goroutine /\ g.at = "persist" /\ g.x = x /\ g.n = n /\ g.halts = FALSE
    BY <1>1, <1>3, <2>1 DEF Goroutine
  <2>3. Moves(p, g) BY <1>4, <2>1, <2>2 DEF Moves, Goes, CallsAwx
  <2>4. PlaceFits(g, execution[g.x], step'[g.x], remote'[g.x]) BY <1>3, <2>2 DEF PlaceFits
  <2> QED BY <1>1, <1>2, <2>3, <2>4, TurnKeeps
<1>5. ASSUME Goes(p, [at[p] EXCEPT !.at = "stop", !.known = id, !.result = "failed"]) PROVE RunIInv'
  <2>0. "failed" \in Statuses BY DEF Statuses, ClosedStates
  <2>1. PICK g : g = [at[p] EXCEPT !.at = "stop", !.known = id, !.result = "failed"]
    OBVIOUS
  <2>2. g \in Goroutine /\ g.at = "stop" /\ g.x = x /\ g.n = n /\ g.halts = FALSE
    BY <1>1, <1>3, <2>0, <2>1 DEF Goroutine
  <2>3. Moves(p, g) BY <1>5, <2>1, <2>2 DEF Moves, Goes, CallsAwx
  <2>4. PlaceFits(g, execution[g.x], step'[g.x], remote'[g.x]) BY <1>3, <2>2 DEF PlaceFits, Forward
  <2> QED BY <1>1, <1>2, <2>3, <2>4, TurnKeeps
<1>6. ASSUME Returns(p, "retry") PROVE RunIInv' BY <1>1, <1>2, <1>6, ReturnKeeps
<1>7. ASSUME Finishes(p, "unknown") PROVE RunIInv' BY <1>1, <1>2, <1>7, FinishKeeps
<1> QED BY <1>4, <1>5, <1>6, <1>7, <1>10 DEF CallRemote

\* The id of the job is kept, or its step is stopped.
LEMMA StepPersist == ASSUME RunIInv, NEW p \in Goroutines, PersistStep(p) PROVE RunIInv'
<1> DEFINE x == at[p].x  n == at[p].n
<1>1. /\ at[p].at = "persist" /\ at[p].at # "idle" /\ at[p].at \notin {"idle", "read"}
      /\ UNCHANGED <<sources, confirm>> /\ remote' = remote /\ UNCHANGED noted /\ UNCHANGED execution
  BY DEF PersistStep
<1>2. /\ at[p] \in Goroutine /\ x \in Executions /\ n \in Numbers /\ n # Last + 1
      /\ PlaceFits(at[p], execution[x], step[x], remote[x]) /\ at[p].halts = FALSE
      /\ DoneBefore(remote[x], n)
  <2>1. DoneBefore(remote[x], n) /\ at[p].halts = FALSE
    BY <1>1, AtStep DEF PlaceFits, Forward, Goroutine
  <2> QED BY <1>1, <2>1, AtStep
<1>3. ASSUME NEW place \in {"watch", "stop"}, Goes(p, [at[p] EXCEPT !.at = place]), StepsKept, Undisturbed(p)
      PROVE  RunIInv'
  <2>1. PICK g : g = [at[p] EXCEPT !.at = place]
    OBVIOUS
  <2>2. g \in Goroutine /\ g.at = place /\ g.x = x /\ g.n = n /\ g.halts = FALSE
    BY <1>1, <1>2, <2>1 DEF Goroutine
  <2>3. Moves(p, g) BY <1>3, <2>1, <2>2 DEF Moves, Goes, CallsAwx
  <2>4. PlaceFits(g, execution[g.x], step'[g.x], remote'[g.x]) BY <1>1, <1>2, <2>2 DEF PlaceFits
  <2> QED BY <1>1, <1>3, <2>3, <2>4, TurnKeeps
<1>4. CASE /\ step' = [step EXCEPT ![x][n] = [state |-> "running", external |-> at[p].known]]
           /\ Goes(p, [at[p] EXCEPT !.at = "watch"])
  <2>1. PICK row : row = [state |-> "running", external |-> at[p].known]
    OBVIOUS
  <2>0. at[p].known \in Nat BY <1>2 DEF Goroutine
  <2>2. row \in StepRow /\ row.state = "running" BY <2>0, <2>1 DEF StepRow, StepStates, OpenStates
  <2>3. StepsKept /\ Undisturbed(p) BY <1>1, <1>2, <1>4, <2>1, <2>2, StepWritten
  <2> QED BY <1>3, <1>4, <2>3
<1>5. CASE Goes(p, [at[p] EXCEPT !.at = "stop"]) /\ UNCHANGED step BY <1>1, <1>3, <1>5, StepsSame
<1> QED BY <1>4, <1>5 DEF PersistStep

\* The poll.
LEMMA StepWatch == ASSUME RunIInv, NEW p \in Goroutines, WatchStep(p) PROVE RunIInv'
<1> DEFINE x == at[p].x  n == at[p].n
<1>1. /\ at[p].at = "watch" /\ at[p].at # "idle" /\ at[p].at \notin {"idle", "read"}
      /\ UNCHANGED <<sources, confirm>> /\ UNCHANGED <<step, remote>> /\ step' = step /\ remote' = remote
  BY DEF WatchStep
<1>2. /\ at[p] \in Goroutine /\ x \in Executions /\ n \in Numbers /\ n # Last + 1
      /\ PlaceFits(at[p], execution[x], step[x], remote[x]) /\ at[p].halts = FALSE
      /\ DoneBefore(remote[x], n)
  <2>1. DoneBefore(remote[x], n) /\ at[p].halts = FALSE
    BY <1>1, AtStep DEF PlaceFits, Forward, Goroutine
  <2> QED BY <1>1, <2>1, AtStep
<1>3. StepsKept /\ Undisturbed(p) BY <1>1, StepsSame
<1>4. ASSUME EndedThere(p, at[p].known), MarkRunning(x), UNCHANGED noted,
             Goes(p, [at[p] EXCEPT !.at = "record", !.result = remote[x][n].state])
      PROVE  RunIInv'
  <2>1. PICK result \in ClosedStates : result = remote[x][n].state BY <1>4 DEF EndedThere
  <2>0. result = "succeeded" => remote[x][n].done BY <1>1, <2>1, AtStep DEF StepFits, RemoteFits
  <2>2. PICK g : g = [at[p] EXCEPT !.at = "record", !.result = result]
    OBVIOUS
  <2>3. g \in Goroutine /\ g.at = "record" /\ g.x = x /\ g.n = n /\ g.halts = FALSE /\ g.result = result
    <3>1. result \in Statuses BY DEF Statuses
    <3> QED BY <3>1, <1>1, <1>2, <2>2 DEF Goroutine
  <2>4. Moves(p, g) BY <1>4, <2>1, <2>2, <2>3 DEF Moves, Goes, CallsAwx
  <2>5. PlaceFits(g, execution[g.x], step'[g.x], remote'[g.x])
    BY <1>1, <1>2, <2>0, <2>3 DEF PlaceFits
  <2> QED BY <1>1, <1>3, <1>4, <2>4, <2>5, TurnKeeps
<1>5. ASSUME Returns(p, "retry"), MarkRunning(x), UNCHANGED noted PROVE RunIInv'
  BY <1>1, <1>3, <1>5, ReturnKeeps
<1>6. ASSUME Refused(p), Goes(p, [at[p] EXCEPT !.at = "stop"]), UNCHANGED execution PROVE RunIInv'
  <2>1. PICK g : g = [at[p] EXCEPT !.at = "stop"]
    OBVIOUS
  <2>2. g \in Goroutine /\ g.at = "stop" /\ g.x = x /\ g.n = n /\ g.halts = FALSE
    BY <1>1, <1>2, <2>1 DEF Goroutine
  <2>3. Moves(p, g) BY <1>6, <2>1, <2>2 DEF Moves, Goes, CallsAwx
  <2>4. PlaceFits(g, execution[g.x], step'[g.x], remote'[g.x]) BY <1>2, <2>2 DEF PlaceFits, Forward
  <2>5. UNCHANGED noted \/ Trouble BY <1>6 DEF Refused
  <2> QED BY <1>1, <1>3, <1>6, <2>3, <2>4, <2>5, TurnKeeps
<1> QED BY <1>4, <1>5, <1>6 DEF WatchStep

\* What the runner said is written down.
LEMMA StepRecord == ASSUME RunIInv, NEW p \in Goroutines, RecordStep(p) PROVE RunIInv'
<1> DEFINE x == at[p].x  n == at[p].n  result == at[p].result
<1>1. /\ at[p].at = "record" /\ at[p].at # "idle" /\ at[p].at \notin {"idle", "read"} /\ at[p].at \in Forward
      /\ UNCHANGED <<sources, confirm>> /\ remote' = remote /\ UNCHANGED noted /\ UNCHANGED execution
      /\ SetStep(p, result)
  BY DEF RecordStep, Forward
<1>2. /\ x \in Executions /\ n \in Numbers /\ result \in ClosedStates /\ (result = "succeeded" => remote[x][n].done)
      /\ DoneBefore(remote[x], n)
  BY <1>1, AtStep DEF PlaceFits
<1>3. StepsKept /\ Undisturbed(p)
  <2>1. result \in StepStates \ {"queued"} BY <1>2 DEF StepStates, ClosedStates, OpenStates
  <2> QED BY <1>1, <1>2, <2>1, StepSet
<1>4. CASE result = "succeeded" /\ NextStep(p)
  <2>1. PICK g : /\ Moves(p, g)
                 /\ \A st, rem : DoneBefore(rem, n) /\ rem[n].done
                                   => PlaceFits(g, execution[g.x], st, rem)
    BY <1>1, <1>2, <1>4, ToNext
  <2>2. PlaceFits(g, execution[g.x], step'[g.x], remote'[g.x]) BY <1>1, <1>2, <1>4, <2>1 DEF Moves
  <2> QED BY <1>1, <1>3, <2>1, <2>2, TurnKeeps
<1>5. CASE result # "succeeded" /\ Finishes(p, result) BY <1>1, <1>2, <1>3, <1>5, FinishKeeps
<1> QED BY <1>4, <1>5 DEF RecordStep

\* After the last step, all are done.
LEMMA StepClose == ASSUME RunIInv, NEW p \in Goroutines, CloseRun(p) PROVE RunIInv'
<1> DEFINE x == at[p].x
<1>1. /\ at[p].at = "read" /\ at[p].at # "idle" /\ at[p].n = Last + 1
      /\ UNCHANGED <<sources, confirm>> /\ UNCHANGED <<step, remote>> /\ remote' = remote
  BY DEF CloseRun
<1>2. StepsKept /\ Undisturbed(p) BY <1>1, StepsSame
<1>3. AllDone(remote'[x])
  <2>1. DoneBefore(remote[x], Last + 1) BY <1>1, WorksOn DEF PlaceFits, Forward
  <2>2. (Last + 1) - 1 = Last BY RunbookAssumption
  <2> QED BY <1>1, <2>1, <2>2 DEF DoneBefore, AllDone, Numbers
<1>4. "succeeded" \in ClosedStates \cup {"unknown"} /\ "failed" \in ClosedStates \cup {"unknown"}
  BY DEF ClosedStates
<1>5. CASE MarkRunning(x) /\ Finishes(p, "succeeded") /\ UNCHANGED noted
  BY <1>1, <1>2, <1>3, <1>4, <1>5, FinishKeeps
<1>6. CASE Refused(p) /\ Finishes(p, "failed") /\ UNCHANGED execution
  <2>1. UNCHANGED noted \/ Trouble BY <1>6 DEF Refused
  <2> QED BY <1>1, <1>2, <1>3, <1>4, <1>6, <2>1, FinishKeeps
<1> QED BY <1>5, <1>6 DEF CloseRun

\* A job that is cancelled, or removed, has done what it did.
LEMMA RemoteEnded ==
  ASSUME NEW job \in RemoteRow, NEW n \in Numbers, RemoteFits(job, Kind[n]), job.state # "none",
         NEW new, new = (IF Kind[n] = "kubernetes" THEN Removed(job)
                         ELSE CutShort(job))
  PROVE  new \in RemoteRow /\ RemoteFits(new, Kind[n]) /\ new.launches = job.launches /\ new.done = job.done
<1>1. Kind[n] \in {"awx", "kubernetes"} /\ job.removed \in Nat /\ job.launches \in Nat
  BY RunbookAssumption DEF RemoteRow
<1>2. CASE Kind[n] = "kubernetes"
  <2>0. PICK next \in Nat : next = job.removed + 1 BY <1>1
  <2>1. new = [job EXCEPT !.state = "none", !.removed = next] BY <1>2, <2>0 DEF Removed
  <2>2. /\ new \in RemoteRow /\ new.state = "none" /\ new.removed = next
        /\ new.launches = job.launches /\ new.done = job.done
    BY <1>1, <2>1 DEF RemoteRow
  <2> QED BY <1>1, <1>2, <2>0, <2>2 DEF RemoteFits
<1>3. CASE Kind[n] = "awx"
  <2>1. PICK state : state = IF job.state = "running" THEN "cancelled" ELSE job.state
    OBVIOUS
  <2>2. state \in ClosedStates /\ (state = "succeeded" => job.state = "succeeded") /\ state # "none"
    BY <2>1 DEF RemoteRow, ClosedStates
  <2>3. new = [job EXCEPT !.state = state] BY <1>3, <2>1 DEF CutShort
  <2>4. /\ new \in RemoteRow /\ new.state = state /\ new.removed = job.removed
        /\ new.launches = job.launches /\ new.done = job.done
    BY <2>2, <2>3 DEF RemoteRow
  <2> QED BY <1>1, <1>3, <2>2, <2>4 DEF RemoteFits
<1> QED BY <1>1, <1>2, <1>3

\* A job is cancelled, or removed.
LEMMA Ended ==
  ASSUME RunIInv, NEW x \in Executions, NEW n \in Numbers, EndRemote(x, n),
         remote[x][n].state # "none", step' = step, NEW p \in Goroutines
  PROVE  StepsKept /\ Undisturbed(p)
<1>2. StepFits(step[x], remote[x], n) /\ step[x][n] \in StepRow /\ remote[x][n] \in RemoteRow
  BY DEF RunIInv, RunShape, RunSteps
<1>3. PICK job : job = IF Kind[n] = "kubernetes" THEN Removed(remote[x][n])
                       ELSE CutShort(remote[x][n])
  OBVIOUS
<1>4. RemoteFits(remote[x][n], Kind[n]) BY <1>2 DEF StepFits
<1>5. /\ job \in RemoteRow /\ RemoteFits(job, Kind[n]) /\ job.launches = remote[x][n].launches
      /\ job.done = remote[x][n].done /\ remote' = [remote EXCEPT ![x][n] = job]
  <2>1. /\ job \in RemoteRow /\ RemoteFits(job, Kind[n]) /\ job.launches = remote[x][n].launches
        /\ job.done = remote[x][n].done
    BY <1>2, <1>3, <1>4, RemoteEnded
  <2>2. remote' = [remote EXCEPT ![x][n] = job] BY <1>3 DEF EndRemote
  <2> QED BY <2>1, <2>2
<1>6. step' = [step EXCEPT ![x][n] = step[x][n]] BY DEF RunIInv, RunShape
<1>7. StepsKept
  <2>1. /\ job.launches # 0 => DoneBefore(remote[x], n)
        /\ step[x][n].state = "succeeded" => job.done
        /\ Kind[n] = "awx" /\ step[x][n].state = "queued" => job.launches = 0
    BY <1>2, <1>5 DEF StepFits
  <2> QED BY <1>2, <1>5, <1>6, <2>1, RemoteWritten
<1>8. Undisturbed(p)
  <2> SUFFICES ASSUME NEW q \in Goroutines, CallsAwx(at[q])
               PROVE  remote'[at[q].x][at[q].n].launches = 0
    BY DEF Undisturbed
  <2>1. at[q].x \in Executions /\ at[q].n \in Numbers /\ remote[at[q].x][at[q].n].launches = 0
    BY AtStep DEF CallsAwx, PlaceFits
  <2> QED BY <1>5, <2>1 DEF RunIInv, RunShape
<1> QED BY <1>7, <1>8

\* External: a Job that has ended is removed.
LEMMA StepRemoteExpires ==
  ASSUME RunIInv, NEW x \in Executions, NEW n \in Numbers, RemoteExpires(x, n)
  PROVE  RunIInv'
<1>1. /\ Kind[n] = "kubernetes" /\ remote[x][n].state \in ClosedStates /\ remote[x][n].state # "none"
      /\ remote' = [remote EXCEPT ![x][n] = Removed(@)] /\ step' = step /\ Trouble
      /\ UNCHANGED <<sources, execution, confirm, at>> /\ at' = at
  BY DEF RemoteExpires, ClosedStates
<1>2. EndRemote(x, n) BY <1>1 DEF EndRemote
<1>3. StepsKept /\ \A p \in Goroutines : Undisturbed(p)
  <2>1. ASSUME NEW p \in Goroutines PROVE StepsKept /\ Undisturbed(p) BY <1>1, <1>2, Ended
  <2> QED BY <2>1 DEF Goroutines
<1>4. \A p \in Goroutines : CallsAwx(at[p]) => remote'[at[p].x][at[p].n].launches = 0
  <2> SUFFICES ASSUME NEW p \in Goroutines, CallsAwx(at[p]) PROVE remote'[at[p].x][at[p].n].launches = 0
    OBVIOUS
  <2>1. at[p].x \in Executions /\ at[p].n \in Numbers /\ remote[at[p].x][at[p].n].launches = 0
    BY WorksOn, RunbookAssumption DEF PlaceFits, CallsAwx, Numbers
  <2>2. at[p].x # x \/ at[p].n # n BY <1>1 DEF CallsAwx
  <2> QED BY <1>1, <2>1, <2>2 DEF RunIInv, RunShape
<1>5. RowKept(x, execution[x]) /\ execution' = [execution EXCEPT ![x] = execution[x]]
  BY <1>1, <1>3, RowSameGrown DEF RunIInv, RunShape
<1>6. noted' \in NotedRow /\ noted'.queued = noted.queued /\ sources' \in SourcesRow /\ confirm' = confirm
  BY <1>1, NotesTyped DEF RunIInv, RunShape
<1> QED BY <1>1, <1>3, <1>4, <1>5, <1>6, StayKeeps

\* A step is stopped on its runner, or cannot be.
LEMMA StepStop == ASSUME RunIInv, NEW p \in Goroutines, StopStep(p) PROVE RunIInv'
<1> DEFINE x == at[p].x  n == at[p].n
<1>1. /\ at[p].at = "stop" /\ at[p].at # "idle" /\ at[p].at \notin {"idle", "read"}
      /\ UNCHANGED <<sources, confirm>> /\ UNCHANGED <<sources, execution, confirm, noted>>
      /\ step' = step /\ UNCHANGED noted /\ UNCHANGED execution
  BY DEF StopStep
<1>2. /\ at[p] \in Goroutine /\ x \in Executions /\ n \in Numbers /\ n # Last + 1
      /\ PlaceFits(at[p], execution[x], step[x], remote[x])
  BY <1>1, AtStep
<1>3. ASSUME UNCHANGED remote \/ (remote[x][n].state # "none" /\ EndRemote(x, n))
      PROVE  StepsKept /\ Undisturbed(p)
  BY <1>1, <1>2, <1>3, Ended, StepsSame
<1>4. ASSUME NEW state \in {"cancelled", "unknown"}, NEW known \in Nat, StepsKept, Undisturbed(p),
             Goes(p, [at[p] EXCEPT !.at = "save", !.state = state, !.known = known])
      PROVE  RunIInv'
  <2>1. PICK g : g = [at[p] EXCEPT !.at = "save", !.state = state, !.known = known]
    OBVIOUS
  <2>2. /\ g \in Goroutine /\ g.at = "save" /\ g.x = x /\ g.n = n /\ g.halts = at[p].halts
        /\ g.state = state /\ g.result = at[p].result
    <3>1. state \in StepStates BY DEF StepStates, ClosedStates, OpenStates
    <3> QED BY <3>1, <1>1, <1>2, <2>1 DEF Goroutine
  <2>3. Moves(p, g) BY <1>4, <2>1, <2>2 DEF Moves, Goes, CallsAwx
  <2>4. PlaceFits(g, execution[g.x], step'[g.x], remote'[g.x]) BY <1>2, <2>2 DEF PlaceFits, Forward
  <2> QED BY <1>1, <1>4, <2>3, <2>4, TurnKeeps
<1>5. ASSUME Finishes(p, "unknown"), UNCHANGED remote PROVE RunIInv'
  BY <1>1, <1>3, <1>5, FinishKeeps
<1>6. ASSUME HaltsNext(p, "unknown"), UNCHANGED remote PROVE RunIInv'
  BY <1>1, <1>2, <1>3, <1>6, HaltKeeps
<1>7. PICK id \in Nat :
        id = IF at[p].known = 0
             THEN IF Kind[n] = "kubernetes" /\ remote[x][n].state # "none" THEN remote[x][n].launches ELSE 0
             ELSE at[p].known
  <2>1. remote[x][n].launches \in Nat /\ at[p].known \in Nat
    BY <1>1, AtStep DEF RemoteRow, Goroutine
  <2> QED BY <2>1
<1>8. PICK one \in {"cancelled", "unknown"} : one = IF Kind[n] = "kubernetes" THEN "cancelled" ELSE "unknown"
  OBVIOUS
<1>9. ASSUME \/ Goes(p, [at[p] EXCEPT !.at = "save", !.state = one, !.known = id])
             \/ Goes(p, [at[p] EXCEPT !.at = "save", !.state = "cancelled", !.known = id])
             \/ Goes(p, [at[p] EXCEPT !.at = "save", !.state = "unknown", !.known = id]),
             UNCHANGED remote \/ (remote[x][n].state # "none" /\ EndRemote(x, n))
      PROVE  RunIInv'
  BY <1>3, <1>4, <1>9
<1> QED BY <1>5, <1>6, <1>7, <1>8, <1>9 DEF StopStep

\* What became of a stopped step is written down.
LEMMA StepSave == ASSUME RunIInv, NEW p \in Goroutines, SaveStop(p) PROVE RunIInv'
<1> DEFINE x == at[p].x  n == at[p].n
           worse == IF at[p].state = "unknown" \/ at[p].result = "unknown" THEN "unknown" ELSE at[p].result
           end == IF at[p].result = "failed" /\ at[p].state = "cancelled" THEN "failed" ELSE at[p].state
           saved == IF at[p].known = 0 /\ Kind[n] = "kubernetes" THEN step[x][n].external ELSE at[p].known
<1>1. /\ at[p].at = "save" /\ at[p].at # "idle" /\ at[p].at \notin {"idle", "read"}
      /\ UNCHANGED <<sources, confirm>> /\ UNCHANGED <<sources, execution, confirm, noted>>
      /\ remote' = remote /\ UNCHANGED noted /\ UNCHANGED execution
      /\ step' = [step EXCEPT ![x][n] = [state |-> at[p].state, external |-> saved]]
      /\ IF at[p].halts THEN HaltsNext(p, worse) ELSE Finishes(p, end)
  BY DEF SaveStop
<1>2. /\ at[p] \in Goroutine /\ x \in Executions /\ n \in Numbers /\ at[p].state \in {"cancelled", "unknown"}
      /\ at[p].halts => at[p].result \in {"cancelled", "unknown"}
  BY <1>1, AtStep DEF PlaceFits
<1>3. PICK external \in Nat : external = saved
  <2>1. at[p].known \in Nat /\ step[x][n].external \in Nat BY <1>1, AtStep DEF Goroutine, StepRow
  <2> QED BY <2>1
<1>4. PICK row : row = [state |-> at[p].state, external |-> external]
  OBVIOUS
<1>5. row \in StepRow /\ row.state \in {"cancelled", "unknown"}
  BY <1>2, <1>4 DEF StepRow, StepStates, ClosedStates, OpenStates
<1>6. step' = [step EXCEPT ![x][n] = row] BY <1>1, <1>3, <1>4
<1>7. StepsKept /\ Undisturbed(p) BY <1>1, <1>2, <1>5, <1>6, StepWritten
<1>8. CASE at[p].halts
  <2>1. worse \in {"cancelled", "unknown"} /\ HaltsNext(p, worse) BY <1>1, <1>2, <1>8
  <2> HIDE DEF worse
  <2> QED BY <1>1, <1>2, <1>7, <2>1, HaltKeeps
<1>9. CASE ~at[p].halts
  <2>1. end \in ClosedStates \cup {"unknown"} /\ end # "succeeded" /\ Finishes(p, end)
    BY <1>1, <1>2, <1>9 DEF ClosedStates
  <2> HIDE DEF end
  <2> QED BY <1>1, <1>7, <2>1, FinishKeeps
<1> QED BY <1>8, <1>9

\* haltRunbookExecution.
LEMMA StepHalt == ASSUME RunIInv, NEW p \in Goroutines, HaltStep(p) PROVE RunIInv'
<1> DEFINE x == at[p].x  n == at[p].n  row == step[x][n]
<1>1. /\ at[p].at = "halt" /\ at[p].at # "idle" /\ at[p].at \notin {"idle", "read"}
      /\ UNCHANGED <<sources, confirm>> /\ UNCHANGED <<sources, execution, confirm, noted>>
      /\ remote' = remote /\ UNCHANGED noted /\ UNCHANGED execution
  BY DEF HaltStep
<1>2. /\ at[p] \in Goroutine /\ x \in Executions /\ n \in Numbers /\ n # Last + 1 /\ row \in StepRow
      /\ PlaceFits(at[p], execution[x], step[x], remote[x]) /\ at[p].result \in {"cancelled", "unknown"}
  <2>1. at[p].result \in {"cancelled", "unknown"} BY <1>1, AtStep DEF PlaceFits
  <2> QED BY <1>1, <2>1, AtStep
<1>3. ASSUME step' = step PROVE StepsKept /\ Undisturbed(p) BY <1>1, <1>3, StepsSame
<1>4. CASE Goes(p, [at[p] EXCEPT !.at = "stop", !.known = row.external]) /\ UNCHANGED step
  <2>1. PICK known \in Nat : known = row.external BY <1>2 DEF StepRow
  <2>2. PICK g : g = [at[p] EXCEPT !.at = "stop", !.known = known]
    OBVIOUS
  <2>3. /\ g \in Goroutine /\ g.at = "stop" /\ g.x = x /\ g.n = n /\ g.halts = at[p].halts
        /\ g.result = at[p].result
    BY <1>1, <1>2, <2>2 DEF Goroutine
  <2>4. Moves(p, g) BY <1>4, <2>1, <2>2, <2>3 DEF Moves, Goes, CallsAwx
  <2>5. PlaceFits(g, execution[g.x], step'[g.x], remote'[g.x])
    BY <1>1, <1>2, <2>3 DEF PlaceFits, Forward
  <2> QED BY <1>1, <1>3, <1>4, <2>4, <2>5, TurnKeeps
<1>5. CASE HaltsNext(p, at[p].result) /\ (SetStep(p, "cancelled") \/ UNCHANGED step)
  <2>1. "cancelled" \in StepStates \ {"queued"} /\ "cancelled" # "succeeded"
    BY DEF StepStates, ClosedStates, OpenStates
  <2>2. StepsKept /\ Undisturbed(p) BY <1>1, <1>2, <1>3, <1>5, <2>1, StepSet
  <2>3. PICK result \in {"cancelled", "unknown"} : result = at[p].result BY <1>2
  <2> QED BY <1>1, <1>2, <1>5, <2>2, <2>3, HaltKeeps
<1> QED BY <1>4, <1>5 DEF HaltStep

\* The result of a handler leaves its execution with a job.
LEMMA AfterJob ==
  ASSUME RunIInv, NEW p \in Goroutines, at[p].at # "idle", NEW result \in {"succeeded", "failed", "retry"}
  PROVE  /\ JobAfter(p, result) \in ExecutionRow /\ JobAfter(p, result).job # "none"
         /\ JobAfter(p, result).status = execution[at[p].x].status
         /\ JobAfter(p, result).required = execution[at[p].x].required
         /\ JobAfter(p, result).ticket = execution[at[p].x].ticket
<1>1. PICK x \in Executions : x = at[p].x BY WorksOn
<1>2. execution[x] \in ExecutionRow /\ execution[x].job # "none"
  BY <1>1, WorksOn, RowIs DEF PlaceFits
<1>3. PICK job \in {"queued", "succeeded", "failed"} : job = IF result = "retry" THEN Requeued(x) ELSE result
  BY DEF Requeued
<1>4. PICK row : row = [execution[x] EXCEPT !.holder = None, !.job = job]
  OBVIOUS
<1>5. /\ row \in ExecutionRow /\ row.job # "none" /\ row.status = execution[x].status
      /\ row.required = execution[x].required /\ row.ticket = execution[x].ticket
  BY <1>2, <1>3, <1>4 DEF ExecutionRow
<1>6. JobAfter(p, result) \in {execution[x], row} BY <1>1, <1>3, <1>4 DEF JobAfter
<1> QED BY <1>1, <1>2, <1>5, <1>6

\* The handler is through.
LEMMA IdleKeeps ==
  ASSUME RunIInv, NEW p \in Goroutines, NEW x \in Executions, NEW row, Goes(p, Idle),
         execution' = [execution EXCEPT ![x] = row], RowKept(x, row),
         UNCHANGED <<sources, step, confirm, remote, noted>>
  PROVE  RunIInv'
<1>1. at' = [at EXCEPT ![p] = Idle] /\ Idle \in Goroutine /\ Idle.at = "idle" BY IdleTyped DEF Goes
<1>2. StepsKept /\ Undisturbed(p) /\ LaunchesAlone(p, Idle) /\ PlaceKept(Idle)
  BY <1>1, StepsSame DEF LaunchesAlone, CallsAwx, PlaceKept
<1>3. sources' \in SourcesRow /\ confirm' = confirm /\ noted' \in NotedRow /\ noted'.queued = noted.queued
  BY RowIs DEF RunIInv, RunShape
<1> QED BY <1>1, <1>2, <1>3, MoveKeeps

LEMMA StepReturnRun == ASSUME RunIInv, NEW p \in Goroutines, ReturnRun(p) PROVE RunIInv'
<1>1. PICK x \in Executions, result \in {"succeeded", "failed", "retry"} : x = at[p].x /\ result = at[p].result
  BY WorksOn DEF ReturnRun, PlaceFits
<1>2. PICK row : row = JobAfter(p, result)
  OBVIOUS
<1>3. /\ row \in ExecutionRow /\ row.job # "none" /\ row.status = execution[x].status
      /\ row.required = execution[x].required /\ row.ticket = execution[x].ticket
  BY <1>1, <1>2, AfterJob DEF ReturnRun
<1>4. execution[x].job # "none" /\ RowFits(execution[x], noted.queued[x], remote[x])
  BY <1>1, WorksOn, RowIs DEF ReturnRun, PlaceFits
<1>5. RowKept(x, row) BY <1>3, <1>4 DEF RowFits, RowKept, ReturnRun
<1> QED BY <1>1, <1>2, <1>5, IdleKeeps DEF ReturnRun

\* runbookFinish: "succeeded" is only written when all is done.
LEMMA StepFinishRun == ASSUME RunIInv, NEW p \in Goroutines, FinishRun(p) PROVE RunIInv'
<1>1. PICK x \in Executions, result \in ClosedStates \cup {"unknown"} : x = at[p].x /\ result = at[p].result
  BY WorksOn DEF FinishRun, PlaceFits
<1>2. PICK answer \in {"succeeded", "failed", "retry"} : answer = IF result = "succeeded" THEN "succeeded" ELSE "failed"
  OBVIOUS
<1>3. PICK after : after = JobAfter(p, answer)
  OBVIOUS
<1>4. /\ after \in ExecutionRow /\ after.job # "none" /\ after.status = execution[x].status
      /\ after.required = execution[x].required /\ after.ticket = execution[x].ticket
  BY <1>1, <1>3, AfterJob DEF FinishRun
<1>5. PICK status : status = IF Ends(x, result) THEN result ELSE after.status
  OBVIOUS
<1>6. PICK row : row = [after EXCEPT !.status = status]
  OBVIOUS
<1>7. status \in Statuses /\ status \in {result, execution[x].status}
  BY <1>4, <1>5, RowIs DEF Statuses, OpenStates, ExecutionRow
<1>8. /\ row \in ExecutionRow /\ row.job # "none" /\ row.status = status
      /\ row.required = execution[x].required /\ row.ticket = execution[x].ticket
  BY <1>4, <1>6, <1>7 DEF ExecutionRow
<1>9. /\ execution[x].job # "none" /\ RowFits(execution[x], noted.queued[x], remote[x])
      /\ result = "succeeded" => AllDone(remote[x])
  BY <1>1, WorksOn, RowIs DEF FinishRun, PlaceFits
<1>10. RowKept(x, row)
  <2>1. result # "none" /\ remote' = remote BY DEF FinishRun, ClosedStates
  <2> QED BY <1>7, <1>8, <1>9, <2>1 DEF RowFits, RowKept
<1>11. execution' = [execution EXCEPT ![x] = row] BY <1>1, <1>2, <1>3, <1>5, <1>6 DEF FinishRun
<1> QED BY <1>1, <1>10, <1>11, IdleKeeps DEF FinishRun

\* Before anything is prepared.
LEMMA RunStarts == ASSUME RunbookInit PROVE RunIInv
<1>1. RunShape
  <2>1. FirstPlan \in Plan BY DEF FirstPlan, Plan
  <2>2. "none" \in Statuses /\ "queued" \in StepStates BY DEF Statuses, StepStates, OpenStates
  <2>3. [status |-> "none", plan |-> FirstPlan, required |-> FALSE, cancel |-> FALSE,
         ticket |-> "none", job |-> "none", holder |-> None, attempts |-> 0] \in ExecutionRow
    BY <2>1, <2>2 DEF ExecutionRow
  <2>4. [state |-> "queued", external |-> 0] \in StepRow /\ NoJob \in RemoteRow
    BY <2>2 DEF StepRow, RemoteRow, NoJob
  <2>5. sources \in SourcesRow /\ noted \in NotedRow BY <2>1 DEF RunbookInit, SourcesRow, NotedRow
  <2>6. execution \in [Executions -> ExecutionRow] /\ step \in [Executions -> [Numbers -> StepRow]]
        /\ remote \in [Executions -> [Numbers -> RemoteRow]]
    BY ONLY <2>3, <2>4, RunbookInit DEF RunbookInit
  <2>7. confirm \in [Confirmations -> Executions \cup {None}] /\ at \in [Goroutines -> Goroutine]
    BY IdleTyped DEF RunbookInit
  <2> QED BY <2>5, <2>6, <2>7 DEF RunShape
<1>2. RunRows BY DEF RunbookInit, RunRows, RowFits, OpenStates
<1>3. RunSteps BY DEF RunbookInit, RunSteps, StepFits, RemoteFits, NoJob
<1>4. RunPlaces /\ RunCalls BY IdleTyped DEF RunbookInit, RunPlaces, RunCalls, CallsAwx
<1>5. RunLocks BY DEF RunbookInit, RunLocks
<1> QED BY <1>1, <1>2, <1>3, <1>4, <1>5 DEF RunIInv

\* What people, the clock and the queue do, and what goroutines do.
RunbookMoves(p) ==
  \/ BeginRun(p) \/ CheckStep(p) \/ LaunchStep(p) \/ CallRemote(p)
  \/ PersistStep(p) \/ WatchStep(p) \/ RecordStep(p) \/ CloseRun(p)
  \/ StopStep(p) \/ SaveStop(p) \/ HaltStep(p) \/ FinishRun(p)
  \/ ReturnRun(p)

LEMMA RunStep == ASSUME RunIInv, RunbookNext PROVE RunIInv'
<1>1. ASSUME SaveRunbook \/ SaveRunner \/ SaveSettings \/ ChangeRunner \/ SwitchApprovals PROVE RunIInv'
  <2>1. (~sources.approvals) \in BOOLEAN
    OBVIOUS
  <2> QED BY <1>1, <2>1, SourcesTyped, StepAroundRun
          DEF SaveRunbook, SaveRunner, SaveSettings, ChangeRunner, SwitchApprovals
<1>2. ASSUME NEW x \in Executions,
             \/ PrepareRunbook(x) \/ SubmitApproval(x) \/ CancelExecution(x)
             \/ ResolveUncertain(x) \/ LoseRun(x) \/ Reconcile(x)
      PROVE  RunIInv'
  BY <1>2, StepPrepare, StepSubmit, StepCancelRun, StepResolve, StepLoseRun, StepReconcile
<1>3. ASSUME NEW x \in Executions,
             \/ \E outcome \in {"approved", "rejected", "cancelled"} : DecideApproval(x, outcome)
             \/ \E r \in Confirmations : BeginConfirm(r, x)
             \/ \E p \in Runners : ClaimRun(p, x)
             \/ \E n \in Numbers : RemoteEnds(x, n) \/ RemoteExpires(x, n)
      PROVE  RunIInv'
  BY <1>3, StepDecideRun, StepBeginConfirm, StepClaimRun, StepRemoteEnds, StepRemoteExpires
<1>4. ASSUME NEW r \in Confirmations, CommitConfirm(r) \/ RollbackConfirm(r) PROVE RunIInv'
  BY <1>4, StepCommitConfirm, StepRollback
<1>5. ASSUME NEW p \in Goroutines, RunbookMoves(p) PROVE RunIInv'
  BY <1>5, StepBeginRun, StepCheck, StepLaunch, StepCallRemote, StepPersist, StepWatch, StepRecord,
     StepClose, StepStop, StepSave, StepHalt, StepFinishRun, StepReturnRun DEF RunbookMoves
<1> QED BY <1>1, <1>2, <1>3, <1>4, <1>5 DEF RunbookNext, RunbookMoves

LEMMA RunStutter == ASSUME RunIInv, UNCHANGED runbookVars PROVE RunIInv'
<1>1. RunShape' /\ RunRows' /\ RunSteps' BY DEF RunIInv, runbookVars, RunShape, RunRows, RunSteps
<1>2. RunPlaces' /\ RunCalls' /\ RunLocks'
  BY DEF RunIInv, runbookVars, RunPlaces, RunCalls, RunLocks
<1> QED BY <1>1, <1>2 DEF RunIInv

\* What the invariant was for.
LEMMA RunTrue == ASSUME RunIInv PROVE RunAsApproved
<1>1. ASSUME NEW x \in Executions
      PROVE  /\ noted.queued[x] <= 1
             /\ execution[x].status = "succeeded" =>
                  /\ \A n \in Numbers : remote[x][n].done
                  /\ execution[x].required => execution[x].ticket = "consumed"
  BY RowIs DEF RowFits, AllDone
<1>2. ASSUME NEW x \in Executions, NEW n \in Numbers
      PROVE  /\ remote[x][n].launches <= (IF Kind[n] = "awx" THEN 1 ELSE 1 + remote[x][n].removed)
             /\ remote[x][n].launches > 0 => \A m \in 1 .. n - 1 : remote[x][m].done
  <2>1. StepFits(step[x], remote[x], n) /\ remote[x][n] \in RemoteRow
    BY DEF RunIInv, RunSteps, RunShape
  <2>2. remote[x][n].launches \in Nat /\ remote[x][n].removed \in Nat BY <2>1 DEF RemoteRow
  <2> QED BY <2>1, <2>2 DEF StepFits, RemoteFits, DoneBefore
<1> QED BY <1>1, <1>2 DEF RunAsApproved, LaunchedOnceInOrder, SuccessIsReal

\* The scene of the runbooks.
OpsRunInv == scene = "runbook" => RunIInv

\* Whatever is confirmed, claimed, lost, retried, refused, halted and deleted, by
\* however many goroutines: an execution is queued once; AWX runs no step twice,
\* and Kubernetes has one Job of a step at a time, a further one only after the
\* former was removed (a stop deletes it: NeverASecondJob does not hold); a step
\* is launched after a job of each step before it has succeeded; and an execution
\* is told as succeeded when a job of each of its steps has, and the approval it
\* needed is spent (confirmRunbookExecution, runRunbookStep, stopRunbookStep,
\* runbookFinish).
THEOREM RunbooksAreTrue == OperationsSpec => []RunbooksHold
<1>1. OperationsInit => OpsRunInv BY RunStarts DEF OperationsInit, OpsRunInv
<1>2. OpsRunInv /\ [OperationsNext]_operationsVars => OpsRunInv'
  <2> SUFFICES ASSUME OpsRunInv, [OperationsNext]_operationsVars, scene' = "runbook"
               PROVE  RunIInv'
    BY DEF OpsRunInv
  <2>1. scene = "runbook" /\ RunIInv BY DEF OpsRunInv, OperationsNext, operationsVars
  <2>2. RunbookNext \/ UNCHANGED runbookVars BY <2>1 DEF OperationsNext, operationsVars
  <2> QED BY <2>1, <2>2, RunStep, RunStutter
<1>3. OpsRunInv => RunbooksHold BY RunTrue DEF OpsRunInv, RunbooksHold
<1> QED BY <1>1, <1>2, <1>3, PTL DEF OperationsSpec


----------------
(* Knowledge distribution.                                                    *)

Manifests    == [version : Nat, protection : Nat, evidence : Nat]
Reviews      == [status : {"none", "pending", "approved", "rejected"}, manifest : Manifests, clock : Nat]
LeasedRow    == [status : {"none", "pending", "running", "done", "failed", "cancelled"}, attempts : Nat,
                 holder : DistWorkers \cup {"none"}, cancel : BOOLEAN]
WorldRow     == [version : Nat, published : BOOLEAN, approved : BOOLEAN, allowed : BOOLEAN, session : BOOLEAN,
                 needs : BOOLEAN, clock : Nat, protection : Nat, exports : Nat, policy : Nat,
                 closed : SUBSET {"exports", "policy"}, key : Nat, revoked : BOOLEAN]
ExportStates == {"none", "queued", "running", "ready", "failed", "cancelled", "expired"}
ExportRow    == [status : ExportStates, version : Nat, exports : Nat, blob : Nat, due : BOOLEAN, job : LeasedRow]
DistStates   == {"none", "queued", "awaiting_review", "ready", "failed", "expired", "revoked"}
DistRow      == [status : DistStates, confirmed : Nat, policy : Nat, key : Nat, due : BOOLEAN,
                 manifest : Manifests, review : Reviews, artifact : Manifests, job : LeasedRow]
ReceiverRow  == [trusts : BOOLEAN, status : {"uploading", "committed"}, copy : Manifests, bound : Manifests, items : Nat,
                 due : BOOLEAN]
DistPlace    == [at : {"idle", "start", "build", "finish", "manifest", "review", "sign"},
                 row : Dists \cup {0}, version : Nat, manifest : Manifests]
TroubleRow   == [changes : Nat, troubles : Nat]

DistShape ==
  /\ distWorld \in WorldRow /\ distRun \in ExportRow /\ distRows \in [Dists -> DistRow]
  /\ distReceiver \in ReceiverRow /\ distWorkers \in [DistWorkers -> DistPlace]
  /\ distTroubled \in TroubleRow

\* The archive is of the version that was asked for.
RunFits(run, version) ==
  /\ run.status = "none" => run = NoRun
  /\ run.blob # 0 <=> run.status = "ready"
  /\ run.status = "ready" => run.blob = run.version
  /\ run.version <= version

\* What is ready is what was confirmed and, in every part, what was approved.
Taken(row) ==
  /\ row.artifact = row.manifest /\ row.artifact.version = row.confirmed
  /\ IF row.artifact.evidence = 0 THEN row.review = NoReview
     ELSE row.review.status = "approved" /\ row.review.manifest = row.artifact
          /\ row.review.clock = row.artifact.evidence

DistRowFits(row, version) ==
  /\ row.status = "none" => row = NoDist
  /\ row.artifact # NoManifest <=> row.status = "ready"
  /\ row.status = "ready" => Taken(row)
  /\ row.confirmed <= version
  /\ row.job.attempts <= 1 /\ (row.job.status = "pending" => row.job.attempts = 0)

Undecided(rows) == {d \in Dists : rows[d].status \in {"queued", "awaiting_review"}}
WaitingFits     == IsFiniteSet(Undecided(distRows)) /\ Cardinality(Undecided(distRows)) <= MaxWaiting

\* What a goroutine carries was read no earlier than the request, and is what
\* was confirmed.
WorkFits(g, run, rows, version) ==
  /\ g.at \in {"start", "build", "finish"} => run.status # "none" /\ g.row = 0
  /\ g.at = "finish" => run.version <= g.version /\ g.version <= version
  /\ g.at \in {"manifest", "review", "sign"} => g.row \in Dists /\ rows[g.row].status # "none"
  /\ g.at \in {"review", "sign"} => g.manifest.version = rows[g.row].confirmed

\* What another installation has a copy of, or has bound, was signed here and is
\* not made again.
SignedHere(bound, rows) ==
  \E d \in Dists : rows[d].manifest = bound /\ rows[d].confirmed = bound.version
                   /\ rows[d].status \in {"ready", "expired", "revoked"}

ReceiverFits(receiver, rows) ==
  /\ receiver.copy # NoManifest => SignedHere(receiver.copy, rows)
  /\ receiver.bound # NoManifest =>
       /\ receiver.status = "committed" => receiver.items = receiver.bound.version
       /\ SignedHere(receiver.bound, rows)

AllRows == \A d \in Dists : DistRowFits(distRows[d], distWorld.version)
AllWork == \A w \in DistWorkers : WorkFits(distWorkers[w], distRun, distRows, distWorld.version)

DistIInv ==
  /\ DistShape /\ distWorld.version # 0 /\ RunFits(distRun, distWorld.version) /\ AllRows /\ WaitingFits
  /\ AllWork /\ ReceiverFits(distReceiver, distRows)


----------------
(* The leased job of a row.                                                   *)

JobFits(job) == job.attempts <= 1 /\ (job.status = "pending" => job.attempts = 0)

LEMMA JobsTyped == Unqueued \in LeasedRow /\ NewJob \in LeasedRow /\ JobFits(Unqueued) /\ JobFits(NewJob)
<1>1. Unqueued \in LeasedRow /\ Unqueued.attempts = 0 /\ Unqueued.status = "none"
  BY DEF Unqueued, LeasedRow
<1>2. NewJob \in LeasedRow /\ NewJob.attempts = 0 BY <1>1 DEF NewJob, LeasedRow
<1> QED BY <1>1, <1>2 DEF JobFits

LEMMA JobClaimed ==
  ASSUME NEW w \in DistWorkers, NEW job \in LeasedRow
  PROVE  /\ ClaimedBy(job, w) \in LeasedRow
         /\ JobFits(job) /\ MayClaim(job) => JobFits(ClaimedBy(job, w))
<1>1. PICK attempts \in Nat : attempts = job.attempts + 1 BY DEF LeasedRow
<1>2. PICK claimed : claimed = [job EXCEPT !.status = "running", !.attempts = attempts, !.holder = w]
  OBVIOUS
<1>3. claimed \in LeasedRow /\ claimed.status = "running" /\ claimed.attempts = attempts
  BY <1>2 DEF LeasedRow
<1>4. ClaimedBy(job, w) = claimed BY <1>1, <1>2 DEF ClaimedBy
<1> QED BY <1>1, <1>3, <1>4 DEF JobFits, MayClaim, LeasedRow

LEMMA JobEnds ==
  ASSUME NEW w, NEW job \in LeasedRow, NEW result \in {"done", "failed", "retry"}, NEW limit
  PROVE  /\ JobSettled(job, w, result, limit) \in LeasedRow
         /\ JobFits(job) /\ result # "retry" => JobFits(JobSettled(job, w, result, limit))
<1>1. PICK status \in {"pending", "done", "failed", "cancelled"} :
        /\ status = IF job.cancel THEN "cancelled" ELSE IF result = "retry" THEN Retried(job, limit) ELSE result
        /\ result # "retry" => status # "pending"
  BY DEF Retried
<1>2. PICK ended : ended = [job EXCEPT !.holder = "none", !.status = status]
  OBVIOUS
<1>3. ended \in LeasedRow /\ ended.attempts = job.attempts /\ ended.status = status
  BY <1>2 DEF LeasedRow
<1>4. JobSettled(job, w, result, limit) \in {job, ended} BY <1>1, <1>2 DEF JobSettled
<1> QED BY <1>1, <1>3, <1>4 DEF JobFits

LEMMA JobIsLost ==
  ASSUME NEW job \in LeasedRow, NEW limit
  PROVE  /\ JobLapsed(job, limit) \in LeasedRow
         /\ JobFits(job) => JobFits(JobLapsed(job, 1))
<1>1. ASSUME NEW most PROVE /\ JobLapsed(job, most) \in LeasedRow /\ JobLapsed(job, most).attempts = job.attempts
                            /\ JobLapsed(job, most).status = "pending" => job.attempts < most
  <2>1. PICK status \in {"pending", "failed", "cancelled"} :
          /\ status = IF job.cancel THEN "cancelled" ELSE Retried(job, most)
          /\ status = "pending" => job.attempts < most
    BY DEF Retried
  <2>2. PICK lapsed : lapsed = [job EXCEPT !.holder = "none", !.status = status]
    OBVIOUS
  <2>3. lapsed \in LeasedRow /\ lapsed.attempts = job.attempts /\ lapsed.status = status
    BY <2>2 DEF LeasedRow
  <2>4. JobLapsed(job, most) = lapsed BY <2>1, <2>2 DEF JobLapsed
  <2> QED BY <2>1, <2>3, <2>4
<1>2. job.attempts \in Nat BY DEF LeasedRow
<1> QED BY <1>1, <1>2 DEF JobFits

LEMMA JobIsCancelled ==
  ASSUME NEW job \in LeasedRow
  PROVE  JobCancelled(job) \in LeasedRow
<1>1. PICK cancel \in BOOLEAN : cancel = (job.cancel \/ JobIsOpen(job)) BY DEF JobIsOpen
<1>2. JobCancelled(job) = [job EXCEPT !.cancel = cancel] BY <1>1 DEF JobCancelled
<1> QED BY <1>2 DEF LeasedRow

----------------
(* What one step may do to a distribution and to what it rests on.            *)

\* A signature appears only where the request, the document and the key stand.
SignedWell(row, next) ==
  /\ distWorld.version = row.confirmed /\ distWorld.published /\ distWorld.session
  /\ distWorld.needs => distWorld.approved /\ next.artifact.evidence = distWorld.clock
  /\ row.policy = distWorld.policy /\ row.key = distWorld.key /\ ~distWorld.revoked

RowGoes(row, next) ==
  /\ next \in DistRow /\ DistRowFits(next, distWorld.version)
  /\ row.status # "none" => next.status # "none" /\ next.confirmed = row.confirmed
  /\ row.status \in {"ready", "expired", "revoked"} =>
       next.manifest = row.manifest /\ next.status \in {"ready", "expired", "revoked"}
  /\ row.status \in {"failed", "expired", "revoked"} => next.status \in {row.status, "revoked"}
  /\ row.artifact = NoManifest /\ next.artifact # NoManifest => SignedWell(row, next)

RowWaits(row, next) ==
  next.status \in {"queued", "awaiting_review"} => row.status \in {"queued", "awaiting_review"}

RunGoes(run, next) ==
  /\ next \in ExportRow /\ RunFits(next, distWorld.version)
  /\ run.status # "none" => next.status # "none" /\ next.version = run.version
  /\ run.status \in {"cancelled", "expired", "failed"} => next.status \in {run.status, "cancelled"}

ReceiverGoes(receiver, next) ==
  /\ next \in ReceiverRow /\ ReceiverFits(next, distRows)
  /\ receiver.bound # NoManifest /\ next.status # receiver.status => Trusted

WorkersMove ==
  /\ distWorkers' \in [DistWorkers -> DistPlace]
  /\ \A w \in DistWorkers : \/ distWorkers'[w] = distWorkers[w]
                            \/ WorkFits(distWorkers'[w], distRun', distRows', distWorld.version)

LEMMA DistMoves ==
  ASSUME DistIInv, distWorld' = distWorld, RunGoes(distRun, distRun'),
         distRows' \in [Dists -> DistRow], \A d \in Dists : RowGoes(distRows[d], distRows'[d]),
         WaitingFits', WorkersMove, ReceiverGoes(distReceiver, distReceiver'), distTroubled' \in TroubleRow
  PROVE  DistIInv' /\ EndedForGood
<1>1. DistShape' BY DEF DistIInv, DistShape, RunGoes, ReceiverGoes, WorkersMove
<1>2. RunFits(distRun', distWorld'.version) /\ AllRows' BY DEF RunGoes, RowGoes, AllRows
<1>3. AllWork'
  <2> SUFFICES ASSUME NEW w \in DistWorkers, distWorkers'[w] = distWorkers[w]
               PROVE  WorkFits(distWorkers'[w], distRun', distRows', distWorld.version)
    BY DEF AllWork, WorkersMove
  <2>1. WorkFits(distWorkers[w], distRun, distRows, distWorld.version) BY DEF DistIInv, AllWork
  <2>2. distRun.status # "none" => distRun'.status # "none" /\ distRun'.version = distRun.version
    BY DEF RunGoes
  <2>3. \A d \in Dists : distRows[d].status # "none" =>
          distRows'[d].status # "none" /\ distRows'[d].confirmed = distRows[d].confirmed
    BY DEF RowGoes
  <2> QED BY <2>1, <2>2, <2>3 DEF WorkFits
<1>4. ReceiverFits(distReceiver', distRows')
  <2>1. ASSUME NEW manifest, SignedHere(manifest, distRows) PROVE SignedHere(manifest, distRows')
    <3>1. PICK d \in Dists : /\ distRows[d].manifest = manifest /\ distRows[d].confirmed = manifest.version
                             /\ distRows[d].status \in {"ready", "expired", "revoked"}
      BY <2>1 DEF SignedHere
    <3>2. /\ distRows'[d].manifest = distRows[d].manifest /\ distRows'[d].confirmed = distRows[d].confirmed
          /\ distRows'[d].status \in {"ready", "expired", "revoked"}
      BY <3>1 DEF RowGoes
    <3> QED BY <3>1, <3>2 DEF SignedHere
  <2> QED BY <2>1 DEF ReceiverGoes, ReceiverFits
<1>5. EndedForGood BY DEF EndedForGood, RowGoes, SignedWell, RunGoes, ReceiverGoes
<1> QED BY <1>1, <1>2, <1>3, <1>4, <1>5 DEF DistIInv

\* What stays the same.
LEMMA DistIs ==
  ASSUME DistIInv
  PROVE  /\ RunGoes(distRun, distRun) /\ distRun \in ExportRow /\ RunFits(distRun, distWorld.version)
         /\ \A d \in Dists : /\ RowGoes(distRows[d], distRows[d]) /\ distRows[d] \in DistRow
                             /\ DistRowFits(distRows[d], distWorld.version)
                             /\ JobFits(distRows[d].job)
         /\ ReceiverGoes(distReceiver, distReceiver) /\ distReceiver \in ReceiverRow
         /\ distWorld \in WorldRow /\ distTroubled \in TroubleRow /\ distRows \in [Dists -> DistRow]
<1>1. /\ distRun \in ExportRow /\ distRows \in [Dists -> DistRow] /\ distReceiver \in ReceiverRow
      /\ distWorld \in WorldRow /\ distTroubled \in TroubleRow
  BY DEF DistIInv, DistShape
<1>2. \A d \in Dists : DistRowFits(distRows[d], distWorld.version) /\ JobFits(distRows[d].job)
  BY DEF DistIInv, AllRows, DistRowFits, JobFits
<1>3. \A d \in Dists : RowGoes(distRows[d], distRows[d]) BY <1>1, <1>2 DEF RowGoes
<1> QED BY <1>1, <1>2, <1>3 DEF DistIInv, RunGoes, ReceiverGoes

LEMMA DistTroubleTyped ==
  ASSUME DistIInv, DistTrouble \/ DistChange \/ UNCHANGED distTroubled
  PROVE  distTroubled' \in TroubleRow
  BY DistIs DEF TroubleRow, DistTrouble, DistChange

\* No more wait than did.
LEMMA WaitingShrinks ==
  ASSUME DistIInv, \A d \in Dists : RowWaits(distRows[d], distRows'[d])
  PROVE  WaitingFits'
<1>1. Undecided(distRows') \subseteq Undecided(distRows) BY DEF Undecided, RowWaits
<1>2. IsFiniteSet(Undecided(distRows)) /\ Cardinality(Undecided(distRows)) <= MaxWaiting
  BY DEF DistIInv, WaitingFits
<1>3. /\ IsFiniteSet(Undecided(distRows')) /\ Cardinality(Undecided(distRows')) <= Cardinality(Undecided(distRows))
      /\ Cardinality(Undecided(distRows')) \in Nat /\ Cardinality(Undecided(distRows)) \in Nat
  BY <1>1, <1>2, FS_Subset, FS_CardinalityType
<1>4. Cardinality(Undecided(distRows')) <= MaxWaiting BY <1>2, <1>3, DistAssumption
<1> QED BY <1>3, <1>4 DEF WaitingFits

\* A goroutine and the export move.
LEMMA RunMoves ==
  ASSUME DistIInv, NEW run, distRun' = run, RunGoes(distRun, run), UNCHANGED <<distWorld, distRows, distReceiver>>,
         WorkersMove, DistTrouble \/ DistChange \/ UNCHANGED distTroubled
  PROVE  DistIInv' /\ EndedForGood
<1>1. distRows' \in [Dists -> DistRow] /\ \A d \in Dists : RowGoes(distRows[d], distRows'[d])
  BY DistIs
<1>2. WaitingFits' /\ distTroubled' \in TroubleRow BY DistTroubleTyped DEF DistIInv, WaitingFits
<1> QED BY <1>1, <1>2, DistIs, DistMoves

\* A goroutine and a distribution move.
LEMMA RowMoves ==
  ASSUME DistIInv, NEW d \in Dists, NEW row, distRows' = [distRows EXCEPT ![d] = row],
         RowGoes(distRows[d], row), RowWaits(distRows[d], row),
         UNCHANGED <<distWorld, distRun>>, ReceiverGoes(distReceiver, distReceiver'),
         WorkersMove, DistTrouble \/ DistChange \/ UNCHANGED distTroubled
  PROVE  DistIInv' /\ EndedForGood
<1>1. /\ distRows' \in [Dists -> DistRow]
      /\ \A e \in Dists : distRows'[e] = IF e = d THEN row ELSE distRows[e]
  BY DistIs DEF RowGoes
<1>2. \A e \in Dists : RowGoes(distRows[e], distRows'[e]) /\ RowWaits(distRows[e], distRows'[e])
  BY <1>1, DistIs DEF RowWaits
<1>3. WaitingFits' /\ distTroubled' \in TroubleRow BY <1>2, WaitingShrinks, DistTroubleTyped
<1>4. distWorld' = distWorld /\ RunGoes(distRun, distRun') BY DistIs
<1> QED BY <1>1, <1>2, <1>3, <1>4, DistMoves


\* What a distribution rests on changes; the version of the document grows.
LEMMA WorldMoves ==
  ASSUME DistIInv, distWorld' \in WorldRow, distWorld.version <= distWorld'.version,
         UNCHANGED <<distRun, distRows, distReceiver, distWorkers>>, DistChange
  PROVE  DistIInv' /\ EndedForGood
<1>1. DistShape' BY DistTroubleTyped DEF DistIInv, DistShape
<1>2. distWorld.version \in Nat /\ distWorld'.version \in Nat BY DistIs DEF WorldRow
<1>3. RunFits(distRun', distWorld'.version)
  <2>1. distRun.version \in Nat BY DistIs DEF ExportRow
  <2> QED BY <1>2, <2>1 DEF DistIInv, RunFits
<1>4. AllRows'
  <2> SUFFICES ASSUME NEW d \in Dists PROVE DistRowFits(distRows[d], distWorld'.version)
    BY DEF AllRows
  <2>1. distRows[d].confirmed \in Nat /\ DistRowFits(distRows[d], distWorld.version)
    BY DistIs DEF DistRow
  <2> QED BY <1>2, <2>1 DEF DistRowFits
<1>5. AllWork'
  <2> SUFFICES ASSUME NEW w \in DistWorkers
               PROVE  WorkFits(distWorkers[w], distRun, distRows, distWorld'.version)
    BY DEF AllWork
  <2>1. distWorkers[w].version \in Nat /\ WorkFits(distWorkers[w], distRun, distRows, distWorld.version)
    BY DEF DistIInv, DistShape, DistPlace, AllWork
  <2> QED BY <1>2, <2>1 DEF WorkFits
<1>6. WaitingFits' /\ ReceiverFits(distReceiver', distRows') BY DEF DistIInv, WaitingFits
<1>7. EndedForGood BY DEF EndedForGood
<1>8. distWorld'.version # 0 BY <1>2 DEF DistIInv
<1> QED BY <1>1, <1>3, <1>4, <1>5, <1>6, <1>7, <1>8 DEF DistIInv

\* The document, the approval policy, the protection and the rights.
LEMMA StepChangeWorld == ASSUME DistIInv, ChangeWorld PROVE DistIInv' /\ EndedForGood
<1>1. distWorld \in WorldRow BY DistIs
<1>2. distWorld.version \in Nat /\ distWorld.clock \in Nat /\ distWorld.protection \in Nat
      /\ distWorld.needs \in BOOLEAN /\ distWorld.allowed \in BOOLEAN
  BY <1>1 DEF WorldRow
<1>3. PICK version \in Nat, clock \in Nat, protection \in Nat :
        version = distWorld.version + 1 /\ clock = distWorld.clock + 1 /\ protection = distWorld.protection + 1
  BY <1>2
<1>4. PICK needs \in BOOLEAN, allowed \in BOOLEAN : needs = ~distWorld.needs /\ allowed = ~distWorld.allowed
  BY <1>2
<1>5. \/ \E published, approved \in BOOLEAN :
           distWorld' = [distWorld EXCEPT !.version = version, !.published = published, !.approved = published /\ approved]
      \/ distWorld' = [distWorld EXCEPT !.clock = clock, !.approved = FALSE]
      \/ distWorld' = [distWorld EXCEPT !.needs = needs]
      \/ distWorld' = [distWorld EXCEPT !.protection = protection]
      \/ distWorld' = [distWorld EXCEPT !.allowed = allowed]
      \/ distWorld' = [distWorld EXCEPT !.session = FALSE]
  BY <1>3, <1>4 DEF ChangeWorld
<1>6. distWorld' \in WorldRow /\ distWorld'.version \in {distWorld.version, version}
  <2>1. ASSUME NEW published \in BOOLEAN, NEW approved \in BOOLEAN,
               distWorld' = [distWorld EXCEPT !.version = version, !.published = published, !.approved = published /\ approved]
        PROVE  distWorld' \in WorldRow /\ distWorld'.version = version
    <3>1. PICK both \in BOOLEAN : both = (published /\ approved)
      OBVIOUS
    <3>2. distWorld' = [distWorld EXCEPT !.version = version, !.published = published, !.approved = both]
      BY <2>1, <3>1
    <3> QED BY ONLY <1>1, <3>2, version \in Nat, published \in BOOLEAN, both \in BOOLEAN DEF WorldRow
  <2>2. CASE \/ distWorld' = [distWorld EXCEPT !.clock = clock, !.approved = FALSE]
             \/ distWorld' = [distWorld EXCEPT !.protection = protection]
    BY <1>1, <2>2 DEF WorldRow
  <2>3. CASE \/ distWorld' = [distWorld EXCEPT !.needs = needs]
             \/ distWorld' = [distWorld EXCEPT !.allowed = allowed]
             \/ distWorld' = [distWorld EXCEPT !.session = FALSE]
    BY <1>1, <2>3 DEF WorldRow
  <2> QED BY <1>5, <2>1, <2>2, <2>3
<1>7. distWorld.version <= distWorld'.version BY <1>2, <1>3, <1>6
<1> QED BY <1>6, <1>7, WorldMoves DEF ChangeWorld

\* The settings.
LEMMA StepPutSettings ==
  ASSUME DistIInv, NEW which \in {"exports", "policy"}, NEW closed \in BOOLEAN, PutSettings(which, closed)
  PROVE  DistIInv' /\ EndedForGood
<1>1. distWorld \in WorldRow BY DistIs
<1>2. PICK exports \in Nat, policy \in Nat : exports = distWorld.exports + 1 /\ policy = distWorld.policy + 1
  BY <1>1 DEF WorldRow
<1>3. PICK shut \in SUBSET {"exports", "policy"} :
        shut = IF closed THEN distWorld.closed \cup {which} ELSE distWorld.closed \ {which}
  BY <1>1 DEF WorldRow
<1>4. \/ distWorld' = [distWorld EXCEPT !.exports = exports, !.closed = shut]
      \/ distWorld' = [distWorld EXCEPT !.policy = policy, !.closed = shut]
  BY <1>2, <1>3 DEF PutSettings
<1>5. distWorld' \in WorldRow /\ distWorld'.version = distWorld.version /\ distWorld.version \in Nat
  BY <1>1, <1>4 DEF WorldRow
<1>6. UNCHANGED <<distRun, distRows, distReceiver, distWorkers>> /\ DistChange BY DEF PutSettings
<1>7. distWorld.version <= distWorld'.version BY <1>5
<1> QED BY <1>5, <1>6, <1>7, WorldMoves

LEMMA StepKeys == ASSUME DistIInv, RevokeKey \/ CreateKey PROVE DistIInv' /\ EndedForGood
<1>1. distWorld \in WorldRow BY DistIs
<1>2. PICK key \in Nat : key = distWorld.key + 1 BY <1>1 DEF WorldRow
<1>3. \/ distWorld' = [distWorld EXCEPT !.revoked = TRUE]
      \/ distWorld' = [distWorld EXCEPT !.revoked = FALSE, !.key = key]
  BY <1>2 DEF RevokeKey, CreateKey
<1>4. distWorld' \in WorldRow /\ distWorld'.version = distWorld.version /\ distWorld.version \in Nat
  BY <1>1, <1>3 DEF WorldRow
<1> QED BY <1>4, WorldMoves DEF RevokeKey, CreateKey

\* Where the goroutines are.
LEMMA DistIdleTyped ==
  /\ DistIdle \in DistPlace /\ DistIdle.at = "idle" /\ DistIdle.row = 0 /\ NoManifest \in Manifests
  /\ DistIdle.version = 0 /\ DistIdle.manifest = NoManifest
  BY DEF DistIdle, DistPlace, Manifests, NoManifest

LEMMA WorkersStay == ASSUME DistIInv, UNCHANGED distWorkers PROVE WorkersMove
  BY DEF DistIInv, DistShape, WorkersMove

LEMMA WorkerMoves ==
  ASSUME DistIInv, NEW w \in DistWorkers, NEW g \in DistPlace, Works(w, g),
         g.at = "idle" \/ WorkFits(g, distRun', distRows', distWorld.version)
  PROVE  WorkersMove
<1>1. distWorkers' = [distWorkers EXCEPT ![w] = g] /\ distWorkers \in [DistWorkers -> DistPlace]
  BY DEF DistIInv, DistShape, Works
<1>2. WorkFits(g, distRun', distRows', distWorld.version) BY DEF WorkFits
<1> QED BY <1>1, <1>2 DEF WorkersMove

LEMMA WorkerIdles == ASSUME DistIInv, NEW w \in DistWorkers, Works(w, DistIdle) PROVE WorkersMove
  BY DistIdleTyped, WorkerMoves

LEMMA WorkIs ==
  ASSUME DistIInv, NEW w \in DistWorkers
  PROVE  distWorkers[w] \in DistPlace /\ WorkFits(distWorkers[w], distRun, distRows, distWorld.version)
  BY DEF DistIInv, DistShape, AllWork


----------------
(* The export.                                                                *)

LEMMA RunTyped ==
  ASSUME DistIInv
  PROVE  /\ distRun \in ExportRow /\ RunFits(distRun, distWorld.version) /\ distRun.job \in LeasedRow
         /\ distWorld.version \in Nat /\ distRun.version \in Nat
         /\ NoRun.status = "none" /\ NoRun.version = 0 /\ NoRun.blob = 0 /\ NoRun \in ExportRow
<1>1. distRun \in ExportRow /\ RunFits(distRun, distWorld.version) /\ distWorld \in WorldRow
  BY DistIs
<1>2. NoRun \in ExportRow BY JobsTyped DEF NoRun, ExportRow, ExportStates
<1> QED BY <1>1, <1>2 DEF ExportRow, WorldRow, NoRun

\* Only the job of the export changes, or its status to one that is no end of it.
LEMMA JobGoes ==
  ASSUME DistIInv, NEW job \in LeasedRow, NEW run, run = [distRun EXCEPT !.job = job],
         distRun.status # "none"
  PROVE  RunGoes(distRun, run)
<1>1. distRun \in ExportRow /\ RunFits(distRun, distWorld.version) BY RunTyped
<1>2. /\ run \in ExportRow /\ run.status = distRun.status /\ run.version = distRun.version
      /\ run.blob = distRun.blob
  BY <1>1 DEF ExportRow
<1> QED BY <1>1, <1>2 DEF RunFits, RunGoes

LEMMA StepCreateExport == ASSUME DistIInv, CreateExport PROVE DistIInv' /\ EndedForGood
<1>1. PICK run : run = [NoRun EXCEPT !.status = "queued", !.version = distWorld.version,
                                     !.exports = distWorld.exports, !.job = NewJob]
  OBVIOUS
<1>2. /\ run \in ExportRow /\ run.status = "queued" /\ run.version = distWorld.version /\ run.blob = 0
  <2>1. distWorld.exports \in Nat /\ distWorld.version \in Nat BY DistIs DEF WorldRow
  <2> QED BY <1>1, <2>1, RunTyped, JobsTyped DEF ExportRow, ExportStates
<1>3. distRun' = run /\ distRun.status = "none" BY <1>1, RunTyped DEF CreateExport
<1>4. RunGoes(distRun, run) BY <1>2, <1>3, RunTyped DEF RunGoes, RunFits
<1>5. WorkersMove BY WorkersStay DEF CreateExport
<1> QED BY <1>3, <1>4, <1>5, RunMoves DEF CreateExport

LEMMA StepCancelExport == ASSUME DistIInv, CancelExport PROVE DistIInv' /\ EndedForGood
<1>1. PICK job \in LeasedRow : job = JobCancelled(distRun.job) BY RunTyped, JobIsCancelled
<1>2. PICK run : run = [distRun EXCEPT !.status = "cancelled", !.blob = 0, !.job = job]
  OBVIOUS
<1>3. run \in ExportRow /\ run.status = "cancelled" /\ run.version = distRun.version /\ run.blob = 0
  BY <1>2, RunTyped DEF ExportRow, ExportStates
<1>4. distRun' = run BY <1>1, <1>2 DEF CancelExport
<1>5. RunGoes(distRun, run) BY <1>3, RunTyped DEF RunGoes, RunFits
<1>6. WorkersMove BY WorkersStay DEF CancelExport
<1> QED BY <1>4, <1>5, <1>6, RunMoves DEF CancelExport

\* A pending job is of an export that was asked for.
LEMMA StepClaimExport == ASSUME DistIInv, NEW w \in DistWorkers, ClaimExport(w) PROVE DistIInv' /\ EndedForGood
<1>1. PICK job \in LeasedRow : job = ClaimedBy(distRun.job, w) BY RunTyped, JobClaimed
<1>2. PICK done \in LeasedRow : done = JobSettled(job, w, "done", DistAttempts) BY JobEnds
<1>3. distRun.status # "none" BY RunTyped DEF RunFits, NoRun, Unqueued, MayClaim, ClaimExport
<1>4. CASE distRun.status = "ready"
  <2>1. PICK run : run = [distRun EXCEPT !.job = done]
    OBVIOUS
  <2>2. distRun' = run /\ UNCHANGED distWorkers BY <1>1, <1>2, <1>4, <2>1 DEF ClaimExport
  <2>3. RunGoes(distRun, run) /\ WorkersMove BY <1>3, <2>1, <2>2, JobGoes, WorkersStay
  <2> QED BY <2>2, <2>3, RunMoves DEF ClaimExport
<1>5. CASE distRun.status # "ready"
  <2>1. PICK run : run = [distRun EXCEPT !.job = job]
    OBVIOUS
  <2>2. PICK g : g = [DistIdle EXCEPT !.at = "start"]
    OBVIOUS
  <2>3. g \in DistPlace /\ g.at = "start" /\ g.row = 0 BY <2>2, DistIdleTyped DEF DistPlace
  <2>4. distRun' = run /\ Works(w, g) BY <1>1, <1>5, <2>1, <2>2 DEF ClaimExport
  <2>5. RunGoes(distRun, run) BY <1>3, <2>1, JobGoes
  <2>6. WorkersMove BY <1>3, <2>3, <2>4, <2>5, WorkerMoves DEF WorkFits, RunGoes
  <2> QED BY <2>4, <2>5, <2>6, RunMoves DEF ClaimExport
<1> QED BY <1>4, <1>5

\* The end of an attempt that failed.
LEMMA FailExportKeeps ==
  ASSUME DistIInv, NEW w \in DistWorkers, NEW result \in {"failed", "retry"}, FailExport(w, result),
         distRun.status # "none", UNCHANGED <<distWorld, distRows, distReceiver>>,
         DistTrouble \/ DistChange \/ UNCHANGED distTroubled
  PROVE  DistIInv' /\ EndedForGood
<1>1. PICK job \in LeasedRow : job = JobSettled(distRun.job, w, result, DistAttempts)
  BY RunTyped, JobEnds
<1>2. PICK status : status = IF distRun.status \in {"queued", "running"} THEN "failed" ELSE distRun.status
  OBVIOUS
<1>3. PICK run : run = [distRun EXCEPT !.status = status, !.job = job]
  OBVIOUS
<1>4. status \in ExportStates BY <1>2, RunTyped DEF ExportRow, ExportStates
<1>5. run \in ExportRow /\ run.status = status /\ run.version = distRun.version /\ run.blob = distRun.blob
  BY <1>3, <1>4, RunTyped DEF ExportRow
<1>6. distRun' = run /\ WorkersMove BY <1>1, <1>2, <1>3, WorkerIdles DEF FailExport
<1>7. RunGoes(distRun, run) BY <1>2, <1>5, RunTyped DEF RunGoes, RunFits
<1> QED BY <1>6, <1>7, RunMoves

LEMMA StepStartExport == ASSUME DistIInv, NEW w \in DistWorkers, StartExport(w) PROVE DistIInv' /\ EndedForGood
<1>1. /\ distWorkers[w].at = "start" /\ distRun.status # "none" /\ distWorkers[w].row = 0
      /\ distWorkers[w] \in DistPlace /\ UNCHANGED distTroubled
  BY WorkIs DEF StartExport, WorkFits
<1>2. CASE ValidRun
  <2>1. PICK status : status = IF distRun.status = "queued" THEN "running" ELSE distRun.status
    OBVIOUS
  <2>2. PICK run : run = [distRun EXCEPT !.status = status]
    OBVIOUS
  <2>3. run \in ExportRow /\ run.status = status /\ run.version = distRun.version /\ run.blob = distRun.blob
    BY <2>1, <2>2, RunTyped DEF ExportRow, ExportStates
  <2>4. PICK g : g = [distWorkers[w] EXCEPT !.at = "build"]
    OBVIOUS
  <2>5. g \in DistPlace /\ g.at = "build" /\ g.row = 0 BY <1>1, <2>4 DEF DistPlace
  <2>6. distRun' = run /\ Works(w, g) BY <1>2, <2>1, <2>2, <2>4 DEF StartExport
  <2>7. RunGoes(distRun, run) BY <1>1, <2>1, <2>3, RunTyped DEF RunGoes, RunFits
  <2>8. WorkersMove BY <1>1, <2>5, <2>6, <2>7, WorkerMoves DEF WorkFits, RunGoes
  <2> QED BY <1>1, <2>6, <2>7, <2>8, RunMoves DEF StartExport
<1>3. CASE ~ValidRun BY <1>1, <1>3, FailExportKeeps DEF StartExport
<1> QED BY <1>2, <1>3

\* The version that is read is not older than the one that was asked for.
LEMMA StepBuildExport == ASSUME DistIInv, NEW w \in DistWorkers, BuildExport(w) PROVE DistIInv' /\ EndedForGood
<1>1. /\ distWorkers[w].at = "build" /\ distRun.status # "none" /\ distWorkers[w].row = 0
      /\ distWorkers[w] \in DistPlace
  BY WorkIs DEF BuildExport, WorkFits
<1>2. CASE Works(w, [distWorkers[w] EXCEPT !.at = "finish", !.version = distWorld.version])
           /\ UNCHANGED <<distRun, distTroubled>>
  <2>1. PICK g : g = [distWorkers[w] EXCEPT !.at = "finish", !.version = distWorld.version]
    OBVIOUS
  <2>2. g \in DistPlace /\ g.at = "finish" /\ g.row = 0 /\ g.version = distWorld.version
    BY <1>1, <2>1, RunTyped DEF DistPlace
  <2>3. distRun' = distRun /\ RunGoes(distRun, distRun) BY <1>2, DistIs
  <2>4. WorkFits(g, distRun', distRows', distWorld.version)
    BY <1>1, <2>2, <2>3, RunTyped DEF WorkFits, RunFits
  <2>5. WorkersMove BY <1>2, <2>1, <2>2, <2>4, WorkerMoves
  <2> QED BY <1>2, <2>3, <2>5, RunMoves DEF BuildExport
<1>3. CASE DistTrouble /\ \E result \in {"failed", "retry"} : FailExport(w, result)
  BY <1>1, <1>3, FailExportKeeps DEF BuildExport
<1> QED BY <1>2, <1>3 DEF BuildExport

\* What is archived is what was asked for: the version is that of now, which no
\* reader can have passed.
LEMMA StepFinishExport == ASSUME DistIInv, NEW w \in DistWorkers, FinishExport(w) PROVE DistIInv' /\ EndedForGood
<1>1. /\ distWorkers[w].at = "finish" /\ distRun.status # "none" /\ distWorkers[w] \in DistPlace
      /\ distRun.version <= distWorkers[w].version /\ distWorkers[w].version <= distWorld.version
      /\ UNCHANGED distTroubled
  BY WorkIs DEF FinishExport, WorkFits
<1>2. CASE Archivable
  <2>1. PICK job \in LeasedRow : job = JobSettled(distRun.job, w, "done", DistAttempts)
    BY RunTyped, JobEnds
  <2>2. PICK run : run = [distRun EXCEPT !.status = "ready", !.blob = distWorkers[w].version, !.job = job]
    OBVIOUS
  <2>3. distWorkers[w].version = distRun.version /\ distRun.status = "running" /\ distRun.version # 0
    <3>1. distRun.version = distWorld.version /\ distRun.status = "running" /\ distWorld.version # 0
      BY <1>2 DEF Archivable, ValidRun, DistIInv
    <3>2. distWorkers[w].version \in Nat BY <1>1 DEF DistPlace
    <3> QED BY <1>1, <3>1, <3>2, RunTyped
  <2>4. run \in ExportRow /\ run.status = "ready" /\ run.version = distRun.version /\ run.blob = distRun.version
    BY <2>2, <2>3, RunTyped DEF ExportRow, ExportStates
  <2>5. distRun' = run /\ WorkersMove BY <1>2, <2>1, <2>2, WorkerIdles DEF FinishExport
  <2>6. RunGoes(distRun, run) BY <2>3, <2>4, RunTyped DEF RunGoes, RunFits
  <2> QED BY <1>1, <2>5, <2>6, RunMoves DEF FinishExport
<1>3. CASE ~Archivable BY <1>1, <1>3, FailExportKeeps DEF FinishExport
<1> QED BY <1>2, <1>3

\* expireExports.
LEMMA StepExpireExports == ASSUME DistIInv, ExpireExports PROVE DistIInv' /\ EndedForGood
<1>1. PICK late : late = IF distRun.due /\ distRun.status \in {"queued", "running"} THEN [distRun EXCEPT !.status = "cancelled"]
                         ELSE IF distRun.due /\ distRun.status = "ready" THEN [distRun EXCEPT !.status = "expired"]
                         ELSE distRun
  OBVIOUS
<1>2. /\ late \in ExportRow /\ late.version = distRun.version /\ late.job = distRun.job /\ late.blob = distRun.blob
      /\ \/ late = distRun
         \/ distRun.status \in {"queued", "running", "ready"} /\ late.status \in {"cancelled", "expired"}
  BY <1>1, RunTyped DEF ExportRow, ExportStates
<1>3. PICK job \in LeasedRow : job = JobCancelled(late.job) BY <1>2, RunTyped, JobIsCancelled
<1>4. PICK told : told = IF late.status \in {"cancelled", "expired"} THEN [late EXCEPT !.job = job, !.blob = 0] ELSE late
  OBVIOUS
<1>5. /\ told \in ExportRow /\ told.version = distRun.version /\ told.status = late.status
      /\ late.status \in {"cancelled", "expired"} => told.blob = 0
      /\ late.status \notin {"cancelled", "expired"} => told = distRun
  BY <1>2, <1>4 DEF ExportRow
<1>6. PICK run : run = IF told.status \in {"queued", "running"} /\ told.job.status \in {"failed", "cancelled"}
                       THEN [told EXCEPT !.status = told.job.status] ELSE told
  OBVIOUS
<1>7. distRun' = run BY <1>1, <1>3, <1>4, <1>6 DEF ExpireExports, Swept
<1>8. /\ run \in ExportRow /\ run.version = distRun.version /\ run.blob = told.blob
      /\ \/ run = told
         \/ told.status \in {"queued", "running"} /\ run.status \in {"failed", "cancelled"}
  BY <1>5, <1>6 DEF ExportRow, ExportStates
<1>9. RunGoes(distRun, run) BY <1>2, <1>5, <1>8, RunTyped DEF RunGoes, RunFits
<1>10. WorkersMove BY WorkersStay DEF ExpireExports
<1> QED BY <1>7, <1>9, <1>10, RunMoves DEF ExpireExports


----------------
(* The distributions.                                                         *)

LEMMA NoDistTyped ==
  /\ NoDist \in DistRow /\ NoDist.status = "none" /\ NoDist.artifact = NoManifest /\ NoDist.job = Unqueued
  /\ NoDist.review = NoReview /\ NoReview \in Reviews /\ NoReview.status = "none" /\ NoManifest \in Manifests
  /\ NoDist.confirmed = 0 /\ NoManifest.version = 0 /\ NoManifest.evidence = 0
<1>1. NoManifest \in Manifests /\ NoManifest.version = 0 /\ NoManifest.evidence = 0
  BY DEF NoManifest, Manifests
<1>2. NoReview \in Reviews /\ NoReview.status = "none" BY <1>1 DEF NoReview, Reviews
<1>3. NoDist \in DistRow BY <1>1, <1>2, JobsTyped DEF NoDist, DistRow, DistStates
<1> QED BY <1>1, <1>2, <1>3 DEF NoDist

LEMMA RowTyped ==
  ASSUME DistIInv, NEW d \in Dists
  PROVE  /\ distRows[d] \in DistRow /\ distRows[d].job \in LeasedRow /\ JobFits(distRows[d].job)
         /\ DistRowFits(distRows[d], distWorld.version) /\ distRows[d].confirmed \in Nat
         /\ distRows[d].review \in Reviews /\ distRows[d].manifest \in Manifests
         /\ distRows[d].artifact \in Manifests
  BY DistIs DEF DistRow

\* One more waits than did, where one fewer than the limit did.
LEMMA StepCreateDist ==
  ASSUME DistIInv, NEW d \in Dists, NEW confirmed \in 1 .. distWorld.version, CreateDist(d, confirmed)
  PROVE  DistIInv' /\ EndedForGood
<1>1. PICK row : row = [NoDist EXCEPT !.status = "queued", !.confirmed = confirmed, !.policy = distWorld.policy,
                          !.key = distWorld.key, !.job = NewJob]
  OBVIOUS
<1>2. distWorld.version \in Nat /\ distWorld.policy \in Nat /\ distWorld.key \in Nat
  BY DistIs DEF WorldRow
<1>3. /\ row \in DistRow /\ row.status = "queued" /\ row.artifact = NoManifest /\ row.confirmed = confirmed
      /\ row.job = NewJob
  <2>1. confirmed \in Nat BY <1>2
  <2> QED BY <1>1, <1>2, <2>1, NoDistTyped, JobsTyped DEF DistRow, DistStates
<1>4. distRows[d] = NoDist /\ distRows' = [distRows EXCEPT ![d] = row] BY <1>1 DEF CreateDist
<1>5. RowGoes(distRows[d], row)
  BY <1>2, <1>3, <1>4, JobsTyped, NoDistTyped DEF RowGoes, DistRowFits, JobFits
<1>6. /\ distRows' \in [Dists -> DistRow]
      /\ \A e \in Dists : distRows'[e] = IF e = d THEN row ELSE distRows[e]
  BY <1>3, <1>4, DistIs
<1>7. \A e \in Dists : RowGoes(distRows[e], distRows'[e]) BY <1>5, <1>6, DistIs
<1>8. WaitingFits'
  <2>1. Undecided(distRows') = Undecided(distRows) \cup {d} BY <1>3, <1>6 DEF Undecided
  <2>2. d \notin Undecided(distRows) BY <1>4, NoDistTyped DEF Undecided
  <2>3. IsFiniteSet(Undecided(distRows)) /\ Cardinality(Undecided(distRows)) < MaxWaiting
    BY DEF DistIInv, WaitingFits, CreateDist, Undecided
  <2>4. /\ IsFiniteSet(Undecided(distRows) \cup {d})
        /\ Cardinality(Undecided(distRows) \cup {d}) = Cardinality(Undecided(distRows)) + 1
        /\ Cardinality(Undecided(distRows)) \in Nat
    BY <2>2, <2>3, FS_AddElement, FS_CardinalityType
  <2>5. Cardinality(Undecided(distRows) \cup {d}) <= MaxWaiting BY <2>3, <2>4, DistAssumption
  <2> QED BY <2>1, <2>4, <2>5 DEF WaitingFits
<1>9. /\ distWorld' = distWorld /\ RunGoes(distRun, distRun') /\ ReceiverGoes(distReceiver, distReceiver')
      /\ distTroubled' \in TroubleRow /\ WorkersMove
  <2>1. distWorld' = distWorld /\ distRun' = distRun /\ distReceiver' = distReceiver
        /\ distWorkers' = distWorkers /\ distTroubled' = distTroubled
    BY DEF CreateDist
  <2> QED BY <2>1, DistIs, WorkersStay
<1> QED BY <1>6, <1>7, <1>8, <1>9, DistMoves

\* Only the job of the row changes.
LEMMA RowJob ==
  ASSUME DistIInv, NEW d \in Dists, NEW job \in LeasedRow, JobFits(job), distRows[d].status # "none",
         NEW old, RowGoes(distRows[d], old), RowWaits(distRows[d], old), old.status # "none",
         NEW row, row = [old EXCEPT !.job = job]
  PROVE  RowGoes(distRows[d], row) /\ RowWaits(distRows[d], row)
<1>1. old \in DistRow BY DEF RowGoes
<1>2. /\ row \in DistRow /\ row.status = old.status /\ row.confirmed = old.confirmed /\ row.manifest = old.manifest
      /\ row.review = old.review /\ row.artifact = old.artifact /\ row.job = job
  BY <1>1 DEF DistRow
<1>3. Taken(old) => Taken(row) BY <1>2 DEF Taken
<1>4. DistRowFits(row, distWorld.version) BY <1>2, <1>3 DEF RowGoes, DistRowFits, JobFits
<1> QED BY <1>2, <1>4 DEF RowGoes, RowWaits, SignedWell

\* The end of an attempt, with what it writes.
LEMMA EndKeeps ==
  ASSUME DistIInv, NEW w \in DistWorkers, NEW d \in Dists, NEW row, NEW result \in {"done", "failed"},
         EndDist(w, d, row, result), row.job = distRows[d].job, row.status # "none", distRows[d].status # "none",
         RowGoes(distRows[d], row), RowWaits(distRows[d], row),
         UNCHANGED <<distWorld, distRun, distReceiver>>, DistTrouble \/ DistChange \/ UNCHANGED distTroubled
  PROVE  DistIInv' /\ EndedForGood
<1>1. PICK job : job = JobSettled(row.job, w, result, 1)
  OBVIOUS
<1>2. job \in LeasedRow /\ JobFits(job) BY <1>1, RowTyped, JobEnds
<1>3. PICK next : next = [row EXCEPT !.job = job]
  OBVIOUS
<1>4. RowGoes(distRows[d], next) /\ RowWaits(distRows[d], next) BY <1>2, <1>3, RowJob
<1>5. distRows' = [distRows EXCEPT ![d] = next] /\ Works(w, DistIdle) BY <1>1, <1>3 DEF EndDist
<1>6. WorkersMove /\ UNCHANGED <<distWorld, distRun>> /\ ReceiverGoes(distReceiver, distReceiver')
  BY <1>5, WorkerIdles, DistIs
<1> QED BY <1>4, <1>5, <1>6, RowMoves

LEMMA FailKeeps ==
  ASSUME DistIInv, NEW w \in DistWorkers, NEW d \in Dists, FailDist(w, d), distRows[d].status # "none",
         UNCHANGED <<distWorld, distRun, distReceiver>>, DistTrouble \/ DistChange \/ UNCHANGED distTroubled
  PROVE  DistIInv' /\ EndedForGood
<1>1. PICK status : status = IF distRows[d].status = "queued" THEN "failed" ELSE distRows[d].status
  OBVIOUS
<1>2. PICK row : row = [distRows[d] EXCEPT !.status = status]
  OBVIOUS
<1>3. status \in DistStates BY <1>1, RowTyped DEF DistRow, DistStates
<1>4. /\ row \in DistRow /\ row.status = status /\ row.confirmed = distRows[d].confirmed
      /\ row.manifest = distRows[d].manifest /\ row.review = distRows[d].review
      /\ row.artifact = distRows[d].artifact /\ row.job = distRows[d].job
  BY <1>2, <1>3, RowTyped DEF DistRow
<1>5. DistRowFits(row, distWorld.version)
  <2>1. Taken(distRows[d]) => Taken(row) BY <1>4 DEF Taken
  <2> QED BY <1>1, <1>4, <2>1, RowTyped DEF DistRowFits
<1>6. RowGoes(distRows[d], row) /\ RowWaits(distRows[d], row)
  BY <1>1, <1>4, <1>5 DEF RowGoes, RowWaits
<1>7. EndDist(w, d, row, "failed") BY <1>1, <1>2 DEF FailDist
<1>8. row.status # "none" BY <1>1, <1>4
<1> QED BY <1>4, <1>6, <1>7, <1>8, EndKeeps

LEMMA StepClaimDist ==
  ASSUME DistIInv, NEW w \in DistWorkers, NEW d \in Dists, ClaimDist(w, d)
  PROVE  DistIInv' /\ EndedForGood
<1>1. PICK job : job = ClaimedBy(distRows[d].job, w)
  OBVIOUS
<1>2. job \in LeasedRow /\ JobFits(job) /\ distRows[d].status # "none"
  BY <1>1, RowTyped, JobClaimed, NoDistTyped DEF ClaimDist, DistRowFits, MayClaim, Unqueued
<1>3. PICK row : row = [distRows[d] EXCEPT !.job = job]
  OBVIOUS
<1>4. RowGoes(distRows[d], row) /\ RowWaits(distRows[d], row) /\ row.status = distRows[d].status /\ row.job = job
  <2>1. RowGoes(distRows[d], distRows[d]) /\ RowWaits(distRows[d], distRows[d])
    BY DistIs DEF RowWaits
  <2>2. row.status = distRows[d].status /\ row.job = job BY <1>3, RowTyped DEF DistRow
  <2> QED BY <1>2, <1>3, <2>1, <2>2, RowJob
<1>5. /\ UNCHANGED <<distWorld, distRun>> /\ ReceiverGoes(distReceiver, distReceiver')
      /\ DistTrouble \/ DistChange \/ UNCHANGED distTroubled
  BY DistIs DEF ClaimDist
<1>6. CASE row.status # "queued"
  <2>1. PICK result \in {"done", "failed"} : result = IF row.status = "ready" THEN "done" ELSE "failed"
    OBVIOUS
  <2>2. PICK ended : ended = JobSettled(job, w, result, 1)
    OBVIOUS
  <2>3. ended \in LeasedRow /\ JobFits(ended) BY <1>2, <2>2, JobEnds
  <2>4. PICK next : next = [row EXCEPT !.job = ended]
    OBVIOUS
  <2>5. RowGoes(distRows[d], next) /\ RowWaits(distRows[d], next) BY <1>2, <1>4, <2>3, <2>4, RowJob
  <2>6. distRows' = [distRows EXCEPT ![d] = next] /\ UNCHANGED distWorkers
    BY <1>1, <1>3, <1>4, <1>6, <2>1, <2>2, <2>4 DEF ClaimDist
  <2> QED BY <1>5, <2>5, <2>6, WorkersStay, RowMoves
<1>7. CASE row.status = "queued"
  <2>1. PICK g : g = [DistIdle EXCEPT !.at = "manifest", !.row = d]
    OBVIOUS
  <2>2. g \in DistPlace /\ g.at = "manifest" /\ g.row = d BY <2>1, DistIdleTyped DEF DistPlace
  <2>3. distRows' = [distRows EXCEPT ![d] = row] /\ Works(w, g)
    BY <1>1, <1>3, <1>7, <2>1 DEF ClaimDist
  <2>4. WorkFits(g, distRun', distRows', distWorld.version) BY <1>7, <2>2, <2>3, DistIs DEF WorkFits
  <2> QED BY <1>4, <1>5, <2>2, <2>3, <2>4, WorkerMoves, RowMoves
<1> QED BY <1>6, <1>7


\* What a goroutine at a distribution knows of it.
LEMMA DistWork ==
  ASSUME DistIInv, NEW w \in DistWorkers, distWorkers[w].at \in {"manifest", "review", "sign"}
  PROVE  /\ distWorkers[w] \in DistPlace /\ distWorkers[w].row \in Dists
         /\ distRows[distWorkers[w].row].status # "none" /\ distWorkers[w].manifest \in Manifests
         /\ distWorkers[w].at \in {"review", "sign"} =>
              distWorkers[w].manifest.version = distRows[distWorkers[w].row].confirmed
  BY WorkIs DEF WorkFits, DistPlace

LEMMA CurrentTyped ==
  ASSUME DistIInv
  PROVE  /\ CurrentManifest \in Manifests /\ CurrentManifest.version = distRun.blob
         /\ CurrentManifest.evidence = IF distWorld.needs THEN distWorld.clock ELSE 0
<1>1. distRun.blob \in Nat /\ distWorld.protection \in Nat /\ distWorld.clock \in Nat
  BY DistIs DEF ExportRow, WorldRow
<1> QED BY <1>1 DEF CurrentManifest, Manifests

LEMMA StepMakeManifest == ASSUME DistIInv, NEW w \in DistWorkers, MakeManifest(w) PROVE DistIInv' /\ EndedForGood
<1>1. PICK d \in Dists : d = distWorkers[w].row BY DistWork DEF MakeManifest
<1>2. /\ distWorkers[w].at = "manifest" /\ distRows[d].status # "none" /\ distWorkers[w] \in DistPlace
      /\ UNCHANGED <<distWorld, distRun, distReceiver>> /\ UNCHANGED <<distWorld, distRun>>
      /\ DistTrouble \/ UNCHANGED distTroubled
  BY <1>1, DistWork DEF MakeManifest
<1>3. CASE FailDist(w, d) BY <1>2, <1>3, FailKeeps
<1>4. CASE /\ AsConfirmed(distRows[d]) /\ UNCHANGED distRows
           /\ Works(w, [distWorkers[w] EXCEPT !.at = "review", !.manifest = CurrentManifest])
  <2>1. PICK g : g = [distWorkers[w] EXCEPT !.at = "review", !.manifest = CurrentManifest]
    OBVIOUS
  <2>2. g \in DistPlace /\ g.at = "review" /\ g.row = d /\ g.manifest = CurrentManifest
    BY <1>1, <1>2, <2>1, CurrentTyped DEF DistPlace
  <2>3. WorkFits(g, distRun', distRows', distWorld.version)
    BY <1>2, <1>4, <2>2, CurrentTyped DEF WorkFits, AsConfirmed
  <2>4. WorkersMove BY <1>4, <2>1, <2>2, <2>3, WorkerMoves
  <2>5. distRows' = [distRows EXCEPT ![d] = distRows[d]] BY <1>4, DistIs
  <2>6. /\ RowGoes(distRows[d], distRows[d]) /\ RowWaits(distRows[d], distRows[d])
        /\ ReceiverGoes(distReceiver, distReceiver')
    BY <1>2, DistIs DEF RowWaits
  <2> QED BY <1>2, <2>4, <2>5, <2>6, RowMoves
<1> QED BY <1>1, <1>3, <1>4 DEF MakeManifest

\* Before the reviewers the row takes the manifest that was confirmed.
LEMMA StepPrepareReview == ASSUME DistIInv, NEW w \in DistWorkers, PrepareReview(w) PROVE DistIInv' /\ EndedForGood
<1>1. PICK d \in Dists : d = distWorkers[w].row BY DistWork DEF PrepareReview
<1>2. /\ distWorkers[w].at = "review" /\ distRows[d].status # "none" /\ distWorkers[w] \in DistPlace
      /\ distWorkers[w].manifest \in Manifests /\ distWorkers[w].manifest.version = distRows[d].confirmed
      /\ UNCHANGED <<distWorld, distRun, distReceiver>> /\ UNCHANGED <<distWorld, distRun>>
      /\ UNCHANGED distTroubled
  BY <1>1, DistWork DEF PrepareReview
<1>3. CASE FailDist(w, d) BY <1>2, <1>3, FailKeeps
<1>4. CASE /\ distRows[d].status = "queued"
           /\ EndDist(w, d, [distRows[d] EXCEPT !.status = "awaiting_review", !.manifest = distWorkers[w].manifest], "done")
  <2>1. PICK row : row = [distRows[d] EXCEPT !.status = "awaiting_review", !.manifest = distWorkers[w].manifest]
    OBVIOUS
  <2>2. /\ row \in DistRow /\ row.status = "awaiting_review" /\ row.confirmed = distRows[d].confirmed
        /\ row.artifact = distRows[d].artifact /\ row.job = distRows[d].job
    BY <1>2, <2>1, RowTyped DEF DistRow, DistStates
  <2>3. DistRowFits(row, distWorld.version) BY <1>4, <2>2, RowTyped DEF DistRowFits
  <2>4. RowGoes(distRows[d], row) /\ RowWaits(distRows[d], row)
    BY <1>4, <2>2, <2>3 DEF RowGoes, RowWaits
  <2> QED BY <1>2, <1>4, <2>1, <2>2, <2>4, EndKeeps
<1>5. CASE Works(w, [distWorkers[w] EXCEPT !.at = "sign"]) /\ UNCHANGED distRows
  <2>1. PICK g : g = [distWorkers[w] EXCEPT !.at = "sign"]
    OBVIOUS
  <2>2. g \in DistPlace /\ g.at = "sign" /\ g.row = d /\ g.manifest = distWorkers[w].manifest
    BY <1>1, <1>2, <2>1 DEF DistPlace
  <2>3. WorkFits(g, distRun', distRows', distWorld.version) BY <1>2, <1>5, <2>2 DEF WorkFits
  <2>4. WorkersMove BY <1>5, <2>1, <2>2, <2>3, WorkerMoves
  <2>5. distRows' = [distRows EXCEPT ![d] = distRows[d]] BY <1>5, DistIs
  <2>6. /\ RowGoes(distRows[d], distRows[d]) /\ RowWaits(distRows[d], distRows[d])
        /\ ReceiverGoes(distReceiver, distReceiver')
    BY <1>2, DistIs DEF RowWaits
  <2> QED BY <1>2, <2>4, <2>5, <2>6, RowMoves
<1> QED BY <1>1, <1>3, <1>4, <1>5 DEF PrepareReview

\* The transaction of the artifact reads everything the signature rests on.
LEMMA StepSignDist == ASSUME DistIInv, NEW w \in DistWorkers, SignDist(w) PROVE DistIInv' /\ EndedForGood
<1>1. PICK d \in Dists : d = distWorkers[w].row BY DistWork DEF SignDist
<1>2. PICK manifest \in Manifests : manifest = distWorkers[w].manifest BY DistWork DEF SignDist
<1>3. /\ distWorkers[w].at = "sign" /\ distRows[d].status # "none" /\ manifest.version = distRows[d].confirmed
      /\ UNCHANGED <<distWorld, distRun, distReceiver>> /\ UNCHANGED <<distWorld, distRun>>
      /\ DistTrouble \/ UNCHANGED distTroubled
  BY <1>1, <1>2, DistWork DEF SignDist
<1>4. CASE FailDist(w, d) BY <1>3, <1>4, FailKeeps
<1>5. CASE /\ Signable(distRows[d], manifest)
           /\ EndDist(w, d, [distRows[d] EXCEPT !.status = "ready", !.manifest = manifest, !.artifact = manifest], "done")
  <2>1. PICK row : row = [distRows[d] EXCEPT !.status = "ready", !.manifest = manifest, !.artifact = manifest]
    OBVIOUS
  <2>2. /\ row \in DistRow /\ row.status = "ready" /\ row.confirmed = distRows[d].confirmed
        /\ row.artifact = manifest /\ row.manifest = manifest /\ row.review = distRows[d].review
        /\ row.job = distRows[d].job
    BY <2>1, RowTyped DEF DistRow, DistStates
  <2>3. /\ distRows[d].status = "queued" /\ CurrentManifest = manifest /\ SourcesStand
        /\ SigningStands(distRows[d]) /\ BundleApproved(distRows[d], manifest)
    BY <1>5 DEF Signable
  <2>4. manifest # NoManifest /\ manifest.version = distWorld.version
    BY <2>3, CurrentTyped, NoDistTyped, RunTyped DEF SourcesStand, RunFits
  <2>5. Taken(row)
    <3>1. CASE manifest.evidence = 0 BY <1>3, <2>2, <2>3, <3>1 DEF BundleApproved, Taken
    <3>2. CASE manifest.evidence # 0
      <4>1. /\ distRows[d].review.status = "approved" /\ distRows[d].review.manifest = manifest
            /\ distRows[d].review.clock = distWorld.clock
        BY <2>3, <3>2 DEF BundleApproved
      <4>2. manifest.evidence = distWorld.clock BY <2>3, <3>2, CurrentTyped
      <4> QED BY <1>3, <2>2, <3>2, <4>1, <4>2 DEF Taken
    <3> QED BY <3>1, <3>2
  <2>6. SignedWell(distRows[d], row)
    <3>1. distWorld.needs => distWorld.approved /\ row.artifact.evidence = distWorld.clock
      BY <2>2, <2>3, CurrentTyped DEF SourcesStand
    <3>2. /\ distWorld.version = distRows[d].confirmed /\ distWorld.published /\ distWorld.session
          /\ distRows[d].policy = distWorld.policy /\ distRows[d].key = distWorld.key /\ ~distWorld.revoked
      BY <1>3, <2>3, <2>4 DEF SourcesStand, SigningStands, KeyStands
    <3> QED BY <3>1, <3>2 DEF SignedWell
  <2>7. DistRowFits(row, distWorld.version) BY <2>2, <2>4, <2>5, RowTyped DEF DistRowFits
  <2>8. RowGoes(distRows[d], row) /\ RowWaits(distRows[d], row)
    BY <2>2, <2>3, <2>6, <2>7 DEF RowGoes, RowWaits
  <2> QED BY <1>3, <1>5, <2>1, <2>2, <2>8, EndKeeps
<1> QED BY <1>1, <1>2, <1>4, <1>5 DEF SignDist

\* A lease runs out.
LEMMA StepLoseDistWork == ASSUME DistIInv, NEW w \in DistWorkers, LoseDistWork(w) PROVE DistIInv' /\ EndedForGood
<1>1. /\ DistTrouble /\ UNCHANGED <<distWorld, distReceiver>> /\ WorkersMove
  BY WorkersStay, WorkerIdles DEF LoseDistWork
<1>2. CASE distRun' = [distRun EXCEPT !.job = JobLapsed(@, DistAttempts)] /\ UNCHANGED distRows
           /\ distRun.job.status = "running"
  <2>1. PICK job \in LeasedRow : job = JobLapsed(distRun.job, DistAttempts) BY RunTyped, JobIsLost
  <2>2. PICK run : run = [distRun EXCEPT !.job = job]
    OBVIOUS
  <2>3. distRun.status # "none" BY <1>2, RunTyped DEF RunFits, NoRun, Unqueued
  <2>4. distRun' = run /\ RunGoes(distRun, run) BY <1>2, <2>1, <2>2, <2>3, JobGoes
  <2> QED BY <1>1, <1>2, <2>4, RunMoves
<1>3. CASE /\ distWorkers[w].row # 0 /\ distRows[distWorkers[w].row].job.status = "running"
           /\ distRows' = [distRows EXCEPT ![distWorkers[w].row].job = JobLapsed(@, 1)] /\ UNCHANGED distRun
  <2>1. PICK d \in Dists : d = distWorkers[w].row BY <1>3, WorkIs DEF DistPlace
  <2>2. PICK job : job = JobLapsed(distRows[d].job, 1)
    OBVIOUS
  <2>3. job \in LeasedRow /\ JobFits(job) BY <2>2, RowTyped, JobIsLost
  <2>4. PICK row : row = [distRows[d] EXCEPT !.job = job]
    OBVIOUS
  <2>5. distRows[d].status # "none" BY <1>3, <2>1, RowTyped, NoDistTyped DEF DistRowFits, Unqueued
  <2>6. RowGoes(distRows[d], row) /\ RowWaits(distRows[d], row)
    <3>1. RowGoes(distRows[d], distRows[d]) /\ RowWaits(distRows[d], distRows[d])
      BY DistIs DEF RowWaits
    <3> QED BY <2>3, <2>4, <2>5, <3>1, RowJob
  <2>7. distRows' = [distRows EXCEPT ![d] = row] BY <1>3, <2>1, <2>2, <2>4
  <2>8. UNCHANGED <<distWorld, distRun>> /\ ReceiverGoes(distReceiver, distReceiver')
    BY <1>1, <1>3, DistIs
  <2> QED BY <1>1, <2>6, <2>7, <2>8, RowMoves
<1> QED BY <1>2, <1>3 DEF LoseDistWork


\* Only a distribution moves.
LEMMA RowAlone ==
  ASSUME DistIInv, NEW d \in Dists, NEW row, distRows' = [distRows EXCEPT ![d] = row],
         RowGoes(distRows[d], row), RowWaits(distRows[d], row),
         UNCHANGED <<distWorld, distRun, distReceiver, distWorkers>>, DistChange \/ UNCHANGED distTroubled
  PROVE  DistIInv' /\ EndedForGood
<1>1. UNCHANGED <<distWorld, distRun>> /\ UNCHANGED distWorkers /\ distReceiver' = distReceiver
  OBVIOUS
<1>2. WorkersMove /\ ReceiverGoes(distReceiver, distReceiver') BY <1>1, WorkersStay, DistIs
<1> QED BY <1>1, <1>2, RowMoves

\* A review is put again, of what the row holds.
LEMMA StepSubmitReview == ASSUME DistIInv, NEW d \in Dists, SubmitReview(d) PROVE DistIInv' /\ EndedForGood
<1>1. PICK review : review = [status |-> "pending", manifest |-> distRows[d].manifest, clock |-> distWorld.clock]
  OBVIOUS
<1>2. review \in Reviews
  <2>1. distWorld.clock \in Nat BY DistIs DEF WorldRow
  <2> QED BY <1>1, <2>1, RowTyped DEF Reviews
<1>3. PICK row : row = [distRows[d] EXCEPT !.review = review]
  OBVIOUS
<1>4. /\ row \in DistRow /\ row.status = distRows[d].status /\ row.confirmed = distRows[d].confirmed
      /\ row.manifest = distRows[d].manifest /\ row.artifact = distRows[d].artifact /\ row.job = distRows[d].job
  BY <1>2, <1>3, RowTyped DEF DistRow
<1>5. distRows[d].status = "awaiting_review" /\ distRows' = [distRows EXCEPT ![d] = row]
  BY <1>1, <1>3 DEF SubmitReview
<1>6. DistRowFits(row, distWorld.version) BY <1>4, <1>5, RowTyped DEF DistRowFits
<1>7. RowGoes(distRows[d], row) /\ RowWaits(distRows[d], row)
  BY <1>4, <1>5, <1>6 DEF RowGoes, RowWaits
<1> QED BY <1>5, <1>7, RowAlone DEF SubmitReview

\* What is ready had its review decided, or needs none: neither is pending.
LEMMA StepDecideReview ==
  ASSUME DistIInv, NEW d \in Dists, NEW decision \in {"approved", "rejected"}, DecideReview(d, decision)
  PROVE  DistIInv' /\ EndedForGood
<1>1. PICK review : review = [distRows[d].review EXCEPT !.status = decision]
  OBVIOUS
<1>2. review \in Reviews BY <1>1, RowTyped DEF Reviews
<1>3. PICK row : row = [distRows[d] EXCEPT !.review = review]
  OBVIOUS
<1>4. /\ row \in DistRow /\ row.status = distRows[d].status /\ row.confirmed = distRows[d].confirmed
      /\ row.manifest = distRows[d].manifest /\ row.artifact = distRows[d].artifact /\ row.job = distRows[d].job
  BY <1>2, <1>3, RowTyped DEF DistRow
<1>5. /\ distRows[d].status \in {"awaiting_review", "queued", "ready"} /\ distRows[d].review.status = "pending"
      /\ distRows' = [distRows EXCEPT ![d] = row]
  BY <1>1, <1>3 DEF DecideReview, Reviewable
<1>6. distRows[d].status # "ready" BY <1>5, RowTyped, NoDistTyped DEF DistRowFits, Taken
<1>7. DistRowFits(row, distWorld.version) BY <1>4, <1>5, <1>6, RowTyped DEF DistRowFits
<1>8. RowGoes(distRows[d], row) /\ RowWaits(distRows[d], row)
  BY <1>4, <1>5, <1>6, <1>7 DEF RowGoes, RowWaits
<1> QED BY <1>5, <1>8, RowAlone DEF DecideReview

LEMMA StepSignReviewed == ASSUME DistIInv, NEW d \in Dists, SignReviewed(d) PROVE DistIInv' /\ EndedForGood
<1>1. PICK row : row = [distRows[d] EXCEPT !.status = "queued", !.job = NewJob]
  OBVIOUS
<1>2. /\ row \in DistRow /\ row.status = "queued" /\ row.confirmed = distRows[d].confirmed
      /\ row.manifest = distRows[d].manifest /\ row.artifact = distRows[d].artifact /\ row.job = NewJob
  BY <1>1, RowTyped, JobsTyped DEF DistRow, DistStates
<1>3. distRows[d].status = "awaiting_review" BY DEF SignReviewed
<1>4. distRows' = [distRows EXCEPT ![d] = row] BY <1>1, DistIs DEF SignReviewed
<1>5. DistRowFits(row, distWorld.version)
  BY <1>2, <1>3, RowTyped, JobsTyped DEF DistRowFits, JobFits
<1>6. RowGoes(distRows[d], row) /\ RowWaits(distRows[d], row)
  BY <1>2, <1>3, <1>5 DEF RowGoes, RowWaits
<1> QED BY <1>4, <1>6, RowAlone DEF SignReviewed

\* A row that ends has nothing left to take away.
LEMMA RowEnds ==
  ASSUME DistIInv, NEW d \in Dists, NEW status \in {"failed", "expired", "revoked"}, distRows[d].status # "none",
         NEW row, row = [distRows[d] EXCEPT !.status = status, !.artifact = NoManifest],
         distRows[d].status \in {"failed", "expired", "revoked"} => status \in {distRows[d].status, "revoked"},
         distRows[d].status = "ready" => status # "failed"
  PROVE  RowGoes(distRows[d], row) /\ RowWaits(distRows[d], row)
<1>1. /\ row \in DistRow /\ row.status = status /\ row.confirmed = distRows[d].confirmed
      /\ row.manifest = distRows[d].manifest /\ row.artifact = NoManifest /\ row.job = distRows[d].job
  BY RowTyped, NoDistTyped DEF DistRow, DistStates
<1>2. DistRowFits(row, distWorld.version) BY <1>1, RowTyped DEF DistRowFits
<1> QED BY <1>1, <1>2 DEF RowGoes, RowWaits

LEMMA StepRevokeDist == ASSUME DistIInv, NEW d \in Dists, RevokeDist(d) PROVE DistIInv' /\ EndedForGood
<1>1. PICK row : row = [distRows[d] EXCEPT !.status = "revoked", !.artifact = NoManifest]
  OBVIOUS
<1>2. distRows[d].status # "none" /\ distRows[d].status # "revoked" BY DEF RevokeDist
<1>3. distRows' = [distRows EXCEPT ![d] = row] BY <1>1, DistIs DEF RevokeDist
<1>4. RowGoes(distRows[d], row) /\ RowWaits(distRows[d], row) BY <1>1, <1>2, RowEnds
<1> QED BY <1>3, <1>4, RowAlone DEF RevokeDist

\* expireDistributions, of each row.
LEMMA SweptGoes ==
  ASSUME DistIInv, NEW d \in Dists
  PROVE  RowGoes(distRows[d], SweptDist(distRows[d])) /\ RowWaits(distRows[d], SweptDist(distRows[d]))
<1>1. PICK gone \in BOOLEAN :
        gone = (/\ distRows[d].status \in {"queued", "awaiting_review", "ready"}
                /\ ~SigningStands(distRows[d]) \/ distRun.status # "ready" \/ distRun.due)
  OBVIOUS
<1>2. PICK ended : ended = IF gone THEN "expired"
                           ELSE IF distRows[d].status = "queued" /\ distRows[d].job.status \in {"failed", "cancelled"}
                           THEN "failed" ELSE distRows[d].status
  OBVIOUS
<1>3. PICK artifact : artifact = IF ended \in {"expired", "revoked", "failed"} THEN NoManifest ELSE distRows[d].artifact
  OBVIOUS
<1>4. SweptDist(distRows[d]) = [distRows[d] EXCEPT !.status = ended, !.artifact = artifact]
  BY <1>1, <1>2, <1>3 DEF SweptDist
<1>5. CASE ended \in {"expired", "revoked", "failed"}
  <2>1. artifact = NoManifest /\ distRows[d].status # "none" BY <1>1, <1>2, <1>3, <1>5
  <2>2. /\ distRows[d].status \in {"failed", "expired", "revoked"} => ended = distRows[d].status
        /\ distRows[d].status = "ready" => ended # "failed"
    BY <1>1, <1>2
  <2> QED BY <1>4, <1>5, <2>1, <2>2, RowEnds
<1>6. CASE ended \notin {"expired", "revoked", "failed"}
  <2>1. ended = distRows[d].status /\ artifact = distRows[d].artifact BY <1>2, <1>3, <1>6
  <2>2. SweptDist(distRows[d]) = distRows[d] BY <1>4, <2>1, RowTyped DEF DistRow
  <2> QED BY <2>2, DistIs DEF RowWaits
<1> QED BY <1>5, <1>6

LEMMA StepExpireDists == ASSUME DistIInv, ExpireDists PROVE DistIInv' /\ EndedForGood
<1>1. distRows' = [d \in Dists |-> SweptDist(distRows[d])] BY DEF ExpireDists
<1>2. \A d \in Dists : RowGoes(distRows[d], distRows'[d]) /\ RowWaits(distRows[d], distRows'[d])
  BY <1>1, SweptGoes
<1>3. distRows' \in [Dists -> DistRow] BY <1>1, <1>2 DEF RowGoes
<1>4. UNCHANGED <<distWorld, distRun, distReceiver, distWorkers, distTroubled>> BY DEF ExpireDists
<1>5. /\ distWorld' = distWorld /\ RunGoes(distRun, distRun') /\ ReceiverGoes(distReceiver, distReceiver')
      /\ distTroubled' \in TroubleRow /\ WorkersMove
  BY <1>4, DistIs, WorkersStay
<1> QED BY <1>2, <1>3, <1>5, WaitingShrinks, DistMoves

LEMMA StepTimePasses == ASSUME DistIInv, TimePasses PROVE DistIInv' /\ EndedForGood
<1>1. UNCHANGED <<distWorld, distWorkers>> /\ distWorld' = distWorld /\ UNCHANGED distWorkers /\ DistChange /\ WorkersMove
  BY WorkersStay DEF TimePasses
<1>2. CASE distRun.status # "none" /\ distRun' = [distRun EXCEPT !.due = TRUE] /\ UNCHANGED <<distRows, distReceiver>>
  <2>1. PICK run : run = [distRun EXCEPT !.due = TRUE]
    OBVIOUS
  <2>2. /\ run \in ExportRow /\ run.status = distRun.status /\ run.version = distRun.version
        /\ run.blob = distRun.blob
    BY <2>1, RunTyped DEF ExportRow
  <2>3. RunGoes(distRun, run) BY <1>2, <2>2, RunTyped DEF RunGoes, RunFits
  <2> QED BY <1>1, <1>2, <2>1, <2>3, RunMoves
<1>3. ASSUME NEW d \in Dists, distRows[d].status # "none", distRows' = [distRows EXCEPT ![d].due = TRUE],
             distReceiver' = [distReceiver EXCEPT !.due = TRUE], UNCHANGED distRun
      PROVE  DistIInv' /\ EndedForGood
  <2>1. PICK row : row = [distRows[d] EXCEPT !.due = TRUE]
    OBVIOUS
  <2>2. /\ row \in DistRow /\ row.status = distRows[d].status /\ row.confirmed = distRows[d].confirmed
        /\ row.manifest = distRows[d].manifest /\ row.review = distRows[d].review
        /\ row.artifact = distRows[d].artifact /\ row.job = distRows[d].job
    BY <2>1, RowTyped DEF DistRow
  <2>3. Taken(distRows[d]) => Taken(row) BY <2>2 DEF Taken
  <2>4. DistRowFits(row, distWorld.version) BY <1>3, <2>2, <2>3, RowTyped DEF DistRowFits
  <2>5. RowGoes(distRows[d], row) /\ RowWaits(distRows[d], row) BY <2>2, <2>4 DEF RowGoes, RowWaits
  <2>6. /\ distReceiver' \in ReceiverRow /\ distReceiver'.status = distReceiver.status
        /\ distReceiver'.bound = distReceiver.bound /\ distReceiver'.items = distReceiver.items
        /\ distReceiver'.copy = distReceiver.copy
    BY <1>3, DistIs DEF ReceiverRow
  <2>7. ReceiverGoes(distReceiver, distReceiver') BY <2>6 DEF DistIInv, ReceiverGoes, ReceiverFits
  <2> QED BY <1>1, <1>3, <2>1, <2>5, <2>7, RowMoves
<1> QED BY <1>2, <1>3 DEF TimePasses

----------------
(* The other installation.                                                    *)

LEMMA ReceiverMoves ==
  ASSUME DistIInv, NEW next, distReceiver' = next, ReceiverGoes(distReceiver, next),
         UNCHANGED <<distWorld, distRun, distRows, distWorkers>>, DistChange \/ UNCHANGED distTroubled
  PROVE  DistIInv' /\ EndedForGood
<1>1. /\ distWorld' = distWorld /\ RunGoes(distRun, distRun') /\ distRows' \in [Dists -> DistRow]
      /\ \A d \in Dists : RowGoes(distRows[d], distRows'[d]) /\ RowWaits(distRows[d], distRows'[d])
  BY DistIs DEF RowWaits
<1>2. WaitingFits' /\ distTroubled' \in TroubleRow /\ WorkersMove
  BY <1>1, WaitingShrinks, DistTroubleTyped, WorkersStay
<1> QED BY <1>1, <1>2, DistMoves

LEMMA StepCarryBundle == ASSUME DistIInv, NEW d \in Dists, CarryBundle(d) PROVE DistIInv' /\ EndedForGood
<1>1. PICK next : next = [distReceiver EXCEPT !.copy = distRows[d].artifact]
  OBVIOUS
<1>2. /\ next \in ReceiverRow /\ next.status = distReceiver.status /\ next.copy = distRows[d].artifact
      /\ next.bound = distReceiver.bound /\ next.items = distReceiver.items
  BY <1>1, DistIs, RowTyped DEF ReceiverRow
<1>3. distReceiver' = next /\ distRows[d].status = "ready" BY <1>1 DEF CarryBundle, Downloadable
<1>4. SignedHere(next.copy, distRows) BY <1>2, <1>3, RowTyped DEF SignedHere, DistRowFits, Taken
<1>5. ReceiverGoes(distReceiver, next) BY <1>2, <1>4 DEF DistIInv, ReceiverGoes, ReceiverFits
<1> QED BY <1>3, <1>5, ReceiverMoves DEF CarryBundle

LEMMA StepBindImport == ASSUME DistIInv, BindImport PROVE DistIInv' /\ EndedForGood
<1>1. PICK next : next = [distReceiver EXCEPT !.bound = distReceiver.copy]
  OBVIOUS
<1>2. /\ next \in ReceiverRow /\ next.status = distReceiver.status /\ next.bound = distReceiver.copy
      /\ next.copy = distReceiver.copy
  BY <1>1, DistIs DEF ReceiverRow
<1>3. distReceiver' = next /\ distReceiver.status = "uploading" /\ distReceiver.copy # NoManifest
  BY <1>1 DEF BindImport
<1>4. ReceiverGoes(distReceiver, next) BY <1>2, <1>3 DEF DistIInv, ReceiverGoes, ReceiverFits
<1> QED BY <1>3, <1>4, ReceiverMoves DEF BindImport

LEMMA StepUploadFiles ==
  ASSUME DistIInv, NEW version \in 1 .. 2, UploadFiles(version)
  PROVE  DistIInv' /\ EndedForGood
<1>1. PICK next : next = [distReceiver EXCEPT !.items = version]
  OBVIOUS
<1>2. /\ next \in ReceiverRow /\ next.status = distReceiver.status /\ next.bound = distReceiver.bound
      /\ next.copy = distReceiver.copy
  BY <1>1, DistIs DEF ReceiverRow
<1>3. distReceiver' = next /\ distReceiver.status = "uploading" BY <1>1 DEF UploadFiles
<1>4. ReceiverGoes(distReceiver, next) BY <1>2, <1>3 DEF DistIInv, ReceiverGoes, ReceiverFits
<1> QED BY <1>3, <1>4, ReceiverMoves DEF UploadFiles

LEMMA StepCommitImport == ASSUME DistIInv, CommitImport PROVE DistIInv' /\ EndedForGood
<1>1. PICK next : next = [distReceiver EXCEPT !.status = "committed"]
  OBVIOUS
<1>2. /\ next \in ReceiverRow /\ next.items = distReceiver.items /\ next.bound = distReceiver.bound
      /\ next.status = "committed" /\ next.copy = distReceiver.copy
  BY <1>1, DistIs DEF ReceiverRow
<1>3. /\ distReceiver' = next
      /\ distReceiver.bound # NoManifest => Trusted /\ distReceiver.items = distReceiver.bound.version
  BY <1>1 DEF CommitImport, ItemsAsSigned
<1>4. ReceiverGoes(distReceiver, next) BY <1>2, <1>3 DEF DistIInv, ReceiverGoes, ReceiverFits
<1> QED BY <1>3, <1>4, ReceiverMoves DEF CommitImport

LEMMA StepChangeTrust == ASSUME DistIInv, ChangeTrust PROVE DistIInv' /\ EndedForGood
<1>1. PICK trusts \in BOOLEAN : trusts = (~distReceiver.trusts)
  OBVIOUS
<1>2. PICK next : next = [distReceiver EXCEPT !.trusts = trusts]
  OBVIOUS
<1>3. /\ next \in ReceiverRow /\ next.items = distReceiver.items /\ next.bound = distReceiver.bound
      /\ next.status = distReceiver.status /\ next.copy = distReceiver.copy
  BY <1>2, DistIs DEF ReceiverRow
<1>4. distReceiver' = next BY <1>1, <1>2 DEF ChangeTrust
<1>5. ReceiverGoes(distReceiver, next) BY <1>3 DEF DistIInv, ReceiverGoes, ReceiverFits
<1> QED BY <1>4, <1>5, ReceiverMoves DEF ChangeTrust

----------------
(* The invariant, and what it says.                                           *)

LEMMA DistStarts == DistInit => DistIInv
<1> SUFFICES ASSUME DistInit PROVE DistIInv
  OBVIOUS
<1>1. distWorld \in WorldRow /\ distWorld.version = 1
  <2>1. PICK needs \in BOOLEAN :
          distWorld = [version |-> 1, published |-> TRUE, approved |-> needs, allowed |-> TRUE, session |-> TRUE,
                       needs |-> needs, clock |-> 1, protection |-> 1, exports |-> 1, policy |-> 1, closed |-> {},
                       key |-> 1, revoked |-> FALSE]
    BY DEF DistInit
  <2> QED BY <2>1 DEF WorldRow
<1>2. NoRun \in ExportRow /\ NoRun.status = "none" /\ NoRun.blob = 0 /\ NoRun.version = 0
  <2>1. NoRun \in ExportRow BY JobsTyped DEF NoRun, ExportRow, ExportStates
  <2> QED BY <2>1 DEF NoRun
<1>3. distRun = NoRun /\ distRows = [d \in Dists |-> NoDist] /\ distWorkers = [w \in DistWorkers |-> DistIdle]
  BY DEF DistInit
<1>4. /\ distReceiver \in ReceiverRow /\ distReceiver.bound = NoManifest /\ distReceiver.copy = NoManifest
      /\ distTroubled \in TroubleRow
  BY NoDistTyped DEF DistInit, ReceiverRow, TroubleRow
<1>5. DistShape BY <1>1, <1>2, <1>3, <1>4, NoDistTyped, DistIdleTyped DEF DistShape
<1>6. RunFits(distRun, distWorld.version) BY <1>1, <1>2, <1>3 DEF RunFits
<1>7. AllRows BY <1>1, <1>3, NoDistTyped, JobsTyped DEF AllRows, DistRowFits, JobFits
<1>8. WaitingFits
  <2>1. Undecided(distRows) = {} BY <1>3, NoDistTyped DEF Undecided
  <2> QED BY <2>1, FS_EmptySet, DistAssumption DEF WaitingFits
<1>9. AllWork BY <1>3, DistIdleTyped DEF AllWork, WorkFits
<1>10. ReceiverFits(distReceiver, distRows) BY <1>4 DEF ReceiverFits
<1> QED BY <1>1, <1>5, <1>6, <1>7, <1>8, <1>9, <1>10 DEF DistIInv

LEMMA DistStep == DistIInv /\ DistNext => DistIInv' /\ EndedForGood
<1> SUFFICES ASSUME DistIInv, DistNext PROVE DistIInv' /\ EndedForGood
  OBVIOUS
<1>1. CASE CreateExport \/ CancelExport \/ ExpireExports \/ ExpireDists \/ TimePasses
  BY <1>1, StepCreateExport, StepCancelExport, StepExpireExports, StepExpireDists, StepTimePasses
<1>2. ASSUME NEW w \in DistWorkers,
             \/ ClaimExport(w) \/ StartExport(w) \/ BuildExport(w) \/ FinishExport(w)
             \/ MakeManifest(w) \/ PrepareReview(w) \/ SignDist(w) \/ LoseDistWork(w)
      PROVE  DistIInv' /\ EndedForGood
  BY <1>2, StepClaimExport, StepStartExport, StepBuildExport, StepFinishExport, StepMakeManifest,
     StepPrepareReview, StepSignDist, StepLoseDistWork
<1>3. ASSUME NEW d \in Dists,
             \/ \E confirmed \in 1 .. distWorld.version : CreateDist(d, confirmed)
             \/ \E w \in DistWorkers : ClaimDist(w, d)
             \/ SubmitReview(d) \/ SignReviewed(d) \/ RevokeDist(d) \/ CarryBundle(d)
             \/ \E decision \in {"approved", "rejected"} : DecideReview(d, decision)
      PROVE  DistIInv' /\ EndedForGood
  BY <1>3, StepCreateDist, StepClaimDist, StepSubmitReview, StepSignReviewed, StepRevokeDist, StepCarryBundle,
     StepDecideReview
<1>4. CASE ChangeWorld \/ RevokeKey \/ CreateKey \/ ChangeTrust \/ BindImport \/ CommitImport
  BY <1>4, StepChangeWorld, StepKeys, StepChangeTrust, StepBindImport, StepCommitImport
<1>5. CASE \E which \in {"exports", "policy"}, closed \in BOOLEAN : PutSettings(which, closed)
  BY <1>5, StepPutSettings
<1>6. CASE \E version \in 1 .. 2 : UploadFiles(version) BY <1>6, StepUploadFiles
<1> QED BY <1>1, <1>2, <1>3, <1>4, <1>5, <1>6 DEF DistNext

LEMMA DistStutter == DistIInv /\ UNCHANGED distVars => DistIInv' /\ EndedForGood
<1> SUFFICES ASSUME DistIInv, UNCHANGED distVars PROVE DistIInv' /\ EndedForGood
  OBVIOUS
<1>1. /\ UNCHANGED <<distWorld, distRun, distRows, distWorkers>> /\ distReceiver' = distReceiver
      /\ UNCHANGED distTroubled
  BY DEF distVars
<1> QED BY <1>1, DistIs, ReceiverMoves

LEMMA DistTrue == DistIInv => TakenAsApproved
<1> SUFFICES ASSUME DistIInv PROVE TakenAsApproved
  OBVIOUS
<1>1. distRun.status = "ready" => distRun.blob = distRun.version BY DEF DistIInv, RunFits
<1>2. \A d \in Dists : /\ distRows[d].artifact # NoManifest <=> distRows[d].status = "ready"
                       /\ distRows[d].status = "ready" => Taken(distRows[d])
  BY DEF DistIInv, AllRows, DistRowFits
<1>3. ReceiverFits(distReceiver, distRows) BY DEF DistIInv
<1> QED BY <1>1, <1>2, <1>3 DEF TakenAsApproved, Taken, ReceiverFits, SignedHere

\* The scene of the distributions.
OpsDistInv == scene = "distribution" => DistIInv
OpsTaken   == scene = "distribution" => TakenAsApproved

\* However exports, jobs, reviews, keys, settings, the document and another
\* installation change between the transactions: what is signed is the version
\* that was confirmed and, in every part, what was approved; a signature appears
\* only while the document, its approval, the policy, the key and the session
\* stand; what has ended stays ended; and what is imported as signed was signed
\* here (executeExportJob, executeDistributionExport, distributionBundleApprovedTx,
\* finishSignedMigrationTx).
THEOREM DistributionIsTrue == OperationsSpec => DistributionHolds
<1>1. OperationsInit => OpsDistInv BY DistStarts DEF OperationsInit, OpsDistInv
<1>2. OpsDistInv /\ [OperationsNext]_operationsVars => OpsDistInv'
  <2> SUFFICES ASSUME OpsDistInv, [OperationsNext]_operationsVars, scene' = "distribution"
               PROVE  DistIInv'
    BY DEF OpsDistInv
  <2>1. scene = "distribution" /\ DistIInv BY DEF OpsDistInv, OperationsNext, operationsVars
  <2>2. DistNext \/ UNCHANGED distVars BY <2>1 DEF OperationsNext, operationsVars
  <2> QED BY <2>1, <2>2, DistStep, DistStutter
<1>3. OpsDistInv => OpsTaken BY DistTrue DEF OpsDistInv, OpsTaken
<1>4. OpsDistInv /\ OpsTaken' /\ [OperationsNext]_operationsVars
      => [scene = "distribution" => DistributionIsApproved]_distVars
  <2> SUFFICES ASSUME OpsDistInv, OpsTaken', [OperationsNext]_operationsVars,
                      ~(UNCHANGED distVars), scene = "distribution"
               PROVE  DistributionIsApproved
    OBVIOUS
  <2>1. DistNext /\ scene' = scene BY DEF OperationsNext, operationsVars
  <2>2. EndedForGood BY <2>1, DistStep DEF OpsDistInv
  <2> QED BY <2>1, <2>2 DEF DistributionIsApproved, OpsTaken
<1>5. OperationsSpec => [](OpsDistInv /\ OpsTaken) BY <1>1, <1>2, <1>3, PTL DEF OperationsSpec
<1> QED BY <1>4, <1>5, PTL DEF OperationsSpec, DistributionHolds

----------------
(* The shape of every row.                                                    *)

\* The goroutines that will still commit the step they began.
Stepping(minds) == {w \in Agents : minds[w].at \in {"turn", "commit"}}

StepsCounted(run, minds) ==
  run.step + Cardinality(Stepping(minds)) <= MaxAgentSteps + Cardinality(Agents) - 1

\* A step is begun while there are steps left, so that every goroutine may
\* still commit one of its own.
AgentRest ==
  /\ ground.troubles <= AgentTroubles /\ Len(agentJobs) <= MaxAgentJobs
  /\ agentRun.status = "none" => agentRun.job = 0
  /\ \A w \in Agents : mind[w].at = "idle" => mind[w] = NoMind
  /\ StepsCounted(agentRun, mind)

LEMMA SteppingIs ==
  ASSUME NEW minds
  PROVE  /\ IsFiniteSet(Stepping(minds)) /\ Cardinality(Stepping(minds)) \in Nat
         /\ Cardinality(Stepping(minds)) <= Cardinality(Agents) /\ Cardinality(Agents) \in Nat
<1>1. Stepping(minds) \subseteq Agents BY DEF Stepping
<1> QED BY <1>1, AgentAssumption, FS_Subset, FS_CardinalityType

\* No step is committed, and none begun.
LEMMA SameSteps ==
  ASSUME AgentShape, StepsCounted(agentRun, mind), agentRun'.step = agentRun.step,
         \A w \in Agents : mind'[w].at \in {"turn", "commit"} => mind[w].at \in {"turn", "commit"}
  PROVE  StepsCounted(agentRun', mind')
<1>1. Stepping(mind') \subseteq Stepping(mind) BY DEF Stepping
<1>2. Cardinality(Stepping(mind')) <= Cardinality(Stepping(mind)) BY <1>1, SteppingIs, FS_Subset
<1>3. agentRun.step \in Nat BY DEF AgentShape, RunRow
<1> QED BY <1>2, <1>3, SteppingIs, AgentAssumption DEF StepsCounted

\* The goroutine that goes on, and the others.
LEMMA IdleMinds ==
  ASSUME AgentShape, NEW w, NEW place, Thinks(w, place), place.at = "idle" => place = NoMind,
         \A v \in Agents : mind[v].at = "idle" => mind[v] = NoMind
  PROVE  /\ \A v \in Agents : mind'[v].at = "idle" => mind'[v] = NoMind
         /\ \A v \in Agents : mind'[v] = IF v = w THEN place ELSE mind[v]
  BY DEF AgentShape, Thinks

\* No trouble, no job, no step.
LEMMA RestStays ==
  ASSUME AgentIInv, AgentRest, UNCHANGED ground, Len(agentJobs') <= MaxAgentJobs,
         agentRun'.step = agentRun.step, agentRun'.status = "none" => agentRun'.job = 0,
         NEW w, NEW place, Thinks(w, place), place.at = "idle" => place = NoMind,
         place.at \in {"turn", "commit"} /\ w \in Agents => mind[w].at \in {"turn", "commit"}
  PROVE  AgentRest'
<1>1. /\ \A v \in Agents : mind'[v].at = "idle" => mind'[v] = NoMind
      /\ \A v \in Agents : mind'[v] = IF v = w THEN place ELSE mind[v]
  BY IdleMinds DEF AgentIInv, AgentRest
<1>2. StepsCounted(agentRun', mind') BY <1>1, SameSteps DEF AgentIInv, AgentRest
<1> QED BY <1>1, <1>2 DEF AgentRest

LEMMA RestStands ==
  ASSUME AgentIInv, AgentRest, UNCHANGED <<ground, mind>>, Len(agentJobs') <= MaxAgentJobs,
         agentRun'.step = agentRun.step, agentRun'.status = "none" => agentRun'.job = 0
  PROVE  AgentRest'
<1>1. StepsCounted(agentRun', mind') BY SameSteps DEF AgentIInv, AgentRest
<1> QED BY <1>1 DEF AgentRest

LEMMA TroubleCounted ==
  ASSUME NEW new \in Grounds, new.troubles = ground.troubles, ground \in Grounds, AgentTrouble(new)
  PROVE  ground'.troubles <= AgentTroubles
<1>1. PICK n \in Nat : n = ground.troubles + 1 /\ n <= AgentTroubles
  BY AgentAssumption DEF AgentTrouble, Grounds
<1>2. ground' = [new EXCEPT !.troubles = n] BY <1>1 DEF AgentTrouble
<1> QED BY <1>1, <1>2 DEF Grounds

LEMMA RestAround == ASSUME AgentIInv, AgentRest, Around PROVE AgentRest'
<1>1. ground \in Grounds BY DEF AgentIInv, AgentShape
<1>0. PICK allowed \in BOOLEAN : allowed = (~ground.allowed)
  OBVIOUS
<1>2. PICK revision \in Nat, version \in Nat : revision = ground.revision + 1 /\ version = ground.version + 1
  BY <1>1 DEF Grounds
<1>3. PICK new : /\ new \in {[ground EXCEPT !.revision = revision], [ground EXCEPT !.allowed = allowed],
                             [ground EXCEPT !.version = version]}
                 /\ AgentTrouble(new)
  BY <1>0, <1>2 DEF Around, SaveWorkspaceAgent, ChangeAuthority, EditReadDocument
<1>4. new \in Grounds /\ new.troubles = ground.troubles BY <1>1, <1>3 DEF Grounds
<1>5. ground'.troubles <= AgentTroubles BY <1>1, <1>3, <1>4, TroubleCounted
<1>6. UNCHANGED <<agentRun, agentJobs, mind>> BY DEF Around
<1> QED BY <1>5, <1>6 DEF AgentRest

LEMMA RestCreate == ASSUME AgentIInv, AgentRest, CreateAgentRun PROVE AgentRest'
<1>1. Len(agentJobs') = Len(agentJobs) + 1 /\ Len(agentJobs) < MaxAgentJobs /\ Len(agentJobs) \in Nat
  BY JobAppended DEF CreateAgentRun, Enqueued, AgentIInv, AgentShape
<1>2. agentRun'.step = agentRun.step /\ agentRun'.status = "pending"
  BY DEF CreateAgentRun, AgentIInv, AgentShape, RunRow
<1>3. UNCHANGED <<ground, mind>> /\ Len(agentJobs') <= MaxAgentJobs
  BY <1>1, AgentAssumption DEF CreateAgentRun
<1> QED BY <1>2, <1>3, RestStands

LEMMA RestCancel == ASSUME AgentIInv, AgentRest, CancelAgentRun PROVE AgentRest'
<1>1. agentRun.job \in DOMAIN agentJobs /\ agentJobs \in Seq(JobRow)
  BY DEF CancelAgentRun, AgentIInv, AgentShape, RunHasJob, Active
<1>2. Len(agentJobs') = Len(agentJobs) BY <1>1 DEF CancelAgentRun
<1>3. agentRun'.step = agentRun.step /\ agentRun'.status = "cancelled"
  BY DEF CancelAgentRun, AgentIInv, AgentShape, RunRow
<1> QED BY <1>2, <1>3, RestStands DEF CancelAgentRun, AgentRest

LEMMA RestDecide ==
  ASSUME AgentIInv, AgentRest, NEW n \in DOMAIN actions, NEW agrees \in BOOLEAN, DecideAgentAction(n, agrees)
  PROVE  AgentRest'
<1>1. PICK kind \in {"run", "action"}, action \in Nat : Enqueued(kind, action)
  <2>1. n \in Nat BY DEF AgentIInv, AgentShape
  <2> QED BY <2>1 DEF DecideAgentAction
<1>2. Len(agentJobs') = Len(agentJobs) + 1 /\ Len(agentJobs) < MaxAgentJobs /\ Len(agentJobs) \in Nat
  BY <1>1, JobAppended DEF Enqueued, AgentIInv, AgentShape
<1>3. agentRun'.step = agentRun.step /\ agentRun'.status = "pending"
  BY DEF DecideAgentAction, AgentIInv, AgentShape, RunRow
<1>4. UNCHANGED <<ground, mind>> /\ Len(agentJobs') <= MaxAgentJobs
  BY <1>2, AgentAssumption DEF DecideAgentAction
<1> QED BY <1>3, <1>4, RestStands

LEMMA RestClaim ==
  ASSUME AgentIInv, AgentRest, NEW w \in Agents, NEW j \in DOMAIN agentJobs, ClaimAgentJob(w, j)
  PROVE  AgentRest'
<1>1. PICK place : place = [NoMind EXCEPT !.at = "begin", !.job = j]
  OBVIOUS
<1>2. place.at = "begin" /\ Thinks(w, place) BY <1>1 DEF ClaimAgentJob, NoMind
<1>3. Len(agentJobs') = Len(agentJobs) BY DEF ClaimAgentJob, AgentIInv, AgentShape
<1> QED BY <1>2, <1>3, RestStays DEF ClaimAgentJob, AgentRest

LEMMA RestLose ==
  ASSUME AgentIInv, AgentRest, NEW j \in DOMAIN agentJobs, LoseAgentJob(j)
  PROVE  AgentRest'
<1>1. Len(agentJobs') = Len(agentJobs) /\ UNCHANGED agentRun
  BY DEF LoseAgentJob, AgentIInv, AgentShape
<1>2. ground'.troubles <= AgentTroubles BY TroubleCounted DEF LoseAgentJob, AgentIInv, AgentShape
<1>3. /\ \A v \in Agents : mind'[v].at = "idle" => mind'[v] = NoMind
      /\ \A v \in Agents : mind'[v].at \in {"turn", "commit"} => mind[v].at \in {"turn", "commit"}
  <2>1. CASE UNCHANGED mind BY <2>1 DEF AgentRest
  <2>2. CASE Thinks(agentJobs[j].holder, NoMind) BY <2>2, IdleMinds DEF AgentIInv, AgentRest, NoMind
  <2> QED BY <2>1, <2>2 DEF LoseAgentJob
<1>4. StepsCounted(agentRun', mind') BY <1>1, <1>3, SameSteps DEF AgentIInv, AgentRest
<1> QED BY <1>1, <1>2, <1>3, <1>4 DEF AgentRest

\* Where a goroutine is, its job is.
LEMMA ReleasedLength ==
  ASSUME AgentIInv, AgentRest, NEW w \in Agents, mind[w].at # "idle"
  PROVE  Len(Released(w, agentJobs)) = Len(agentJobs)
  BY JobReleased DEF AgentIInv, MindHasJob

LEMMA RestFail == ASSUME AgentIInv, AgentRest, NEW w \in Agents, FailAgentRun(w) PROVE AgentRest'
<1>1. Len(agentJobs') <= MaxAgentJobs /\ UNCHANGED ground /\ Thinks(w, NoMind)
  BY ReleasedLength DEF FailAgentRun, AgentRest
<1>2. agentRun'.step = agentRun.step /\ (agentRun'.status = "none" => agentRun'.job = 0)
  BY DEF FailAgentRun, AgentRest, AgentIInv, AgentShape, RunRow
<1> QED BY <1>1, <1>2, RestStays DEF NoMind

\* The step that is begun is one of those left.
LEMMA RestBegin == ASSUME AgentIInv, AgentRest, NEW w \in Agents, BeginAgentStep(w) PROVE AgentRest'
<1>1. PICK place : place = [mind[w] EXCEPT !.at = "turn"]
  OBVIOUS
<1>2. place.at = "turn" /\ Thinks(w, place) BY <1>1 DEF BeginAgentStep, AgentIInv, AgentShape, Minds
<1>3. \A v \in Agents : mind'[v].at = "idle" => mind'[v] = NoMind
  BY <1>2, IdleMinds DEF AgentIInv, AgentRest
<1>4. agentRun'.step = agentRun.step /\ agentRun'.status = "running" /\ agentRun.step \in Nat
  BY DEF BeginAgentStep, AgentIInv, AgentShape, RunRow
<1>5. StepsCounted(agentRun', mind')
  BY <1>4, SteppingIs, AgentAssumption DEF StepsCounted, BeginAgentStep, StepsLeft
<1> QED BY <1>3, <1>4, <1>5 DEF AgentRest, BeginAgentStep

LEMMA RestTurn ==
  ASSUME AgentIInv, AgentRest, NEW w \in Agents, NEW choice \in {"answer", "read", "propose"}, ModelTurn(w, choice)
  PROVE  AgentRest'
<1>1. PICK place : place = [mind[w] EXCEPT !.at = "commit", !.choice = choice, !.seen = ReadByTool(choice)]
  OBVIOUS
<1>2. place.at = "commit" /\ Thinks(w, place) /\ mind[w].at = "turn"
  BY <1>1 DEF ModelTurn, AgentIInv, AgentShape, Minds
<1> QED BY <1>2, RestStays DEF ModelTurn, AgentRest

\* A step that is committed was counted.
LEMMA RestCommit == ASSUME AgentIInv, AgentRest, NEW w \in Agents, CommitAgentStep(w) PROVE AgentRest'
<1>1. PICK place : /\ place \in {NoMind, [NoMind EXCEPT !.at = "begin", !.job = mind[w].job]}
                   /\ Thinks(w, place)
  BY DEF CommitAgentStep
<1>2. place.at \in {"idle", "begin"} /\ (place.at = "idle" => place = NoMind)
  <2>1. CASE place = NoMind BY <2>1 DEF NoMind
  <2>2. CASE place = [NoMind EXCEPT !.at = "begin", !.job = mind[w].job]
    <3>1. place.at = "begin" BY ONLY <2>2 DEF NoMind
    <3> QED BY <3>1
  <2> QED BY <1>1, <2>1, <2>2
<1>3. /\ \A v \in Agents : mind'[v].at = "idle" => mind'[v] = NoMind
      /\ \A v \in Agents : mind'[v] = IF v = w THEN place ELSE mind[v]
  BY <1>1, <1>2, IdleMinds DEF AgentIInv, AgentRest
<1>4. mind[w].at = "commit" /\ agentRun.step \in Nat
  BY DEF CommitAgentStep, AgentIInv, AgentShape, RunRow
<1>5. agentRun'.step = agentRun.step + 1 /\ agentRun'.status # "none"
  <2>1. /\ agentRun'.step = agentRun.step + 1
        /\ agentRun'.status = CASE mind[w].choice = "answer"  -> "succeeded"
                                [] mind[w].choice = "read"    -> "running"
                                [] mind[w].choice = "propose" -> "awaiting_confirmation"
    BY DEF CommitAgentStep, AgentIInv, AgentShape, RunRow
  <2>2. mind[w].choice \in {"answer", "read", "propose"} BY DEF AgentIInv, AgentShape, Minds
  <2> QED BY <2>1, <2>2
<1>6. StepsCounted(agentRun', mind')
  <2>1. w \in Stepping(mind) BY <1>4 DEF Stepping
  <2>2. Stepping(mind') \subseteq Stepping(mind) \ {w} BY <1>2, <1>3 DEF Stepping
  <2>3. /\ IsFiniteSet(Stepping(mind) \ {w})
        /\ Cardinality(Stepping(mind) \ {w}) = Cardinality(Stepping(mind)) - 1
    BY <2>1, SteppingIs, FS_RemoveElement
  <2>4. Cardinality(Stepping(mind')) <= Cardinality(Stepping(mind)) - 1 BY <2>2, <2>3, FS_Subset
  <2>5. /\ agentRun.step + Cardinality(Stepping(mind)) <= MaxAgentSteps + Cardinality(Agents) - 1
        /\ Cardinality(Stepping(mind)) \in Nat /\ Cardinality(Stepping(mind')) \in Nat
        /\ Cardinality(Agents) \in Nat /\ MaxAgentSteps \in Nat
    BY SteppingIs, AgentAssumption DEF StepsCounted, AgentRest
  <2> QED BY ONLY <1>4, <1>5, <2>4, <2>5 DEF StepsCounted
<1>7. Len(agentJobs') <= MaxAgentJobs /\ UNCHANGED ground
  BY <1>4, ReleasedLength DEF CommitAgentStep, AgentRest
<1> QED BY <1>3, <1>5, <1>6, <1>7 DEF AgentRest

LEMMA RestBeginAction == ASSUME AgentIInv, AgentRest, NEW w \in Agents, BeginAgentAction(w) PROVE AgentRest'
<1>1. PICK to \in {"report", "act"} : to = IF agentJobs[mind[w].job].receipt THEN "report" ELSE "act"
  OBVIOUS
<1>2. PICK place : place = [mind[w] EXCEPT !.at = to]
  OBVIOUS
<1>3. place.at = to /\ Thinks(w, place)
  BY <1>1, <1>2 DEF BeginAgentAction, AgentIInv, AgentShape, Minds
<1> QED BY <1>3, RestStays DEF BeginAgentAction, AgentRest

LEMMA RestApply == ASSUME AgentIInv, AgentRest, NEW w \in Agents, ApplyAgentAction(w) PROVE AgentRest'
<1>1. PICK place : place = [mind[w] EXCEPT !.at = "report"]
  OBVIOUS
<1>2. place.at = "report" /\ Thinks(w, place)
  BY <1>1 DEF ApplyAgentAction, AgentIInv, AgentShape, Minds
<1>3. /\ \A v \in Agents : mind'[v].at = "idle" => mind'[v] = NoMind
      /\ \A v \in Agents : mind'[v] = IF v = w THEN place ELSE mind[v]
  BY <1>2, IdleMinds DEF AgentIInv, AgentRest
<1>4. agentRun'.step = agentRun.step /\ agentRun'.status = agentRun.status /\ agentRun'.job = agentRun.job
  BY DEF ApplyAgentAction, AgentIInv, AgentShape, RunRow
<1>5. Len(agentJobs') = Len(agentJobs) /\ ground'.troubles = ground.troubles
  BY DEF ApplyAgentAction, AgentIInv, AgentShape, Grounds
<1>6. StepsCounted(agentRun', mind') BY <1>2, <1>3, <1>4, SameSteps DEF AgentIInv, AgentRest
<1> QED BY <1>3, <1>4, <1>5, <1>6 DEF AgentRest

LEMMA RestReport == ASSUME AgentIInv, AgentRest, NEW w \in Agents, ReportAgentAction(w) PROVE AgentRest'
<1>1. Released(w, agentJobs) \in Seq(JobRow) /\ Len(Released(w, agentJobs)) = Len(agentJobs)
      /\ Len(agentJobs) \in Nat
  BY JobReleased DEF ReportAgentAction, AgentIInv, AgentShape, MindHasJob
<1>2. Len(agentJobs') <= MaxAgentJobs
  <2>1. agentJobs' = Append(Released(w, agentJobs), NewAgentJob("run", 0)) /\ Len(agentJobs) < MaxAgentJobs
    BY DEF ReportAgentAction
  <2> QED BY ONLY <1>1, <2>1, AgentAssumption
<1>3. agentRun'.step = agentRun.step /\ agentRun'.status = "pending"
  BY DEF ReportAgentAction, AgentIInv, AgentShape, RunRow
<1> QED BY <1>2, <1>3, RestStays DEF ReportAgentAction, NoMind

LEMMA RestStarts == ASSUME AgentInit PROVE AgentRest
<1>1. Stepping(mind) = {} BY DEF AgentInit, Stepping, NoMind
<1>2. StepsCounted(agentRun, mind)
  BY <1>1, FS_EmptySet, SteppingIs, AgentAssumption DEF AgentInit, StepsCounted
<1> QED BY <1>2, AgentAssumption DEF AgentInit, AgentRest, NoMind

LEMMA RestStep == ASSUME AgentIInv, AgentRest, AgentNext \/ UNCHANGED agentVars PROVE AgentRest'
<1>1. CASE UNCHANGED agentVars BY <1>1 DEF agentVars, AgentRest, StepsCounted, Stepping
<1>2. CASE AgentNext
  BY <1>2, RestAround, RestCreate, RestCancel, RestDecide, RestLose, RestClaim, RestFail, RestBegin, RestCommit,
     RestBeginAction, RestApply, RestReport, RestTurn DEF AgentNext
<1> QED BY <1>1, <1>2

LEMMA AgentsTyped == ASSUME AgentIInv, AgentRest PROVE AgentTypeOK
<1>1. ground \in [revision : Nat, allowed : BOOLEAN, version : Nat, troubles : 0 .. AgentTroubles]
  BY AgentAssumption DEF AgentIInv, AgentShape, AgentRest, Grounds
<1>2. agentJobs \in Seq(JobRow) /\ Len(agentJobs) <= MaxAgentJobs /\ Len(agentJobs) \in Nat
      /\ DOMAIN agentJobs = 1 .. Len(agentJobs)
  BY DEF AgentIInv, AgentShape, AgentRest
<1>3. agentRun.job \in 0 .. MaxAgentJobs
  BY <1>2, AgentAssumption DEF AgentIInv, RunHasJob, AgentRest
<1>4. agentRun.step \in 0 .. MaxAgentSteps + Cardinality(Agents) - 1
  <2>1. agentRun.step \in Nat /\ StepsCounted(agentRun, mind)
    BY DEF AgentIInv, AgentShape, RunRow, AgentRest
  <2> QED BY <2>1, SteppingIs, AgentAssumption DEF StepsCounted
<1>5. agentRun \in [status : Active \cup {"none", "succeeded", "failed", "cancelled"}, revision : Nat,
                    job : 0 .. MaxAgentJobs, step : 0 .. MaxAgentSteps + Cardinality(Agents) - 1, source : Nat]
  BY <1>3, <1>4 DEF AgentIInv, AgentShape, RunRow
<1>6. ASSUME NEW w \in Agents
      PROVE  mind[w] \in [at : {"idle", "begin", "turn", "commit", "act", "report"},
                          job : 0 .. MaxAgentJobs, choice : {"answer", "read", "propose"}, seen : Nat]
  <2>1. mind[w] \in Minds BY DEF AgentIInv, AgentShape
  <2>2. mind[w].job \in 0 .. MaxAgentJobs
    BY <1>2, AgentAssumption DEF AgentIInv, MindHasJob, AgentRest, NoMind
  <2> QED BY <2>1, <2>2 DEF Minds
<1>7. deeds \in Seq([action : Nat, onto : Nat, status : Active])
  BY DEF AgentIInv, AgentShape, DeedRow
<1>8. mind \in [Agents -> [at : {"idle", "begin", "turn", "commit", "act", "report"},
                           job : 0 .. MaxAgentJobs, choice : {"answer", "read", "propose"}, seen : Nat]]
  BY <1>6 DEF AgentIInv, AgentShape
<1> QED BY <1>1, <1>2, <1>5, <1>7, <1>8 DEF AgentIInv, AgentShape, AgentTypeOK, ActionRow

\* What a sign-in has come to.
SignInRow  == [at : {"none", "asked", "waits", "checked", "in", "out", "refused"}, saw : Mappings,
               user : People \cup {"none"}]
SignInsFit == signIns \in [SignIns -> SignInRow]

LEMMA SignInMoves ==
  ASSUME SignInsFit, NEW i \in SignIns, NEW u \in People \cup {"none"},
         NEW to \in {"none", "asked", "waits", "checked", "in", "out", "refused"}, Signs(i, to, u)
  PROVE  SignInsFit'
  BY DEF SignInsFit, SignInRow, Signs

LEMMA SignedOutFits == ASSUME SignInsFit, NEW u PROVE SignedOut(u) \in [SignIns -> SignInRow]
<1>1. ASSUME NEW i \in SignIns PROVE [signIns[i] EXCEPT !.at = "out"] \in SignInRow
  BY DEF SignInsFit, SignInRow
<1> QED BY <1>1 DEF SignInsFit, SignedOut

LEMMA SignInsStep == ASSUME AccountsIInv, SignInsFit, IdNext PROVE SignInsFit'
<1>1. CASE CommitIdentity
  <2>1. ASSUME idTx.by \in SignIns, signIns' = [signIns EXCEPT ![idTx.by].at = "checked"] PROVE SignInsFit'
    BY <2>1 DEF SignInsFit, SignInRow
  <2> QED BY <1>1, <2>1, SignedOutFits DEF CommitIdentity, SignInsFit
<1>2. ASSUME NEW i \in SignIns, StartSignIn(i) PROVE SignInsFit'
  BY <1>2 DEF StartSignIn, SignInsFit, SignInRow, AccountsIInv, AccountShape
<1>3. ASSUME NEW i \in SignIns, CreateSession(i) PROVE SignInsFit'
  BY <1>3, SignInMoves DEF CreateSession, SignInsFit, SignInRow
<1>4. ASSUME NEW i \in SignIns, ChangePassword(i) PROVE SignInsFit'
  <2>1. signIns' = [SignedOut(signIns[i].user) EXCEPT ![i].at = "checked"]
    BY <1>4 DEF ChangePassword
  <2> QED BY <2>1, SignedOutFits DEF SignInsFit, SignInRow
<1>5. ASSUME NEW i \in SignIns, NEW s \in Subjects, NEW group \in BOOLEAN, Proved(i, s, group)
      PROVE  SignInsFit'
  <2>1. AccountOf(s) \in People \cup {"none"}
    BY DEF AccountOf, People, AccountsIInv, AccountShape, LinkRows, LinkRow, Subjects
  <2> QED BY <1>5, <2>1, SignInMoves DEF Proved
<1>6. ASSUME NEW i \in SignIns, NEW u \in People, PasswordSignIn(i, u) PROVE SignInsFit'
  BY <1>6, SignInMoves DEF PasswordSignIn
<1>7. CASE \/ ReadMember \/ ChangeProvider \/ CommitHand \/ CreateUser
           \/ \E to \in {"created", "active", "inactive", "deleted"} : ScimUser(to)
           \/ \E holds \in BOOLEAN : ScimGroup(holds)
           \/ \E s \in Subjects, u \in People : Link(s, u)
           \/ \E s \in Subjects : Unlink(s)
           \/ \E g \in {"sso", "scim"}, to \in Levels \cup {"none"} : ChangeMapping(g, to)
           \/ \E to \in Levels \cup {"none"} : OpenHand(to)
           \/ \E u \in People, is \in {"user", "admin"}, disabled \in BOOLEAN : OpenAdmin(u, is, disabled)
  <2>1. UNCHANGED signIns
    BY <1>7 DEF ReadMember, ChangeProvider, CommitHand, CreateUser, ScimUser, ScimGroup, Link, Unlink,
       ChangeMapping, OpenHand, OpenAdmin
  <2> QED BY <2>1 DEF SignInsFit
<1>8. ASSUME NEW u \in People, CommitAdmin(u) PROVE SignInsFit'
  BY <1>8, SignedOutFits DEF CommitAdmin, SignInsFit
<1> QED BY <1>1, <1>2, <1>3, <1>4, <1>5, <1>6, <1>7, <1>8 DEF IdNext

LEMMA AccountsTyped == ASSUME AccountsIInv, SignInsFit PROVE IdTypeOK
<1>1. \A u \in People : accounts[u] \in AccountRow BY DEF AccountsIInv, AccountShape
<1>2. \A s \in Subjects : idLinks[s].user \in {"none", "ann", "ben"}
  BY DEF AccountsIInv, AccountShape, LinkRows, LinkRow, Subjects
<1>3. /\ member.role \in Levels \cup {"none"} /\ member.managed \in Levels \cup {"none"}
      /\ member.managed # "none" => member.role # "none"
  BY DEF AccountsIInv, AccountShape, MemberRow, RoleOrNone, MemberTrue
<1>4. \A i \in SignIns : signIns[i].at \in {"none", "asked", "waits", "checked", "in", "out", "refused"}
  BY DEF SignInsFit, SignInRow
<1> QED BY <1>1, <1>2, <1>3, <1>4 DEF IdTypeOK, AccountRow

\* What a request with a key has come to.
KeyCallsFit == keyCalls \in [KeyCalls -> [at : {"none", "read", "let", "refused"}, count : Nat]]

LEMMA KeyCallsStep == ASSUME KeyIInv, KeyCallsFit, KeyNext PROVE KeyCallsFit'
<1>1. ASSUME NEW c \in KeyCalls, CountCall(c) PROVE KeyCallsFit' BY <1>1 DEF CountCall, KeyCallsFit
<1>2. ASSUME NEW c \in KeyCalls, NEW secret \in 1 .. keyRow.secret, PresentKey(c, secret) PROVE KeyCallsFit'
  BY <1>2, KeyNumbers DEF PresentKey, KeyCallsFit
<1>3. CASE UNCHANGED keyCalls BY <1>3 DEF KeyCallsFit
<1>4. ASSUME NEW e \in KeyEditors,
             \/ WriteKey(e)
             \/ \E edit \in {"update", "rotate", "revoke"}, limit \in Limits, term \in Terms :
                  ReadKey(e, edit, limit, term)
      PROVE  UNCHANGED keyCalls
  BY <1>4 DEF WriteKey, ReadKey
<1>5. NextMinute \/ ExpireKey \/ DisableOwner => UNCHANGED keyCalls
  BY DEF NextMinute, ExpireKey, DisableOwner
<1> QED BY <1>1, <1>2, <1>3, <1>4, <1>5 DEF KeyNext

LEMMA KeysTyped == ASSUME KeyIInv, KeyCallsFit PROVE KeyTypeOK
<1>1. \A e \in KeyEditors : keyEdits[e].at \in {"none", "read", "done", "refused"}
  BY DEF KeyIInv, KeyEdits
<1> QED BY <1>1, KeyNumbers DEF KeyCallsFit, KeyTypeOK

LEMMA RunbookTyped == RunIInv => RunbookTypeOK
  BY DEF RunIInv, RunShape, RunbookTypeOK, SourcesRow, ExecutionRow, StepRow, RemoteRow, NotedRow

LEMMA DistTyped == ASSUME DistIInv PROVE DistTypeOK
<1>1. /\ distRun.status \in ExportStates /\ (distRun.blob # 0 <=> distRun.status = "ready")
      /\ distReceiver.status \in {"uploading", "committed"}
  BY DistIs DEF DistIInv, RunFits, ExportRow, ReceiverRow
<1>2. ASSUME NEW d \in Dists
      PROVE  /\ distRows[d].status \in DistStates
             /\ distRows[d].review.status \in {"none", "pending", "approved", "rejected"}
             /\ distRows[d].job.attempts <= 1
  <2>1. distRows[d] \in DistRow /\ DistRowFits(distRows[d], distWorld.version)
    BY DEF DistIInv, DistShape, AllRows
  <2> QED BY <2>1 DEF DistRow, Reviews, DistRowFits
<1>3. Cardinality({d \in Dists : distRows[d].status \in {"queued", "awaiting_review"}}) <= MaxWaiting
  BY DEF DistIInv, WaitingFits, Undecided
<1>4. distReceiver.bound.version <= distWorld.version
  <2>1. CASE distReceiver.bound = NoManifest BY <2>1, DistIs DEF NoManifest, WorldRow
  <2>2. CASE distReceiver.bound # NoManifest
    <3>1. PICK d \in Dists : distRows[d].confirmed = distReceiver.bound.version
      BY <2>2 DEF DistIInv, ReceiverFits, SignedHere
    <3> QED BY <3>1 DEF DistIInv, AllRows, DistRowFits
  <2> QED BY <2>1, <2>2
<1>5. \A w \in DistWorkers :
        distWorkers[w].at \in {"idle", "start", "build", "finish", "manifest", "review", "sign"}
  BY DEF DistIInv, DistShape, DistPlace
<1> QED BY <1>1, <1>2, <1>3, <1>4, <1>5 DEF DistTypeOK, ExportStates, DistStates

----------------
(* The scenes together.                                                       *)

OpsTypes ==
  /\ scene = "approval" => ApprovalInv
  /\ scene = "runbook" => RunIInv
  /\ scene = "agent" => AgentIInv /\ AgentRest
  /\ scene = "distribution" => DistIInv
  /\ scene = "accounts" => AccountsIInv /\ SignInsFit
  /\ scene = "keys" => KeyIInv /\ KeyCallsFit

LEMMA OpsStart == ASSUME OperationsInit PROVE OpsTypes
<1>1. IdInit => SignInsFit
  <2>1. ASSUME IdInit PROVE [at |-> "none", saw |-> idSettings, user |-> "none"] \in SignInRow
    BY <2>1, AccountsStart DEF SignInRow, AccountsIInv, AccountShape
  <2> QED BY <2>1 DEF IdInit, SignInsFit
<1>2. KeyInit => KeyCallsFit BY DEF KeyInit, KeyCallsFit
<1> QED BY <1>1, <1>2, InitInv, RunStarts, AgentStarts, RestStarts, DistStarts, AccountsStart, KeysStart
        DEF OperationsInit, OpsTypes

LEMMA OpsStep == ASSUME OpsTypes, [OperationsNext]_operationsVars PROVE OpsTypes'
<1>1. scene' = scene BY DEF OperationsNext, operationsVars
<1>2. ASSUME scene = "approval" PROVE ApprovalInv'
  <2>1. [Next]_vars /\ ApprovalInv BY <1>2 DEF OperationsNext, operationsVars, OpsTypes
  <2> QED BY <2>1, NextInv
<1>3. ASSUME scene = "runbook" PROVE RunIInv'
  <2>1. (RunbookNext \/ UNCHANGED runbookVars) /\ RunIInv
    BY <1>3 DEF OperationsNext, operationsVars, OpsTypes
  <2> QED BY <2>1, RunStep, RunStutter
<1>4. ASSUME scene = "agent" PROVE (AgentIInv /\ AgentRest)'
  <2>1. (AgentNext \/ UNCHANGED agentVars) /\ AgentIInv /\ AgentRest
    BY <1>4 DEF OperationsNext, operationsVars, OpsTypes
  <2> QED BY <2>1, AgentStep, AgentStutter, RestStep
<1>5. ASSUME scene = "distribution" PROVE DistIInv'
  <2>1. (DistNext \/ UNCHANGED distVars) /\ DistIInv
    BY <1>5 DEF OperationsNext, operationsVars, OpsTypes
  <2> QED BY <2>1, DistStep, DistStutter
<1>6. ASSUME scene = "accounts" PROVE (AccountsIInv /\ SignInsFit)'
  <2>1. (IdNext \/ UNCHANGED idVars) /\ AccountsIInv /\ SignInsFit
    BY <1>6 DEF OperationsNext, operationsVars, OpsTypes
  <2>2. UNCHANGED idVars => AccountsIInv' /\ SignInsFit'
    BY <2>1, RowsStay DEF idVars, rowVars, SignInsFit
  <2> QED BY <2>1, <2>2, AccountsStep, SignInsStep
<1>7. ASSUME scene = "keys" PROVE (KeyIInv /\ KeyCallsFit)'
  <2>1. (KeyNext \/ UNCHANGED keyVars) /\ KeyIInv /\ KeyCallsFit
    BY <1>7 DEF OperationsNext, operationsVars, OpsTypes
  <2>2. UNCHANGED keyVars => KeyIInv' /\ KeyCallsFit'
    BY <2>1, KeyStays DEF keyVars, KeyIInv, KeyCallsFit
  <2> QED BY <2>1, <2>2, KeysStep, KeyCallsStep
<1> QED BY <1>1, <1>2, <1>3, <1>4, <1>5, <1>6, <1>7 DEF OpsTypes

\* The rows of every scene keep the shape that their tables and handlers give
\* them; among them, no run of an agent has more steps than its limit and a last
\* one for each further goroutine, and no more distributions wait than may.
THEOREM OperationsTypes == OperationsSpec => []OperationsTypeOK
<1>1. OperationsInit => OpsTypes BY OpsStart
<1>2. OpsTypes /\ [OperationsNext]_operationsVars => OpsTypes' BY OpsStep
<1>3. OpsTypes => OperationsTypeOK
  BY RunbookTyped, AgentsTyped, DistTyped, AccountsTyped, KeysTyped DEF OpsTypes, OperationsTypeOK, ApprovalInv
<1> QED BY <1>1, <1>2, <1>3, PTL DEF OperationsSpec
=============================================================================
