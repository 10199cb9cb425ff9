---------------------------- MODULE MCOperations ----------------------------
(* Parts of the server that change their own rows only, each behind its own   *)
(* locks: a behaviour is of one of them, its scene, and the others have no    *)
(* rows.  The states of the scenes add up instead of multiplying; each        *)
(* property is checked in its own scene.                                      *)
EXTENDS Approval, RunbookExecution, WorkspaceAgent, KnowledgeDistribution,
        Identity, AccessKeys, TLC

CONSTANTS author, anna, team, role, here

VARIABLE scene

AnyOf(gates) == [all |-> FALSE, gates |-> gates]
AllOf(gates) == [all |-> TRUE, gates |-> gates]
OneOrTwo     == {<<AllOf({role})>>, <<AllOf({team, role}), AnyOf({team, role})>>}
Plans        == <<"awx", "kubernetes">>
Workers   == Permutations(Runners)

operationsVars == <<scene, vars, runbookVars, agentVars, distVars, idVars, keyVars>>

\* The variables of a part that is not on the scene.
Off == <<>>
NoApproval ==
  /\ doc = Off /\ policies = Off /\ settings = Off /\ may = Off
  /\ requests = Off /\ patch = Off /\ sealed = Off
NoRunbook ==
  /\ sources = Off /\ execution = Off /\ step = Off /\ confirm = Off
  /\ at = Off /\ remote = Off /\ noted = Off
NoAgents ==
  /\ ground = Off /\ agentRun = Off /\ agentJobs = Off /\ actions = Off
  /\ mind = Off /\ deeds = Off /\ agreed = Off
NoDistribution ==
  /\ distWorld = Off /\ distRun = Off /\ distRows = Off
  /\ distReceiver = Off /\ distWorkers = Off /\ distTroubled = Off
NoAccounts ==
  /\ accounts = Off /\ idSettings = Off /\ idLinks = Off /\ member = Off /\ signIns = Off
  /\ idTx = Off /\ handTx = Off /\ adminTx = Off /\ idChanged = Off
NoKeys == keyRow = Off /\ keyCalls = Off /\ keyEdits = Off /\ keyWindow = Off

OperationsInit ==
  /\ scene \in {"approval", "runbook", "agent", "distribution", "accounts", "keys"}
  /\ IF scene = "approval" THEN Init ELSE NoApproval
  /\ IF scene = "runbook" THEN RunbookInit ELSE NoRunbook
  /\ IF scene = "agent" THEN AgentInit ELSE NoAgents
  /\ IF scene = "distribution" THEN DistInit ELSE NoDistribution
  /\ IF scene = "accounts" THEN IdInit ELSE NoAccounts
  /\ IF scene = "keys" THEN KeyInit ELSE NoKeys

OperationsNext ==
  /\ UNCHANGED scene
  /\ \/ scene = "approval" /\ Next
        /\ UNCHANGED <<runbookVars, agentVars, distVars, idVars, keyVars>>
     \/ scene = "runbook" /\ RunbookNext
        /\ UNCHANGED <<vars, agentVars, distVars, idVars, keyVars>>
     \/ scene = "agent" /\ AgentNext
        /\ UNCHANGED <<vars, runbookVars, distVars, idVars, keyVars>>
     \/ scene = "distribution" /\ DistNext
        /\ UNCHANGED <<vars, runbookVars, agentVars, idVars, keyVars>>
     \/ scene = "accounts" /\ IdNext
        /\ UNCHANGED <<vars, runbookVars, agentVars, distVars, keyVars>>
     \/ scene = "keys" /\ KeyNext
        /\ UNCHANGED <<vars, runbookVars, agentVars, distVars, idVars>>

OperationsSpec == OperationsInit /\ [][OperationsNext]_operationsVars

\* Every row has the shape its table and its handlers give it.
OperationsTypeOK ==
  /\ scene = "approval" => TypeOK
  /\ scene = "runbook" => RunbookTypeOK
  /\ scene = "agent" => AgentTypeOK
  /\ scene = "distribution" => DistTypeOK
  /\ scene = "accounts" => IdTypeOK
  /\ scene = "keys" => KeyTypeOK

\* What each module says of its part; where there are no requests for approval,
\* DecisionsFollowPolicy and ApprovedAsFrozen say nothing.
RunbooksHold      == scene = "runbook" => RunAsApproved
AgentsHold        == scene = "agent" => AgentIsTrue
DistributionHolds == [][scene = "distribution" => DistributionIsApproved]_distVars

\* Memberships follow the groups or the hand that set them, somebody can
\* administer the service, and a key lets through no more than it may.
AccountsHold == [][/\ scene = "accounts" => AccountsFollow
                   /\ scene = "keys" => KeysHold]_operationsVars
=============================================================================
