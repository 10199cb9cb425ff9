------------------------------ MODULE MCWorkspace -----------------------------
(* What goes on in a workspace: the rules that act in it, the public shares of  *)
(* its documents, the rights of readers and the changes that are proposed. A    *)
(* behaviour is of one of these, its scene; the rows of the others are not      *)
(* used, so that the states of the scenes add up instead of multiplying.        *)
EXTENDS AutomationRun, PublicShare, DocumentAccess, KnowledgeProposals, TLC

VARIABLE scene

\* Workers, clients and members are alike.
Alike == Permutations(Workers)

workspaceVars == <<scene, automationVars, pubVars, accVars, propVars>>

\* The variables of a part that is not on the scene; the queue of the rules is
\* then empty.
Off == <<>>
NoShares ==
  /\ pubDoc = Off /\ pubPolicy = Off /\ pubShare = Off /\ pubGrants = Off
  /\ pubTabs = Off /\ pubVisitors = Off /\ pubBounds = Off
NoAccess ==
  /\ accDoc = Off /\ accShares = Off /\ accRoles = Off /\ accRequests = Off
  /\ accTicket = Off /\ accBounds = Off
NoProposals ==
  /\ propDocs = Off /\ propMasking = Off /\ propReport = Off /\ proposals = Off
  /\ propTxs = Off /\ propBounds = Off

WorkspaceInit ==
  /\ scene \in {"rules", "sharing", "access", "proposals"}
  /\ AutomationInit
  /\ IF scene = "sharing" THEN PubInit ELSE NoShares
  /\ IF scene = "access" THEN AccInit ELSE NoAccess
  /\ IF scene = "proposals" THEN PropInit ELSE NoProposals

WorkspaceNext ==
  /\ UNCHANGED scene
  /\ \/ scene = "rules" /\ AutomationNext
        /\ UNCHANGED <<pubVars, accVars, propVars>>
     \/ scene = "sharing" /\ PubNext
        /\ UNCHANGED <<automationVars, accVars, propVars>>
     \/ scene = "access" /\ AccNext
        /\ UNCHANGED <<automationVars, pubVars, propVars>>
     \/ scene = "proposals" /\ PropNext
        /\ UNCHANGED <<automationVars, pubVars, accVars>>
     \/ scene # "rules" /\ UNCHANGED workspaceVars

WorkspaceSpec == WorkspaceInit /\ [][WorkspaceNext]_workspaceVars

\* Every row keeps its shape, and what each module says of its part holds: nobody
\* is shown what was closed, nobody is given more than was meant, and a proposal
\* becomes what was compared.
WorkspaceHold ==
  [][/\ scene = "sharing" => PubTypeOK' /\ SharesAreKept
     /\ scene = "access" => AccTypeOK' /\ AccessIsAsMeant
     /\ scene = "proposals" => PropTypeOK' /\ ProposalsAreExact]_workspaceVars
===============================================================================
