---------------------------- MODULE AutomationRun ----------------------------
(* Executions of one automation rule (internal/server/automation_execute.go)  *)
(* as jobs of the durable queue: executeAutomation is the handler that runs   *)
(* between the start and the return of a worker, and recordAutomationEffect   *)
(* commits every action together with its receipt, under the worker's lease.  *)
(* The queue is JobQueue, step for step; the handler adds its own steps.      *)
EXTENDS JobQueue, FiniteSets

CONSTANT Actions      \* how many actions the rule has

ASSUME ActionsAssumption == Actions \in Nat \ {0}

VARIABLES
  rule,      \* whether the rule is still the enabled revision the jobs name
  handler,   \* where each worker's executeAutomation is
  receipts,  \* automation_effects of each job
  applied    \* what the actions of each job did to the world, in order

ownVars        == <<rule, handler, receipts, applied>>
automationVars == <<vars, ownVars>>

\* "act": the action after pos is about to be tried. "begun": in a transaction.
\* "broken": the outcome of its commit never reached the handler.
Place  == {"start", "check", "look", "act", "begun", "broken"}
Handler == [place : Place, pos : 0 .. Actions]
AtStart == [place |-> "start", pos |-> 0]

\* One committed action, and whether the rule had changed by then.
Deed == [action : 1 .. Actions, late : BOOLEAN]

AutomationTypeOK ==
  /\ TypeOK
  /\ rule \in {"current", "changed"}
  /\ handler \in [Workers -> Handler]
  /\ receipts \in [Jobs -> SUBSET (1 .. Actions)]
  /\ applied \in [Jobs -> Seq(Deed)]

AutomationInit ==
  /\ Init
  /\ rule = "current"
  /\ handler = [w \in Workers |-> AtStart]
  /\ receipts = [j \in Jobs |-> {}]
  /\ applied = [j \in Jobs |-> <<>>]

----------------
(* The rule. *)

\* A rule that is saved, disabled, handed to another owner or deleted is never
\* again the revision the existing jobs were dispatched for.
ChangeRule ==
  /\ rule = "current"
  /\ rule' = "changed"
  /\ UNCHANGED <<vars, handler, receipts, applied>>

----------------
(* executeAutomation. *)

Executing(w) == run[w].phase \in {"running", "stopping"}
Goes(w, h)   == handler' = [handler EXCEPT ![w] = h]

\* The first statement compares the rule with what the job was dispatched for.
ReadRule(w) ==
  /\ run[w].phase = "running" /\ handler[w].place = "start"
  /\ rule = "current"
  /\ Goes(w, [place |-> "check", pos |-> 0])
  /\ UNCHANGED <<vars, rule, receipts, applied>>

\* Mutant: the rule is only compared before the first action.
CheckNothing(w) ==
  /\ run[w].phase = "running" /\ handler[w].place = "check"
  /\ handler[w].pos < Actions
  /\ Goes(w, [handler[w] EXCEPT !.place = "look"])
  /\ UNCHANGED <<vars, rule, receipts, applied>>

\* The context and the rule are checked again before every action ...
CheckRule(w) ==
  /\ run[w].phase = "running" /\ handler[w].place = "check"
  /\ handler[w].pos < Actions
  /\ rule = "current"
  /\ Goes(w, [handler[w] EXCEPT !.place = "look"])
  /\ UNCHANGED <<vars, rule, receipts, applied>>

\* ... and an action with a receipt from an earlier attempt is skipped.
LookForReceipt(w) ==
  /\ Executing(w) /\ handler[w].place = "look"
  /\ LET next == handler[w].pos + 1 IN
     Goes(w, IF next \in receipts[run[w].job]
             THEN [place |-> "check", pos |-> next]
             ELSE [handler[w] EXCEPT !.place = "act"])
  /\ UNCHANGED <<vars, rule, receipts, applied>>

\* The clock of a transaction is that of its BEGIN: a lease that runs out in
\* the middle of it still passes, unless another worker has taken the job over.
BeginEffect(w) ==
  /\ Executing(w) /\ handler[w].place = "act"
  /\ ~job[run[w].job].expired
  /\ Goes(w, [handler[w] EXCEPT !.place = "begun"])
  /\ UNCHANGED <<vars, rule, receipts, applied>>

\* Mutant: a lease that is current is enough, though its job was cancelled.
MayCommitCancelled(w) == Current(w)

\* recordAutomationEffect locks the row and refuses without the lease.
MayCommit(w) == Current(w) /\ ~job[run[w].job].cancel

\* Mutant: the receipt is written after the action's own transaction, if at all.
ReceiptLater(j, n) == receipts' \in {receipts, [receipts EXCEPT ![j] = @ \cup {n}]}

Receipt(j, n) == receipts' = [receipts EXCEPT ![j] = @ \cup {n}]

\* The action, its receipt and the check are one transaction, which the primary
\* key (job_id, action_index) aborts if the receipt exists. Once the COMMIT is
\* sent, the answer may still be lost with the context of the handler.
Act(w) ==
  LET j == run[w].job  n == handler[w].pos + 1 IN
  /\ Executing(w) /\ handler[w].place = "begun"
  /\ MayCommit(w) /\ n \notin receipts[j]
  /\ applied' = [applied EXCEPT ![j] = Append(@, [action |-> n, late |-> rule = "changed"])]
  /\ Receipt(j, n)
  /\ \/ Goes(w, [place |-> "check", pos |-> n])
     \/ Goes(w, [handler[w] EXCEPT !.place = "broken"])
  /\ UNCHANGED <<vars, rule>>

\* Mutant: the loop ends one action early.
AllButLast(w) == handler[w].place = "check" /\ handler[w].pos >= Actions - 1

\* The loop is through.
Complete(w) == handler[w].place = "check" /\ handler[w].pos = Actions

\* The handler returns: a result after the last action, an error (a refused
\* check, a lost lease, a lost answer, an ended context) at any place.
Returns(w) ==
  /\ HandlerReturns(w)
  /\ run'[w].verdict = "succeeded" => Complete(w)
  /\ Goes(w, AtStart)
  /\ UNCHANGED <<rule, receipts, applied>>

----------------
(* Composition: every step of the queue, with executeAutomation as handler.   *)

Outside(w) == \/ Poll(w) \/ (\E j \in Jobs : Claim(w, j)) \/ ClaimNothing(w)
              \/ Authorize(w) \/ Deadline(w) \/ MonitorStops(w) \/ PolicyStops(w)
              \/ Finish(w)

\* A lost process forgets where its handler was.
Forgets(w) == /\ Lose(w)
              /\ Goes(w, AtStart)
              /\ UNCHANGED <<rule, receipts, applied>>

AutomationNext ==
  \/ (Table \/ Request) /\ UNCHANGED ownVars
  \/ ChangeRule
  \/ \E w \in Workers :
       \/ Outside(w) /\ UNCHANGED ownVars
       \/ ReadRule(w) \/ CheckRule(w) \/ LookForReceipt(w) \/ BeginEffect(w)
       \/ Act(w) \/ Returns(w) \/ Forgets(w)

AutomationSpec == AutomationInit /\ [][AutomationNext]_automationVars

----------------
(* Properties. *)

\* Every action of a job happens once and in the order of the rule, whatever
\* attempts, takeovers, lost answers and retries it took ("a process crash
\* cannot duplicate a create", automation_execute.go).
AppliedOnceInOrder ==
  \A j \in Jobs : \A n \in DOMAIN applied[j] : applied[j][n].action = n

\* A job recorded as succeeded has done all of its actions, those of earlier
\* attempts included.
SuccessIsComplete == \A j \in Jobs :
  (\E n \in DOMAIN history[j] : history[j][n].status = "succeeded")
    => Len(applied[j]) = Actions

\* Exactly once: no action twice, none skipped, all of them by a success.
DoneOnceInFull == AppliedOnceInOrder /\ SuccessIsComplete

\* After the rule was edited, disabled or deleted at most one action of a job
\* that was already checked still happens, over all of its attempts.
AtMostOneLateAction == \A j \in Jobs :
  Cardinality({n \in DOMAIN applied[j] : applied[j][n].late}) <= 1

\* No action of a job happens once its cancellation was requested or its lease
\* was taken over, even by a worker that has not noticed (recordAutomationEffect).
NothingAfterCancel == [][\A j \in Jobs :
  applied'[j] # applied[j]
    => job[j].status = "running" /\ ~job[j].cancel]_automationVars

\* Who edits a rule or cancels a job is obeyed.
StopsInTime == [][AtMostOneLateAction']_automationVars /\ NothingAfterCancel

----------------
(* Why they hold. *)

\* Receipts are exactly the deeds done, a prefix of the rule's actions.
ReceiptsMatch == \A j \in Jobs :
  /\ receipts[j] = 1 .. Len(applied[j])
  /\ \A n \in DOMAIN applied[j] : applied[j][n].action = n

\* A handler never stands beyond what its job has done; one whose lease is
\* current stands exactly there once it has looked for the receipt, and no late
\* action has happened since it last checked the rule.
NoLate(j) == \A n \in DOMAIN applied[j] : ~applied[j][n].late

HandlersFollow == \A w \in Workers :
  /\ ~Executing(w) => handler[w] = AtStart
  /\ Executing(w) => /\ run[w].job \in Jobs
                     /\ handler[w].pos <= Len(applied[run[w].job])
  /\ handler[w].place \in {"look", "act", "begun"} =>
       /\ handler[w].pos < Actions
       /\ Current(w) => NoLate(run[w].job)
  /\ handler[w].place \in {"act", "begun"} /\ Current(w)
       => handler[w].pos = Len(applied[run[w].job])

\* A verdict of success is only formed after the last action.
VerdictsEarned == \A w \in Workers :
  run[w].phase = "finishing" /\ run[w].verdict = "succeeded"
    => run[w].job \in Jobs /\ Len(applied[run[w].job]) = Actions

\* A late deed follows the change of the rule and is the last of its job.
LateIsLast == \A j \in Jobs : \A n \in DOMAIN applied[j] :
  applied[j][n].late => rule = "changed" /\ n = Len(applied[j])

\* The inductive invariant, beside the queue's own.
AutomationInv ==
  /\ IInv /\ AutomationTypeOK
  /\ ReceiptsMatch /\ HandlersFollow /\ VerdictsEarned /\ LateIsLast
  /\ SuccessIsComplete
==============================================================================
